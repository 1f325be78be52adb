---------------------------- MODULE Wakes_proofs ----------------------------
(***************************************************************************)
(* Proofs about Wakes, for every value of its constants.                   *)
(***************************************************************************)
EXTENDS Wakes, TLAPS, WellFoundedInduction

-----------------------------------------------------------------------------
(* The invariant *)

\* Seqs are handed out in order, and only a run that goes on waits.
SeqsFit ==
  /\ wait <= last /\ life <= last
  /\ \A p \in Processes : local[p].hold <= last
  /\ wait # 0 => status \in {"running", "paused"}

\* The busy lock names the driver that is past taking it.
LockFits == \A d \in Drivers : pc[d] \in {"locked", "leaving", "parting"} \cup Driving => lock = d

\* A driver on its way out has left the status it ended with, and its claim;
\* one that drives a run that was ended has something to read.
OutFits ==
  \A d \in Drivers :
    /\ pc[d] \in {"leaving", "parting"} => status # "running"
    /\ pc[d] \in {"parting", "released", "exiting"} => driverPid # d
    /\ pc[d] \in Driving /\ Terminal => control # {}

\* Who acts on a wait does so when it is over.
DueFits ==
  /\ \A p \in Watchers : local[p].hold = wait /\ wait # 0 /\ pc[p] \in {"waking", "looking", "sweeping"} => Due
  /\ \A d \in Drivers : local[d].hold = wait /\ wait # 0 /\ pc[d] \in Preparing => Due

\* A resume of the wait in force planned against the lifecycle of the wait.
PlanFits ==
  \A d \in Drivers :
    local[d].hold = wait /\ wait # 0 /\ pc[d] \in {"planned", "locked"} => local[d].plan = life

\* The child a watcher of the wait in force started is still on its way.
ChildFits ==
  \A p \in Watchers :
    local[p].hold = wait /\ wait # 0 /\ lost.wait # wait /\ pc[p] = "watching" =>
      /\ local[p].child \in Drivers
      /\ pc[local[p].child] \in Preparing /\ local[local[p].child].hold = wait

Inv ==
  /\ TypeOK /\ SeqsFit /\ LockFits /\ OutFits /\ ReleasedIsUndriven
  /\ NewsHasAReader /\ DueFits /\ PlanFits /\ ChildFits /\ WaitIsWatched

-----------------------------------------------------------------------------
(* Steps that several actions take *)

\* Where the processes are.
LEMMA Kinds ==
  /\ Drivers \subseteq Processes /\ Watchers \subseteq Processes
  /\ Wakers \subseteq Watchers /\ Passes \subseteq Watchers
  /\ Drivers \cap Watchers = {} /\ Wakers \cap Passes = {}
  /\ OtherRun \notin Processes /\ Nobody \notin Processes /\ OtherRun # Nobody
BY ProcessAssumption DEF Processes, Watchers

Places == DriverPlaces \cup WakerPlaces \cup PassPlaces

Memory == [hold : Nat, plan : Nat, now : BOOLEAN, child : Drivers \cup {Nobody}, paused : BOOLEAN]

\* A waker that is spawned leaves everybody else as they are to be.
LEMMA SpawnFacts ==
  ASSUME TypeOK, NEW s \in Nat, NEW then \in [Processes -> Places], SpawnWaker(s, then)
  PROVE  /\ pc' \in [Processes -> Places] /\ local' \in [Processes -> Memory]
         /\ \A q \in Processes \ Wakers : pc'[q] = then[q]
         /\ \A q \in Wakers : pc'[q] \in {"off", "starting", then[q]}
         /\ \A q \in Processes : pc'[q] \notin {"off", "starting"} => local'[q] = local[q]
         /\ \A q \in Processes : local'[q].hold \in {0, s, local[q].hold}
         /\ Leased(s) => pc' = then
         /\ Leased(s) \/ \E w \in Wakers : local'[w].hold = s /\ pc'[w] = "starting"
<1>1. Fresh \in Memory /\ [Fresh EXCEPT !.hold = s] \in Memory /\ Fresh.hold = 0
      /\ [Fresh EXCEPT !.hold = s].hold = s
  BY DEF Fresh, Memory
<1>2. local \in [Processes -> Memory]
  BY DEF TypeOK, Memory
<1>3. "off" \in Places /\ "starting" \in Places
  BY DEF Places, WakerPlaces
<1>4. CASE Leased(s)
  <2>1. pc' = then /\ local' = [q \in Processes |-> IF then[q] = "off" THEN Fresh ELSE local[q]]
    BY <1>4 DEF SpawnWaker
  <2> QED BY <2>1, <1>1, <1>2, <1>4
<1>5. CASE ~Leased(s)
  <2>1. PICK w \in Wakers, late \in SUBSET Wakers :
          /\ pc' = [q \in Processes |-> IF q = w THEN "starting"
                                        ELSE IF q \in late THEN "off" ELSE then[q]]
          /\ local' = [q \in Processes |-> IF q = w THEN [Fresh EXCEPT !.hold = s]
                                           ELSE IF pc'[q] = "off" THEN Fresh ELSE local[q]]
    BY <1>5 DEF SpawnWaker
  <2>2. w \in Processes /\ late \subseteq Wakers
    BY Kinds
  <2>3. pc' \in [Processes -> Places] /\ local' \in [Processes -> Memory]
    BY <2>1, <1>1, <1>2, <1>3
  <2>4. /\ \A q \in Processes \ Wakers : pc'[q] = then[q]
        /\ \A q \in Wakers : pc'[q] \in {"off", "starting", then[q]}
    BY <2>1, <2>2, Kinds
  <2>5. \A q \in Processes : pc'[q] \notin {"off", "starting"} => local'[q] = local[q]
    BY <2>1, <2>2
  <2>6. \A q \in Processes : local'[q].hold \in {0, s, local[q].hold}
    BY <2>1, <2>2, <1>1
  <2> QED BY <2>1, <2>2, <2>3, <2>4, <2>5, <2>6, <1>1, <1>5
<1> QED BY <1>4, <1>5

\* The same after a step of one process p that is no waker.
LEMMA SpawnAfter ==
  ASSUME TypeOK, NEW s \in Nat, NEW p \in Processes \ Wakers, NEW at \in Places,
         SpawnWaker(s, [pc EXCEPT ![p] = at])
  PROVE  /\ pc' \in [Processes -> Places] /\ local' \in [Processes -> Memory]
         /\ \A q \in Processes \ Wakers : pc'[q] = IF q = p THEN at ELSE pc[q]
         /\ \A q \in Wakers : pc'[q] \in {"off", "starting", pc[q]}
         /\ \A q \in Processes : pc'[q] \notin {"off", "starting"} => local'[q] = local[q]
         /\ \A q \in Processes : local'[q].hold \in {0, s, local[q].hold}
         /\ Leased(s) => pc' = [pc EXCEPT ![p] = at]
         /\ Leased(s) \/ \E w \in Wakers : local'[w].hold = s /\ pc'[w] = "starting"
<1> DEFINE then == [pc EXCEPT ![p] = at]
<1>1. pc \in [Processes -> Places]
  BY DEF TypeOK, Places
<1>2. then \in [Processes -> Places] /\ \A q \in Processes : then[q] = IF q = p THEN at ELSE pc[q]
  BY <1>1
<1>3. SpawnWaker(s, then)
  OBVIOUS
<1>4. \A q \in Wakers : q \in Processes /\ then[q] = pc[q]
  BY <1>2, Kinds
<1> HIDE DEF then
<1>5. /\ pc' \in [Processes -> Places] /\ local' \in [Processes -> Memory]
      /\ \A q \in Processes \ Wakers : pc'[q] = then[q]
      /\ \A q \in Wakers : pc'[q] \in {"off", "starting", then[q]}
      /\ \A q \in Processes : pc'[q] \notin {"off", "starting"} => local'[q] = local[q]
      /\ \A q \in Processes : local'[q].hold \in {0, s, local[q].hold}
      /\ Leased(s) => pc' = then
      /\ Leased(s) \/ \E w \in Wakers : local'[w].hold = s /\ pc'[w] = "starting"
  BY <1>2, <1>3, SpawnFacts
<1>6. \A q \in Processes \ Wakers : pc'[q] = IF q = p THEN at ELSE pc[q]
  BY <1>2, <1>5
<1>7. \A q \in Wakers : pc'[q] \in {"off", "starting", pc[q]}
  BY <1>4, <1>5
<1> QED BY <1>5, <1>6, <1>7 DEF then

\* The same when nobody moves.
LEMMA SpawnNow ==
  ASSUME TypeOK, NEW s \in Nat, SpawnWaker(s, pc)
  PROVE  /\ pc' \in [Processes -> Places] /\ local' \in [Processes -> Memory]
         /\ \A q \in Processes \ Wakers : pc'[q] = pc[q]
         /\ \A q \in Wakers : pc'[q] \in {"off", "starting", pc[q]}
         /\ \A q \in Processes : pc'[q] \notin {"off", "starting"} => local'[q] = local[q]
         /\ \A q \in Processes : local'[q].hold \in {0, s, local[q].hold}
         /\ Leased(s) => pc' = pc
         /\ Leased(s) \/ \E w \in Wakers : local'[w].hold = s /\ pc'[w] = "starting"
<1>1. pc \in [Processes -> Places]
  BY DEF TypeOK, Places
<1> QED BY <1>1, SpawnFacts

\* A driver that is started is one nobody knew, and its starter watches it.
LEMMA LaunchFacts ==
  ASSUME TypeOK, NEW d \in Drivers, NEW hold \in Nat, NEW now \in BOOLEAN,
         NEW p \in Watchers \cup {Nobody}, Launch(d, hold, now, p)
  PROVE  /\ pc' \in [Processes -> Places] /\ local' \in [Processes -> Memory]
         /\ pc[d] = "off" /\ pc'[d] = "launched" /\ local'[d].hold = hold
         /\ \A q \in Processes \ {d, p} : pc'[q] = pc[q] /\ local'[q] = local[q]
         /\ p \in Watchers => \/ hold = 0 /\ pc'[p] = "off" /\ local'[p] = Fresh
                              \/ /\ hold # 0 /\ pc'[p] = "watching"
                                 /\ local'[p] = [local[p] EXCEPT !.child = d]
         /\ \A q \in Watchers : local[q].child # d
         /\ driverPid' = d
<1>1. Fresh \in Memory /\ [Fresh EXCEPT !.hold = hold, !.now = now] \in Memory
      /\ [Fresh EXCEPT !.hold = hold, !.now = now].hold = hold
  BY DEF Fresh, Memory
<1>2. local \in [Processes -> Memory] /\ pc \in [Processes -> Places]
  BY DEF TypeOK, Memory, Places
<1>3. {"off", "watching", "launched"} \subseteq Places
  BY DEF Places, WakerPlaces, DriverPlaces, Preparing
<1>4. \A m \in Memory : [m EXCEPT !.child = d] \in Memory
  BY DEF Memory
<1>5. pc' = [q \in Processes |-> IF q = d THEN "launched"
                                ELSE IF q # p THEN pc[q]
                                ELSE IF hold = 0 THEN "off" ELSE "watching"]
  BY DEF Launch
<1>6. local' = [q \in Processes |-> IF q = d THEN [Fresh EXCEPT !.hold = hold, !.now = now]
                                   ELSE IF q # p THEN local[q]
                                   ELSE IF hold = 0 THEN Fresh ELSE [local[q] EXCEPT !.child = d]]
  BY DEF Launch
<1>7. d \in Processes /\ (p \in Watchers => p \in Processes /\ p # d)
  BY Kinds
<1>8. pc' \in [Processes -> Places]
  BY <1>2, <1>3, <1>5
<1>9. local' \in [Processes -> Memory]
  BY <1>1, <1>2, <1>4, <1>6
<1>10. pc[d] = "off" /\ driverPid' = d /\ \A q \in Watchers : local[q].child # d
  BY DEF Launch
<1> QED BY <1>1, <1>5, <1>6, <1>7, <1>8, <1>9, <1>10

-----------------------------------------------------------------------------
(* Types *)

\* Min picks the least of a nonempty set of times.
LEMMA MinIsFirst ==
  ASSUME NEW S, S \subseteq Nat, S # {}
  PROVE  Min(S) \in S /\ \A y \in S : Min(S) <= y
<1> DEFINE Less == {ss \in Nat \X Nat : ss[1] < ss[2]}
<1>1. IsWellFoundedOn(Less, Nat)
  BY NatLessThanWellFounded DEF OpToRel
<1>2. \E x \in S : \A y \in S : <<y, x>> \notin Less
  <2> HIDE DEF Less
  <2> QED BY <1>1, WFMin
<1>3. PICK x \in S : \A y \in S : <<y, x>> \notin Less
  BY <1>2
<1>4. \A y \in S : x <= y
  <2> SUFFICES ASSUME NEW y \in S, ~(x <= y) PROVE FALSE
    OBVIOUS
  <2>1. x \in Nat /\ y \in Nat /\ y < x
    OBVIOUS
  <2> QED BY <2>1, <1>3
<1> QED BY <1>4 DEF Min

NodesTyped == node \in [Nodes -> [at : {"ready", "running", "waiting", "urged", "done"},
                                 left : Nat, tries : 0..MaxRetries]]
RunTyped ==
  /\ status \in Statuses /\ {wait, life, last} \subseteq Nat /\ left \in Nat \cup {Never}
  /\ control \subseteq {Stopping} \cup {Pausing(time) : time \in {PauseFor, Never}}
FilesTyped == driverPid \in Drivers \cup {Nobody} /\ lock \in Drivers \cup {OtherRun, Nobody}
PlacesTyped ==
  /\ pc \in [Processes -> Places]
  /\ \A d \in Drivers : pc[d] \in DriverPlaces
  /\ \A w \in Wakers : pc[w] \in WakerPlaces
  /\ \A p \in Passes : pc[p] \in PassPlaces
MemoryTyped == local \in [Processes -> Memory]
HistoryTyped ==
  /\ spent \in [asks : 0..MaxAsks, other : 0..MaxOther, quota : 0..MaxQuota, crashes : 0..MaxCrashes]
  /\ lost \in [wait : Nat, news : BOOLEAN]

LEMMA TypeParts ==
  TypeOK <=> NodesTyped /\ RunTyped /\ FilesTyped /\ PlacesTyped /\ MemoryTyped /\ HistoryTyped
BY DEF TypeOK, NodesTyped, RunTyped, FilesTyped, PlacesTyped, MemoryTyped, HistoryTyped, Places, Memory

LEMMA TypePartsNext ==
  NodesTyped' /\ RunTyped' /\ FilesTyped' /\ PlacesTyped' /\ MemoryTyped' /\ HistoryTyped'
    => TypeOK'
BY DEF TypeOK, NodesTyped, RunTyped, FilesTyped, PlacesTyped, MemoryTyped, HistoryTyped, Places, Memory

\* What a process that is turned away leaves behind.
LEMMA LossTyped ==
  ASSUME RunTyped, HistoryTyped, NEW p \in Processes, TurnsAway(p) \/ Bounces(p) \/ Loses(p)
  PROVE  lost' \in [wait : Nat, news : BOOLEAN]
<1>1. (lost.news \/ control # {} \/ Urged # {}) \in BOOLEAN
  OBVIOUS
<1>2. (IF local[p].hold = wait THEN wait ELSE lost.wait) \in Nat
  BY DEF RunTyped, HistoryTyped
<1>3. CASE TurnsAway(p)
  BY <1>1, <1>3 DEF TurnsAway, HistoryTyped
<1>4. CASE Bounces(p)
  BY <1>1, <1>2, <1>4 DEF Bounces, HistoryTyped
<1>5. CASE Loses(p)
  BY <1>2, <1>5 DEF Loses, HistoryTyped
<1> QED BY <1>3, <1>4, <1>5

\* A process that moves, or ends, remembers what it may.
LEMMA MovesTyped ==
  ASSUME MemoryTyped, NEW p \in Processes
  PROVE  (Ends(p) => MemoryTyped') /\ \A at : Goto(p, at) => MemoryTyped'
<1>1. Fresh \in Memory
  BY DEF Fresh, Memory
<1> QED BY <1>1 DEF MemoryTyped, Ends, Goto

\* Where a process is, as a function of all of them.
LEMMA PlaceTyped ==
  ASSUME PlacesTyped, NEW p \in Processes, NEW at \in Places
  PROVE  [pc EXCEPT ![p] = at] \in [Processes -> Places]
BY DEF PlacesTyped

\* A waker that is spawned after p moved leaves everybody where they may be.
LEMMA SpawnedPlaces ==
  ASSUME PlacesTyped, NEW p \in Processes \ Wakers, NEW at \in Places,
         p \in Drivers => at \in DriverPlaces, p \in Passes => at \in PassPlaces,
         pc' \in [Processes -> Places],
         \A q \in Processes \ Wakers : pc'[q] = IF q = p THEN at ELSE pc[q],
         \A q \in Wakers : pc'[q] \in {"off", "starting", pc[q]}
  PROVE  PlacesTyped'
<1>1. \A d \in Drivers : pc'[d] \in DriverPlaces
  BY Kinds DEF PlacesTyped
<1>2. \A q \in Passes : pc'[q] \in PassPlaces
  BY Kinds DEF PlacesTyped
<1>3. \A w \in Wakers : pc'[w] \in WakerPlaces
  BY DEF PlacesTyped, WakerPlaces
<1> QED BY <1>1, <1>2, <1>3 DEF PlacesTyped

\* The earliest of the deferrals that are held is a time.
LEMMA EarliestIsTyped == NodesTyped /\ Held # {} => Earliest \in Nat
<1> SUFFICES ASSUME NodesTyped, Held # {} PROVE Earliest \in Nat
  OBVIOUS
<1> DEFINE S == {node[n].left : n \in Held}
<1>1. S \subseteq Nat /\ S # {}
  BY DEF NodesTyped, Held
<1>2. Min(S) \in S
  BY <1>1, MinIsFirst
<1> QED BY <1>1, <1>2 DEF Earliest

\* Every step keeps the types.
LEMMA TypesAreKept ==
  ASSUME TypeOK, [Next]_vars
  PROVE  TypeOK'
<1> USE Kinds
<1>1. ASSUME NEW d \in Drivers, Plan(d) PROVE TypeOK'
  <2>1. NodesTyped'
    BY <1>1, TypeParts, DelayAssumption DEF Plan, Ends, Holds, TurnsAway, run, NodesTyped, Open, Held
  <2>2. RunTyped'
    BY <1>1, TypeParts, BoundAssumption DEF Plan, Ends, Holds, TurnsAway, run, RunTyped, Statuses, Never, Stopping, Pausing
  <2>3. FilesTyped'
    BY <1>1, TypeParts DEF Plan, Ends, Holds, TurnsAway, run, FilesTyped
  <2>4. PlacesTyped'
    BY <1>1, TypeParts DEF Plan, Ends, Holds, TurnsAway, run, PlacesTyped, Places, DriverPlaces, WakerPlaces, PassPlaces, Preparing, Driving, Departing
  <2>5. MemoryTyped'
    BY <1>1, TypeParts, MovesTyped DEF Plan, Ends, Holds, TurnsAway, run, RunTyped, MemoryTyped, Memory
  <2>6. HistoryTyped'
    BY <1>1, TypeParts, LossTyped DEF Plan, HistoryTyped
  <2> QED BY <2>1, <2>2, <2>3, <2>4, <2>5, <2>6, TypePartsNext
<1>2. ASSUME NEW d \in Drivers, TakeLock(d) PROVE TypeOK'
  <2>1. NodesTyped'
    BY <1>2, TypeParts, DelayAssumption DEF TakeLock, Goto, Ends, Bounces, Holds, Busy, Alive, run, NodesTyped, Open, Held
  <2>2. RunTyped'
    BY <1>2, TypeParts, BoundAssumption DEF TakeLock, Goto, Ends, Bounces, Holds, Busy, Alive, run, RunTyped, Statuses, Never, Stopping, Pausing
  <2>3. FilesTyped'
    BY <1>2, TypeParts DEF TakeLock, Goto, Ends, Bounces, Holds, Busy, Alive, run, FilesTyped
  <2>4. PlacesTyped'
    BY <1>2, TypeParts DEF TakeLock, Goto, Ends, Bounces, Holds, Busy, Alive, run, PlacesTyped, Places, DriverPlaces, WakerPlaces, PassPlaces, Preparing, Driving, Departing
  <2>5. MemoryTyped'
    BY <1>2, TypeParts, MovesTyped DEF TakeLock, Goto, Ends, Bounces, Holds, Busy, Alive, run, RunTyped, MemoryTyped, Memory
  <2>6. HistoryTyped'
    BY <1>2, TypeParts, LossTyped DEF TakeLock, HistoryTyped
  <2> QED BY <2>1, <2>2, <2>3, <2>4, <2>5, <2>6, TypePartsNext
<1>3. ASSUME NEW d \in Drivers, Admit(d) PROVE TypeOK'
  <2>1. NodesTyped'
    <3>1. \/ node' = node
         \/ \E which \in SUBSET Nodes : node' = [m \in Nodes |-> IF m \in which THEN [node[m] EXCEPT !.at = "urged", !.left = 0] ELSE node[m]]
      <4>1. CASE UNCHANGED <<node, run>>
        BY <4>1
      <4>2. CASE node' = [n \in Nodes |-> IF local[d].now /\ node[n].at = "waiting"
                                          THEN [node[n] EXCEPT !.at = "urged", !.left = 0] ELSE node[n]]
        <5> DEFINE which == {n \in Nodes : local[d].now /\ node[n].at = "waiting"}
        <5>1. which \in SUBSET Nodes
          OBVIOUS
        <5>2. node' = [m \in Nodes |-> IF m \in which THEN [node[m] EXCEPT !.at = "urged", !.left = 0] ELSE node[m]]
          BY <4>2
        <5> QED BY <5>1, <5>2
      <4> QED BY <1>3, <4>1, <4>2 DEF Admit
    <3>2. CASE node' = node
      BY <3>2, TypeParts DEF NodesTyped
    <3>3. ASSUME NEW which \in SUBSET Nodes, node' = [m \in Nodes |-> IF m \in which THEN [node[m] EXCEPT !.at = "urged", !.left = 0] ELSE node[m]]
          PROVE NodesTyped'
      BY <3>3, TypeParts DEF NodesTyped
    <3> QED BY <3>1, <3>2, <3>3
  <2>2. RunTyped'
    <3>1. control' = control /\ (UNCHANGED run \/ Enters("running", Never))
      BY <1>3 DEF Admit
    <3> QED BY <3>1, TypeParts DEF Enters, run, RunTyped, Statuses
  <2>3. FilesTyped'
    BY <1>3, TypeParts DEF Admit, Goto, Ends, Enters, TurnsAway, Holds, run, FilesTyped
  <2>4. PlacesTyped'
    BY <1>3, TypeParts DEF Admit, Goto, Ends, Enters, TurnsAway, Holds, run, PlacesTyped, Places, DriverPlaces, WakerPlaces, PassPlaces, Preparing, Driving, Departing
  <2>5. MemoryTyped'
    BY <1>3, TypeParts, MovesTyped DEF Admit, Goto, Ends, Enters, TurnsAway, Holds, run, RunTyped, MemoryTyped, Memory
  <2>6. HistoryTyped'
    BY <1>3, TypeParts, LossTyped DEF Admit, HistoryTyped
  <2> QED BY <2>1, <2>2, <2>3, <2>4, <2>5, <2>6, TypePartsNext
<1>4. ASSUME NEW d \in Drivers, Claim(d) PROVE TypeOK'
  <2>1. NodesTyped'
    BY <1>4, TypeParts, DelayAssumption DEF Claim, Goto, run, NodesTyped, Open, Held
  <2>2. RunTyped'
    BY <1>4, TypeParts, BoundAssumption DEF Claim, Goto, run, RunTyped, Statuses, Never, Stopping, Pausing
  <2>3. FilesTyped'
    BY <1>4, TypeParts DEF Claim, Goto, run, FilesTyped
  <2>4. PlacesTyped'
    BY <1>4, TypeParts DEF Claim, Goto, run, PlacesTyped, Places, DriverPlaces, WakerPlaces, PassPlaces, Preparing, Driving, Departing
  <2>5. MemoryTyped'
    BY <1>4, TypeParts DEF Claim, Goto, run, MemoryTyped, Memory, Fresh
  <2>6. HistoryTyped'
    BY <1>4, TypeParts, BoundAssumption DEF Claim, Goto, run, HistoryTyped, RunTyped
  <2> QED BY <2>1, <2>2, <2>3, <2>4, <2>5, <2>6, TypePartsNext
<1>5. ASSUME NEW d \in Drivers, Scan(d) PROVE TypeOK'
  <2>1. NodesTyped'
    BY <1>5, TypeParts, DelayAssumption DEF Scan, Goto, Enters, run, NodesTyped, Open, Held
  <2>2. RunTyped'
    BY <1>5, TypeParts, BoundAssumption DEF Scan, Goto, Enters, run, RunTyped, Statuses, Never, Stopping, Pausing
  <2>3. FilesTyped'
    BY <1>5, TypeParts DEF Scan, Goto, Enters, run, FilesTyped
  <2>4. PlacesTyped'
    BY <1>5, TypeParts DEF Scan, Goto, Enters, run, PlacesTyped, Places, DriverPlaces, WakerPlaces, PassPlaces, Preparing, Driving, Departing
  <2>5. MemoryTyped'
    <3>1. \A c \in control : (c.kind = "pause") \in BOOLEAN
      OBVIOUS
    <3>2. local' = local \/ \E b \in BOOLEAN : local' = [local EXCEPT ![d].paused = b]
      BY <1>5, <3>1 DEF Scan, Goto
    <3> QED BY <3>2, TypeParts DEF MemoryTyped, Memory
  <2>6. HistoryTyped'
    BY <1>5, TypeParts, BoundAssumption DEF Scan, Goto, Enters, run, HistoryTyped, RunTyped
  <2> QED BY <2>1, <2>2, <2>3, <2>4, <2>5, <2>6, TypePartsNext
<1>6. ASSUME NEW d \in Drivers, Rest(d) PROVE TypeOK'
  <2>1. NodesTyped'
    BY <1>6, TypeParts, DelayAssumption DEF Rest, Goto, run, NodesTyped, Open, Held
  <2>2. RunTyped'
    BY <1>6, TypeParts, BoundAssumption DEF Rest, Goto, run, RunTyped, Statuses, Never, Stopping, Pausing
  <2>3. FilesTyped'
    BY <1>6, TypeParts DEF Rest, Goto, run, FilesTyped
  <2>4. PlacesTyped'
    BY <1>6, TypeParts DEF Rest, Goto, run, PlacesTyped, Places, DriverPlaces, WakerPlaces, PassPlaces, Preparing, Driving, Departing
  <2>5. MemoryTyped'
    BY <1>6, TypeParts DEF Rest, Goto, run, MemoryTyped, Memory, Fresh
  <2>6. HistoryTyped'
    BY <1>6, TypeParts, BoundAssumption DEF Rest, Goto, run, HistoryTyped, RunTyped
  <2> QED BY <2>1, <2>2, <2>3, <2>4, <2>5, <2>6, TypePartsNext
<1>7. ASSUME NEW d \in Drivers, Release(d) PROVE TypeOK'
  <2>1. NodesTyped'
    BY <1>7, TypeParts, DelayAssumption DEF Release, Goto, run, NodesTyped, Open, Held
  <2>2. RunTyped'
    BY <1>7, TypeParts, BoundAssumption, EarliestIsTyped DEF Release, Goto, run, RunTyped, Statuses, Never, Stopping, Pausing
  <2>3. FilesTyped'
    BY <1>7, TypeParts DEF Release, Goto, run, FilesTyped
  <2>4. PlacesTyped'
    BY <1>7, TypeParts DEF Release, Goto, run, PlacesTyped, Places, DriverPlaces, WakerPlaces, PassPlaces, Preparing, Driving, Departing
  <2>5. MemoryTyped'
    BY <1>7, TypeParts DEF Release, Goto, run, MemoryTyped, Memory, Fresh
  <2>6. HistoryTyped'
    BY <1>7, TypeParts, BoundAssumption DEF Release, Goto, run, HistoryTyped, RunTyped
  <2> QED BY <2>1, <2>2, <2>3, <2>4, <2>5, <2>6, TypePartsNext
<1>8. ASSUME NEW d \in Drivers, Finish(d) PROVE TypeOK'
  <2>1. NodesTyped'
    BY <1>8, TypeParts, DelayAssumption DEF Finish, Goto, Enters, run, NodesTyped, Open, Held
  <2>2. RunTyped'
    BY <1>8, TypeParts, BoundAssumption DEF Finish, Goto, Enters, run, RunTyped, Statuses, Never, Stopping, Pausing
  <2>3. FilesTyped'
    BY <1>8, TypeParts DEF Finish, Goto, Enters, run, FilesTyped
  <2>4. PlacesTyped'
    BY <1>8, TypeParts DEF Finish, Goto, Enters, run, PlacesTyped, Places, DriverPlaces, WakerPlaces, PassPlaces, Preparing, Driving, Departing
  <2>5. MemoryTyped'
    BY <1>8, TypeParts DEF Finish, Goto, Enters, run, MemoryTyped, Memory, Fresh
  <2>6. HistoryTyped'
    BY <1>8, TypeParts, BoundAssumption DEF Finish, Goto, Enters, run, HistoryTyped, RunTyped
  <2> QED BY <2>1, <2>2, <2>3, <2>4, <2>5, <2>6, TypePartsNext
<1>9. ASSUME NEW d \in Drivers, Leave(d) PROVE TypeOK'
  <2>1. NodesTyped'
    BY <1>9, TypeParts, DelayAssumption DEF Leave, Goto, run, NodesTyped, Open, Held
  <2>2. RunTyped'
    BY <1>9, TypeParts, BoundAssumption DEF Leave, Goto, run, RunTyped, Statuses, Never, Stopping, Pausing
  <2>3. FilesTyped'
    BY <1>9, TypeParts DEF Leave, Goto, run, FilesTyped
  <2>4. PlacesTyped'
    BY <1>9, TypeParts DEF Leave, Goto, run, PlacesTyped, Places, DriverPlaces, WakerPlaces, PassPlaces, Preparing, Driving, Departing
  <2>5. MemoryTyped'
    BY <1>9, TypeParts DEF Leave, Goto, run, MemoryTyped, Memory, Fresh
  <2>6. HistoryTyped'
    BY <1>9, TypeParts, BoundAssumption DEF Leave, Goto, run, HistoryTyped, RunTyped
  <2> QED BY <2>1, <2>2, <2>3, <2>4, <2>5, <2>6, TypePartsNext
<1>10. ASSUME NEW d \in Drivers, Part(d) PROVE TypeOK'
  <2>1. NodesTyped'
    BY <1>10, TypeParts, DelayAssumption DEF Part, Goto, run, NodesTyped, Open, Held
  <2>2. RunTyped'
    BY <1>10, TypeParts, BoundAssumption DEF Part, Goto, run, RunTyped, Statuses, Never, Stopping, Pausing
  <2>3. FilesTyped'
    BY <1>10, TypeParts DEF Part, Goto, run, FilesTyped
  <2>4. PlacesTyped'
    <3>1. d \in Processes \ Wakers /\ "exiting" \in Places /\ wait \in Nat
      BY TypeParts DEF RunTyped, Places, DriverPlaces, Departing
    <3>2. "exiting" \in DriverPlaces /\ d \notin Passes
      BY DEF DriverPlaces, Departing
    <3>3. CASE SpawnWaker(wait, [pc EXCEPT ![d] = "exiting"])
      <4>1. /\ pc' \in [Processes -> Places]
            /\ \A q \in Processes \ Wakers : pc'[q] = IF q = d THEN "exiting" ELSE pc[q]
            /\ \A q \in Wakers : pc'[q] \in {"off", "starting", pc[q]}
        BY <3>1, <3>3, SpawnAfter
      <4> QED BY <3>1, <3>2, <4>1, TypeParts, SpawnedPlaces
    <3>4. CASE Goto(d, "exiting")
      BY <3>1, <3>2, <3>4, TypeParts DEF Goto, PlacesTyped
    <3> QED BY <1>10, <3>3, <3>4 DEF Part
  <2>5. MemoryTyped'
    <3>1. d \in Processes \ Wakers /\ "exiting" \in Places /\ wait \in Nat
      BY TypeParts DEF RunTyped, Places, DriverPlaces, Departing
    <3> QED BY <1>10, <3>1, TypeParts, SpawnAfter, MovesTyped DEF Part, MemoryTyped
  <2>6. HistoryTyped'
    BY <1>10, TypeParts, BoundAssumption DEF Part, Goto, run, HistoryTyped, RunTyped
  <2> QED BY <2>1, <2>2, <2>3, <2>4, <2>5, <2>6, TypePartsNext
<1>11. ASSUME NEW d \in Drivers, Exit(d) PROVE TypeOK'
  <2>1. NodesTyped'
    BY <1>11, TypeParts, DelayAssumption DEF Exit, Ends, run, NodesTyped, Open, Held
  <2>2. RunTyped'
    BY <1>11, TypeParts, BoundAssumption DEF Exit, Ends, run, RunTyped, Statuses, Never, Stopping, Pausing
  <2>3. FilesTyped'
    BY <1>11, TypeParts DEF Exit, Ends, run, FilesTyped
  <2>4. PlacesTyped'
    BY <1>11, TypeParts DEF Exit, Ends, run, PlacesTyped, Places, DriverPlaces, WakerPlaces, PassPlaces, Preparing, Driving, Departing
  <2>5. MemoryTyped'
    BY <1>11, TypeParts, MovesTyped DEF Exit, Ends, run, RunTyped, MemoryTyped, Memory
  <2>6. HistoryTyped'
    BY <1>11, TypeParts, BoundAssumption DEF Exit, Ends, run, HistoryTyped, RunTyped
  <2> QED BY <2>1, <2>2, <2>3, <2>4, <2>5, <2>6, TypePartsNext
<1>12. ASSUME NEW d \in Drivers, AfterRelease(d) PROVE TypeOK'
  <2>1. NodesTyped'
    BY <1>12, TypeParts, DelayAssumption DEF AfterRelease, Goto, run, NodesTyped, Open, Held
  <2>2. RunTyped'
    BY <1>12, TypeParts, BoundAssumption DEF AfterRelease, Goto, run, RunTyped, Statuses, Never, Stopping, Pausing
  <2>3. FilesTyped'
    BY <1>12, TypeParts DEF AfterRelease, Goto, run, FilesTyped
  <2>4. PlacesTyped'
    <3>1. d \in Processes \ Wakers /\ "exiting" \in Places /\ wait \in Nat
      BY TypeParts DEF RunTyped, Places, DriverPlaces, Departing
    <3>2. "exiting" \in DriverPlaces /\ d \notin Passes
      BY DEF DriverPlaces, Departing
    <3>3. CASE SpawnWaker(wait, [pc EXCEPT ![d] = "exiting"])
      <4>1. /\ pc' \in [Processes -> Places]
            /\ \A q \in Processes \ Wakers : pc'[q] = IF q = d THEN "exiting" ELSE pc[q]
            /\ \A q \in Wakers : pc'[q] \in {"off", "starting", pc[q]}
        BY <3>1, <3>3, SpawnAfter
      <4> QED BY <3>1, <3>2, <4>1, TypeParts, SpawnedPlaces
    <3>4. CASE Goto(d, "exiting")
      BY <3>1, <3>2, <3>4, TypeParts DEF Goto, PlacesTyped
    <3> QED BY <1>12, <3>3, <3>4 DEF AfterRelease
  <2>5. MemoryTyped'
    <3>1. d \in Processes \ Wakers /\ "exiting" \in Places /\ wait \in Nat
      BY TypeParts DEF RunTyped, Places, DriverPlaces, Departing
    <3> QED BY <1>12, <3>1, TypeParts, SpawnAfter, MovesTyped DEF AfterRelease, MemoryTyped
  <2>6. HistoryTyped'
    BY <1>12, TypeParts, BoundAssumption DEF AfterRelease, Goto, run, HistoryTyped, RunTyped
  <2> QED BY <2>1, <2>2, <2>3, <2>4, <2>5, <2>6, TypePartsNext
<1>13. ASSUME NEW d \in Drivers, NEW n \in Nodes, Attempt(d, n) PROVE TypeOK'
  <2>1. NodesTyped'
    BY <1>13, TypeParts, DelayAssumption DEF Attempt, NodeEvent, Goto, run, NodesTyped, Open, Held
  <2>2. RunTyped'
    BY <1>13, TypeParts, BoundAssumption DEF Attempt, NodeEvent, Goto, run, RunTyped, Statuses, Never, Stopping, Pausing
  <2>3. FilesTyped'
    BY <1>13, TypeParts DEF Attempt, NodeEvent, Goto, run, FilesTyped
  <2>4. PlacesTyped'
    BY <1>13, TypeParts DEF Attempt, NodeEvent, Goto, run, PlacesTyped, Places, DriverPlaces, WakerPlaces, PassPlaces, Preparing, Driving, Departing
  <2>5. MemoryTyped'
    BY <1>13, TypeParts DEF Attempt, NodeEvent, Goto, run, MemoryTyped, Memory, Fresh
  <2>6. HistoryTyped'
    BY <1>13, TypeParts, BoundAssumption DEF Attempt, NodeEvent, Goto, run, HistoryTyped, RunTyped
  <2> QED BY <2>1, <2>2, <2>3, <2>4, <2>5, <2>6, TypePartsNext
<1>14. ASSUME NEW d \in Drivers, NEW n \in Nodes, EndAttempt(d, n) PROVE TypeOK'
  <2>1. NodesTyped'
    <3>1. Delay[n] \in Nat /\ MaxRetries \in Nat /\ node[n].tries \in 0..MaxRetries
      BY TypeParts, DelayAssumption, BoundAssumption DEF NodesTyped
    <3>2. CASE node' = [node EXCEPT ![n].at = "done"]
      BY <3>2, TypeParts DEF NodesTyped
    <3>3. CASE /\ node[n].tries < MaxRetries
               /\ node' = [node EXCEPT ![n] = [at |-> "waiting", left |-> Delay[n], tries |-> @.tries + 1]]
      BY <3>1, <3>3, TypeParts DEF NodesTyped
    <3> QED BY <1>14, <3>2, <3>3 DEF EndAttempt
  <2>2. RunTyped'
    BY <1>14, TypeParts, BoundAssumption DEF EndAttempt, NodeEvent, Goto, run, RunTyped, Statuses, Never, Stopping, Pausing
  <2>3. FilesTyped'
    BY <1>14, TypeParts DEF EndAttempt, NodeEvent, Goto, run, FilesTyped
  <2>4. PlacesTyped'
    BY <1>14, TypeParts DEF EndAttempt, NodeEvent, Goto, run, PlacesTyped, Places, DriverPlaces, WakerPlaces, PassPlaces, Preparing, Driving, Departing
  <2>5. MemoryTyped'
    BY <1>14, TypeParts DEF EndAttempt, NodeEvent, Goto, run, MemoryTyped, Memory, Fresh
  <2>6. HistoryTyped'
    BY <1>14, TypeParts, BoundAssumption DEF EndAttempt, NodeEvent, Goto, run, HistoryTyped, RunTyped
  <2> QED BY <2>1, <2>2, <2>3, <2>4, <2>5, <2>6, TypePartsNext
<1>15. ASSUME NEW w \in Wakers, Start(w) PROVE TypeOK'
  <2>1. NodesTyped'
    BY <1>15, TypeParts, DelayAssumption DEF Start, Goto, Ends, run, NodesTyped, Open, Held
  <2>2. RunTyped'
    BY <1>15, TypeParts, BoundAssumption DEF Start, Goto, Ends, run, RunTyped, Statuses, Never, Stopping, Pausing
  <2>3. FilesTyped'
    BY <1>15, TypeParts DEF Start, Goto, Ends, run, FilesTyped
  <2>4. PlacesTyped'
    BY <1>15, TypeParts DEF Start, Goto, Ends, run, PlacesTyped, Places, DriverPlaces, WakerPlaces, PassPlaces, Preparing, Driving, Departing
  <2>5. MemoryTyped'
    BY <1>15, TypeParts, MovesTyped DEF Start, Goto, Ends, run, RunTyped, MemoryTyped, Memory
  <2>6. HistoryTyped'
    BY <1>15, TypeParts, BoundAssumption DEF Start, Goto, Ends, run, HistoryTyped, RunTyped
  <2> QED BY <2>1, <2>2, <2>3, <2>4, <2>5, <2>6, TypePartsNext
<1>16. ASSUME NEW w \in Wakers, Rouse(w) PROVE TypeOK'
  <2>1. NodesTyped'
    BY <1>16, TypeParts, DelayAssumption DEF Rouse, Goto, Ends, run, NodesTyped, Open, Held
  <2>2. RunTyped'
    BY <1>16, TypeParts, BoundAssumption DEF Rouse, Goto, Ends, run, RunTyped, Statuses, Never, Stopping, Pausing
  <2>3. FilesTyped'
    BY <1>16, TypeParts DEF Rouse, Goto, Ends, run, FilesTyped
  <2>4. PlacesTyped'
    BY <1>16, TypeParts DEF Rouse, Goto, Ends, run, PlacesTyped, Places, DriverPlaces, WakerPlaces, PassPlaces, Preparing, Driving, Departing
  <2>5. MemoryTyped'
    BY <1>16, TypeParts, MovesTyped DEF Rouse, Goto, Ends, run, RunTyped, MemoryTyped, Memory
  <2>6. HistoryTyped'
    BY <1>16, TypeParts, BoundAssumption DEF Rouse, Goto, Ends, run, HistoryTyped, RunTyped
  <2> QED BY <2>1, <2>2, <2>3, <2>4, <2>5, <2>6, TypePartsNext
<1>17. ASSUME NEW w \in Wakers, Repause(w) PROVE TypeOK'
  <2>1. NodesTyped'
    BY <1>17, TypeParts, DelayAssumption DEF Repause, Repauses, Enters, Spend, run, NodesTyped, Open, Held
  <2>2. RunTyped'
    BY <1>17, TypeParts, BoundAssumption DEF Repause, Repauses, Enters, Spend, run, RunTyped, Statuses, Never, Stopping, Pausing
  <2>3. FilesTyped'
    BY <1>17, TypeParts DEF Repause, Repauses, Enters, Spend, run, FilesTyped
  <2>4. PlacesTyped'
    BY <1>17, TypeParts DEF Repause, Repauses, Enters, Spend, run, PlacesTyped, Places, DriverPlaces, WakerPlaces, PassPlaces, Preparing, Driving, Departing
  <2>5. MemoryTyped'
    BY <1>17, TypeParts, MovesTyped DEF Repause, Repauses, Enters, Spend, run, RunTyped, MemoryTyped, Memory
  <2>6. HistoryTyped'
    BY <1>17, TypeParts, BoundAssumption DEF Repause, Repauses, Enters, Spend, run, HistoryTyped, RunTyped
  <2> QED BY <2>1, <2>2, <2>3, <2>4, <2>5, <2>6, TypePartsNext
<1>18. ASSUME NEW w \in Wakers, Wake(w) PROVE TypeOK'
  <2>1. NodesTyped'
    BY <1>18, TypeParts, DelayAssumption DEF Wake, Ends, Loses, Launch, run, NodesTyped, Open, Held
  <2>2. RunTyped'
    BY <1>18, TypeParts, BoundAssumption DEF Wake, Ends, Loses, Launch, run, RunTyped, Statuses, Never, Stopping, Pausing
  <2>3. FilesTyped'
    BY <1>18, TypeParts DEF Wake, Ends, Loses, Launch, run, FilesTyped
  <2>4. PlacesTyped'
    BY <1>18, TypeParts DEF Wake, Ends, Loses, Launch, run, PlacesTyped, Places, DriverPlaces, WakerPlaces, PassPlaces, Preparing, Driving, Departing
  <2>5. MemoryTyped'
    <3>1. wait \in Nat
      BY TypeParts DEF RunTyped, MemoryTyped, Memory
    <3>2. ASSUME NEW d \in Drivers, Launch(d, wait, FALSE, w) PROVE MemoryTyped'
      BY <3>1, <3>2, LaunchFacts DEF MemoryTyped
    <3>3. CASE Ends(w)
      BY <3>3, TypeParts, MovesTyped
    <3> QED BY <1>18, <3>2, <3>3 DEF Wake
  <2>6. HistoryTyped'
    BY <1>18, TypeParts, LossTyped DEF Wake, HistoryTyped
  <2> QED BY <2>1, <2>2, <2>3, <2>4, <2>5, <2>6, TypePartsNext
<1>19. ASSUME NEW p \in Watchers, Watch(p) PROVE TypeOK'
  <2>1. NodesTyped'
    BY <1>19, TypeParts, DelayAssumption DEF Watch, Ends, run, NodesTyped, Open, Held
  <2>2. RunTyped'
    BY <1>19, TypeParts, BoundAssumption DEF Watch, Ends, run, RunTyped, Statuses, Never, Stopping, Pausing
  <2>3. FilesTyped'
    BY <1>19, TypeParts DEF Watch, Ends, run, FilesTyped
  <2>4. PlacesTyped'
    BY <1>19, TypeParts DEF Watch, Ends, run, PlacesTyped, Places, DriverPlaces, WakerPlaces, PassPlaces, Preparing, Driving, Departing
  <2>5. MemoryTyped'
    BY <1>19, TypeParts, MovesTyped DEF Watch, Ends, run, RunTyped, MemoryTyped, Memory
  <2>6. HistoryTyped'
    BY <1>19, TypeParts, BoundAssumption DEF Watch, Ends, run, HistoryTyped, RunTyped
  <2> QED BY <2>1, <2>2, <2>3, <2>4, <2>5, <2>6, TypePartsNext
<1>20. ASSUME NEW p \in Passes, TakeLease(p) PROVE TypeOK'
  <2>1. NodesTyped'
    BY <1>20, TypeParts, DelayAssumption DEF TakeLease, Goto, Ends, run, NodesTyped, Open, Held
  <2>2. RunTyped'
    BY <1>20, TypeParts, BoundAssumption DEF TakeLease, Goto, Ends, run, RunTyped, Statuses, Never, Stopping, Pausing
  <2>3. FilesTyped'
    BY <1>20, TypeParts DEF TakeLease, Goto, Ends, run, FilesTyped
  <2>4. PlacesTyped'
    BY <1>20, TypeParts DEF TakeLease, Goto, Ends, run, PlacesTyped, Places, DriverPlaces, WakerPlaces, PassPlaces, Preparing, Driving, Departing
  <2>5. MemoryTyped'
    BY <1>20, TypeParts, MovesTyped DEF TakeLease, Goto, Ends, run, RunTyped, MemoryTyped, Memory
  <2>6. HistoryTyped'
    BY <1>20, TypeParts, BoundAssumption DEF TakeLease, Goto, Ends, run, HistoryTyped, RunTyped
  <2> QED BY <2>1, <2>2, <2>3, <2>4, <2>5, <2>6, TypePartsNext
<1>21. ASSUME NEW p \in Passes, Probe(p) PROVE TypeOK'
  <2>1. NodesTyped'
    BY <1>21, TypeParts, DelayAssumption DEF Probe, Repauses, Enters, Spend, run, NodesTyped, Open, Held
  <2>2. RunTyped'
    BY <1>21, TypeParts, BoundAssumption DEF Probe, Repauses, Enters, Spend, run, RunTyped, Statuses, Never, Stopping, Pausing
  <2>3. FilesTyped'
    BY <1>21, TypeParts DEF Probe, Repauses, Enters, Spend, run, FilesTyped
  <2>4. PlacesTyped'
    <3>1. p \in Processes \ Wakers /\ "off" \in Places /\ last + 1 \in Nat
      BY TypeParts DEF RunTyped, Places, PassPlaces
    <3>2. SpawnWaker(last + 1, [pc EXCEPT ![p] = "off"])
      BY <1>21 DEF Probe
    <3>3. "off" \in PassPlaces /\ p \notin Drivers
      BY DEF PassPlaces
    <3>4. /\ pc' \in [Processes -> Places]
          /\ \A q \in Processes \ Wakers : pc'[q] = IF q = p THEN "off" ELSE pc[q]
          /\ \A q \in Wakers : pc'[q] \in {"off", "starting", pc[q]}
      BY <3>1, <3>2, SpawnAfter
    <3> QED BY <3>1, <3>3, <3>4, TypeParts, SpawnedPlaces
  <2>5. MemoryTyped'
    <3>1. p \in Processes \ Wakers /\ "off" \in Places /\ last + 1 \in Nat
      BY TypeParts DEF RunTyped, Places, PassPlaces
    <3>2. SpawnWaker(last + 1, [pc EXCEPT ![p] = "off"])
      BY <1>21 DEF Probe
    <3> QED BY <3>1, <3>2, TypeParts, SpawnAfter DEF MemoryTyped
  <2>6. HistoryTyped'
    BY <1>21, TypeParts, BoundAssumption DEF Probe, Repauses, Enters, Spend, run, HistoryTyped, RunTyped
  <2> QED BY <2>1, <2>2, <2>3, <2>4, <2>5, <2>6, TypePartsNext
<1>22. ASSUME NEW p \in Passes, Sweep(p) PROVE TypeOK'
  <2>1. NodesTyped'
    BY <1>22, TypeParts, DelayAssumption DEF Sweep, Ends, Loses, Launch, run, NodesTyped, Open, Held
  <2>2. RunTyped'
    BY <1>22, TypeParts, BoundAssumption DEF Sweep, Ends, Loses, Launch, run, RunTyped, Statuses, Never, Stopping, Pausing
  <2>3. FilesTyped'
    BY <1>22, TypeParts DEF Sweep, Ends, Loses, Launch, run, FilesTyped
  <2>4. PlacesTyped'
    BY <1>22, TypeParts DEF Sweep, Ends, Loses, Launch, run, PlacesTyped, Places, DriverPlaces, WakerPlaces, PassPlaces, Preparing, Driving, Departing
  <2>5. MemoryTyped'
    <3>1. local[p].hold \in Nat
      BY TypeParts DEF RunTyped, MemoryTyped, Memory
    <3>2. ASSUME NEW d \in Drivers, Launch(d, local[p].hold, FALSE, p) PROVE MemoryTyped'
      BY <3>1, <3>2, LaunchFacts DEF MemoryTyped
    <3>3. CASE Ends(p)
      BY <3>3, TypeParts, MovesTyped
    <3> QED BY <1>22, <3>2, <3>3 DEF Sweep
  <2>6. HistoryTyped'
    BY <1>22, TypeParts, LossTyped DEF Sweep, HistoryTyped
  <2> QED BY <2>1, <2>2, <2>3, <2>4, <2>5, <2>6, TypePartsNext
<1>23. ASSUME NEW p \in Passes, Mark(p) PROVE TypeOK'
  <2>1. NodesTyped'
    BY <1>23, TypeParts, DelayAssumption DEF Mark, Ends, Loses, Enters, run, NodesTyped, Open, Held
  <2>2. RunTyped'
    BY <1>23, TypeParts, BoundAssumption DEF Mark, Ends, Loses, Enters, run, RunTyped, Statuses, Never, Stopping, Pausing
  <2>3. FilesTyped'
    BY <1>23, TypeParts DEF Mark, Ends, Loses, Enters, run, FilesTyped
  <2>4. PlacesTyped'
    BY <1>23, TypeParts DEF Mark, Ends, Loses, Enters, run, PlacesTyped, Places, DriverPlaces, WakerPlaces, PassPlaces, Preparing, Driving, Departing
  <2>5. MemoryTyped'
    BY <1>23, TypeParts, MovesTyped DEF Mark, Ends, Loses, Enters, run, RunTyped, MemoryTyped, Memory
  <2>6. HistoryTyped'
    BY <1>23, TypeParts, LossTyped DEF Mark, HistoryTyped
  <2> QED BY <2>1, <2>2, <2>3, <2>4, <2>5, <2>6, TypePartsNext
<1>24. ASSUME Stop PROVE TypeOK'
  <2>1. NodesTyped'
    BY <1>24, TypeParts, DelayAssumption DEF Stop, Spend, Enters, DriverAlive, Alive, run, NodesTyped, Open, Held
  <2>2. RunTyped'
    BY <1>24, TypeParts, BoundAssumption DEF Stop, Spend, Enters, DriverAlive, Alive, run, RunTyped, Statuses, Never, Stopping, Pausing
  <2>3. FilesTyped'
    BY <1>24, TypeParts DEF Stop, Spend, Enters, DriverAlive, Alive, run, FilesTyped
  <2>4. PlacesTyped'
    BY <1>24, TypeParts DEF Stop, Spend, Enters, DriverAlive, Alive, run, PlacesTyped, Places, DriverPlaces, WakerPlaces, PassPlaces, Preparing, Driving, Departing
  <2>5. MemoryTyped'
    BY <1>24, TypeParts DEF Stop, Spend, Enters, DriverAlive, Alive, run, MemoryTyped, Memory, Fresh
  <2>6. HistoryTyped'
    BY <1>24, TypeParts, BoundAssumption DEF Stop, Spend, Enters, DriverAlive, Alive, run, HistoryTyped, RunTyped
  <2> QED BY <2>1, <2>2, <2>3, <2>4, <2>5, <2>6, TypePartsNext
<1>25. ASSUME RetryNow PROVE TypeOK'
  <2>1. NodesTyped'
    <3>1. PICK which \in SUBSET Nodes : node' = [m \in Nodes |-> IF m \in which THEN [node[m] EXCEPT !.at = "urged", !.left = 0] ELSE node[m]]
      BY <1>25 DEF RetryNow
    <3> QED BY <3>1, TypeParts DEF NodesTyped
  <2>2. RunTyped'
    BY <1>25, TypeParts, BoundAssumption DEF RetryNow, Spend, DriverAlive, Alive, run, RunTyped, Statuses, Never, Stopping, Pausing
  <2>3. FilesTyped'
    BY <1>25, TypeParts DEF RetryNow, Spend, DriverAlive, Alive, run, FilesTyped
  <2>4. PlacesTyped'
    BY <1>25, TypeParts DEF RetryNow, Spend, DriverAlive, Alive, run, PlacesTyped, Places, DriverPlaces, WakerPlaces, PassPlaces, Preparing, Driving, Departing
  <2>5. MemoryTyped'
    BY <1>25, TypeParts DEF RetryNow, Spend, DriverAlive, Alive, run, MemoryTyped, Memory, Fresh
  <2>6. HistoryTyped'
    <3>1. spent.asks < MaxAsks /\ Spend("asks") /\ lost' = lost
      BY <1>25 DEF RetryNow
    <3> QED BY <3>1, TypeParts, BoundAssumption DEF Spend, HistoryTyped
  <2> QED BY <2>1, <2>2, <2>3, <2>4, <2>5, <2>6, TypePartsNext
<1>26. ASSUME NEW time \in {PauseFor, Never}, Pause(time) PROVE TypeOK'
  <2>1. NodesTyped'
    BY <1>26, TypeParts, DelayAssumption DEF Pause, Spend, Enters, DriverAlive, Alive, run, NodesTyped, Open, Held
  <2>2. RunTyped'
    BY <1>26, TypeParts, BoundAssumption DEF Pause, Spend, Enters, DriverAlive, Alive, run, RunTyped, Statuses, Never, Stopping, Pausing
  <2>3. FilesTyped'
    BY <1>26, TypeParts DEF Pause, Spend, Enters, DriverAlive, Alive, run, FilesTyped
  <2>4. PlacesTyped'
    <3>1. pc \in [Processes -> Places] /\ last + 1 \in Nat
      BY TypeParts DEF RunTyped, PlacesTyped, Places, PassPlaces
    <3>2. SpawnWaker(last + 1, pc) \/ UNCHANGED <<pc, local>>
      BY <1>26 DEF Pause
    <3> QED BY <3>1, <3>2, TypeParts, SpawnNow DEF PlacesTyped, WakerPlaces
  <2>5. MemoryTyped'
    <3>1. pc \in [Processes -> Places] /\ last + 1 \in Nat
      BY TypeParts DEF RunTyped, PlacesTyped, Places, PassPlaces
    <3>2. SpawnWaker(last + 1, pc) \/ UNCHANGED <<pc, local>>
      BY <1>26 DEF Pause
    <3> QED BY <3>1, <3>2, TypeParts, SpawnNow DEF MemoryTyped
  <2>6. HistoryTyped'
    BY <1>26, TypeParts, BoundAssumption DEF Pause, Spend, Enters, DriverAlive, Alive, run, HistoryTyped, RunTyped
  <2> QED BY <2>1, <2>2, <2>3, <2>4, <2>5, <2>6, TypePartsNext
<1>27. ASSUME NEW d \in Drivers, NEW now \in BOOLEAN, Resume(d, now) PROVE TypeOK'
  <2>1. NodesTyped'
    BY <1>27, TypeParts, DelayAssumption DEF Resume, Spend, Launch, run, NodesTyped, Open, Held
  <2>2. RunTyped'
    BY <1>27, TypeParts, BoundAssumption DEF Resume, Spend, Launch, run, RunTyped, Statuses, Never, Stopping, Pausing
  <2>3. FilesTyped'
    BY <1>27, TypeParts DEF Resume, Spend, Launch, run, FilesTyped
  <2>4. PlacesTyped'
    BY <1>27, TypeParts DEF Resume, Spend, Launch, run, PlacesTyped, Places, DriverPlaces, WakerPlaces, PassPlaces, Preparing, Driving, Departing
  <2>5. MemoryTyped'
    BY <1>27, TypeParts DEF Resume, Spend, Launch, run, MemoryTyped, Memory, Fresh
  <2>6. HistoryTyped'
    BY <1>27, TypeParts, BoundAssumption DEF Resume, Spend, run, HistoryTyped, RunTyped
  <2> QED BY <2>1, <2>2, <2>3, <2>4, <2>5, <2>6, TypePartsNext
<1>28. ASSUME NEW p \in Passes, Look(p) PROVE TypeOK'
  <2>1. NodesTyped'
    BY <1>28, TypeParts, DelayAssumption DEF Look, Spend, run, NodesTyped, Open, Held
  <2>2. RunTyped'
    BY <1>28, TypeParts, BoundAssumption DEF Look, Spend, run, RunTyped, Statuses, Never, Stopping, Pausing
  <2>3. FilesTyped'
    BY <1>28, TypeParts DEF Look, Spend, run, FilesTyped
  <2>4. PlacesTyped'
    <3>1. pc \in [Processes -> Places] /\ wait \in Nat
      BY TypeParts DEF RunTyped, PlacesTyped, Places, PassPlaces
    <3>2. SpawnWaker(wait, pc) \/ \E at \in {"looking", "sweeping"} : pc' = [pc EXCEPT ![p] = at]
      BY <1>28 DEF Look
    <3> QED BY <3>1, <3>2, TypeParts, SpawnNow DEF PlacesTyped, Places, WakerPlaces, PassPlaces
  <2>5. MemoryTyped'
    <3>1. pc \in [Processes -> Places] /\ wait \in Nat
      BY TypeParts DEF RunTyped, PlacesTyped, Places, PassPlaces
    <3>2. CASE SpawnWaker(wait, pc)
      BY <3>1, <3>2, TypeParts, SpawnNow DEF MemoryTyped
    <3>3. CASE local' = [local EXCEPT ![p] = [Fresh EXCEPT !.hold = wait, !.paused = status = "paused"]]
      BY <3>1, <3>3, TypeParts DEF MemoryTyped, Memory, Fresh
    <3> QED BY <1>28, <3>2, <3>3 DEF Look
  <2>6. HistoryTyped'
    BY <1>28, TypeParts, BoundAssumption DEF Look, Spend, run, HistoryTyped, RunTyped
  <2> QED BY <2>1, <2>2, <2>3, <2>4, <2>5, <2>6, TypePartsNext
<1>29. ASSUME OtherTakes PROVE TypeOK'
  <2>1. NodesTyped'
    BY <1>29, TypeParts, DelayAssumption DEF OtherTakes, Spend, Busy, Alive, run, NodesTyped, Open, Held
  <2>2. RunTyped'
    BY <1>29, TypeParts, BoundAssumption DEF OtherTakes, Spend, Busy, Alive, run, RunTyped, Statuses, Never, Stopping, Pausing
  <2>3. FilesTyped'
    BY <1>29, TypeParts DEF OtherTakes, Spend, Busy, Alive, run, FilesTyped
  <2>4. PlacesTyped'
    BY <1>29, TypeParts DEF OtherTakes, Spend, Busy, Alive, run, PlacesTyped, Places, DriverPlaces, WakerPlaces, PassPlaces, Preparing, Driving, Departing
  <2>5. MemoryTyped'
    BY <1>29, TypeParts DEF OtherTakes, Spend, Busy, Alive, run, MemoryTyped, Memory, Fresh
  <2>6. HistoryTyped'
    BY <1>29, TypeParts, BoundAssumption DEF OtherTakes, Spend, Busy, Alive, run, HistoryTyped, RunTyped
  <2> QED BY <2>1, <2>2, <2>3, <2>4, <2>5, <2>6, TypePartsNext
<1>30. ASSUME OtherLeaves PROVE TypeOK'
  <2>1. NodesTyped'
    BY <1>30, TypeParts, DelayAssumption DEF OtherLeaves, run, NodesTyped, Open, Held
  <2>2. RunTyped'
    BY <1>30, TypeParts, BoundAssumption DEF OtherLeaves, run, RunTyped, Statuses, Never, Stopping, Pausing
  <2>3. FilesTyped'
    BY <1>30, TypeParts DEF OtherLeaves, run, FilesTyped
  <2>4. PlacesTyped'
    BY <1>30, TypeParts DEF OtherLeaves, run, PlacesTyped, Places, DriverPlaces, WakerPlaces, PassPlaces, Preparing, Driving, Departing
  <2>5. MemoryTyped'
    BY <1>30, TypeParts DEF OtherLeaves, run, MemoryTyped, Memory, Fresh
  <2>6. HistoryTyped'
    BY <1>30, TypeParts, BoundAssumption DEF OtherLeaves, run, HistoryTyped, RunTyped
  <2> QED BY <2>1, <2>2, <2>3, <2>4, <2>5, <2>6, TypePartsNext
<1>31. ASSUME Tick PROVE TypeOK'
  <2>1. NodesTyped'
    BY <1>31, TypeParts, DelayAssumption DEF Tick, run, NodesTyped, Open, Held
  <2>2. RunTyped'
    BY <1>31, TypeParts, BoundAssumption DEF Tick, run, RunTyped, Statuses, Never, Stopping, Pausing
  <2>3. FilesTyped'
    BY <1>31, TypeParts DEF Tick, run, FilesTyped
  <2>4. PlacesTyped'
    BY <1>31, TypeParts DEF Tick, run, PlacesTyped, Places, DriverPlaces, WakerPlaces, PassPlaces, Preparing, Driving, Departing
  <2>5. MemoryTyped'
    BY <1>31, TypeParts DEF Tick, run, MemoryTyped, Memory, Fresh
  <2>6. HistoryTyped'
    BY <1>31, TypeParts, BoundAssumption DEF Tick, run, HistoryTyped, RunTyped
  <2> QED BY <2>1, <2>2, <2>3, <2>4, <2>5, <2>6, TypePartsNext
<1>32. ASSUME NEW p \in Processes, Crash(p) PROVE TypeOK'
  <2>1. NodesTyped'
    BY <1>32, TypeParts, DelayAssumption DEF Crash, Spend, Ends, run, NodesTyped, Open, Held
  <2>2. RunTyped'
    BY <1>32, TypeParts, BoundAssumption DEF Crash, Spend, Ends, run, RunTyped, Statuses, Never, Stopping, Pausing
  <2>3. FilesTyped'
    BY <1>32, TypeParts DEF Crash, Spend, Ends, run, FilesTyped
  <2>4. PlacesTyped'
    BY <1>32, TypeParts DEF Crash, Spend, Ends, run, PlacesTyped, Places, DriverPlaces, WakerPlaces, PassPlaces, Preparing, Driving, Departing
  <2>5. MemoryTyped'
    BY <1>32, TypeParts, MovesTyped DEF Crash, Spend, Ends, run, RunTyped, MemoryTyped, Memory
  <2>6. HistoryTyped'
    BY <1>32, TypeParts, BoundAssumption DEF Crash, Spend, Ends, run, HistoryTyped, RunTyped
  <2> QED BY <2>1, <2>2, <2>3, <2>4, <2>5, <2>6, TypePartsNext
<1>33. ASSUME UNCHANGED vars PROVE TypeOK'
  BY <1>33 DEF vars, run, TypeOK
<1> QED
  BY <1>1, <1>2, <1>3, <1>4, <1>5, <1>6, <1>7, <1>8, <1>9, <1>10, <1>11, <1>12, <1>13,
     <1>14, <1>15, <1>16, <1>17, <1>18, <1>19, <1>20, <1>21, <1>22, <1>23, <1>24, <1>25,
     <1>26, <1>27, <1>28, <1>29, <1>30, <1>31, <1>32, <1>33 DEF Next, Driver, Agent,
     Waker, Pass, Person, Watchers

-----------------------------------------------------------------------------
(* What the steps do to the processes, for the parts of the invariant *)

\* What the types say of processes, as the steps below need it.
Shape ==
  /\ pc \in [Processes -> Places] /\ local \in [Processes -> Memory]
  /\ \A p \in Processes : local[p].hold \in Nat
  /\ wait \in Nat /\ last \in Nat /\ life \in Nat

LEMMA InvShape == Inv => Shape
<1> SUFFICES ASSUME Inv PROVE Shape
  OBVIOUS
<1>1. RunTyped /\ PlacesTyped /\ MemoryTyped
  BY TypeParts DEF Inv
<1> QED BY <1>1 DEF Shape, RunTyped, PlacesTyped, MemoryTyped, Memory

\* A waker is spawned for s, and p goes on, or nobody does.
Spawned(s, p, at) ==
  /\ \A q \in Processes \ Wakers : pc'[q] = IF q = p THEN at ELSE pc[q]
  /\ \A q \in Wakers : pc'[q] \in {"off", "starting", pc[q]}
  /\ \A q \in Processes : pc'[q] \notin {"off", "starting"} => local'[q] = local[q]
  /\ \A q \in Processes : local'[q].hold \in {0, s, local[q].hold}
  /\ \E w \in Watchers : local'[w].hold = s /\ pc'[w] \notin {"off", "looking"}

\* Each action that spawns one, or does not.
LEMMA DepartureSpawns ==
  ASSUME Inv, NEW d \in Drivers, Part(d) \/ AfterRelease(d)
  PROVE  \/ Spawned(wait, d, "exiting")
         \/ /\ Goto(d, "exiting")
            /\ wait = 0 \/ left = Never \/ (pc[d] = "parting" /\ ~local[d].paused)
<1>1. d \in Processes \ Wakers /\ "exiting" \in Places /\ wait \in Nat
  BY Kinds, InvShape DEF Shape, Places, DriverPlaces, Departing
<1>2. CASE SpawnWaker(wait, [pc EXCEPT ![d] = "exiting"])
  <2>1. /\ \A q \in Processes \ Wakers : pc'[q] = IF q = d THEN "exiting" ELSE pc[q]
        /\ \A q \in Wakers : pc'[q] \in {"off", "starting", pc[q]}
        /\ \A q \in Processes : pc'[q] \notin {"off", "starting"} => local'[q] = local[q]
        /\ \A q \in Processes : local'[q].hold \in {0, wait, local[q].hold}
        /\ Leased(wait) => pc' = [pc EXCEPT ![d] = "exiting"]
        /\ Leased(wait) \/ \E w \in Wakers : local'[w].hold = wait /\ pc'[w] = "starting"
    BY <1>1, <1>2, SpawnAfter DEF Inv
  <2>2. \E w \in Watchers : local'[w].hold = wait /\ pc'[w] \notin {"off", "looking"}
    <3>1. CASE Leased(wait)
      <4>1. PICK w \in Watchers : local[w].hold = wait /\ pc[w] \in {"asleep", "waking", "sweeping", "watching"}
        BY <3>1 DEF Leased
      <4>2. w \in Processes /\ w # d
        BY Kinds
      <4>3. pc'[w] = pc[w]
        BY <2>1, <3>1, <4>2, InvShape DEF Shape
      <4> QED BY <2>1, <4>1, <4>2, <4>3
    <3> QED BY <2>1, <3>1, Kinds
  <2> QED BY <2>1, <2>2 DEF Spawned
<1>3. wait # 0 => status \in {"running", "paused"}
  BY DEF Inv, SeqsFit
<1>4. CASE Part(d)
  <2>1. pc[d] = "parting" /\ status # "running"
    BY <1>4 DEF Part, Inv, OutFits
  <2> QED BY <1>2, <1>3, <1>4, <2>1 DEF Part
<1>5. CASE AfterRelease(d)
  BY <1>2, <1>3, <1>5 DEF AfterRelease
<1> QED BY <1>4, <1>5

LEMMA ProbeSpawns ==
  ASSUME Inv, NEW p \in Passes, Probe(p)
  PROVE  Spawned(last + 1, p, "off")
<1>1. p \in Processes \ Wakers /\ "off" \in Places /\ last + 1 \in Nat
  BY Kinds, InvShape DEF Shape, Places, PassPlaces
<1>2. SpawnWaker(last + 1, [pc EXCEPT ![p] = "off"])
  BY DEF Probe
<1>3. /\ \A q \in Processes \ Wakers : pc'[q] = IF q = p THEN "off" ELSE pc[q]
      /\ \A q \in Wakers : pc'[q] \in {"off", "starting", pc[q]}
      /\ \A q \in Processes : pc'[q] \notin {"off", "starting"} => local'[q] = local[q]
      /\ \A q \in Processes : local'[q].hold \in {0, last + 1, local[q].hold}
      /\ Leased(last + 1) \/ \E w \in Wakers : local'[w].hold = last + 1 /\ pc'[w] = "starting"
  BY <1>1, <1>2, SpawnAfter DEF Inv
<1>4. ~Leased(last + 1)
  BY Kinds, InvShape DEF Leased, Inv, SeqsFit, Shape
<1> QED BY <1>3, <1>4, Kinds DEF Spawned

LEMMA RequestSpawns ==
  ASSUME Inv, NEW s \in Nat, SpawnWaker(s, pc)
  PROVE  Spawned(s, Nobody, "off")
<1>1. /\ \A q \in Processes \ Wakers : pc'[q] = pc[q]
      /\ \A q \in Wakers : pc'[q] \in {"off", "starting", pc[q]}
      /\ \A q \in Processes : pc'[q] \notin {"off", "starting"} => local'[q] = local[q]
      /\ \A q \in Processes : local'[q].hold \in {0, s, local[q].hold}
      /\ Leased(s) => pc' = pc
      /\ Leased(s) \/ \E w \in Wakers : local'[w].hold = s /\ pc'[w] = "starting"
  BY SpawnNow DEF Inv
<1>2. \E w \in Watchers : local'[w].hold = s /\ pc'[w] \notin {"off", "looking"}
  BY <1>1, Kinds DEF Leased
<1>3. \A q \in Processes \ Wakers : q # Nobody
  BY Kinds
<1> QED BY <1>1, <1>2, <1>3 DEF Spawned

LEMMA PauseSpawns ==
  ASSUME Inv, NEW time, Pause(time)
  PROVE  \/ UNCHANGED <<pc, local>> /\ (UNCHANGED run \/ Enters("paused", Never))
         \/ Enters("paused", time) /\ Spawned(last + 1, Nobody, "off")
<1>1. last + 1 \in Nat
  BY InvShape DEF Shape
<1> QED BY <1>1, RequestSpawns DEF Pause

LEMMA LookSpawns ==
  ASSUME Inv, NEW p \in Passes, Look(p)
  PROVE  \/ Spawned(wait, Nobody, "off")
         \/ /\ (wait # 0 => Due) /\ pc[p] = "off"
            /\ pc' = [pc EXCEPT ![p] = IF wait = 0 THEN "sweeping" ELSE "looking"]
            /\ local' = [local EXCEPT ![p] = [Fresh EXCEPT !.hold = wait, !.paused = status = "paused"]]
<1>1. wait \in Nat
  BY InvShape DEF Shape
<1> QED BY <1>1, RequestSpawns DEF Look

\* A driver is started for hold, by p.
Launched(d, hold, p) ==
  /\ pc[d] = "off" /\ pc'[d] = "launched" /\ local'[d].hold = hold
  /\ \A q \in Processes \ {d, p} : pc'[q] = pc[q] /\ local'[q] = local[q]
  /\ p \in Watchers => \/ hold = 0 /\ pc'[p] = "off" /\ local'[p] = Fresh
                       \/ /\ hold # 0 /\ pc'[p] = "watching" /\ local'[p].hold = local[p].hold
                          /\ local'[p].child = d
  /\ \A q \in Watchers : local[q].child # d
  /\ driverPid' = d /\ ~Busy

LEMMA LaunchIs ==
  ASSUME Inv, NEW d \in Drivers, NEW hold \in Nat, NEW now \in BOOLEAN,
         NEW p \in Watchers \cup {Nobody}, Launch(d, hold, now, p)
  PROVE  Launched(d, hold, p)
<1>1. /\ pc[d] = "off" /\ pc'[d] = "launched" /\ local'[d].hold = hold
      /\ \A q \in Processes \ {d, p} : pc'[q] = pc[q] /\ local'[q] = local[q]
      /\ p \in Watchers => \/ hold = 0 /\ pc'[p] = "off" /\ local'[p] = Fresh
                           \/ /\ hold # 0 /\ pc'[p] = "watching"
                              /\ local'[p] = [local[p] EXCEPT !.child = d]
      /\ \A q \in Watchers : local[q].child # d
      /\ driverPid' = d
  BY LaunchFacts DEF Inv
<1>2. \A m \in Memory : [m EXCEPT !.child = d].hold = m.hold /\ [m EXCEPT !.child = d].child = d
  BY DEF Memory
<1>3. p \in Watchers => local[p] \in Memory
  BY Kinds, InvShape DEF Shape
<1>4. ~Busy
  BY DEF Launch
<1> QED BY <1>1, <1>2, <1>3, <1>4 DEF Launched

\* Each action that starts one.
LEMMA WakeLaunches ==
  ASSUME Inv, NEW w \in Wakers, Wake(w)
  PROVE  \/ Ends(w) /\ UNCHANGED driverPid /\ ((UNCHANGED lost /\ wait # local[w].hold) \/ Loses(w))
         \/ UNCHANGED lost /\ wait = local[w].hold /\ \E d \in Drivers : Launched(d, wait, w)
<1>1. wait \in Nat /\ w \in Watchers \cup {Nobody} /\ FALSE \in BOOLEAN
  BY Kinds, InvShape DEF Shape
<1>2. ASSUME NEW d \in Drivers, Launch(d, wait, FALSE, w) PROVE Launched(d, wait, w)
  BY <1>1, <1>2, LaunchIs
<1> QED BY <1>2 DEF Wake

LEMMA SweepLaunches ==
  ASSUME Inv, NEW p \in Passes, Sweep(p)
  PROVE  \/ Ends(p) /\ UNCHANGED driverPid /\ Loses(p)
         \/ UNCHANGED lost /\ \E d \in Drivers : Launched(d, local[p].hold, p)
<1>1. local[p].hold \in Nat /\ p \in Watchers \cup {Nobody} /\ FALSE \in BOOLEAN
  BY Kinds, InvShape DEF Shape
<1>2. ASSUME NEW d \in Drivers, Launch(d, local[p].hold, FALSE, p)
      PROVE  Launched(d, local[p].hold, p)
  BY <1>1, <1>2, LaunchIs
<1> QED BY <1>2 DEF Sweep

LEMMA ResumeLaunches ==
  ASSUME Inv, NEW d \in Drivers, NEW now \in BOOLEAN, Resume(d, now)
  PROVE  Launched(d, 0, Nobody)
<1>1. Launch(d, 0, now, Nobody)
  BY DEF Resume
<1> QED BY <1>1, LaunchIs

\* What a process that notes something keeps.
LEMMA Notes ==
  /\ \A m \in Memory : \A x :
       /\ [m EXCEPT !.plan = x].hold = m.hold
       /\ [m EXCEPT !.plan = x].plan = x
       /\ [m EXCEPT !.plan = x].paused = m.paused
       /\ [m EXCEPT !.paused = x].hold = m.hold
       /\ [m EXCEPT !.paused = x].paused = x
       /\ [m EXCEPT !.paused = x].plan = m.plan
       /\ [m EXCEPT !.hold = x].hold = x
  /\ \A x, y : [Fresh EXCEPT !.hold = x, !.paused = y].hold = x
  /\ Fresh.hold = 0 /\ Fresh \in Memory
BY DEF Memory, Fresh

\* A driver notes nothing of the wait it is for, until it ends.
LEMMA DriverHolds ==
  ASSUME Shape, NEW d \in Drivers, Plan(d) \/ Admit(d) \/ Scan(d)
  PROVE  \A q \in Processes : local'[q].hold \in {0, local[q].hold}
<1>1. \A m \in Memory : Fresh.hold = 0 /\ m.hold \in {0, m.hold}
  BY DEF Fresh
<1>2. CASE \E at : Goto(d, at)
  BY <1>2 DEF Goto
<1>3. CASE Ends(d)
  BY <1>1, <1>3 DEF Ends, Shape
<1>4. CASE local' = [local EXCEPT ![d].plan = life]
  BY <1>4, Notes DEF Shape
<1>5. ASSUME NEW b \in BOOLEAN, local' = [local EXCEPT ![d].paused = b]
      PROVE  \A q \in Processes : local'[q].hold \in {0, local[q].hold}
  <2>1. \A m \in Memory : [m EXCEPT !.paused = b].hold = m.hold
    BY DEF Memory
  <2> QED BY <1>5, <2>1 DEF Shape
<1>6. CASE Plan(d)
  BY <1>3, <1>4, <1>6 DEF Plan
<1>7. CASE Admit(d)
  BY <1>2, <1>3, <1>7 DEF Admit
<1>8. CASE Scan(d)
  <2>1. \A c \in control : (c.kind = "pause") \in BOOLEAN
    OBVIOUS
  <2> QED BY <1>2, <1>5, <1>8, <2>1 DEF Scan
<1> QED BY <1>6, <1>7, <1>8

\* What is left behind by who gives up.
LEMMA LossFacts ==
  ASSUME Inv, NEW p
  PROVE  /\ TurnsAway(p) => /\ lost'.wait = lost.wait
                            /\ ~lost'.news => ~lost.news /\ control = {} /\ Urged = {}
         /\ Bounces(p) => /\ lost'.wait = IF local[p].hold = wait THEN wait ELSE lost.wait
                          /\ ~lost'.news => ~lost.news /\ control = {} /\ Urged = {}
         /\ Loses(p) => /\ lost'.wait = IF local[p].hold = wait THEN wait ELSE lost.wait
                        /\ lost'.news = lost.news
<1>1. lost \in [wait : Nat, news : BOOLEAN]
  BY DEF Inv, TypeOK
<1> DEFINE News == lost.news \/ control # {} \/ Urged # {}
           Wait == IF local[p].hold = wait THEN wait ELSE lost.wait
<1>2. ~News => ~lost.news /\ control = {} /\ Urged = {}
  OBVIOUS
<1>3. TurnsAway(p) => lost' = [lost EXCEPT !.news = News]
  BY DEF TurnsAway
<1>4. Bounces(p) => lost' = [wait |-> Wait, news |-> News]
  BY DEF Bounces
<1>5. Loses(p) => lost' = [lost EXCEPT !.wait = Wait]
  BY DEF Loses
<1>6. News \in BOOLEAN
  OBVIOUS
<1> HIDE DEF News, Wait
<1>7. TurnsAway(p) => lost'.wait = lost.wait /\ lost'.news = News
  BY <1>1, <1>3, <1>6
<1>8. Bounces(p) => lost'.wait = Wait /\ lost'.news = News
  BY <1>4, <1>6
<1>9. Loses(p) => lost'.wait = Wait /\ lost'.news = lost.news
  BY <1>1, <1>5
<1> QED BY <1>2, <1>7, <1>8, <1>9 DEF Wait

\* A live driver of a running run drives it or is about to.
LEMMA LiveDriver ==
  ASSUME Inv, DriverAlive, status = "running"
  PROVE  \E d \in Drivers : pc[d] \in Preparing \cup Driving
<1>1. driverPid \in Drivers /\ pc[driverPid] # "off"
  BY Kinds DEF Inv, TypeOK, DriverAlive, Alive
<1>2. pc[driverPid] \in DriverPlaces
  BY <1>1 DEF Inv, TypeOK
<1>3. pc[driverPid] \notin Departing
  BY <1>1 DEF Inv, OutFits, Departing
<1> QED BY <1>1, <1>2, <1>3 DEF DriverPlaces

\* A resume of the wait in force is not turned away but by the lock.
LEMMA WantedIsAdmitted ==
  ASSUME Inv, NEW d \in Drivers, local[d].hold = wait, wait # 0
  PROVE  Holds(d) /\ status # "finished" /\ (pc[d] = "locked" => life = local[d].plan)
BY DEF Inv, Holds, SeqsFit, PlanFits

\* Seqs are handed out in order.
LEMMA SeqsFitKept ==
  ASSUME Inv, [Next]_vars
  PROVE  SeqsFit'
<1> USE Kinds
<1>0. Inv /\ Shape
  BY InvShape
<1>1. ASSUME NEW d \in Drivers, Plan(d) PROVE SeqsFit'
  <2>1. UNCHANGED run
    BY <1>1 DEF Plan
  <2> QED BY <1>0, <1>1, <2>1, DriverHolds DEF run, Inv, SeqsFit, Shape
<1>2. ASSUME NEW d \in Drivers, TakeLock(d) PROVE SeqsFit'
  BY <1>0, <1>2 DEF TakeLock, Goto, Ends, Bounces, Holds, Busy, Alive, run, Inv, SeqsFit, Shape, Fresh
<1>3. ASSUME NEW d \in Drivers, Admit(d) PROVE SeqsFit'
  <2>1. UNCHANGED run \/ Enters("running", Never)
    BY <1>3 DEF Admit
  <2> QED BY <1>0, <1>3, <2>1, DriverHolds DEF Enters, run, Inv, SeqsFit, Shape
<1>4. ASSUME NEW d \in Drivers, Claim(d) PROVE SeqsFit'
  BY <1>0, <1>4 DEF Claim, Goto, run, Inv, SeqsFit, Shape, Fresh
<1>5. ASSUME NEW d \in Drivers, Scan(d) PROVE SeqsFit'
  <2>1. UNCHANGED run \/ \E s \in {"aborted", "paused"} : \E time : Enters(s, time)
    BY <1>5 DEF Scan
  <2> QED BY <1>0, <1>5, <2>1, DriverHolds DEF Enters, run, Inv, SeqsFit, Shape
<1>6. ASSUME NEW d \in Drivers, Rest(d) PROVE SeqsFit'
  BY <1>0, <1>6 DEF Rest, Goto, run, Inv, SeqsFit, Shape, Fresh
<1>7. ASSUME NEW d \in Drivers, Release(d) PROVE SeqsFit'
  <2>1. pc[d] \in Driving
    BY <1>7 DEF Release, Driving
  <2> QED BY <1>0, <1>7, <2>1 DEF Release, Goto, run, Inv, SeqsFit, OutFits, Terminal, TypeOK, Statuses, Shape
<1>8. ASSUME NEW d \in Drivers, Finish(d) PROVE SeqsFit'
  BY <1>0, <1>8 DEF Finish, Goto, Enters, run, Inv, SeqsFit, Shape, Fresh
<1>9. ASSUME NEW d \in Drivers, Leave(d) PROVE SeqsFit'
  BY <1>0, <1>9 DEF Leave, Goto, run, Inv, SeqsFit, Shape, Fresh
<1>10. ASSUME NEW d \in Drivers, Part(d) PROVE SeqsFit'
  <2>1. CASE Spawned(wait, d, "exiting")
    BY <1>0, <1>10, <2>1 DEF Part, Spawned, run, Inv, SeqsFit, Shape, Fresh
  <2>2. CASE Goto(d, "exiting")
    BY <1>0, <1>10, <2>2 DEF Part, Goto, run, Inv, SeqsFit, Shape, Fresh
  <2> QED BY <1>0, <1>10, <2>1, <2>2, DepartureSpawns
<1>11. ASSUME NEW d \in Drivers, Exit(d) PROVE SeqsFit'
  BY <1>0, <1>11 DEF Exit, Ends, run, Inv, SeqsFit, Shape, Fresh
<1>12. ASSUME NEW d \in Drivers, AfterRelease(d) PROVE SeqsFit'
  <2>1. CASE Spawned(wait, d, "exiting")
    BY <1>0, <1>12, <2>1 DEF AfterRelease, Spawned, run, Inv, SeqsFit, Shape, Fresh
  <2>2. CASE Goto(d, "exiting")
    BY <1>0, <1>12, <2>2 DEF AfterRelease, Goto, run, Inv, SeqsFit, Shape, Fresh
  <2> QED BY <1>0, <1>12, <2>1, <2>2, DepartureSpawns
<1>13. ASSUME NEW d \in Drivers, NEW n \in Nodes, Attempt(d, n) PROVE SeqsFit'
  BY <1>0, <1>13 DEF Attempt, NodeEvent, Goto, run, Inv, SeqsFit, Shape, Fresh
<1>14. ASSUME NEW d \in Drivers, NEW n \in Nodes, EndAttempt(d, n) PROVE SeqsFit'
  BY <1>0, <1>14 DEF EndAttempt, NodeEvent, Goto, run, Inv, SeqsFit, Shape, Fresh
<1>15. ASSUME NEW w \in Wakers, Start(w) PROVE SeqsFit'
  BY <1>0, <1>15 DEF Start, Goto, Ends, run, Inv, SeqsFit, Shape, Fresh
<1>16. ASSUME NEW w \in Wakers, Rouse(w) PROVE SeqsFit'
  BY <1>0, <1>16 DEF Rouse, Goto, Ends, run, Inv, SeqsFit, Shape, Fresh
<1>17. ASSUME NEW w \in Wakers, Repause(w) PROVE SeqsFit'
  BY <1>0, <1>17, Notes DEF Repause, Repauses, Enters, Spend, run, Inv, SeqsFit, Shape, Fresh
<1>18. ASSUME NEW w \in Wakers, Wake(w) PROVE SeqsFit'
  <2>1. ASSUME Ends(w), UNCHANGED driverPid PROVE SeqsFit'
    BY <1>0, <1>18, <2>1, Notes DEF Wake, Ends, run, Inv, SeqsFit, Shape, Fresh
  <2>2. ASSUME NEW d \in Drivers, Launched(d, wait, w) PROVE SeqsFit'
    BY <1>0, <1>18, <2>2, Notes DEF Wake, Launched, run, Inv, SeqsFit, Shape, Fresh
  <2> QED BY <1>0, <1>18, <2>1, <2>2, WakeLaunches
<1>19. ASSUME NEW p \in Watchers, Watch(p) PROVE SeqsFit'
  BY <1>0, <1>19 DEF Watch, Ends, run, Inv, SeqsFit, Shape, Fresh
<1>20. ASSUME NEW p \in Passes, TakeLease(p) PROVE SeqsFit'
  BY <1>0, <1>20 DEF TakeLease, Goto, Ends, run, Inv, SeqsFit, Shape, Fresh
<1>21. ASSUME NEW p \in Passes, Probe(p) PROVE SeqsFit'
  <2>1. Spawned(last + 1, p, "off")
    BY <1>0, <1>21, ProbeSpawns
  <2> QED BY <1>0, <1>21, <2>1 DEF Probe, Repauses, Enters, Spawned, run, Inv, SeqsFit, Shape, Fresh
<1>22. ASSUME NEW p \in Passes, Sweep(p) PROVE SeqsFit'
  <2>1. ASSUME Ends(p), UNCHANGED driverPid PROVE SeqsFit'
    BY <1>0, <1>22, <2>1, Notes DEF Sweep, Ends, run, Inv, SeqsFit, Shape, Fresh
  <2>2. ASSUME NEW d \in Drivers, Launched(d, local[p].hold, p) PROVE SeqsFit'
    BY <1>0, <1>22, <2>2, Notes DEF Sweep, Launched, run, Inv, SeqsFit, Shape, Fresh
  <2> QED BY <1>0, <1>22, <2>1, <2>2, SweepLaunches
<1>23. ASSUME NEW p \in Passes, Mark(p) PROVE SeqsFit'
  BY <1>0, <1>23 DEF Mark, Ends, Loses, Enters, run, Inv, SeqsFit, Shape, Fresh
<1>24. ASSUME Stop PROVE SeqsFit'
  BY <1>0, <1>24 DEF Stop, Spend, Enters, DriverAlive, Alive, run, Inv, SeqsFit, Shape, Fresh
<1>25. ASSUME RetryNow PROVE SeqsFit'
  BY <1>0, <1>25 DEF RetryNow, Spend, DriverAlive, Alive, run, Inv, SeqsFit, Shape, Fresh
<1>26. ASSUME NEW time \in {PauseFor, Never}, Pause(time) PROVE SeqsFit'
  <2>1. CASE UNCHANGED <<pc, local>>
    BY <1>0, <1>26, <2>1 DEF Pause, Enters, run, Inv, SeqsFit, Shape, Fresh
  <2>2. ASSUME Enters("paused", time), Spawned(last + 1, Nobody, "off") PROVE SeqsFit'
    BY <1>0, <1>26, <2>2 DEF Pause, Enters, Spawned, run, Inv, SeqsFit, Shape, Fresh
  <2> QED BY <1>0, <1>26, <2>1, <2>2, PauseSpawns
<1>27. ASSUME NEW d \in Drivers, NEW now \in BOOLEAN, Resume(d, now) PROVE SeqsFit'
  <2>1. Launched(d, 0, Nobody)
    BY <1>0, <1>27, ResumeLaunches
  <2> QED BY <1>0, <1>27, <2>1 DEF Resume, Launched, run, Inv, SeqsFit, Shape, Fresh
<1>28. ASSUME NEW p \in Passes, Look(p) PROVE SeqsFit'
  <2>1. CASE Spawned(wait, Nobody, "off")
    BY <1>0, <1>28, <2>1 DEF Look, Spawned, run, Inv, SeqsFit, Shape, Fresh
  <2>2. ASSUME wait # 0 => Due, pc[p] = "off",
               pc' = [pc EXCEPT ![p] = IF wait = 0 THEN "sweeping" ELSE "looking"],
               local' = [local EXCEPT ![p] = [Fresh EXCEPT !.hold = wait, !.paused = status = "paused"]]
        PROVE  SeqsFit'
    BY <1>0, <1>28, <2>2, Notes DEF Look, run, Inv, SeqsFit, Shape, Fresh
  <2> QED BY <1>0, <1>28, <2>1, <2>2, LookSpawns
<1>29. ASSUME OtherTakes PROVE SeqsFit'
  BY <1>0, <1>29 DEF OtherTakes, Spend, Busy, Alive, run, Inv, SeqsFit, Shape, Fresh
<1>30. ASSUME OtherLeaves PROVE SeqsFit'
  BY <1>0, <1>30 DEF OtherLeaves, run, Inv, SeqsFit, Shape, Fresh
<1>31. ASSUME Tick PROVE SeqsFit'
  BY <1>0, <1>31 DEF Tick, run, Inv, SeqsFit, Shape, Fresh
<1>32. ASSUME NEW p \in Processes, Crash(p) PROVE SeqsFit'
  BY <1>0, <1>32 DEF Crash, Spend, Ends, run, Inv, SeqsFit, Shape, Fresh
<1>33. ASSUME UNCHANGED vars PROVE SeqsFit'
  BY <1>0, <1>33 DEF vars, run, Inv, SeqsFit, Shape, Fresh
<1> QED
  BY <1>1, <1>2, <1>3, <1>4, <1>5, <1>6, <1>7, <1>8, <1>9, <1>10, <1>11, <1>12, <1>13,
     <1>14, <1>15, <1>16, <1>17, <1>18, <1>19, <1>20, <1>21, <1>22, <1>23, <1>24, <1>25,
     <1>26, <1>27, <1>28, <1>29, <1>30, <1>31, <1>32, <1>33 DEF Next, Driver, Agent,
     Waker, Pass, Person, Watchers

\* The busy lock is cleared by the driver it names, and taken when no driver
\* it names is alive.
LEMMA LockFitsKept ==
  ASSUME Inv, [Next]_vars
  PROVE  LockFits'
<1> USE Kinds
<1>0. Inv /\ Shape
  BY InvShape
<1>1. ASSUME NEW d \in Drivers, Plan(d) PROVE LockFits'
  BY <1>0, <1>1, Notes DEF Plan, Ends, Holds, TurnsAway, run, Inv, LockFits, Shape, Fresh, Driving, Busy, Alive
<1>2. ASSUME NEW d \in Drivers, TakeLock(d) PROVE LockFits'
  BY <1>0, <1>2 DEF TakeLock, Goto, Ends, Bounces, Holds, Busy, Alive, run, Inv, LockFits, Shape, Fresh, Driving, Busy, Alive
<1>3. ASSUME NEW d \in Drivers, Admit(d) PROVE LockFits'
  BY <1>0, <1>3 DEF Admit, Goto, Ends, Enters, TurnsAway, Holds, run, Inv, LockFits, Shape, Fresh, Driving, Busy, Alive
<1>4. ASSUME NEW d \in Drivers, Claim(d) PROVE LockFits'
  BY <1>0, <1>4 DEF Claim, Goto, run, Inv, LockFits, Shape, Fresh, Driving, Busy, Alive
<1>5. ASSUME NEW d \in Drivers, Scan(d) PROVE LockFits'
  BY <1>0, <1>5, Notes DEF Scan, Goto, Enters, run, Inv, LockFits, Shape, Fresh, Driving, Busy, Alive
<1>6. ASSUME NEW d \in Drivers, Rest(d) PROVE LockFits'
  BY <1>0, <1>6 DEF Rest, Goto, run, Inv, LockFits, Shape, Fresh, Driving, Busy, Alive
<1>7. ASSUME NEW d \in Drivers, Release(d) PROVE LockFits'
  BY <1>0, <1>7 DEF Release, Goto, run, Inv, LockFits, Shape, Fresh, Driving, Busy, Alive
<1>8. ASSUME NEW d \in Drivers, Finish(d) PROVE LockFits'
  BY <1>0, <1>8 DEF Finish, Goto, Enters, run, Inv, LockFits, Shape, Fresh, Driving, Busy, Alive
<1>9. ASSUME NEW d \in Drivers, Leave(d) PROVE LockFits'
  BY <1>0, <1>9 DEF Leave, Goto, run, Inv, LockFits, Shape, Fresh, Driving, Busy, Alive
<1>10. ASSUME NEW d \in Drivers, Part(d) PROVE LockFits'
  <2>1. CASE Spawned(wait, d, "exiting")
    BY <1>0, <1>10, <2>1 DEF Part, Spawned, run, Inv, LockFits, Shape, Fresh, Driving, Busy, Alive
  <2>2. CASE Goto(d, "exiting")
    BY <1>0, <1>10, <2>2 DEF Part, Goto, run, Inv, LockFits, Shape, Fresh, Driving, Busy, Alive
  <2> QED BY <1>0, <1>10, <2>1, <2>2, DepartureSpawns
<1>11. ASSUME NEW d \in Drivers, Exit(d) PROVE LockFits'
  BY <1>0, <1>11 DEF Exit, Ends, run, Inv, LockFits, Shape, Fresh, Driving, Busy, Alive
<1>12. ASSUME NEW d \in Drivers, AfterRelease(d) PROVE LockFits'
  <2>1. CASE Spawned(wait, d, "exiting")
    BY <1>0, <1>12, <2>1 DEF AfterRelease, Spawned, run, Inv, LockFits, Shape, Fresh, Driving, Busy, Alive
  <2>2. CASE Goto(d, "exiting")
    BY <1>0, <1>12, <2>2 DEF AfterRelease, Goto, run, Inv, LockFits, Shape, Fresh, Driving, Busy, Alive
  <2> QED BY <1>0, <1>12, <2>1, <2>2, DepartureSpawns
<1>13. ASSUME NEW d \in Drivers, NEW n \in Nodes, Attempt(d, n) PROVE LockFits'
  BY <1>0, <1>13 DEF Attempt, NodeEvent, Goto, run, Inv, LockFits, Shape, Fresh, Driving, Busy, Alive
<1>14. ASSUME NEW d \in Drivers, NEW n \in Nodes, EndAttempt(d, n) PROVE LockFits'
  BY <1>0, <1>14 DEF EndAttempt, NodeEvent, Goto, run, Inv, LockFits, Shape, Fresh, Driving, Busy, Alive
<1>15. ASSUME NEW w \in Wakers, Start(w) PROVE LockFits'
  BY <1>0, <1>15 DEF Start, Goto, Ends, run, Inv, LockFits, Shape, Fresh, Driving, Busy, Alive
<1>16. ASSUME NEW w \in Wakers, Rouse(w) PROVE LockFits'
  BY <1>0, <1>16 DEF Rouse, Goto, Ends, run, Inv, LockFits, Shape, Fresh, Driving, Busy, Alive
<1>17. ASSUME NEW w \in Wakers, Repause(w) PROVE LockFits'
  BY <1>0, <1>17, Notes DEF Repause, Repauses, Enters, Spend, run, Inv, LockFits, Shape, Fresh, Driving, Busy, Alive
<1>18. ASSUME NEW w \in Wakers, Wake(w) PROVE LockFits'
  <2>1. ASSUME Ends(w), UNCHANGED driverPid PROVE LockFits'
    BY <1>0, <1>18, <2>1, Notes DEF Wake, Ends, run, Inv, LockFits, Shape, Fresh, Driving, Busy, Alive
  <2>2. ASSUME NEW d \in Drivers, Launched(d, wait, w) PROVE LockFits'
    BY <1>0, <1>18, <2>2, Notes DEF Wake, Launched, run, Inv, LockFits, Shape, Fresh, Driving, Busy, Alive
  <2> QED BY <1>0, <1>18, <2>1, <2>2, WakeLaunches
<1>19. ASSUME NEW p \in Watchers, Watch(p) PROVE LockFits'
  BY <1>0, <1>19 DEF Watch, Ends, run, Inv, LockFits, Shape, Fresh, Driving, Busy, Alive
<1>20. ASSUME NEW p \in Passes, TakeLease(p) PROVE LockFits'
  BY <1>0, <1>20 DEF TakeLease, Goto, Ends, run, Inv, LockFits, Shape, Fresh, Driving, Busy, Alive
<1>21. ASSUME NEW p \in Passes, Probe(p) PROVE LockFits'
  <2>1. Spawned(last + 1, p, "off")
    BY <1>0, <1>21, ProbeSpawns
  <2> QED BY <1>0, <1>21, <2>1 DEF Probe, Repauses, Enters, Spawned, run, Inv, LockFits, Shape, Fresh, Driving, Busy, Alive
<1>22. ASSUME NEW p \in Passes, Sweep(p) PROVE LockFits'
  <2>1. ASSUME Ends(p), UNCHANGED driverPid PROVE LockFits'
    BY <1>0, <1>22, <2>1, Notes DEF Sweep, Ends, run, Inv, LockFits, Shape, Fresh, Driving, Busy, Alive
  <2>2. ASSUME NEW d \in Drivers, Launched(d, local[p].hold, p) PROVE LockFits'
    BY <1>0, <1>22, <2>2, Notes DEF Sweep, Launched, run, Inv, LockFits, Shape, Fresh, Driving, Busy, Alive
  <2> QED BY <1>0, <1>22, <2>1, <2>2, SweepLaunches
<1>23. ASSUME NEW p \in Passes, Mark(p) PROVE LockFits'
  BY <1>0, <1>23 DEF Mark, Ends, Loses, Enters, run, Inv, LockFits, Shape, Fresh, Driving, Busy, Alive
<1>24. ASSUME Stop PROVE LockFits'
  BY <1>0, <1>24 DEF Stop, Spend, Enters, DriverAlive, Alive, run, Inv, LockFits, Shape, Fresh, Driving, Busy, Alive
<1>25. ASSUME RetryNow PROVE LockFits'
  BY <1>0, <1>25 DEF RetryNow, Spend, DriverAlive, Alive, run, Inv, LockFits, Shape, Fresh, Driving, Busy, Alive
<1>26. ASSUME NEW time \in {PauseFor, Never}, Pause(time) PROVE LockFits'
  <2>1. CASE UNCHANGED <<pc, local>>
    BY <1>0, <1>26, <2>1 DEF Pause, Enters, run, Inv, LockFits, Shape, Fresh, Driving, Busy, Alive
  <2>2. ASSUME Enters("paused", time), Spawned(last + 1, Nobody, "off") PROVE LockFits'
    BY <1>0, <1>26, <2>2 DEF Pause, Enters, Spawned, run, Inv, LockFits, Shape, Fresh, Driving, Busy, Alive
  <2> QED BY <1>0, <1>26, <2>1, <2>2, PauseSpawns
<1>27. ASSUME NEW d \in Drivers, NEW now \in BOOLEAN, Resume(d, now) PROVE LockFits'
  <2>1. Launched(d, 0, Nobody)
    BY <1>0, <1>27, ResumeLaunches
  <2> QED BY <1>0, <1>27, <2>1 DEF Resume, Launched, run, Inv, LockFits, Shape, Fresh, Driving, Busy, Alive
<1>28. ASSUME NEW p \in Passes, Look(p) PROVE LockFits'
  <2>1. CASE Spawned(wait, Nobody, "off")
    BY <1>0, <1>28, <2>1 DEF Look, Spawned, run, Inv, LockFits, Shape, Fresh, Driving, Busy, Alive
  <2>2. ASSUME wait # 0 => Due, pc[p] = "off",
               pc' = [pc EXCEPT ![p] = IF wait = 0 THEN "sweeping" ELSE "looking"],
               local' = [local EXCEPT ![p] = [Fresh EXCEPT !.hold = wait, !.paused = status = "paused"]]
        PROVE  LockFits'
    BY <1>0, <1>28, <2>2, Notes DEF Look, run, Inv, LockFits, Shape, Fresh, Driving, Busy, Alive
  <2> QED BY <1>0, <1>28, <2>1, <2>2, LookSpawns
<1>29. ASSUME OtherTakes PROVE LockFits'
  BY <1>0, <1>29 DEF OtherTakes, Spend, Busy, Alive, run, Inv, LockFits, Shape, Fresh, Driving, Busy, Alive
<1>30. ASSUME OtherLeaves PROVE LockFits'
  BY <1>0, <1>30 DEF OtherLeaves, run, Inv, LockFits, Shape, Fresh, Driving, Busy, Alive
<1>31. ASSUME Tick PROVE LockFits'
  BY <1>0, <1>31 DEF Tick, run, Inv, LockFits, Shape, Fresh, Driving, Busy, Alive
<1>32. ASSUME NEW p \in Processes, Crash(p) PROVE LockFits'
  BY <1>0, <1>32 DEF Crash, Spend, Ends, run, Inv, LockFits, Shape, Fresh, Driving, Busy, Alive
<1>33. ASSUME UNCHANGED vars PROVE LockFits'
  BY <1>0, <1>33 DEF vars, run, Inv, LockFits, Shape, Fresh, Driving, Busy, Alive
<1> QED
  BY <1>1, <1>2, <1>3, <1>4, <1>5, <1>6, <1>7, <1>8, <1>9, <1>10, <1>11, <1>12, <1>13,
     <1>14, <1>15, <1>16, <1>17, <1>18, <1>19, <1>20, <1>21, <1>22, <1>23, <1>24, <1>25,
     <1>26, <1>27, <1>28, <1>29, <1>30, <1>31, <1>32, <1>33 DEF Next, Driver, Agent,
     Waker, Pass, Person, Watchers

\* Only a driver on its way in names itself, and only the driver the lock
\* names, or a stop that posts what it ends, ends a run that is driven.
LEMMA OutFitsKept ==
  ASSUME Inv, [Next]_vars
  PROVE  OutFits'
<1> USE Kinds
<1>0. Inv /\ Shape
  BY InvShape
<1>1. ASSUME NEW d \in Drivers, Plan(d) PROVE OutFits'
  BY <1>0, <1>1, Notes DEF Plan, Ends, Holds, TurnsAway, run, Inv, LockFits, OutFits, Shape, Driving, Released, Terminal, Preparing
<1>2. ASSUME NEW d \in Drivers, TakeLock(d) PROVE OutFits'
  BY <1>0, <1>2 DEF TakeLock, Goto, Ends, Bounces, Holds, Busy, Alive, run, Inv, LockFits, OutFits, Shape, Driving, Released, Terminal, Preparing
<1>3. ASSUME NEW d \in Drivers, Admit(d) PROVE OutFits'
  BY <1>0, <1>3 DEF Admit, Goto, Ends, Enters, TurnsAway, Holds, run, Inv, LockFits, OutFits, Shape, Driving, Released, Terminal, Preparing
<1>4. ASSUME NEW d \in Drivers, Claim(d) PROVE OutFits'
  BY <1>0, <1>4 DEF Claim, Goto, run, Inv, LockFits, OutFits, Shape, Driving, Released, Terminal, Preparing
<1>5. ASSUME NEW d \in Drivers, Scan(d) PROVE OutFits'
  BY <1>0, <1>5, Notes DEF Scan, Goto, Enters, run, Inv, LockFits, OutFits, Shape, Driving, Released, Terminal, Preparing
<1>6. ASSUME NEW d \in Drivers, Rest(d) PROVE OutFits'
  BY <1>0, <1>6 DEF Rest, Goto, run, Inv, LockFits, OutFits, Shape, Driving, Released, Terminal, Preparing
<1>7. ASSUME NEW d \in Drivers, Release(d) PROVE OutFits'
  BY <1>0, <1>7 DEF Release, Goto, run, Inv, LockFits, OutFits, Shape, Driving, Released, Terminal, Preparing
<1>8. ASSUME NEW d \in Drivers, Finish(d) PROVE OutFits'
  BY <1>0, <1>8 DEF Finish, Goto, Enters, run, Inv, LockFits, OutFits, Shape, Driving, Released, Terminal, Preparing
<1>9. ASSUME NEW d \in Drivers, Leave(d) PROVE OutFits'
  BY <1>0, <1>9 DEF Leave, Goto, run, Inv, LockFits, OutFits, Shape, Driving, Released, Terminal, Preparing
<1>10. ASSUME NEW d \in Drivers, Part(d) PROVE OutFits'
  <2>1. CASE Spawned(wait, d, "exiting")
    BY <1>0, <1>10, <2>1 DEF Part, Spawned, run, Inv, LockFits, OutFits, Shape, Driving, Released, Terminal, Preparing
  <2>2. CASE Goto(d, "exiting")
    BY <1>0, <1>10, <2>2 DEF Part, Goto, run, Inv, LockFits, OutFits, Shape, Driving, Released, Terminal, Preparing
  <2> QED BY <1>0, <1>10, <2>1, <2>2, DepartureSpawns
<1>11. ASSUME NEW d \in Drivers, Exit(d) PROVE OutFits'
  BY <1>0, <1>11 DEF Exit, Ends, run, Inv, LockFits, OutFits, Shape, Driving, Released, Terminal, Preparing
<1>12. ASSUME NEW d \in Drivers, AfterRelease(d) PROVE OutFits'
  <2>1. CASE Spawned(wait, d, "exiting")
    BY <1>0, <1>12, <2>1 DEF AfterRelease, Spawned, run, Inv, LockFits, OutFits, Shape, Driving, Released, Terminal, Preparing
  <2>2. CASE Goto(d, "exiting")
    BY <1>0, <1>12, <2>2 DEF AfterRelease, Goto, run, Inv, LockFits, OutFits, Shape, Driving, Released, Terminal, Preparing
  <2> QED BY <1>0, <1>12, <2>1, <2>2, DepartureSpawns
<1>13. ASSUME NEW d \in Drivers, NEW n \in Nodes, Attempt(d, n) PROVE OutFits'
  BY <1>0, <1>13 DEF Attempt, NodeEvent, Goto, run, Inv, LockFits, OutFits, Shape, Driving, Released, Terminal, Preparing
<1>14. ASSUME NEW d \in Drivers, NEW n \in Nodes, EndAttempt(d, n) PROVE OutFits'
  BY <1>0, <1>14 DEF EndAttempt, NodeEvent, Goto, run, Inv, LockFits, OutFits, Shape, Driving, Released, Terminal, Preparing
<1>15. ASSUME NEW w \in Wakers, Start(w) PROVE OutFits'
  BY <1>0, <1>15 DEF Start, Goto, Ends, run, Inv, LockFits, OutFits, Shape, Driving, Released, Terminal, Preparing
<1>16. ASSUME NEW w \in Wakers, Rouse(w) PROVE OutFits'
  BY <1>0, <1>16 DEF Rouse, Goto, Ends, run, Inv, LockFits, OutFits, Shape, Driving, Released, Terminal, Preparing
<1>17. ASSUME NEW w \in Wakers, Repause(w) PROVE OutFits'
  BY <1>0, <1>17, Notes DEF Repause, Repauses, Enters, Spend, run, Inv, LockFits, OutFits, Shape, Driving, Released, Terminal, Preparing
<1>18. ASSUME NEW w \in Wakers, Wake(w) PROVE OutFits'
  <2>1. ASSUME Ends(w), UNCHANGED driverPid PROVE OutFits'
    BY <1>0, <1>18, <2>1, Notes DEF Wake, Ends, run, Inv, LockFits, OutFits, Shape, Driving, Released, Terminal, Preparing
  <2>2. ASSUME NEW d \in Drivers, Launched(d, wait, w) PROVE OutFits'
    BY <1>0, <1>18, <2>2, Notes DEF Wake, Launched, run, Inv, LockFits, OutFits, Shape, Driving, Released, Terminal, Preparing
  <2> QED BY <1>0, <1>18, <2>1, <2>2, WakeLaunches
<1>19. ASSUME NEW p \in Watchers, Watch(p) PROVE OutFits'
  BY <1>0, <1>19 DEF Watch, Ends, run, Inv, LockFits, OutFits, Shape, Driving, Released, Terminal, Preparing
<1>20. ASSUME NEW p \in Passes, TakeLease(p) PROVE OutFits'
  BY <1>0, <1>20 DEF TakeLease, Goto, Ends, run, Inv, LockFits, OutFits, Shape, Driving, Released, Terminal, Preparing
<1>21. ASSUME NEW p \in Passes, Probe(p) PROVE OutFits'
  <2>1. Spawned(last + 1, p, "off")
    BY <1>0, <1>21, ProbeSpawns
  <2> QED BY <1>0, <1>21, <2>1 DEF Probe, Repauses, Enters, Spawned, run, Inv, LockFits, OutFits, Shape, Driving, Released, Terminal, Preparing
<1>22. ASSUME NEW p \in Passes, Sweep(p) PROVE OutFits'
  <2>1. ASSUME Ends(p), UNCHANGED driverPid PROVE OutFits'
    BY <1>0, <1>22, <2>1, Notes DEF Sweep, Ends, run, Inv, LockFits, OutFits, Shape, Driving, Released, Terminal, Preparing
  <2>2. ASSUME NEW d \in Drivers, Launched(d, local[p].hold, p) PROVE OutFits'
    BY <1>0, <1>22, <2>2, Notes DEF Sweep, Launched, run, Inv, LockFits, OutFits, Shape, Driving, Released, Terminal, Preparing
  <2> QED BY <1>0, <1>22, <2>1, <2>2, SweepLaunches
<1>23. ASSUME NEW p \in Passes, Mark(p) PROVE OutFits'
  BY <1>0, <1>23 DEF Mark, Ends, Loses, Enters, run, Inv, LockFits, OutFits, Shape, Driving, Released, Terminal, Preparing
<1>24. ASSUME Stop PROVE OutFits'
  BY <1>0, <1>24 DEF Stop, Spend, Enters, DriverAlive, Alive, run, Inv, LockFits, OutFits, Shape, Driving, Released, Terminal, Preparing
<1>25. ASSUME RetryNow PROVE OutFits'
  BY <1>0, <1>25 DEF RetryNow, Spend, DriverAlive, Alive, run, Inv, LockFits, OutFits, Shape, Driving, Released, Terminal, Preparing
<1>26. ASSUME NEW time \in {PauseFor, Never}, Pause(time) PROVE OutFits'
  <2>1. CASE UNCHANGED <<pc, local>>
    BY <1>0, <1>26, <2>1 DEF Pause, Enters, run, Inv, LockFits, OutFits, Shape, Driving, Released, Terminal, Preparing
  <2>2. ASSUME Enters("paused", time), Spawned(last + 1, Nobody, "off") PROVE OutFits'
    BY <1>0, <1>26, <2>2 DEF Pause, Enters, Spawned, run, Inv, LockFits, OutFits, Shape, Driving, Released, Terminal, Preparing
  <2> QED BY <1>0, <1>26, <2>1, <2>2, PauseSpawns
<1>27. ASSUME NEW d \in Drivers, NEW now \in BOOLEAN, Resume(d, now) PROVE OutFits'
  <2>1. Launched(d, 0, Nobody)
    BY <1>0, <1>27, ResumeLaunches
  <2> QED BY <1>0, <1>27, <2>1 DEF Resume, Launched, run, Inv, LockFits, OutFits, Shape, Driving, Released, Terminal, Preparing
<1>28. ASSUME NEW p \in Passes, Look(p) PROVE OutFits'
  <2>1. CASE Spawned(wait, Nobody, "off")
    BY <1>0, <1>28, <2>1 DEF Look, Spawned, run, Inv, LockFits, OutFits, Shape, Driving, Released, Terminal, Preparing
  <2>2. ASSUME wait # 0 => Due, pc[p] = "off",
               pc' = [pc EXCEPT ![p] = IF wait = 0 THEN "sweeping" ELSE "looking"],
               local' = [local EXCEPT ![p] = [Fresh EXCEPT !.hold = wait, !.paused = status = "paused"]]
        PROVE  OutFits'
    BY <1>0, <1>28, <2>2, Notes DEF Look, run, Inv, LockFits, OutFits, Shape, Driving, Released, Terminal, Preparing
  <2> QED BY <1>0, <1>28, <2>1, <2>2, LookSpawns
<1>29. ASSUME OtherTakes PROVE OutFits'
  BY <1>0, <1>29 DEF OtherTakes, Spend, Busy, Alive, run, Inv, LockFits, OutFits, Shape, Driving, Released, Terminal, Preparing
<1>30. ASSUME OtherLeaves PROVE OutFits'
  BY <1>0, <1>30 DEF OtherLeaves, run, Inv, LockFits, OutFits, Shape, Driving, Released, Terminal, Preparing
<1>31. ASSUME Tick PROVE OutFits'
  BY <1>0, <1>31 DEF Tick, run, Inv, LockFits, OutFits, Shape, Driving, Released, Terminal, Preparing
<1>32. ASSUME NEW p \in Processes, Crash(p) PROVE OutFits'
  BY <1>0, <1>32 DEF Crash, Spend, Ends, run, Inv, LockFits, OutFits, Shape, Driving, Released, Terminal, Preparing
<1>33. ASSUME UNCHANGED vars PROVE OutFits'
  BY <1>0, <1>33 DEF vars, run, Inv, LockFits, OutFits, Shape, Driving, Released, Terminal, Preparing
<1> QED
  BY <1>1, <1>2, <1>3, <1>4, <1>5, <1>6, <1>7, <1>8, <1>9, <1>10, <1>11, <1>12, <1>13,
     <1>14, <1>15, <1>16, <1>17, <1>18, <1>19, <1>20, <1>21, <1>22, <1>23, <1>24, <1>25,
     <1>26, <1>27, <1>28, <1>29, <1>30, <1>31, <1>32, <1>33 DEF Next, Driver, Agent,
     Waker, Pass, Person, Watchers

\* Only the driver the lock names drives, and it lets go of the run first.
LEMMA ReleasedIsUndrivenKept ==
  ASSUME Inv, [Next]_vars
  PROVE  ReleasedIsUndriven'
<1> USE Kinds
<1>0. Inv /\ Shape
  BY InvShape
<1>1. ASSUME NEW d \in Drivers, Plan(d) PROVE ReleasedIsUndriven'
  BY <1>0, <1>1, Notes DEF Plan, Ends, Holds, TurnsAway, run, Inv, LockFits, OutFits, ReleasedIsUndriven, Shape, Driving, Departing, DriverPlaces, Released, Preparing, Busy, Alive, TypeOK
<1>2. ASSUME NEW d \in Drivers, TakeLock(d) PROVE ReleasedIsUndriven'
  BY <1>0, <1>2 DEF TakeLock, Goto, Ends, Bounces, Holds, Busy, Alive, run, Inv, LockFits, OutFits, ReleasedIsUndriven, Shape, Driving, Departing, DriverPlaces, Released, Preparing, Busy, Alive, TypeOK
<1>3. ASSUME NEW d \in Drivers, Admit(d) PROVE ReleasedIsUndriven'
  <2>1. ASSUME pc[d] = "locked", Enters("running", Never), Goto(d, "entering"), UNCHANGED <<lock, control, driverPid>>
        PROVE  ReleasedIsUndriven'
    BY <1>0, <2>1 DEF Enters, Goto, Inv, LockFits, ReleasedIsUndriven, Shape, Driving, Preparing, Released
  <2>2. ASSUME pc[d] = "locked", ~(Holds(d) /\ life = local[d].plan), Ends(d), lock' = Nobody, TurnsAway(d),
               UNCHANGED <<node, run, control, driverPid>>
        PROVE  ReleasedIsUndriven'
    BY <1>0, <2>2, LossFacts DEF Ends, run, Inv, LockFits, ReleasedIsUndriven, Shape, Driving, Preparing, Released
  <2> QED BY <1>3, <2>1, <2>2 DEF Admit
<1>4. ASSUME NEW d \in Drivers, Claim(d) PROVE ReleasedIsUndriven'
  BY <1>0, <1>4 DEF Claim, Goto, run, Inv, LockFits, OutFits, ReleasedIsUndriven, Shape, Driving, Departing, DriverPlaces, Released, Preparing, Busy, Alive, TypeOK
<1>5. ASSUME NEW d \in Drivers, Scan(d) PROVE ReleasedIsUndriven'
  BY <1>0, <1>5, Notes DEF Scan, Goto, Enters, run, Inv, LockFits, OutFits, ReleasedIsUndriven, Shape, Driving, Departing, DriverPlaces, Released, Preparing, Busy, Alive, TypeOK
<1>6. ASSUME NEW d \in Drivers, Rest(d) PROVE ReleasedIsUndriven'
  BY <1>0, <1>6 DEF Rest, Goto, run, Inv, LockFits, OutFits, ReleasedIsUndriven, Shape, Driving, Departing, DriverPlaces, Released, Preparing, Busy, Alive, TypeOK
<1>7. ASSUME NEW d \in Drivers, Release(d) PROVE ReleasedIsUndriven'
  BY <1>0, <1>7 DEF Release, Goto, run, Inv, LockFits, OutFits, ReleasedIsUndriven, Shape, Driving, Departing, DriverPlaces, Released, Preparing, Busy, Alive, TypeOK
<1>8. ASSUME NEW d \in Drivers, Finish(d) PROVE ReleasedIsUndriven'
  BY <1>0, <1>8 DEF Finish, Goto, Enters, run, Inv, LockFits, OutFits, ReleasedIsUndriven, Shape, Driving, Departing, DriverPlaces, Released, Preparing, Busy, Alive, TypeOK
<1>9. ASSUME NEW d \in Drivers, Leave(d) PROVE ReleasedIsUndriven'
  BY <1>0, <1>9 DEF Leave, Goto, run, Inv, LockFits, OutFits, ReleasedIsUndriven, Shape, Driving, Departing, DriverPlaces, Released, Preparing, Busy, Alive, TypeOK
<1>10. ASSUME NEW d \in Drivers, Part(d) PROVE ReleasedIsUndriven'
  <2>1. CASE Spawned(wait, d, "exiting")
    BY <1>0, <1>10, <2>1 DEF Part, Spawned, run, Inv, LockFits, OutFits, ReleasedIsUndriven, Shape, Driving, Departing, DriverPlaces, Released, Preparing, Busy, Alive, TypeOK
  <2>2. CASE Goto(d, "exiting")
    BY <1>0, <1>10, <2>2 DEF Part, Goto, run, Inv, LockFits, OutFits, ReleasedIsUndriven, Shape, Driving, Departing, DriverPlaces, Released, Preparing, Busy, Alive, TypeOK
  <2> QED BY <1>0, <1>10, <2>1, <2>2, DepartureSpawns
<1>11. ASSUME NEW d \in Drivers, Exit(d) PROVE ReleasedIsUndriven'
  BY <1>0, <1>11 DEF Exit, Ends, run, Inv, LockFits, OutFits, ReleasedIsUndriven, Shape, Driving, Departing, DriverPlaces, Released, Preparing, Busy, Alive, TypeOK
<1>12. ASSUME NEW d \in Drivers, AfterRelease(d) PROVE ReleasedIsUndriven'
  <2>1. CASE Spawned(wait, d, "exiting")
    BY <1>0, <1>12, <2>1 DEF AfterRelease, Spawned, run, Inv, LockFits, OutFits, ReleasedIsUndriven, Shape, Driving, Departing, DriverPlaces, Released, Preparing, Busy, Alive, TypeOK
  <2>2. CASE Goto(d, "exiting")
    BY <1>0, <1>12, <2>2 DEF AfterRelease, Goto, run, Inv, LockFits, OutFits, ReleasedIsUndriven, Shape, Driving, Departing, DriverPlaces, Released, Preparing, Busy, Alive, TypeOK
  <2> QED BY <1>0, <1>12, <2>1, <2>2, DepartureSpawns
<1>13. ASSUME NEW d \in Drivers, NEW n \in Nodes, Attempt(d, n) PROVE ReleasedIsUndriven'
  BY <1>0, <1>13 DEF Attempt, NodeEvent, Goto, run, Inv, LockFits, OutFits, ReleasedIsUndriven, Shape, Driving, Departing, DriverPlaces, Released, Preparing, Busy, Alive, TypeOK
<1>14. ASSUME NEW d \in Drivers, NEW n \in Nodes, EndAttempt(d, n) PROVE ReleasedIsUndriven'
  BY <1>0, <1>14 DEF EndAttempt, NodeEvent, Goto, run, Inv, LockFits, OutFits, ReleasedIsUndriven, Shape, Driving, Departing, DriverPlaces, Released, Preparing, Busy, Alive, TypeOK
<1>15. ASSUME NEW w \in Wakers, Start(w) PROVE ReleasedIsUndriven'
  BY <1>0, <1>15 DEF Start, Goto, Ends, run, Inv, LockFits, OutFits, ReleasedIsUndriven, Shape, Driving, Departing, DriverPlaces, Released, Preparing, Busy, Alive, TypeOK
<1>16. ASSUME NEW w \in Wakers, Rouse(w) PROVE ReleasedIsUndriven'
  BY <1>0, <1>16 DEF Rouse, Goto, Ends, run, Inv, LockFits, OutFits, ReleasedIsUndriven, Shape, Driving, Departing, DriverPlaces, Released, Preparing, Busy, Alive, TypeOK
<1>17. ASSUME NEW w \in Wakers, Repause(w) PROVE ReleasedIsUndriven'
  BY <1>0, <1>17, Notes DEF Repause, Repauses, Enters, Spend, run, Inv, LockFits, OutFits, ReleasedIsUndriven, Shape, Driving, Departing, DriverPlaces, Released, Preparing, Busy, Alive, TypeOK
<1>18. ASSUME NEW w \in Wakers, Wake(w) PROVE ReleasedIsUndriven'
  <2>1. ASSUME Ends(w), UNCHANGED driverPid PROVE ReleasedIsUndriven'
    BY <1>0, <1>18, <2>1, Notes DEF Wake, Ends, run, Inv, LockFits, OutFits, ReleasedIsUndriven, Shape, Driving, Departing, DriverPlaces, Released, Preparing, Busy, Alive, TypeOK
  <2>2. ASSUME NEW d \in Drivers, Launched(d, wait, w) PROVE ReleasedIsUndriven'
    BY <1>0, <1>18, <2>2, Notes DEF Wake, Launched, run, Inv, LockFits, OutFits, ReleasedIsUndriven, Shape, Driving, Departing, DriverPlaces, Released, Preparing, Busy, Alive, TypeOK
  <2> QED BY <1>0, <1>18, <2>1, <2>2, WakeLaunches
<1>19. ASSUME NEW p \in Watchers, Watch(p) PROVE ReleasedIsUndriven'
  BY <1>0, <1>19 DEF Watch, Ends, run, Inv, LockFits, OutFits, ReleasedIsUndriven, Shape, Driving, Departing, DriverPlaces, Released, Preparing, Busy, Alive, TypeOK
<1>20. ASSUME NEW p \in Passes, TakeLease(p) PROVE ReleasedIsUndriven'
  BY <1>0, <1>20 DEF TakeLease, Goto, Ends, run, Inv, LockFits, OutFits, ReleasedIsUndriven, Shape, Driving, Departing, DriverPlaces, Released, Preparing, Busy, Alive, TypeOK
<1>21. ASSUME NEW p \in Passes, Probe(p) PROVE ReleasedIsUndriven'
  <2>1. Spawned(last + 1, p, "off")
    BY <1>0, <1>21, ProbeSpawns
  <2> QED BY <1>0, <1>21, <2>1 DEF Probe, Repauses, Enters, Spawned, run, Inv, LockFits, OutFits, ReleasedIsUndriven, Shape, Driving, Departing, DriverPlaces, Released, Preparing, Busy, Alive, TypeOK
<1>22. ASSUME NEW p \in Passes, Sweep(p) PROVE ReleasedIsUndriven'
  <2>1. ASSUME Ends(p), UNCHANGED driverPid PROVE ReleasedIsUndriven'
    BY <1>0, <1>22, <2>1, Notes DEF Sweep, Ends, run, Inv, LockFits, OutFits, ReleasedIsUndriven, Shape, Driving, Departing, DriverPlaces, Released, Preparing, Busy, Alive, TypeOK
  <2>2. ASSUME NEW d \in Drivers, Launched(d, local[p].hold, p) PROVE ReleasedIsUndriven'
    BY <1>0, <1>22, <2>2, Notes DEF Sweep, Launched, run, Inv, LockFits, OutFits, ReleasedIsUndriven, Shape, Driving, Departing, DriverPlaces, Released, Preparing, Busy, Alive, TypeOK
  <2> QED BY <1>0, <1>22, <2>1, <2>2, SweepLaunches
<1>23. ASSUME NEW p \in Passes, Mark(p) PROVE ReleasedIsUndriven'
  BY <1>0, <1>23 DEF Mark, Ends, Loses, Enters, run, Inv, LockFits, OutFits, ReleasedIsUndriven, Shape, Driving, Departing, DriverPlaces, Released, Preparing, Busy, Alive, TypeOK
<1>24. ASSUME Stop PROVE ReleasedIsUndriven'
  BY <1>0, <1>24 DEF Stop, Spend, Enters, DriverAlive, Alive, run, Inv, LockFits, OutFits, ReleasedIsUndriven, Shape, Driving, Departing, DriverPlaces, Released, Preparing, Busy, Alive, TypeOK
<1>25. ASSUME RetryNow PROVE ReleasedIsUndriven'
  BY <1>0, <1>25 DEF RetryNow, Spend, DriverAlive, Alive, run, Inv, LockFits, OutFits, ReleasedIsUndriven, Shape, Driving, Departing, DriverPlaces, Released, Preparing, Busy, Alive, TypeOK
<1>26. ASSUME NEW time \in {PauseFor, Never}, Pause(time) PROVE ReleasedIsUndriven'
  <2>1. CASE UNCHANGED <<pc, local>>
    BY <1>0, <1>26, <2>1 DEF Pause, Enters, run, Inv, LockFits, OutFits, ReleasedIsUndriven, Shape, Driving, Departing, DriverPlaces, Released, Preparing, Busy, Alive, TypeOK
  <2>2. ASSUME Enters("paused", time), Spawned(last + 1, Nobody, "off") PROVE ReleasedIsUndriven'
    BY <1>0, <1>26, <2>2 DEF Pause, Enters, Spawned, run, Inv, LockFits, OutFits, ReleasedIsUndriven, Shape, Driving, Departing, DriverPlaces, Released, Preparing, Busy, Alive, TypeOK
  <2> QED BY <1>0, <1>26, <2>1, <2>2, PauseSpawns
<1>27. ASSUME NEW d \in Drivers, NEW now \in BOOLEAN, Resume(d, now) PROVE ReleasedIsUndriven'
  <2>1. Launched(d, 0, Nobody)
    BY <1>0, <1>27, ResumeLaunches
  <2> QED BY <1>0, <1>27, <2>1 DEF Resume, Launched, run, Inv, LockFits, OutFits, ReleasedIsUndriven, Shape, Driving, Departing, DriverPlaces, Released, Preparing, Busy, Alive, TypeOK
<1>28. ASSUME NEW p \in Passes, Look(p) PROVE ReleasedIsUndriven'
  <2>1. CASE Spawned(wait, Nobody, "off")
    BY <1>0, <1>28, <2>1 DEF Look, Spawned, run, Inv, LockFits, OutFits, ReleasedIsUndriven, Shape, Driving, Departing, DriverPlaces, Released, Preparing, Busy, Alive, TypeOK
  <2>2. ASSUME wait # 0 => Due, pc[p] = "off",
               pc' = [pc EXCEPT ![p] = IF wait = 0 THEN "sweeping" ELSE "looking"],
               local' = [local EXCEPT ![p] = [Fresh EXCEPT !.hold = wait, !.paused = status = "paused"]]
        PROVE  ReleasedIsUndriven'
    BY <1>0, <1>28, <2>2, Notes DEF Look, run, Inv, LockFits, OutFits, ReleasedIsUndriven, Shape, Driving, Departing, DriverPlaces, Released, Preparing, Busy, Alive, TypeOK
  <2> QED BY <1>0, <1>28, <2>1, <2>2, LookSpawns
<1>29. ASSUME OtherTakes PROVE ReleasedIsUndriven'
  BY <1>0, <1>29 DEF OtherTakes, Spend, Busy, Alive, run, Inv, LockFits, OutFits, ReleasedIsUndriven, Shape, Driving, Departing, DriverPlaces, Released, Preparing, Busy, Alive, TypeOK
<1>30. ASSUME OtherLeaves PROVE ReleasedIsUndriven'
  BY <1>0, <1>30 DEF OtherLeaves, run, Inv, LockFits, OutFits, ReleasedIsUndriven, Shape, Driving, Departing, DriverPlaces, Released, Preparing, Busy, Alive, TypeOK
<1>31. ASSUME Tick PROVE ReleasedIsUndriven'
  BY <1>0, <1>31 DEF Tick, run, Inv, LockFits, OutFits, ReleasedIsUndriven, Shape, Driving, Departing, DriverPlaces, Released, Preparing, Busy, Alive, TypeOK
<1>32. ASSUME NEW p \in Processes, Crash(p) PROVE ReleasedIsUndriven'
  BY <1>0, <1>32 DEF Crash, Spend, Ends, run, Inv, LockFits, OutFits, ReleasedIsUndriven, Shape, Driving, Departing, DriverPlaces, Released, Preparing, Busy, Alive, TypeOK
<1>33. ASSUME UNCHANGED vars PROVE ReleasedIsUndriven'
  BY <1>0, <1>33 DEF vars, run, Inv, LockFits, OutFits, ReleasedIsUndriven, Shape, Driving, Departing, DriverPlaces, Released, Preparing, Busy, Alive, TypeOK
<1> QED
  BY <1>1, <1>2, <1>3, <1>4, <1>5, <1>6, <1>7, <1>8, <1>9, <1>10, <1>11, <1>12, <1>13,
     <1>14, <1>15, <1>16, <1>17, <1>18, <1>19, <1>20, <1>21, <1>22, <1>23, <1>24, <1>25,
     <1>26, <1>27, <1>28, <1>29, <1>30, <1>31, <1>32, <1>33 DEF Next, Driver, Agent,
     Waker, Pass, Person, Watchers

\* What is posted is posted to a driver, and read before it ends.
LEMMA NewsHasAReaderKept ==
  ASSUME Inv, [Next]_vars
  PROVE  NewsHasAReader'
<1> USE Kinds
<1>0. Inv /\ Shape
  BY InvShape
<1>1. ASSUME NEW d \in Drivers, Plan(d) PROVE NewsHasAReader'
  <2>1. ASSUME pc[d] = "launched", pc' = [pc EXCEPT ![d] = "planned"],
               local' = [local EXCEPT ![d].plan = life], UNCHANGED lost
        PROVE  NewsHasAReader'
    BY <1>0, <1>1, <2>1, Notes DEF Plan, run, Inv, NewsHasAReader, Shape, Preparing, Driving, Urged
  <2>2. ASSUME pc[d] = "launched", ~(Holds(d) /\ status # "finished"), Ends(d), TurnsAway(d)
        PROVE  NewsHasAReader'
    BY <1>0, <1>1, <2>2, LossFacts DEF Plan, Ends, run, Inv, NewsHasAReader, Shape, Preparing, Driving, Urged
  <2> QED BY <1>1, <2>1, <2>2 DEF Plan
<1>2. ASSUME NEW d \in Drivers, TakeLock(d) PROVE NewsHasAReader'
  <2>1. ASSUME pc[d] = "planned", Goto(d, "locked"), lock' = d, UNCHANGED lost
        PROVE  NewsHasAReader'
    BY <1>0, <1>2, <2>1 DEF TakeLock, Goto, run, Inv, NewsHasAReader, Shape, Preparing, Driving, Urged
  <2>2. ASSUME pc[d] = "planned", Ends(d), UNCHANGED lock, Bounces(d)
        PROVE  NewsHasAReader'
    BY <1>0, <1>2, <2>2, LossFacts DEF TakeLock, Ends, run, Inv, NewsHasAReader, Shape, Preparing, Driving, Urged
  <2> QED BY <1>2, <2>1, <2>2 DEF TakeLock
<1>3. ASSUME NEW d \in Drivers, Admit(d) PROVE NewsHasAReader'
  <2>1. ASSUME pc[d] = "locked", Enters("running", Never), Goto(d, "entering"), UNCHANGED <<lock, control, driverPid>>
        PROVE  NewsHasAReader'
    BY <1>0, <2>1 DEF Enters, Goto, Inv, NewsHasAReader, Shape, Preparing, Driving, Urged
  <2>2. ASSUME pc[d] = "locked", ~(Holds(d) /\ life = local[d].plan), Ends(d), lock' = Nobody, TurnsAway(d),
               UNCHANGED <<node, run, control, driverPid>>
        PROVE  NewsHasAReader'
    BY <1>0, <2>2, LossFacts DEF Ends, run, Inv, NewsHasAReader, Shape, Preparing, Driving, Urged
  <2> QED BY <1>3, <2>1, <2>2 DEF Admit
<1>4. ASSUME NEW d \in Drivers, Claim(d) PROVE NewsHasAReader'
  BY <1>0, <1>4 DEF Claim, Goto, run, Inv, LockFits, OutFits, ReleasedIsUndriven, NewsHasAReader, Shape, Driving, Departing, DriverPlaces, Released, Preparing, Urged, Open, Held
<1>5. ASSUME NEW d \in Drivers, Scan(d) PROVE NewsHasAReader'
  BY <1>0, <1>5, Notes DEF Scan, Goto, Enters, run, Inv, LockFits, OutFits, ReleasedIsUndriven, NewsHasAReader, Shape, Driving, Departing, DriverPlaces, Released, Preparing, Urged, Open, Held
<1>6. ASSUME NEW d \in Drivers, Rest(d) PROVE NewsHasAReader'
  BY <1>0, <1>6 DEF Rest, Goto, run, Inv, LockFits, OutFits, ReleasedIsUndriven, NewsHasAReader, Shape, Driving, Departing, DriverPlaces, Released, Preparing, Urged, Open, Held
<1>7. ASSUME NEW d \in Drivers, Release(d) PROVE NewsHasAReader'
  BY <1>0, <1>7 DEF Release, Goto, run, Inv, LockFits, OutFits, ReleasedIsUndriven, NewsHasAReader, Shape, Driving, Departing, DriverPlaces, Released, Preparing, Urged, Open, Held
<1>8. ASSUME NEW d \in Drivers, Finish(d) PROVE NewsHasAReader'
  BY <1>0, <1>8 DEF Finish, Goto, Enters, run, Inv, LockFits, OutFits, ReleasedIsUndriven, NewsHasAReader, Shape, Driving, Departing, DriverPlaces, Released, Preparing, Urged, Open, Held
<1>9. ASSUME NEW d \in Drivers, Leave(d) PROVE NewsHasAReader'
  BY <1>0, <1>9 DEF Leave, Goto, run, Inv, LockFits, OutFits, ReleasedIsUndriven, NewsHasAReader, Shape, Driving, Departing, DriverPlaces, Released, Preparing, Urged, Open, Held
<1>10. ASSUME NEW d \in Drivers, Part(d) PROVE NewsHasAReader'
  <2>1. CASE Spawned(wait, d, "exiting")
    BY <1>0, <1>10, <2>1 DEF Part, Spawned, run, Inv, LockFits, OutFits, ReleasedIsUndriven, NewsHasAReader, Shape, Driving, Departing, DriverPlaces, Released, Preparing, Urged, Open, Held
  <2>2. CASE Goto(d, "exiting")
    BY <1>0, <1>10, <2>2 DEF Part, Goto, run, Inv, LockFits, OutFits, ReleasedIsUndriven, NewsHasAReader, Shape, Driving, Departing, DriverPlaces, Released, Preparing, Urged, Open, Held
  <2> QED BY <1>0, <1>10, <2>1, <2>2, DepartureSpawns
<1>11. ASSUME NEW d \in Drivers, Exit(d) PROVE NewsHasAReader'
  BY <1>0, <1>11 DEF Exit, Ends, run, Inv, LockFits, OutFits, ReleasedIsUndriven, NewsHasAReader, Shape, Driving, Departing, DriverPlaces, Released, Preparing, Urged, Open, Held
<1>12. ASSUME NEW d \in Drivers, AfterRelease(d) PROVE NewsHasAReader'
  <2>1. CASE Spawned(wait, d, "exiting")
    BY <1>0, <1>12, <2>1 DEF AfterRelease, Spawned, run, Inv, LockFits, OutFits, ReleasedIsUndriven, NewsHasAReader, Shape, Driving, Departing, DriverPlaces, Released, Preparing, Urged, Open, Held
  <2>2. CASE Goto(d, "exiting")
    BY <1>0, <1>12, <2>2 DEF AfterRelease, Goto, run, Inv, LockFits, OutFits, ReleasedIsUndriven, NewsHasAReader, Shape, Driving, Departing, DriverPlaces, Released, Preparing, Urged, Open, Held
  <2> QED BY <1>0, <1>12, <2>1, <2>2, DepartureSpawns
<1>13. ASSUME NEW d \in Drivers, NEW n \in Nodes, Attempt(d, n) PROVE NewsHasAReader'
  BY <1>0, <1>13 DEF Attempt, NodeEvent, Goto, run, Inv, LockFits, OutFits, ReleasedIsUndriven, NewsHasAReader, Shape, Driving, Departing, DriverPlaces, Released, Preparing, Urged, Open, Held
<1>14. ASSUME NEW d \in Drivers, NEW n \in Nodes, EndAttempt(d, n) PROVE NewsHasAReader'
  BY <1>0, <1>14 DEF EndAttempt, NodeEvent, Goto, run, Inv, LockFits, OutFits, ReleasedIsUndriven, NewsHasAReader, Shape, Driving, Departing, DriverPlaces, Released, Preparing, Urged, Open, Held
<1>15. ASSUME NEW w \in Wakers, Start(w) PROVE NewsHasAReader'
  BY <1>0, <1>15 DEF Start, Goto, Ends, run, Inv, LockFits, OutFits, ReleasedIsUndriven, NewsHasAReader, Shape, Driving, Departing, DriverPlaces, Released, Preparing, Urged, Open, Held
<1>16. ASSUME NEW w \in Wakers, Rouse(w) PROVE NewsHasAReader'
  BY <1>0, <1>16 DEF Rouse, Goto, Ends, run, Inv, LockFits, OutFits, ReleasedIsUndriven, NewsHasAReader, Shape, Driving, Departing, DriverPlaces, Released, Preparing, Urged, Open, Held
<1>17. ASSUME NEW w \in Wakers, Repause(w) PROVE NewsHasAReader'
  BY <1>0, <1>17, Notes DEF Repause, Repauses, Enters, Spend, run, Inv, LockFits, OutFits, ReleasedIsUndriven, NewsHasAReader, Shape, Driving, Departing, DriverPlaces, Released, Preparing, Urged, Open, Held
<1>18. ASSUME NEW w \in Wakers, Wake(w) PROVE NewsHasAReader'
  <2>1. ASSUME Ends(w), UNCHANGED driverPid, (UNCHANGED lost /\ wait # local[w].hold) \/ Loses(w)
        PROVE  NewsHasAReader'
    BY <1>0, <1>18, <2>1, LossFacts, Notes DEF Wake, Ends, run, Inv, NewsHasAReader, Shape, Preparing, Driving, Urged
  <2>2. ASSUME NEW d \in Drivers, Launched(d, wait, w), UNCHANGED lost, wait = local[w].hold
        PROVE  NewsHasAReader'
    BY <1>0, <1>18, <2>2, Notes DEF Wake, Launched, run, Inv, NewsHasAReader, Shape, Preparing, Driving, Urged
  <2> QED BY <1>0, <1>18, <2>1, <2>2, WakeLaunches
<1>19. ASSUME NEW p \in Watchers, Watch(p) PROVE NewsHasAReader'
  BY <1>0, <1>19 DEF Watch, Ends, run, Inv, LockFits, OutFits, ReleasedIsUndriven, NewsHasAReader, Shape, Driving, Departing, DriverPlaces, Released, Preparing, Urged, Open, Held
<1>20. ASSUME NEW p \in Passes, TakeLease(p) PROVE NewsHasAReader'
  BY <1>0, <1>20 DEF TakeLease, Goto, Ends, run, Inv, LockFits, OutFits, ReleasedIsUndriven, NewsHasAReader, Shape, Driving, Departing, DriverPlaces, Released, Preparing, Urged, Open, Held
<1>21. ASSUME NEW p \in Passes, Probe(p) PROVE NewsHasAReader'
  <2>1. Spawned(last + 1, p, "off")
    BY <1>0, <1>21, ProbeSpawns
  <2> QED BY <1>0, <1>21, <2>1 DEF Probe, Repauses, Enters, Spawned, run, Inv, LockFits, OutFits, ReleasedIsUndriven, NewsHasAReader, Shape, Driving, Departing, DriverPlaces, Released, Preparing, Urged, Open, Held
<1>22. ASSUME NEW p \in Passes, Sweep(p) PROVE NewsHasAReader'
  <2>1. ASSUME Ends(p), UNCHANGED driverPid, Loses(p)
        PROVE  NewsHasAReader'
    BY <1>0, <1>22, <2>1, LossFacts, Notes DEF Sweep, Ends, run, Inv, NewsHasAReader, Shape, Preparing, Driving, Urged
  <2>2. ASSUME NEW d \in Drivers, Launched(d, local[p].hold, p), UNCHANGED lost
        PROVE  NewsHasAReader'
    BY <1>0, <1>22, <2>2, Notes DEF Sweep, Launched, run, Inv, NewsHasAReader, Shape, Preparing, Driving, Urged
  <2> QED BY <1>0, <1>22, <2>1, <2>2, SweepLaunches
<1>23. ASSUME NEW p \in Passes, Mark(p) PROVE NewsHasAReader'
  BY <1>0, <1>23 DEF Mark, Ends, Loses, Enters, run, Inv, LockFits, OutFits, ReleasedIsUndriven, NewsHasAReader, Shape, Driving, Departing, DriverPlaces, Released, Preparing, Urged, Open, Held
<1>24. ASSUME Stop PROVE NewsHasAReader'
  <2>1. CASE DriverAlive
    BY <1>0, <1>24, <2>1, LiveDriver DEF Stop, run, Inv, NewsHasAReader, Shape, Preparing, Driving, Urged
  <2>2. CASE ~DriverAlive
    BY <1>0, <1>24, <2>2 DEF Stop, Enters, Inv, NewsHasAReader, Shape, Preparing, Driving, Urged
  <2> QED BY <2>1, <2>2
<1>25. ASSUME RetryNow PROVE NewsHasAReader'
  <2>1. \E d \in Drivers : pc[d] \in Preparing \cup Driving
    BY <1>0, <1>25, LiveDriver DEF RetryNow
  <2> QED BY <1>25, <2>1 DEF RetryNow, NewsHasAReader
<1>26. ASSUME NEW time \in {PauseFor, Never}, Pause(time) PROVE NewsHasAReader'
  <2>1. CASE status # "paused" /\ DriverAlive
    <3>1. status = "running"
      BY <1>0, <1>26, <2>1 DEF Pause, Terminal, Inv, TypeOK, Statuses
    <3>2. \E d \in Drivers : pc[d] \in Preparing \cup Driving
      BY <1>0, <2>1, <3>1, LiveDriver
    <3>3. CASE UNCHANGED <<pc, local>>
      BY <3>2, <3>3 DEF NewsHasAReader
    <3>4. CASE Enters("paused", time)
      BY <3>4 DEF Enters, NewsHasAReader
    <3> QED BY <1>0, <1>26, <3>3, <3>4, PauseSpawns
  <2>2. CASE ~(status # "paused" /\ DriverAlive)
    <3>1. Enters("paused", time)
      BY <1>26, <2>2 DEF Pause
    <3> QED BY <3>1 DEF Enters, NewsHasAReader
  <2> QED BY <2>1, <2>2
<1>27. ASSUME NEW d \in Drivers, NEW now \in BOOLEAN, Resume(d, now) PROVE NewsHasAReader'
  <2>1. Launched(d, 0, Nobody)
    BY <1>0, <1>27, ResumeLaunches
  <2> QED BY <1>0, <1>27, <2>1 DEF Resume, Launched, run, Inv, LockFits, OutFits, ReleasedIsUndriven, NewsHasAReader, Shape, Driving, Departing, DriverPlaces, Released, Preparing, Urged, Open, Held
<1>28. ASSUME NEW p \in Passes, Look(p) PROVE NewsHasAReader'
  <2>1. CASE Spawned(wait, Nobody, "off")
    BY <1>0, <1>28, <2>1 DEF Look, Spawned, run, Inv, LockFits, OutFits, ReleasedIsUndriven, NewsHasAReader, Shape, Driving, Departing, DriverPlaces, Released, Preparing, Urged, Open, Held
  <2>2. ASSUME wait # 0 => Due, pc[p] = "off",
               pc' = [pc EXCEPT ![p] = IF wait = 0 THEN "sweeping" ELSE "looking"],
               local' = [local EXCEPT ![p] = [Fresh EXCEPT !.hold = wait, !.paused = status = "paused"]]
        PROVE  NewsHasAReader'
    BY <1>0, <1>28, <2>2, Notes DEF Look, run, Inv, LockFits, OutFits, ReleasedIsUndriven, NewsHasAReader, Shape, Driving, Departing, DriverPlaces, Released, Preparing, Urged, Open, Held
  <2> QED BY <1>0, <1>28, <2>1, <2>2, LookSpawns
<1>29. ASSUME OtherTakes PROVE NewsHasAReader'
  BY <1>0, <1>29 DEF OtherTakes, Spend, Busy, Alive, run, Inv, LockFits, OutFits, ReleasedIsUndriven, NewsHasAReader, Shape, Driving, Departing, DriverPlaces, Released, Preparing, Urged, Open, Held
<1>30. ASSUME OtherLeaves PROVE NewsHasAReader'
  BY <1>0, <1>30 DEF OtherLeaves, run, Inv, LockFits, OutFits, ReleasedIsUndriven, NewsHasAReader, Shape, Driving, Departing, DriverPlaces, Released, Preparing, Urged, Open, Held
<1>31. ASSUME Tick PROVE NewsHasAReader'
  BY <1>0, <1>31 DEF Tick, run, Inv, LockFits, OutFits, ReleasedIsUndriven, NewsHasAReader, Shape, Driving, Departing, DriverPlaces, Released, Preparing, Urged, Open, Held
<1>32. ASSUME NEW p \in Processes, Crash(p) PROVE NewsHasAReader'
  BY <1>0, <1>32 DEF Crash, Spend, Ends, run, Inv, LockFits, OutFits, ReleasedIsUndriven, NewsHasAReader, Shape, Driving, Departing, DriverPlaces, Released, Preparing, Urged, Open, Held
<1>33. ASSUME UNCHANGED vars PROVE NewsHasAReader'
  BY <1>0, <1>33 DEF vars, run, Inv, LockFits, OutFits, ReleasedIsUndriven, NewsHasAReader, Shape, Driving, Departing, DriverPlaces, Released, Preparing, Urged, Open, Held
<1> QED
  BY <1>1, <1>2, <1>3, <1>4, <1>5, <1>6, <1>7, <1>8, <1>9, <1>10, <1>11, <1>12, <1>13,
     <1>14, <1>15, <1>16, <1>17, <1>18, <1>19, <1>20, <1>21, <1>22, <1>23, <1>24, <1>25,
     <1>26, <1>27, <1>28, <1>29, <1>30, <1>31, <1>32, <1>33 DEF Next, Driver, Agent,
     Waker, Pass, Person, Watchers

\* A lifecycle event ends the wait it was planned against.
LEMMA PlanFitsKept ==
  ASSUME Inv, [Next]_vars
  PROVE  PlanFits'
<1> USE Kinds
<1>0. Inv /\ Shape
  BY InvShape
<1>1. ASSUME NEW d \in Drivers, Plan(d) PROVE PlanFits'
  <2>1. ASSUME pc[d] = "launched", pc' = [pc EXCEPT ![d] = "planned"],
               local' = [local EXCEPT ![d].plan = life], UNCHANGED lost
        PROVE  PlanFits'
    BY <1>0, <1>1, <2>1, Notes DEF Plan, run, Inv, PlanFits, Shape
  <2>2. ASSUME pc[d] = "launched", ~(Holds(d) /\ status # "finished"), Ends(d), TurnsAway(d)
        PROVE  PlanFits'
    BY <1>0, <1>1, <2>2, LossFacts DEF Plan, Ends, run, Inv, PlanFits, Shape
  <2> QED BY <1>1, <2>1, <2>2 DEF Plan
<1>2. ASSUME NEW d \in Drivers, TakeLock(d) PROVE PlanFits'
  BY <1>0, <1>2 DEF TakeLock, Goto, Ends, Bounces, Holds, Busy, Alive, run, Inv, SeqsFit, PlanFits, ReleasedIsUndriven, Shape, Driving, Preparing, Released
<1>3. ASSUME NEW d \in Drivers, Admit(d) PROVE PlanFits'
  BY <1>0, <1>3 DEF Admit, Goto, Ends, Enters, TurnsAway, Holds, run, Inv, SeqsFit, PlanFits, ReleasedIsUndriven, Shape, Driving, Preparing, Released
<1>4. ASSUME NEW d \in Drivers, Claim(d) PROVE PlanFits'
  BY <1>0, <1>4 DEF Claim, Goto, run, Inv, SeqsFit, PlanFits, ReleasedIsUndriven, Shape, Driving, Preparing, Released
<1>5. ASSUME NEW d \in Drivers, Scan(d) PROVE PlanFits'
  BY <1>0, <1>5, Notes DEF Scan, Goto, Enters, run, Inv, SeqsFit, PlanFits, ReleasedIsUndriven, Shape, Driving, Preparing, Released
<1>6. ASSUME NEW d \in Drivers, Rest(d) PROVE PlanFits'
  BY <1>0, <1>6 DEF Rest, Goto, run, Inv, SeqsFit, PlanFits, ReleasedIsUndriven, Shape, Driving, Preparing, Released
<1>7. ASSUME NEW d \in Drivers, Release(d) PROVE PlanFits'
  BY <1>0, <1>7 DEF Release, Goto, run, Inv, SeqsFit, PlanFits, ReleasedIsUndriven, Shape, Driving, Preparing, Released
<1>8. ASSUME NEW d \in Drivers, Finish(d) PROVE PlanFits'
  BY <1>0, <1>8 DEF Finish, Goto, Enters, run, Inv, SeqsFit, PlanFits, ReleasedIsUndriven, Shape, Driving, Preparing, Released
<1>9. ASSUME NEW d \in Drivers, Leave(d) PROVE PlanFits'
  BY <1>0, <1>9 DEF Leave, Goto, run, Inv, SeqsFit, PlanFits, ReleasedIsUndriven, Shape, Driving, Preparing, Released
<1>10. ASSUME NEW d \in Drivers, Part(d) PROVE PlanFits'
  <2>1. CASE Spawned(wait, d, "exiting")
    BY <1>0, <1>10, <2>1 DEF Part, Spawned, run, Inv, SeqsFit, PlanFits, ReleasedIsUndriven, Shape, Driving, Preparing, Released
  <2>2. CASE Goto(d, "exiting")
    BY <1>0, <1>10, <2>2 DEF Part, Goto, run, Inv, SeqsFit, PlanFits, ReleasedIsUndriven, Shape, Driving, Preparing, Released
  <2> QED BY <1>0, <1>10, <2>1, <2>2, DepartureSpawns
<1>11. ASSUME NEW d \in Drivers, Exit(d) PROVE PlanFits'
  BY <1>0, <1>11 DEF Exit, Ends, run, Inv, SeqsFit, PlanFits, ReleasedIsUndriven, Shape, Driving, Preparing, Released
<1>12. ASSUME NEW d \in Drivers, AfterRelease(d) PROVE PlanFits'
  <2>1. CASE Spawned(wait, d, "exiting")
    BY <1>0, <1>12, <2>1 DEF AfterRelease, Spawned, run, Inv, SeqsFit, PlanFits, ReleasedIsUndriven, Shape, Driving, Preparing, Released
  <2>2. CASE Goto(d, "exiting")
    BY <1>0, <1>12, <2>2 DEF AfterRelease, Goto, run, Inv, SeqsFit, PlanFits, ReleasedIsUndriven, Shape, Driving, Preparing, Released
  <2> QED BY <1>0, <1>12, <2>1, <2>2, DepartureSpawns
<1>13. ASSUME NEW d \in Drivers, NEW n \in Nodes, Attempt(d, n) PROVE PlanFits'
  BY <1>0, <1>13 DEF Attempt, NodeEvent, Goto, run, Inv, SeqsFit, PlanFits, ReleasedIsUndriven, Shape, Driving, Preparing, Released
<1>14. ASSUME NEW d \in Drivers, NEW n \in Nodes, EndAttempt(d, n) PROVE PlanFits'
  BY <1>0, <1>14 DEF EndAttempt, NodeEvent, Goto, run, Inv, SeqsFit, PlanFits, ReleasedIsUndriven, Shape, Driving, Preparing, Released
<1>15. ASSUME NEW w \in Wakers, Start(w) PROVE PlanFits'
  BY <1>0, <1>15 DEF Start, Goto, Ends, run, Inv, SeqsFit, PlanFits, ReleasedIsUndriven, Shape, Driving, Preparing, Released
<1>16. ASSUME NEW w \in Wakers, Rouse(w) PROVE PlanFits'
  BY <1>0, <1>16 DEF Rouse, Goto, Ends, run, Inv, SeqsFit, PlanFits, ReleasedIsUndriven, Shape, Driving, Preparing, Released
<1>17. ASSUME NEW w \in Wakers, Repause(w) PROVE PlanFits'
  BY <1>0, <1>17, Notes DEF Repause, Repauses, Enters, Spend, run, Inv, SeqsFit, PlanFits, ReleasedIsUndriven, Shape, Driving, Preparing, Released
<1>18. ASSUME NEW w \in Wakers, Wake(w) PROVE PlanFits'
  <2>1. ASSUME Ends(w), UNCHANGED driverPid PROVE PlanFits'
    BY <1>0, <1>18, <2>1, Notes DEF Wake, Ends, run, Inv, SeqsFit, PlanFits, ReleasedIsUndriven, Shape, Driving, Preparing, Released
  <2>2. ASSUME NEW d \in Drivers, Launched(d, wait, w) PROVE PlanFits'
    BY <1>0, <1>18, <2>2, Notes DEF Wake, Launched, run, Inv, SeqsFit, PlanFits, ReleasedIsUndriven, Shape, Driving, Preparing, Released
  <2> QED BY <1>0, <1>18, <2>1, <2>2, WakeLaunches
<1>19. ASSUME NEW p \in Watchers, Watch(p) PROVE PlanFits'
  BY <1>0, <1>19 DEF Watch, Ends, run, Inv, SeqsFit, PlanFits, ReleasedIsUndriven, Shape, Driving, Preparing, Released
<1>20. ASSUME NEW p \in Passes, TakeLease(p) PROVE PlanFits'
  BY <1>0, <1>20 DEF TakeLease, Goto, Ends, run, Inv, SeqsFit, PlanFits, ReleasedIsUndriven, Shape, Driving, Preparing, Released
<1>21. ASSUME NEW p \in Passes, Probe(p) PROVE PlanFits'
  <2>1. Spawned(last + 1, p, "off")
    BY <1>0, <1>21, ProbeSpawns
  <2> QED BY <1>0, <1>21, <2>1 DEF Probe, Repauses, Enters, Spawned, run, Inv, SeqsFit, PlanFits, ReleasedIsUndriven, Shape, Driving, Preparing, Released
<1>22. ASSUME NEW p \in Passes, Sweep(p) PROVE PlanFits'
  <2>1. ASSUME Ends(p), UNCHANGED driverPid PROVE PlanFits'
    BY <1>0, <1>22, <2>1, Notes DEF Sweep, Ends, run, Inv, SeqsFit, PlanFits, ReleasedIsUndriven, Shape, Driving, Preparing, Released
  <2>2. ASSUME NEW d \in Drivers, Launched(d, local[p].hold, p) PROVE PlanFits'
    BY <1>0, <1>22, <2>2, Notes DEF Sweep, Launched, run, Inv, SeqsFit, PlanFits, ReleasedIsUndriven, Shape, Driving, Preparing, Released
  <2> QED BY <1>0, <1>22, <2>1, <2>2, SweepLaunches
<1>23. ASSUME NEW p \in Passes, Mark(p) PROVE PlanFits'
  BY <1>0, <1>23 DEF Mark, Ends, Loses, Enters, run, Inv, SeqsFit, PlanFits, ReleasedIsUndriven, Shape, Driving, Preparing, Released
<1>24. ASSUME Stop PROVE PlanFits'
  BY <1>0, <1>24 DEF Stop, Spend, Enters, DriverAlive, Alive, run, Inv, SeqsFit, PlanFits, ReleasedIsUndriven, Shape, Driving, Preparing, Released
<1>25. ASSUME RetryNow PROVE PlanFits'
  BY <1>0, <1>25 DEF RetryNow, Spend, DriverAlive, Alive, run, Inv, SeqsFit, PlanFits, ReleasedIsUndriven, Shape, Driving, Preparing, Released
<1>26. ASSUME NEW time \in {PauseFor, Never}, Pause(time) PROVE PlanFits'
  <2>1. CASE UNCHANGED <<pc, local>>
    BY <1>0, <1>26, <2>1 DEF Pause, Enters, run, Inv, SeqsFit, PlanFits, ReleasedIsUndriven, Shape, Driving, Preparing, Released
  <2>2. ASSUME Enters("paused", time), Spawned(last + 1, Nobody, "off") PROVE PlanFits'
    BY <1>0, <1>26, <2>2 DEF Pause, Enters, Spawned, run, Inv, SeqsFit, PlanFits, ReleasedIsUndriven, Shape, Driving, Preparing, Released
  <2> QED BY <1>0, <1>26, <2>1, <2>2, PauseSpawns
<1>27. ASSUME NEW d \in Drivers, NEW now \in BOOLEAN, Resume(d, now) PROVE PlanFits'
  <2>1. Launched(d, 0, Nobody)
    BY <1>0, <1>27, ResumeLaunches
  <2> QED BY <1>0, <1>27, <2>1 DEF Resume, Launched, run, Inv, SeqsFit, PlanFits, ReleasedIsUndriven, Shape, Driving, Preparing, Released
<1>28. ASSUME NEW p \in Passes, Look(p) PROVE PlanFits'
  <2>1. CASE Spawned(wait, Nobody, "off")
    BY <1>0, <1>28, <2>1 DEF Look, Spawned, run, Inv, SeqsFit, PlanFits, ReleasedIsUndriven, Shape, Driving, Preparing, Released
  <2>2. ASSUME wait # 0 => Due, pc[p] = "off",
               pc' = [pc EXCEPT ![p] = IF wait = 0 THEN "sweeping" ELSE "looking"],
               local' = [local EXCEPT ![p] = [Fresh EXCEPT !.hold = wait, !.paused = status = "paused"]]
        PROVE  PlanFits'
    BY <1>0, <1>28, <2>2, Notes DEF Look, run, Inv, SeqsFit, PlanFits, ReleasedIsUndriven, Shape, Driving, Preparing, Released
  <2> QED BY <1>0, <1>28, <2>1, <2>2, LookSpawns
<1>29. ASSUME OtherTakes PROVE PlanFits'
  BY <1>0, <1>29 DEF OtherTakes, Spend, Busy, Alive, run, Inv, SeqsFit, PlanFits, ReleasedIsUndriven, Shape, Driving, Preparing, Released
<1>30. ASSUME OtherLeaves PROVE PlanFits'
  BY <1>0, <1>30 DEF OtherLeaves, run, Inv, SeqsFit, PlanFits, ReleasedIsUndriven, Shape, Driving, Preparing, Released
<1>31. ASSUME Tick PROVE PlanFits'
  BY <1>0, <1>31 DEF Tick, run, Inv, SeqsFit, PlanFits, ReleasedIsUndriven, Shape, Driving, Preparing, Released
<1>32. ASSUME NEW p \in Processes, Crash(p) PROVE PlanFits'
  BY <1>0, <1>32 DEF Crash, Spend, Ends, run, Inv, SeqsFit, PlanFits, ReleasedIsUndriven, Shape, Driving, Preparing, Released
<1>33. ASSUME UNCHANGED vars PROVE PlanFits'
  BY <1>0, <1>33 DEF vars, run, Inv, SeqsFit, PlanFits, ReleasedIsUndriven, Shape, Driving, Preparing, Released
<1> QED
  BY <1>1, <1>2, <1>3, <1>4, <1>5, <1>6, <1>7, <1>8, <1>9, <1>10, <1>11, <1>12, <1>13,
     <1>14, <1>15, <1>16, <1>17, <1>18, <1>19, <1>20, <1>21, <1>22, <1>23, <1>24, <1>25,
     <1>26, <1>27, <1>28, <1>29, <1>30, <1>31, <1>32, <1>33 DEF Next, Driver, Agent,
     Waker, Pass, Person, Watchers

\* No process takes the pid of a driver that is watched.
LEMMA ChildFitsKept ==
  ASSUME Inv, [Next]_vars
  PROVE  ChildFits'
<1> USE Kinds
<1>0. Inv /\ Shape
  BY InvShape
<1>1. ASSUME NEW d \in Drivers, Plan(d) PROVE ChildFits'
  <2>1. ASSUME pc[d] = "launched", pc' = [pc EXCEPT ![d] = "planned"],
               local' = [local EXCEPT ![d].plan = life], UNCHANGED lost
        PROVE  ChildFits'
    BY <1>0, <1>1, <2>1, Notes DEF Plan, run, Inv, ChildFits, Shape, Preparing
  <2>2. ASSUME pc[d] = "launched", ~(Holds(d) /\ status # "finished"), Ends(d), TurnsAway(d)
        PROVE  ChildFits'
    BY <1>0, <1>1, <2>2, LossFacts, WantedIsAdmitted DEF Plan, Ends, run, Inv, ChildFits, Shape, Preparing
  <2> QED BY <1>1, <2>1, <2>2 DEF Plan
<1>2. ASSUME NEW d \in Drivers, TakeLock(d) PROVE ChildFits'
  BY <1>0, <1>2 DEF TakeLock, Goto, Ends, Bounces, Holds, Busy, Alive, run, Inv, SeqsFit, LockFits, ReleasedIsUndriven, ChildFits, Shape, Driving, Preparing, Released, Holds
<1>3. ASSUME NEW d \in Drivers, Admit(d) PROVE ChildFits'
  <2>1. ASSUME pc[d] = "locked", Enters("running", Never), Goto(d, "entering"), UNCHANGED <<lock, control, driverPid>>
        PROVE  ChildFits'
    BY <1>0, <2>1 DEF Enters, Goto, Inv, ChildFits, Shape, Preparing
  <2>2. ASSUME pc[d] = "locked", ~(Holds(d) /\ life = local[d].plan), Ends(d), lock' = Nobody, TurnsAway(d),
               UNCHANGED <<node, run, control, driverPid>>
        PROVE  ChildFits'
    BY <1>0, <2>2, LossFacts, WantedIsAdmitted DEF Ends, run, Inv, ChildFits, Shape, Preparing
  <2> QED BY <1>3, <2>1, <2>2 DEF Admit
<1>4. ASSUME NEW d \in Drivers, Claim(d) PROVE ChildFits'
  BY <1>0, <1>4 DEF Claim, Goto, run, Inv, SeqsFit, LockFits, ReleasedIsUndriven, ChildFits, Shape, Driving, Preparing, Released, Holds
<1>5. ASSUME NEW d \in Drivers, Scan(d) PROVE ChildFits'
  BY <1>0, <1>5, Notes DEF Scan, Goto, Enters, run, Inv, SeqsFit, LockFits, ReleasedIsUndriven, ChildFits, Shape, Driving, Preparing, Released, Holds
<1>6. ASSUME NEW d \in Drivers, Rest(d) PROVE ChildFits'
  BY <1>0, <1>6 DEF Rest, Goto, run, Inv, SeqsFit, LockFits, ReleasedIsUndriven, ChildFits, Shape, Driving, Preparing, Released, Holds
<1>7. ASSUME NEW d \in Drivers, Release(d) PROVE ChildFits'
  BY <1>0, <1>7 DEF Release, Goto, run, Inv, SeqsFit, LockFits, ReleasedIsUndriven, ChildFits, Shape, Driving, Preparing, Released, Holds
<1>8. ASSUME NEW d \in Drivers, Finish(d) PROVE ChildFits'
  BY <1>0, <1>8 DEF Finish, Goto, Enters, run, Inv, SeqsFit, LockFits, ReleasedIsUndriven, ChildFits, Shape, Driving, Preparing, Released, Holds
<1>9. ASSUME NEW d \in Drivers, Leave(d) PROVE ChildFits'
  BY <1>0, <1>9 DEF Leave, Goto, run, Inv, SeqsFit, LockFits, ReleasedIsUndriven, ChildFits, Shape, Driving, Preparing, Released, Holds
<1>10. ASSUME NEW d \in Drivers, Part(d) PROVE ChildFits'
  <2>1. CASE Spawned(wait, d, "exiting")
    BY <1>0, <1>10, <2>1 DEF Part, Spawned, run, Inv, SeqsFit, LockFits, ReleasedIsUndriven, ChildFits, Shape, Driving, Preparing, Released, Holds
  <2>2. CASE Goto(d, "exiting")
    BY <1>0, <1>10, <2>2 DEF Part, Goto, run, Inv, SeqsFit, LockFits, ReleasedIsUndriven, ChildFits, Shape, Driving, Preparing, Released, Holds
  <2> QED BY <1>0, <1>10, <2>1, <2>2, DepartureSpawns
<1>11. ASSUME NEW d \in Drivers, Exit(d) PROVE ChildFits'
  BY <1>0, <1>11 DEF Exit, Ends, run, Inv, SeqsFit, LockFits, ReleasedIsUndriven, ChildFits, Shape, Driving, Preparing, Released, Holds
<1>12. ASSUME NEW d \in Drivers, AfterRelease(d) PROVE ChildFits'
  <2>1. CASE Spawned(wait, d, "exiting")
    BY <1>0, <1>12, <2>1 DEF AfterRelease, Spawned, run, Inv, SeqsFit, LockFits, ReleasedIsUndriven, ChildFits, Shape, Driving, Preparing, Released, Holds
  <2>2. CASE Goto(d, "exiting")
    BY <1>0, <1>12, <2>2 DEF AfterRelease, Goto, run, Inv, SeqsFit, LockFits, ReleasedIsUndriven, ChildFits, Shape, Driving, Preparing, Released, Holds
  <2> QED BY <1>0, <1>12, <2>1, <2>2, DepartureSpawns
<1>13. ASSUME NEW d \in Drivers, NEW n \in Nodes, Attempt(d, n) PROVE ChildFits'
  BY <1>0, <1>13 DEF Attempt, NodeEvent, Goto, run, Inv, SeqsFit, LockFits, ReleasedIsUndriven, ChildFits, Shape, Driving, Preparing, Released, Holds
<1>14. ASSUME NEW d \in Drivers, NEW n \in Nodes, EndAttempt(d, n) PROVE ChildFits'
  BY <1>0, <1>14 DEF EndAttempt, NodeEvent, Goto, run, Inv, SeqsFit, LockFits, ReleasedIsUndriven, ChildFits, Shape, Driving, Preparing, Released, Holds
<1>15. ASSUME NEW w \in Wakers, Start(w) PROVE ChildFits'
  BY <1>0, <1>15 DEF Start, Goto, Ends, run, Inv, SeqsFit, LockFits, ReleasedIsUndriven, ChildFits, Shape, Driving, Preparing, Released, Holds
<1>16. ASSUME NEW w \in Wakers, Rouse(w) PROVE ChildFits'
  BY <1>0, <1>16 DEF Rouse, Goto, Ends, run, Inv, SeqsFit, LockFits, ReleasedIsUndriven, ChildFits, Shape, Driving, Preparing, Released, Holds
<1>17. ASSUME NEW w \in Wakers, Repause(w) PROVE ChildFits'
  BY <1>0, <1>17, Notes DEF Repause, Repauses, Enters, Spend, run, Inv, SeqsFit, LockFits, ReleasedIsUndriven, ChildFits, Shape, Driving, Preparing, Released, Holds
<1>18. ASSUME NEW w \in Wakers, Wake(w) PROVE ChildFits'
  <2>1. ASSUME Ends(w), UNCHANGED driverPid, (UNCHANGED lost /\ wait # local[w].hold) \/ Loses(w)
        PROVE  ChildFits'
    BY <1>0, <1>18, <2>1, LossFacts, Notes DEF Wake, Ends, run, Inv, ChildFits, Shape, Preparing
  <2>2. ASSUME NEW d \in Drivers, Launched(d, wait, w), UNCHANGED lost, wait = local[w].hold
        PROVE  ChildFits'
    BY <1>0, <1>18, <2>2, Notes DEF Wake, Launched, run, Inv, ChildFits, Shape, Preparing
  <2> QED BY <1>0, <1>18, <2>1, <2>2, WakeLaunches
<1>19. ASSUME NEW p \in Watchers, Watch(p) PROVE ChildFits'
  BY <1>0, <1>19 DEF Watch, Ends, run, Inv, SeqsFit, LockFits, ReleasedIsUndriven, ChildFits, Shape, Driving, Preparing, Released, Holds
<1>20. ASSUME NEW p \in Passes, TakeLease(p) PROVE ChildFits'
  BY <1>0, <1>20 DEF TakeLease, Goto, Ends, run, Inv, SeqsFit, LockFits, ReleasedIsUndriven, ChildFits, Shape, Driving, Preparing, Released, Holds
<1>21. ASSUME NEW p \in Passes, Probe(p) PROVE ChildFits'
  <2>1. Spawned(last + 1, p, "off")
    BY <1>0, <1>21, ProbeSpawns
  <2> QED BY <1>0, <1>21, <2>1 DEF Probe, Repauses, Enters, Spawned, run, Inv, SeqsFit, LockFits, ReleasedIsUndriven, ChildFits, Shape, Driving, Preparing, Released, Holds
<1>22. ASSUME NEW p \in Passes, Sweep(p) PROVE ChildFits'
  <2>1. ASSUME Ends(p), UNCHANGED driverPid, Loses(p)
        PROVE  ChildFits'
    BY <1>0, <1>22, <2>1, LossFacts, Notes DEF Sweep, Ends, run, Inv, ChildFits, Shape, Preparing
  <2>2. ASSUME NEW d \in Drivers, Launched(d, local[p].hold, p), UNCHANGED lost
        PROVE  ChildFits'
    BY <1>0, <1>22, <2>2, Notes DEF Sweep, Launched, run, Inv, ChildFits, Shape, Preparing
  <2> QED BY <1>0, <1>22, <2>1, <2>2, SweepLaunches
<1>23. ASSUME NEW p \in Passes, Mark(p) PROVE ChildFits'
  BY <1>0, <1>23 DEF Mark, Ends, Loses, Enters, run, Inv, SeqsFit, LockFits, ReleasedIsUndriven, ChildFits, Shape, Driving, Preparing, Released, Holds
<1>24. ASSUME Stop PROVE ChildFits'
  BY <1>0, <1>24 DEF Stop, Spend, Enters, DriverAlive, Alive, run, Inv, SeqsFit, LockFits, ReleasedIsUndriven, ChildFits, Shape, Driving, Preparing, Released, Holds
<1>25. ASSUME RetryNow PROVE ChildFits'
  BY <1>0, <1>25 DEF RetryNow, Spend, DriverAlive, Alive, run, Inv, SeqsFit, LockFits, ReleasedIsUndriven, ChildFits, Shape, Driving, Preparing, Released, Holds
<1>26. ASSUME NEW time \in {PauseFor, Never}, Pause(time) PROVE ChildFits'
  <2>1. CASE UNCHANGED <<pc, local>>
    BY <1>0, <1>26, <2>1 DEF Pause, Enters, run, Inv, SeqsFit, LockFits, ReleasedIsUndriven, ChildFits, Shape, Driving, Preparing, Released, Holds
  <2>2. ASSUME Enters("paused", time), Spawned(last + 1, Nobody, "off") PROVE ChildFits'
    BY <1>0, <1>26, <2>2 DEF Pause, Enters, Spawned, run, Inv, SeqsFit, LockFits, ReleasedIsUndriven, ChildFits, Shape, Driving, Preparing, Released, Holds
  <2> QED BY <1>0, <1>26, <2>1, <2>2, PauseSpawns
<1>27. ASSUME NEW d \in Drivers, NEW now \in BOOLEAN, Resume(d, now) PROVE ChildFits'
  <2>1. Launched(d, 0, Nobody)
    BY <1>0, <1>27, ResumeLaunches
  <2> QED BY <1>0, <1>27, <2>1 DEF Resume, Launched, run, Inv, SeqsFit, LockFits, ReleasedIsUndriven, ChildFits, Shape, Driving, Preparing, Released, Holds
<1>28. ASSUME NEW p \in Passes, Look(p) PROVE ChildFits'
  <2>1. CASE Spawned(wait, Nobody, "off")
    BY <1>0, <1>28, <2>1 DEF Look, Spawned, run, Inv, SeqsFit, LockFits, ReleasedIsUndriven, ChildFits, Shape, Driving, Preparing, Released, Holds
  <2>2. ASSUME wait # 0 => Due, pc[p] = "off",
               pc' = [pc EXCEPT ![p] = IF wait = 0 THEN "sweeping" ELSE "looking"],
               local' = [local EXCEPT ![p] = [Fresh EXCEPT !.hold = wait, !.paused = status = "paused"]]
        PROVE  ChildFits'
    BY <1>0, <1>28, <2>2, Notes DEF Look, run, Inv, SeqsFit, LockFits, ReleasedIsUndriven, ChildFits, Shape, Driving, Preparing, Released, Holds
  <2> QED BY <1>0, <1>28, <2>1, <2>2, LookSpawns
<1>29. ASSUME OtherTakes PROVE ChildFits'
  BY <1>0, <1>29 DEF OtherTakes, Spend, Busy, Alive, run, Inv, SeqsFit, LockFits, ReleasedIsUndriven, ChildFits, Shape, Driving, Preparing, Released, Holds
<1>30. ASSUME OtherLeaves PROVE ChildFits'
  BY <1>0, <1>30 DEF OtherLeaves, run, Inv, SeqsFit, LockFits, ReleasedIsUndriven, ChildFits, Shape, Driving, Preparing, Released, Holds
<1>31. ASSUME Tick PROVE ChildFits'
  BY <1>0, <1>31 DEF Tick, run, Inv, SeqsFit, LockFits, ReleasedIsUndriven, ChildFits, Shape, Driving, Preparing, Released, Holds
<1>32. ASSUME NEW p \in Processes, Crash(p) PROVE ChildFits'
  BY <1>0, <1>32 DEF Crash, Spend, Ends, run, Inv, SeqsFit, LockFits, ReleasedIsUndriven, ChildFits, Shape, Driving, Preparing, Released, Holds
<1>33. ASSUME UNCHANGED vars PROVE ChildFits'
  BY <1>0, <1>33 DEF vars, run, Inv, SeqsFit, LockFits, ReleasedIsUndriven, ChildFits, Shape, Driving, Preparing, Released, Holds
<1> QED
  BY <1>1, <1>2, <1>3, <1>4, <1>5, <1>6, <1>7, <1>8, <1>9, <1>10, <1>11, <1>12, <1>13,
     <1>14, <1>15, <1>16, <1>17, <1>18, <1>19, <1>20, <1>21, <1>22, <1>23, <1>24, <1>25,
     <1>26, <1>27, <1>28, <1>29, <1>30, <1>31, <1>32, <1>33 DEF Next, Driver, Agent,
     Waker, Pass, Person, Watchers

\* A wait that is over stays so, and is acted on then.
LEMMA DueFitsKept ==
  ASSUME Inv, [Next]_vars
  PROVE  DueFits'
<1> USE Kinds
<1>0. Inv /\ Shape
  BY InvShape
<1>1. ASSUME NEW d \in Drivers, Plan(d) PROVE DueFits'
  <2>1. ASSUME pc[d] = "launched", pc' = [pc EXCEPT ![d] = "planned"],
               local' = [local EXCEPT ![d].plan = life], UNCHANGED lost
        PROVE  DueFits'
    BY <1>0, <1>1, <2>1, Notes DEF Plan, run, Inv, DueFits, Shape, Due, Released, Urged, Preparing
  <2>2. ASSUME pc[d] = "launched", ~(Holds(d) /\ status # "finished"), Ends(d), TurnsAway(d)
        PROVE  DueFits'
    BY <1>0, <1>1, <2>2, LossFacts DEF Plan, Ends, run, Inv, DueFits, Shape, Due, Released, Urged, Preparing
  <2> QED BY <1>1, <2>1, <2>2 DEF Plan
<1>2. ASSUME NEW d \in Drivers, TakeLock(d) PROVE DueFits'
  BY <1>0, <1>2 DEF TakeLock, Goto, Ends, Bounces, Holds, Busy, Alive, run, Inv, SeqsFit, LockFits, ReleasedIsUndriven, DueFits, Shape, Due, Released, Urged, Preparing, Driving, Open, Held
<1>3. ASSUME NEW d \in Drivers, Admit(d) PROVE DueFits'
  <2>1. ASSUME pc[d] = "locked", Enters("running", Never), Goto(d, "entering"), UNCHANGED <<lock, control, driverPid>>
        PROVE  DueFits'
    BY <1>0, <2>1 DEF Enters, Goto, Inv, DueFits, Shape, Due, Released, Urged, Preparing
  <2>2. ASSUME pc[d] = "locked", ~(Holds(d) /\ life = local[d].plan), Ends(d), lock' = Nobody, TurnsAway(d),
               UNCHANGED <<node, run, control, driverPid>>
        PROVE  DueFits'
    BY <1>0, <2>2, LossFacts DEF Ends, run, Inv, DueFits, Shape, Due, Released, Urged, Preparing
  <2> QED BY <1>3, <2>1, <2>2 DEF Admit
<1>4. ASSUME NEW d \in Drivers, Claim(d) PROVE DueFits'
  BY <1>0, <1>4 DEF Claim, Goto, run, Inv, SeqsFit, LockFits, ReleasedIsUndriven, DueFits, Shape, Due, Released, Urged, Preparing, Driving, Open, Held
<1>5. ASSUME NEW d \in Drivers, Scan(d) PROVE DueFits'
  BY <1>0, <1>5, Notes DEF Scan, Goto, Enters, run, Inv, SeqsFit, LockFits, ReleasedIsUndriven, DueFits, Shape, Due, Released, Urged, Preparing, Driving, Open, Held
<1>6. ASSUME NEW d \in Drivers, Rest(d) PROVE DueFits'
  BY <1>0, <1>6 DEF Rest, Goto, run, Inv, SeqsFit, LockFits, ReleasedIsUndriven, DueFits, Shape, Due, Released, Urged, Preparing, Driving, Open, Held
<1>7. ASSUME NEW d \in Drivers, Release(d) PROVE DueFits'
  BY <1>0, <1>7 DEF Release, Goto, run, Inv, SeqsFit, LockFits, ReleasedIsUndriven, DueFits, Shape, Due, Released, Urged, Preparing, Driving, Open, Held
<1>8. ASSUME NEW d \in Drivers, Finish(d) PROVE DueFits'
  BY <1>0, <1>8 DEF Finish, Goto, Enters, run, Inv, SeqsFit, LockFits, ReleasedIsUndriven, DueFits, Shape, Due, Released, Urged, Preparing, Driving, Open, Held
<1>9. ASSUME NEW d \in Drivers, Leave(d) PROVE DueFits'
  BY <1>0, <1>9 DEF Leave, Goto, run, Inv, SeqsFit, LockFits, ReleasedIsUndriven, DueFits, Shape, Due, Released, Urged, Preparing, Driving, Open, Held
<1>10. ASSUME NEW d \in Drivers, Part(d) PROVE DueFits'
  <2>1. CASE Spawned(wait, d, "exiting")
    BY <1>0, <1>10, <2>1 DEF Part, Spawned, run, Inv, SeqsFit, LockFits, ReleasedIsUndriven, DueFits, Shape, Due, Released, Urged, Preparing, Driving, Open, Held
  <2>2. CASE Goto(d, "exiting")
    BY <1>0, <1>10, <2>2 DEF Part, Goto, run, Inv, SeqsFit, LockFits, ReleasedIsUndriven, DueFits, Shape, Due, Released, Urged, Preparing, Driving, Open, Held
  <2> QED BY <1>0, <1>10, <2>1, <2>2, DepartureSpawns
<1>11. ASSUME NEW d \in Drivers, Exit(d) PROVE DueFits'
  BY <1>0, <1>11 DEF Exit, Ends, run, Inv, SeqsFit, LockFits, ReleasedIsUndriven, DueFits, Shape, Due, Released, Urged, Preparing, Driving, Open, Held
<1>12. ASSUME NEW d \in Drivers, AfterRelease(d) PROVE DueFits'
  <2>1. CASE Spawned(wait, d, "exiting")
    BY <1>0, <1>12, <2>1 DEF AfterRelease, Spawned, run, Inv, SeqsFit, LockFits, ReleasedIsUndriven, DueFits, Shape, Due, Released, Urged, Preparing, Driving, Open, Held
  <2>2. CASE Goto(d, "exiting")
    BY <1>0, <1>12, <2>2 DEF AfterRelease, Goto, run, Inv, SeqsFit, LockFits, ReleasedIsUndriven, DueFits, Shape, Due, Released, Urged, Preparing, Driving, Open, Held
  <2> QED BY <1>0, <1>12, <2>1, <2>2, DepartureSpawns
<1>13. ASSUME NEW d \in Drivers, NEW n \in Nodes, Attempt(d, n) PROVE DueFits'
  BY <1>0, <1>13 DEF Attempt, NodeEvent, Goto, run, Inv, SeqsFit, LockFits, ReleasedIsUndriven, DueFits, Shape, Due, Released, Urged, Preparing, Driving, Open, Held
<1>14. ASSUME NEW d \in Drivers, NEW n \in Nodes, EndAttempt(d, n) PROVE DueFits'
  BY <1>0, <1>14 DEF EndAttempt, NodeEvent, Goto, run, Inv, SeqsFit, LockFits, ReleasedIsUndriven, DueFits, Shape, Due, Released, Urged, Preparing, Driving, Open, Held
<1>15. ASSUME NEW w \in Wakers, Start(w) PROVE DueFits'
  BY <1>0, <1>15 DEF Start, Goto, Ends, run, Inv, SeqsFit, LockFits, ReleasedIsUndriven, DueFits, Shape, Due, Released, Urged, Preparing, Driving, Open, Held
<1>16. ASSUME NEW w \in Wakers, Rouse(w) PROVE DueFits'
  BY <1>0, <1>16 DEF Rouse, Goto, Ends, run, Inv, SeqsFit, LockFits, ReleasedIsUndriven, DueFits, Shape, Due, Released, Urged, Preparing, Driving, Open, Held
<1>17. ASSUME NEW w \in Wakers, Repause(w) PROVE DueFits'
  BY <1>0, <1>17, Notes DEF Repause, Repauses, Enters, Spend, run, Inv, SeqsFit, LockFits, ReleasedIsUndriven, DueFits, Shape, Due, Released, Urged, Preparing, Driving, Open, Held
<1>18. ASSUME NEW w \in Wakers, Wake(w) PROVE DueFits'
  <2>1. ASSUME Ends(w), UNCHANGED driverPid, (UNCHANGED lost /\ wait # local[w].hold) \/ Loses(w)
        PROVE  DueFits'
    BY <1>0, <1>18, <2>1, LossFacts, Notes DEF Wake, Ends, run, Inv, DueFits, Shape, Due, Released, Urged, Preparing
  <2>2. ASSUME NEW d \in Drivers, Launched(d, wait, w), UNCHANGED lost, wait = local[w].hold
        PROVE  DueFits'
    BY <1>0, <1>18, <2>2, Notes DEF Wake, Launched, run, Inv, DueFits, Shape, Due, Released, Urged, Preparing
  <2> QED BY <1>0, <1>18, <2>1, <2>2, WakeLaunches
<1>19. ASSUME NEW p \in Watchers, Watch(p) PROVE DueFits'
  BY <1>0, <1>19 DEF Watch, Ends, run, Inv, SeqsFit, LockFits, ReleasedIsUndriven, DueFits, Shape, Due, Released, Urged, Preparing, Driving, Open, Held
<1>20. ASSUME NEW p \in Passes, TakeLease(p) PROVE DueFits'
  BY <1>0, <1>20 DEF TakeLease, Goto, Ends, run, Inv, SeqsFit, LockFits, ReleasedIsUndriven, DueFits, Shape, Due, Released, Urged, Preparing, Driving, Open, Held
<1>21. ASSUME NEW p \in Passes, Probe(p) PROVE DueFits'
  <2>1. Spawned(last + 1, p, "off")
    BY <1>0, <1>21, ProbeSpawns
  <2> QED BY <1>0, <1>21, <2>1 DEF Probe, Repauses, Enters, Spawned, run, Inv, SeqsFit, LockFits, ReleasedIsUndriven, DueFits, Shape, Due, Released, Urged, Preparing, Driving, Open, Held
<1>22. ASSUME NEW p \in Passes, Sweep(p) PROVE DueFits'
  <2>1. ASSUME Ends(p), UNCHANGED driverPid, Loses(p)
        PROVE  DueFits'
    BY <1>0, <1>22, <2>1, LossFacts, Notes DEF Sweep, Ends, run, Inv, DueFits, Shape, Due, Released, Urged, Preparing
  <2>2. ASSUME NEW d \in Drivers, Launched(d, local[p].hold, p), UNCHANGED lost
        PROVE  DueFits'
    BY <1>0, <1>22, <2>2, Notes DEF Sweep, Launched, run, Inv, DueFits, Shape, Due, Released, Urged, Preparing
  <2> QED BY <1>0, <1>22, <2>1, <2>2, SweepLaunches
<1>23. ASSUME NEW p \in Passes, Mark(p) PROVE DueFits'
  BY <1>0, <1>23 DEF Mark, Ends, Loses, Enters, run, Inv, SeqsFit, LockFits, ReleasedIsUndriven, DueFits, Shape, Due, Released, Urged, Preparing, Driving, Open, Held
<1>24. ASSUME Stop PROVE DueFits'
  BY <1>0, <1>24 DEF Stop, Spend, Enters, DriverAlive, Alive, run, Inv, SeqsFit, LockFits, ReleasedIsUndriven, DueFits, Shape, Due, Released, Urged, Preparing, Driving, Open, Held
<1>25. ASSUME RetryNow PROVE DueFits'
  BY <1>0, <1>25 DEF RetryNow, Spend, DriverAlive, Alive, run, Inv, SeqsFit, LockFits, ReleasedIsUndriven, DueFits, Shape, Due, Released, Urged, Preparing, Driving, Open, Held
<1>26. ASSUME NEW time \in {PauseFor, Never}, Pause(time) PROVE DueFits'
  <2>1. CASE UNCHANGED <<pc, local>>
    BY <1>0, <1>26, <2>1 DEF Pause, Enters, run, Inv, SeqsFit, LockFits, ReleasedIsUndriven, DueFits, Shape, Due, Released, Urged, Preparing, Driving, Open, Held
  <2>2. ASSUME Enters("paused", time), Spawned(last + 1, Nobody, "off") PROVE DueFits'
    BY <1>0, <1>26, <2>2 DEF Pause, Enters, Spawned, run, Inv, SeqsFit, LockFits, ReleasedIsUndriven, DueFits, Shape, Due, Released, Urged, Preparing, Driving, Open, Held
  <2> QED BY <1>0, <1>26, <2>1, <2>2, PauseSpawns
<1>27. ASSUME NEW d \in Drivers, NEW now \in BOOLEAN, Resume(d, now) PROVE DueFits'
  <2>1. Launched(d, 0, Nobody)
    BY <1>0, <1>27, ResumeLaunches
  <2> QED BY <1>0, <1>27, <2>1 DEF Resume, Launched, run, Inv, SeqsFit, LockFits, ReleasedIsUndriven, DueFits, Shape, Due, Released, Urged, Preparing, Driving, Open, Held
<1>28. ASSUME NEW p \in Passes, Look(p) PROVE DueFits'
  <2>1. CASE Spawned(wait, Nobody, "off")
    BY <1>0, <1>28, <2>1 DEF Look, Spawned, run, Inv, SeqsFit, LockFits, ReleasedIsUndriven, DueFits, Shape, Due, Released, Urged, Preparing, Driving, Open, Held
  <2>2. ASSUME wait # 0 => Due, pc[p] = "off",
               pc' = [pc EXCEPT ![p] = IF wait = 0 THEN "sweeping" ELSE "looking"],
               local' = [local EXCEPT ![p] = [Fresh EXCEPT !.hold = wait, !.paused = status = "paused"]]
        PROVE  DueFits'
    BY <1>0, <1>28, <2>2, Notes DEF Look, run, Inv, SeqsFit, LockFits, ReleasedIsUndriven, DueFits, Shape, Due, Released, Urged, Preparing, Driving, Open, Held
  <2> QED BY <1>0, <1>28, <2>1, <2>2, LookSpawns
<1>29. ASSUME OtherTakes PROVE DueFits'
  BY <1>0, <1>29 DEF OtherTakes, Spend, Busy, Alive, run, Inv, SeqsFit, LockFits, ReleasedIsUndriven, DueFits, Shape, Due, Released, Urged, Preparing, Driving, Open, Held
<1>30. ASSUME OtherLeaves PROVE DueFits'
  BY <1>0, <1>30 DEF OtherLeaves, run, Inv, SeqsFit, LockFits, ReleasedIsUndriven, DueFits, Shape, Due, Released, Urged, Preparing, Driving, Open, Held
<1>31. ASSUME Tick PROVE DueFits'
  BY <1>0, <1>31 DEF Tick, run, Inv, SeqsFit, LockFits, ReleasedIsUndriven, DueFits, Shape, Due, Released, Urged, Preparing, Driving, Open, Held
<1>32. ASSUME NEW p \in Processes, Crash(p) PROVE DueFits'
  BY <1>0, <1>32 DEF Crash, Spend, Ends, run, Inv, SeqsFit, LockFits, ReleasedIsUndriven, DueFits, Shape, Due, Released, Urged, Preparing, Driving, Open, Held
<1>33. ASSUME UNCHANGED vars PROVE DueFits'
  BY <1>0, <1>33 DEF vars, run, Inv, SeqsFit, LockFits, ReleasedIsUndriven, DueFits, Shape, Due, Released, Urged, Preparing, Driving, Open, Held
<1> QED
  BY <1>1, <1>2, <1>3, <1>4, <1>5, <1>6, <1>7, <1>8, <1>9, <1>10, <1>11, <1>12, <1>13,
     <1>14, <1>15, <1>16, <1>17, <1>18, <1>19, <1>20, <1>21, <1>22, <1>23, <1>24, <1>25,
     <1>26, <1>27, <1>28, <1>29, <1>30, <1>31, <1>32, <1>33 DEF Next, Driver, Agent,
     Waker, Pass, Person, Watchers

\* Whoever leaves a wait alone leaves it to another one.
LEMMA WaitIsWatchedKept ==
  ASSUME Inv, [Next]_vars
  PROVE  WaitIsWatched'
<1> USE Kinds
<1>0. Inv /\ Shape
  BY InvShape
<1>1. ASSUME NEW d \in Drivers, Plan(d) PROVE WaitIsWatched'
  <2>1. ASSUME pc[d] = "launched", pc' = [pc EXCEPT ![d] = "planned"],
               local' = [local EXCEPT ![d].plan = life], UNCHANGED lost
        PROVE  WaitIsWatched'
    BY <1>0, <1>1, <2>1, Notes DEF Plan, run, Inv, WaitIsWatched, Shape, Preparing
  <2>2. ASSUME pc[d] = "launched", ~(Holds(d) /\ status # "finished"), Ends(d), TurnsAway(d)
        PROVE  WaitIsWatched'
    BY <1>0, <1>1, <2>2, LossFacts, WantedIsAdmitted DEF Plan, Ends, run, Inv, WaitIsWatched, Shape, Preparing
  <2> QED BY <1>1, <2>1, <2>2 DEF Plan
<1>2. ASSUME NEW d \in Drivers, TakeLock(d) PROVE WaitIsWatched'
  <2>1. ASSUME pc[d] = "planned", Goto(d, "locked"), lock' = d, UNCHANGED lost
        PROVE  WaitIsWatched'
    BY <1>0, <1>2, <2>1 DEF TakeLock, Goto, run, Inv, WaitIsWatched, Shape, Preparing
  <2>2. ASSUME pc[d] = "planned", Ends(d), UNCHANGED lock, Bounces(d)
        PROVE  WaitIsWatched'
    BY <1>0, <1>2, <2>2, LossFacts DEF TakeLock, Ends, run, Inv, WaitIsWatched, Shape, Preparing
  <2> QED BY <1>2, <2>1, <2>2 DEF TakeLock
<1>3. ASSUME NEW d \in Drivers, Admit(d) PROVE WaitIsWatched'
  <2>1. ASSUME pc[d] = "locked", Enters("running", Never), Goto(d, "entering"), UNCHANGED <<lock, control, driverPid>>
        PROVE  WaitIsWatched'
    BY <1>0, <2>1 DEF Enters, Goto, Inv, WaitIsWatched, Shape, Preparing
  <2>2. ASSUME pc[d] = "locked", ~(Holds(d) /\ life = local[d].plan), Ends(d), lock' = Nobody, TurnsAway(d),
               UNCHANGED <<node, run, control, driverPid>>
        PROVE  WaitIsWatched'
    BY <1>0, <2>2, LossFacts, WantedIsAdmitted DEF Ends, run, Inv, WaitIsWatched, Shape, Preparing
  <2> QED BY <1>3, <2>1, <2>2 DEF Admit
<1>4. ASSUME NEW d \in Drivers, Claim(d) PROVE WaitIsWatched'
  BY <1>0, <1>4 DEF Claim, Goto, run, Inv, SeqsFit, LockFits, OutFits, ReleasedIsUndriven, ChildFits, WaitIsWatched, Shape, Driving, Preparing, Released, Leased
<1>5. ASSUME NEW d \in Drivers, Scan(d) PROVE WaitIsWatched'
  <2>1. CASE control = {} /\ Goto(d, "turn") /\ UNCHANGED run
    BY <1>0, <1>5, <2>1 DEF Scan, Goto, run, Inv, WaitIsWatched, Shape, Preparing
  <2>2. ASSUME NEW time, Enters("aborted", time) PROVE WaitIsWatched'
    BY <2>2 DEF Enters, WaitIsWatched
  <2>3. ASSUME NEW c \in control, c.kind = "pause", pc' = [pc EXCEPT ![d] = "leaving"],
               local' = [local EXCEPT ![d].paused = c.kind = "pause"]
        PROVE  WaitIsWatched'
    <3>1. \A m \in Memory : [m EXCEPT !.paused = TRUE].paused
      BY DEF Memory
    <3>2. local' = [local EXCEPT ![d].paused = TRUE]
      BY <2>3
    <3>3. pc'[d] = "leaving"
      BY <1>0, <2>3 DEF Shape
    <3>4. local'[d] = [local[d] EXCEPT !.paused = TRUE] /\ local[d] \in Memory
      BY <1>0, <3>2 DEF Shape
    <3>5. local'[d].paused
      BY <3>1, <3>4
    <3> QED BY <3>3, <3>5 DEF WaitIsWatched
  <2>4. \A c \in control : c.kind \in {"stop", "pause"}
    BY <1>0 DEF Inv, TypeOK, Stopping, Pausing
  <2> QED BY <1>5, <2>1, <2>2, <2>3, <2>4 DEF Scan
<1>6. ASSUME NEW d \in Drivers, Rest(d) PROVE WaitIsWatched'
  BY <1>0, <1>6 DEF Rest, Goto, run, Inv, SeqsFit, LockFits, OutFits, ReleasedIsUndriven, ChildFits, WaitIsWatched, Shape, Driving, Preparing, Released, Leased
<1>7. ASSUME NEW d \in Drivers, Release(d) PROVE WaitIsWatched'
  BY <1>0, <1>7 DEF Release, Goto, run, Inv, SeqsFit, LockFits, OutFits, ReleasedIsUndriven, ChildFits, WaitIsWatched, Shape, Driving, Preparing, Released, Leased
<1>8. ASSUME NEW d \in Drivers, Finish(d) PROVE WaitIsWatched'
  BY <1>0, <1>8 DEF Finish, Goto, Enters, run, Inv, SeqsFit, LockFits, OutFits, ReleasedIsUndriven, ChildFits, WaitIsWatched, Shape, Driving, Preparing, Released, Leased
<1>9. ASSUME NEW d \in Drivers, Leave(d) PROVE WaitIsWatched'
  BY <1>0, <1>9 DEF Leave, Goto, run, Inv, SeqsFit, LockFits, OutFits, ReleasedIsUndriven, ChildFits, WaitIsWatched, Shape, Driving, Preparing, Released, Leased
<1>10. ASSUME NEW d \in Drivers, Part(d) PROVE WaitIsWatched'
  <2>1. CASE Spawned(wait, d, "exiting")
    BY <1>0, <1>10, <2>1 DEF Part, Spawned, run, WaitIsWatched
  <2>2. ASSUME Goto(d, "exiting"), wait = 0 \/ left = Never \/ (pc[d] = "parting" /\ ~local[d].paused)
        PROVE  WaitIsWatched'
    BY <1>0, <1>10, <2>2 DEF Part, Goto, run, Inv, WaitIsWatched, Shape, Preparing
  <2> QED BY <1>0, <1>10, <2>1, <2>2, DepartureSpawns
<1>11. ASSUME NEW d \in Drivers, Exit(d) PROVE WaitIsWatched'
  BY <1>0, <1>11 DEF Exit, Ends, run, Inv, SeqsFit, LockFits, OutFits, ReleasedIsUndriven, ChildFits, WaitIsWatched, Shape, Driving, Preparing, Released, Leased
<1>12. ASSUME NEW d \in Drivers, AfterRelease(d) PROVE WaitIsWatched'
  <2>1. CASE Spawned(wait, d, "exiting")
    BY <1>0, <1>12, <2>1 DEF AfterRelease, Spawned, run, WaitIsWatched
  <2>2. ASSUME Goto(d, "exiting"), wait = 0 \/ left = Never \/ (pc[d] = "parting" /\ ~local[d].paused)
        PROVE  WaitIsWatched'
    BY <1>0, <1>12, <2>2 DEF AfterRelease, Goto, run, Inv, WaitIsWatched, Shape, Preparing
  <2> QED BY <1>0, <1>12, <2>1, <2>2, DepartureSpawns
<1>13. ASSUME NEW d \in Drivers, NEW n \in Nodes, Attempt(d, n) PROVE WaitIsWatched'
  BY <1>0, <1>13 DEF Attempt, NodeEvent, Goto, run, Inv, SeqsFit, LockFits, OutFits, ReleasedIsUndriven, ChildFits, WaitIsWatched, Shape, Driving, Preparing, Released, Leased
<1>14. ASSUME NEW d \in Drivers, NEW n \in Nodes, EndAttempt(d, n) PROVE WaitIsWatched'
  BY <1>0, <1>14 DEF EndAttempt, NodeEvent, Goto, run, Inv, SeqsFit, LockFits, OutFits, ReleasedIsUndriven, ChildFits, WaitIsWatched, Shape, Driving, Preparing, Released, Leased
<1>15. ASSUME NEW w \in Wakers, Start(w) PROVE WaitIsWatched'
  BY <1>0, <1>15 DEF Start, Goto, Ends, run, Inv, SeqsFit, LockFits, OutFits, ReleasedIsUndriven, ChildFits, WaitIsWatched, Shape, Driving, Preparing, Released, Leased
<1>16. ASSUME NEW w \in Wakers, Rouse(w) PROVE WaitIsWatched'
  BY <1>0, <1>16 DEF Rouse, Goto, Ends, run, Inv, SeqsFit, LockFits, OutFits, ReleasedIsUndriven, ChildFits, WaitIsWatched, Shape, Driving, Preparing, Released, Leased
<1>17. ASSUME NEW w \in Wakers, Repause(w) PROVE WaitIsWatched'
  BY <1>0, <1>17, Notes DEF Repause, Repauses, Enters, Spend, run, Inv, SeqsFit, LockFits, OutFits, ReleasedIsUndriven, ChildFits, WaitIsWatched, Shape, Driving, Preparing, Released, Leased
<1>18. ASSUME NEW w \in Wakers, Wake(w) PROVE WaitIsWatched'
  <2>1. ASSUME Ends(w), UNCHANGED driverPid, (UNCHANGED lost /\ wait # local[w].hold) \/ Loses(w)
        PROVE  WaitIsWatched'
    BY <1>0, <1>18, <2>1, LossFacts, Notes DEF Wake, Ends, run, Inv, WaitIsWatched, Shape, Preparing
  <2>2. ASSUME NEW d \in Drivers, Launched(d, wait, w), UNCHANGED lost, wait = local[w].hold
        PROVE  WaitIsWatched'
    BY <1>0, <1>18, <2>2, Notes DEF Wake, Launched, run, Inv, WaitIsWatched, Shape, Preparing
  <2> QED BY <1>0, <1>18, <2>1, <2>2, WakeLaunches
<1>19. ASSUME NEW p \in Watchers, Watch(p) PROVE WaitIsWatched'
  BY <1>0, <1>19 DEF Watch, Ends, run, Inv, SeqsFit, LockFits, OutFits, ReleasedIsUndriven, ChildFits, WaitIsWatched, Shape, Driving, Preparing, Released, Leased
<1>20. ASSUME NEW p \in Passes, TakeLease(p) PROVE WaitIsWatched'
  BY <1>0, <1>20 DEF TakeLease, Goto, Ends, run, Inv, SeqsFit, LockFits, OutFits, ReleasedIsUndriven, ChildFits, WaitIsWatched, Shape, Driving, Preparing, Released, Leased
<1>21. ASSUME NEW p \in Passes, Probe(p) PROVE WaitIsWatched'
  <2>1. Spawned(last + 1, p, "off")
    BY <1>0, <1>21, ProbeSpawns
  <2> QED BY <1>0, <1>21, <2>1 DEF Probe, Repauses, Enters, Spawned, run, Inv, SeqsFit, LockFits, OutFits, ReleasedIsUndriven, ChildFits, WaitIsWatched, Shape, Driving, Preparing, Released, Leased
<1>22. ASSUME NEW p \in Passes, Sweep(p) PROVE WaitIsWatched'
  <2>1. ASSUME Ends(p), UNCHANGED driverPid, Loses(p)
        PROVE  WaitIsWatched'
    BY <1>0, <1>22, <2>1, LossFacts, Notes DEF Sweep, Ends, run, Inv, WaitIsWatched, Shape, Preparing
  <2>2. ASSUME NEW d \in Drivers, Launched(d, local[p].hold, p), UNCHANGED lost
        PROVE  WaitIsWatched'
    BY <1>0, <1>22, <2>2, Notes DEF Sweep, Launched, run, Inv, WaitIsWatched, Shape, Preparing
  <2> QED BY <1>0, <1>22, <2>1, <2>2, SweepLaunches
<1>23. ASSUME NEW p \in Passes, Mark(p) PROVE WaitIsWatched'
  BY <1>0, <1>23 DEF Mark, Ends, Loses, Enters, run, Inv, SeqsFit, LockFits, OutFits, ReleasedIsUndriven, ChildFits, WaitIsWatched, Shape, Driving, Preparing, Released, Leased
<1>24. ASSUME Stop PROVE WaitIsWatched'
  BY <1>0, <1>24 DEF Stop, Spend, Enters, DriverAlive, Alive, run, Inv, SeqsFit, LockFits, OutFits, ReleasedIsUndriven, ChildFits, WaitIsWatched, Shape, Driving, Preparing, Released, Leased
<1>25. ASSUME RetryNow PROVE WaitIsWatched'
  BY <1>0, <1>25 DEF RetryNow, Spend, DriverAlive, Alive, run, Inv, SeqsFit, LockFits, OutFits, ReleasedIsUndriven, ChildFits, WaitIsWatched, Shape, Driving, Preparing, Released, Leased
<1>26. ASSUME NEW time \in {PauseFor, Never}, Pause(time) PROVE WaitIsWatched'
  <2>1. CASE UNCHANGED <<pc, local>> /\ UNCHANGED run
    BY <1>0, <1>26, <2>1 DEF Pause, run, Inv, WaitIsWatched
  <2>2. CASE Enters("paused", Never)
    BY <2>2 DEF Enters, WaitIsWatched
  <2>3. ASSUME Enters("paused", time), Spawned(last + 1, Nobody, "off") PROVE WaitIsWatched'
    BY <1>0, <2>3 DEF Enters, Spawned, Shape, WaitIsWatched
  <2> QED BY <1>0, <1>26, <2>1, <2>2, <2>3, PauseSpawns
<1>27. ASSUME NEW d \in Drivers, NEW now \in BOOLEAN, Resume(d, now) PROVE WaitIsWatched'
  <2>1. Launched(d, 0, Nobody)
    BY <1>0, <1>27, ResumeLaunches
  <2> QED BY <1>0, <1>27, <2>1 DEF Resume, Launched, run, Inv, SeqsFit, LockFits, OutFits, ReleasedIsUndriven, ChildFits, WaitIsWatched, Shape, Driving, Preparing, Released, Leased
<1>28. ASSUME NEW p \in Passes, Look(p) PROVE WaitIsWatched'
  <2>1. CASE Spawned(wait, Nobody, "off")
    BY <1>0, <1>28, <2>1 DEF Look, Spawned, run, Inv, SeqsFit, LockFits, OutFits, ReleasedIsUndriven, ChildFits, WaitIsWatched, Shape, Driving, Preparing, Released, Leased
  <2>2. ASSUME wait # 0 => Due, pc[p] = "off",
               pc' = [pc EXCEPT ![p] = IF wait = 0 THEN "sweeping" ELSE "looking"],
               local' = [local EXCEPT ![p] = [Fresh EXCEPT !.hold = wait, !.paused = status = "paused"]]
        PROVE  WaitIsWatched'
    BY <1>0, <1>28, <2>2, Notes DEF Look, run, Inv, SeqsFit, LockFits, OutFits, ReleasedIsUndriven, ChildFits, WaitIsWatched, Shape, Driving, Preparing, Released, Leased
  <2> QED BY <1>0, <1>28, <2>1, <2>2, LookSpawns
<1>29. ASSUME OtherTakes PROVE WaitIsWatched'
  BY <1>0, <1>29 DEF OtherTakes, Spend, Busy, Alive, run, Inv, SeqsFit, LockFits, OutFits, ReleasedIsUndriven, ChildFits, WaitIsWatched, Shape, Driving, Preparing, Released, Leased
<1>30. ASSUME OtherLeaves PROVE WaitIsWatched'
  BY <1>0, <1>30 DEF OtherLeaves, run, Inv, SeqsFit, LockFits, OutFits, ReleasedIsUndriven, ChildFits, WaitIsWatched, Shape, Driving, Preparing, Released, Leased
<1>31. ASSUME Tick PROVE WaitIsWatched'
  <2>1. left' # Never => left # Never
    BY <1>31 DEF Tick, Never, Inv, TypeOK
  <2> QED BY <1>0, <1>31, <2>1 DEF Tick, Inv, WaitIsWatched
<1>32. ASSUME NEW p \in Processes, Crash(p) PROVE WaitIsWatched'
  BY <1>0, <1>32 DEF Crash, Spend, Ends, run, Inv, SeqsFit, LockFits, OutFits, ReleasedIsUndriven, ChildFits, WaitIsWatched, Shape, Driving, Preparing, Released, Leased
<1>33. ASSUME UNCHANGED vars PROVE WaitIsWatched'
  BY <1>0, <1>33 DEF vars, run, Inv, SeqsFit, LockFits, OutFits, ReleasedIsUndriven, ChildFits, WaitIsWatched, Shape, Driving, Preparing, Released, Leased
<1> QED
  BY <1>1, <1>2, <1>3, <1>4, <1>5, <1>6, <1>7, <1>8, <1>9, <1>10, <1>11, <1>12, <1>13,
     <1>14, <1>15, <1>16, <1>17, <1>18, <1>19, <1>20, <1>21, <1>22, <1>23, <1>24, <1>25,
     <1>26, <1>27, <1>28, <1>29, <1>30, <1>31, <1>32, <1>33 DEF Next, Driver, Agent,
     Waker, Pass, Person, Watchers

\* A driver enters the drive by journal_resumed, with the wait it is for in force.
LEMMA EntersByAdmit ==
  ASSUME Inv, [Next]_vars, NEW e \in Drivers, pc[e] = "locked", pc'[e] = "entering"
  PROVE  Holds(e)
<1> USE Kinds
<1>0. Inv /\ Shape
  BY InvShape
<1>1. ASSUME NEW d \in Drivers, Plan(d) PROVE Holds(e)
  BY <1>0, <1>1, Notes DEF Plan, Ends, Holds, TurnsAway, run, Shape
<1>2. ASSUME NEW d \in Drivers, TakeLock(d) PROVE Holds(e)
  BY <1>0, <1>2 DEF TakeLock, Goto, Ends, Bounces, Holds, Busy, Alive, run, Shape
<1>3. ASSUME NEW d \in Drivers, Admit(d) PROVE Holds(e)
  <2>1. CASE e = d
    BY <1>0, <1>3, <2>1 DEF Admit, Ends, Shape
  <2>2. CASE e # d
    BY <1>0, <1>3, <2>2 DEF Admit, Goto, Ends, Shape
  <2> QED BY <2>1, <2>2
<1>4. ASSUME NEW d \in Drivers, Claim(d) PROVE Holds(e)
  BY <1>0, <1>4 DEF Claim, Goto, run, Shape
<1>5. ASSUME NEW d \in Drivers, Scan(d) PROVE Holds(e)
  BY <1>0, <1>5, Notes DEF Scan, Goto, Enters, run, Shape
<1>6. ASSUME NEW d \in Drivers, Rest(d) PROVE Holds(e)
  BY <1>0, <1>6 DEF Rest, Goto, run, Shape
<1>7. ASSUME NEW d \in Drivers, Release(d) PROVE Holds(e)
  BY <1>0, <1>7 DEF Release, Goto, run, Shape
<1>8. ASSUME NEW d \in Drivers, Finish(d) PROVE Holds(e)
  BY <1>0, <1>8 DEF Finish, Goto, Enters, run, Shape
<1>9. ASSUME NEW d \in Drivers, Leave(d) PROVE Holds(e)
  BY <1>0, <1>9 DEF Leave, Goto, run, Shape
<1>10. ASSUME NEW d \in Drivers, Part(d) PROVE Holds(e)
  <2>1. CASE Spawned(wait, d, "exiting")
    BY <1>0, <1>10, <2>1 DEF Part, Spawned, run, Shape
  <2>2. CASE Goto(d, "exiting")
    BY <1>0, <1>10, <2>2 DEF Part, Goto, run, Shape
  <2> QED BY <1>0, <1>10, <2>1, <2>2, DepartureSpawns
<1>11. ASSUME NEW d \in Drivers, Exit(d) PROVE Holds(e)
  BY <1>0, <1>11 DEF Exit, Ends, run, Shape
<1>12. ASSUME NEW d \in Drivers, AfterRelease(d) PROVE Holds(e)
  <2>1. CASE Spawned(wait, d, "exiting")
    BY <1>0, <1>12, <2>1 DEF AfterRelease, Spawned, run, Shape
  <2>2. CASE Goto(d, "exiting")
    BY <1>0, <1>12, <2>2 DEF AfterRelease, Goto, run, Shape
  <2> QED BY <1>0, <1>12, <2>1, <2>2, DepartureSpawns
<1>13. ASSUME NEW d \in Drivers, NEW n \in Nodes, Attempt(d, n) PROVE Holds(e)
  BY <1>0, <1>13 DEF Attempt, NodeEvent, Goto, run, Shape
<1>14. ASSUME NEW d \in Drivers, NEW n \in Nodes, EndAttempt(d, n) PROVE Holds(e)
  BY <1>0, <1>14 DEF EndAttempt, NodeEvent, Goto, run, Shape
<1>15. ASSUME NEW w \in Wakers, Start(w) PROVE Holds(e)
  BY <1>0, <1>15 DEF Start, Goto, Ends, run, Shape
<1>16. ASSUME NEW w \in Wakers, Rouse(w) PROVE Holds(e)
  BY <1>0, <1>16 DEF Rouse, Goto, Ends, run, Shape
<1>17. ASSUME NEW w \in Wakers, Repause(w) PROVE Holds(e)
  BY <1>0, <1>17, Notes DEF Repause, Repauses, Enters, Spend, run, Shape
<1>18. ASSUME NEW w \in Wakers, Wake(w) PROVE Holds(e)
  <2>1. ASSUME Ends(w), UNCHANGED driverPid PROVE Holds(e)
    BY <1>0, <1>18, <2>1, Notes DEF Wake, Ends, run, Shape
  <2>2. ASSUME NEW d \in Drivers, Launched(d, wait, w) PROVE Holds(e)
    BY <1>0, <1>18, <2>2, Notes DEF Wake, Launched, run, Shape
  <2> QED BY <1>0, <1>18, <2>1, <2>2, WakeLaunches
<1>19. ASSUME NEW p \in Watchers, Watch(p) PROVE Holds(e)
  BY <1>0, <1>19 DEF Watch, Ends, run, Shape
<1>20. ASSUME NEW p \in Passes, TakeLease(p) PROVE Holds(e)
  BY <1>0, <1>20 DEF TakeLease, Goto, Ends, run, Shape
<1>21. ASSUME NEW p \in Passes, Probe(p) PROVE Holds(e)
  <2>1. Spawned(last + 1, p, "off")
    BY <1>0, <1>21, ProbeSpawns
  <2> QED BY <1>0, <1>21, <2>1 DEF Probe, Repauses, Enters, Spawned, run, Shape
<1>22. ASSUME NEW p \in Passes, Sweep(p) PROVE Holds(e)
  <2>1. ASSUME Ends(p), UNCHANGED driverPid PROVE Holds(e)
    BY <1>0, <1>22, <2>1, Notes DEF Sweep, Ends, run, Shape
  <2>2. ASSUME NEW d \in Drivers, Launched(d, local[p].hold, p) PROVE Holds(e)
    BY <1>0, <1>22, <2>2, Notes DEF Sweep, Launched, run, Shape
  <2> QED BY <1>0, <1>22, <2>1, <2>2, SweepLaunches
<1>23. ASSUME NEW p \in Passes, Mark(p) PROVE Holds(e)
  BY <1>0, <1>23 DEF Mark, Ends, Loses, Enters, run, Shape
<1>24. ASSUME Stop PROVE Holds(e)
  BY <1>0, <1>24 DEF Stop, Spend, Enters, DriverAlive, Alive, run, Shape
<1>25. ASSUME RetryNow PROVE Holds(e)
  BY <1>0, <1>25 DEF RetryNow, Spend, DriverAlive, Alive, run, Shape
<1>26. ASSUME NEW time \in {PauseFor, Never}, Pause(time) PROVE Holds(e)
  <2>1. CASE UNCHANGED <<pc, local>>
    BY <1>0, <1>26, <2>1 DEF Pause, Enters, run, Shape
  <2>2. ASSUME Enters("paused", time), Spawned(last + 1, Nobody, "off") PROVE Holds(e)
    BY <1>0, <1>26, <2>2 DEF Pause, Enters, Spawned, run, Shape
  <2> QED BY <1>0, <1>26, <2>1, <2>2, PauseSpawns
<1>27. ASSUME NEW d \in Drivers, NEW now \in BOOLEAN, Resume(d, now) PROVE Holds(e)
  <2>1. Launched(d, 0, Nobody)
    BY <1>0, <1>27, ResumeLaunches
  <2> QED BY <1>0, <1>27, <2>1 DEF Resume, Launched, run, Shape
<1>28. ASSUME NEW p \in Passes, Look(p) PROVE Holds(e)
  <2>1. CASE Spawned(wait, Nobody, "off")
    BY <1>0, <1>28, <2>1 DEF Look, Spawned, run, Shape
  <2>2. ASSUME wait # 0 => Due, pc[p] = "off",
               pc' = [pc EXCEPT ![p] = IF wait = 0 THEN "sweeping" ELSE "looking"],
               local' = [local EXCEPT ![p] = [Fresh EXCEPT !.hold = wait, !.paused = status = "paused"]]
        PROVE  Holds(e)
    BY <1>0, <1>28, <2>2, Notes DEF Look, run, Shape
  <2> QED BY <1>0, <1>28, <2>1, <2>2, LookSpawns
<1>29. ASSUME OtherTakes PROVE Holds(e)
  BY <1>0, <1>29 DEF OtherTakes, Spend, Busy, Alive, run, Shape
<1>30. ASSUME OtherLeaves PROVE Holds(e)
  BY <1>0, <1>30 DEF OtherLeaves, run, Shape
<1>31. ASSUME Tick PROVE Holds(e)
  BY <1>0, <1>31 DEF Tick, run, Shape
<1>32. ASSUME NEW p \in Processes, Crash(p) PROVE Holds(e)
  BY <1>0, <1>32 DEF Crash, Spend, Ends, run, Shape
<1>33. ASSUME UNCHANGED vars PROVE Holds(e)
  BY <1>0, <1>33 DEF vars, run, Shape
<1> QED
  BY <1>1, <1>2, <1>3, <1>4, <1>5, <1>6, <1>7, <1>8, <1>9, <1>10, <1>11, <1>12, <1>13,
     <1>14, <1>15, <1>16, <1>17, <1>18, <1>19, <1>20, <1>21, <1>22, <1>23, <1>24, <1>25,
     <1>26, <1>27, <1>28, <1>29, <1>30, <1>31, <1>32, <1>33 DEF Next, Driver, Agent,
     Waker, Pass, Person, Watchers

-----------------------------------------------------------------------------
(* The theorems *)

LEMMA InitInv == Init => Inv
<1> SUFFICES ASSUME Init PROVE Inv
  OBVIOUS
<1> USE Kinds, DriverAssumption DEF Init
<1>1. TypeOK
  <2>1. Nat = Nat /\ MaxRetries \in Nat /\ MaxAsks \in Nat /\ MaxOther \in Nat /\ MaxQuota \in Nat /\ MaxCrashes \in Nat
    BY BoundAssumption
  <2>2. NodesTyped /\ RunTyped /\ FilesTyped
    BY <2>1 DEF NodesTyped, RunTyped, FilesTyped, Statuses
  <2>3. PlacesTyped
    BY DEF PlacesTyped, Places, DriverPlaces, WakerPlaces, PassPlaces, Driving
  <2>4. MemoryTyped
    BY Notes DEF MemoryTyped
  <2>5. HistoryTyped
    BY <2>1 DEF HistoryTyped
  <2> QED BY <2>2, <2>3, <2>4, <2>5, TypeParts
<1>2. \A p \in Processes : local[p] = Fresh /\ pc[p] \in {"off", "top"} /\ (pc[p] = "top" => p = First)
  OBVIOUS
<1>3. SeqsFit /\ LockFits /\ OutFits
  BY <1>2, Notes DEF SeqsFit, LockFits, OutFits, Driving, Terminal
<1>4. ReleasedIsUndriven /\ WaitIsWatched /\ DueFits /\ PlanFits /\ ChildFits
  BY <1>2 DEF ReleasedIsUndriven, WaitIsWatched, DueFits, PlanFits, ChildFits, Released, Driving
<1>5. NewsHasAReader
  <2>1. pc[First] = "top"
    OBVIOUS
  <2> QED BY <2>1 DEF NewsHasAReader, Driving
<1> QED BY <1>1, <1>3, <1>4, <1>5 DEF Inv

LEMMA NextInv == Inv /\ [Next]_vars => Inv'
<1> SUFFICES ASSUME Inv, [Next]_vars PROVE Inv'
  OBVIOUS
<1>1. TypeOK'
  BY TypesAreKept DEF Inv
<1>2. SeqsFit' /\ LockFits' /\ OutFits'
  BY SeqsFitKept, LockFitsKept, OutFitsKept
<1>3. ReleasedIsUndriven' /\ NewsHasAReader'
  BY ReleasedIsUndrivenKept, NewsHasAReaderKept
<1>4. DueFits' /\ PlanFits' /\ ChildFits' /\ WaitIsWatched'
  BY DueFitsKept, PlanFitsKept, ChildFitsKept, WaitIsWatchedKept
<1> QED BY <1>1, <1>2, <1>3, <1>4 DEF Inv

\* The strengthening that holds in every state: who has the lock, who is on
\* the way out, which waits are over and who is on the way in for them.
THEOREM InductiveInvariant == Spec => []Inv
BY InitInv, NextInv, PTL DEF Spec

\* Types: the journal's fold, the files and the places of the processes keep
\* theirs through every step, whatever the constants.
THEOREM TypeCorrect == Spec => []TypeOK
<1>1. Inv => TypeOK
  BY DEF Inv
<1> QED BY <1>1, InductiveInvariant, PTL

\* try_release lets go of the lock and of driver.pid with the run: a released
\* run has no driver, and no two processes drive one run.
THEOREM ReleasesAreUndriven == Spec => []ReleasedIsUndriven
<1>1. Inv => ReleasedIsUndriven
  BY DEF Inv
<1> QED BY <1>1, InductiveInvariant, PTL

\* A stop, a pause or a retry-now that stop_run, request_pause or
\* expedite_live posted to a running run still has a driver to read it.
THEOREM NewsAreRead == Spec => []NewsHasAReader
<1>1. Inv => NewsHasAReader
  BY DEF Inv
<1> QED BY <1>1, InductiveInvariant, PTL

\* The wait a pause or a release journaled has a waker, a pass or a driver
\* that deals with it, from after_pause and after_release to the resume.
THEOREM WaitsAreWatched == Spec => []WaitIsWatched
<1>1. Inv => WaitIsWatched
  BY DEF Inv
<1> QED BY <1>1, InductiveInvariant, PTL

\* journal_resumed lets in only the resume of a wait that is in force and
\* over: two wakers, or a waker of a pause that was replaced, resume nothing.
THEOREM WakesAreInTime == Spec => WokenInTime
<1>1. ASSUME Inv, [Next]_vars, NEW d \in Drivers,
             pc[d] = "locked", pc'[d] = "entering", local[d].hold # 0
      PROVE  wait = local[d].hold /\ Due
  <2>1. Holds(d)
    BY <1>1, EntersByAdmit
  <2> QED BY <1>1, <2>1 DEF Holds, Inv, DueFits, Preparing
<1>2. Inv /\ [Next]_vars =>
        [\A d \in Drivers : pc[d] = "locked" /\ pc'[d] = "entering" /\ local[d].hold # 0
                              => wait = local[d].hold /\ Due]_vars
  BY <1>1
<1> QED BY <1>2, InductiveInvariant, PTL DEF Spec, WokenInTime

=============================================================================
