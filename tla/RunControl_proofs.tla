-------------------------- MODULE RunControl_proofs --------------------------
(***************************************************************************)
(* Proofs about RunControl, for every value of its constants.              *)
(***************************************************************************)
EXTENDS RunControl, TLAPS, WellFoundedInduction

-----------------------------------------------------------------------------
(* First and last of a set of positions *)

\* Min picks the first of a nonempty set of queue positions.
LEMMA MinIsFirst ==
  ASSUME NEW S, S \subseteq Nat, S # {}
  PROVE  Min(S) \in S /\ \A y \in S : Min(S) <= y
<1> DEFINE Less == {ss \in Nat \X Nat : ss[1] < ss[2]}
<1>1. IsWellFoundedOn(Less, Nat)
  BY NatLessThanWellFounded DEF OpToRel
<1>2. \E x \in S : \A y \in S : <<y, x>> \notin Less
  <2> HIDE DEF Less
  <2> QED BY <1>1, WFMin
<1>3. PICK x \in S : \A y \in S : <<y, x>> \notin Less
  BY <1>2
<1>4. \A y \in S : x <= y
  <2> SUFFICES ASSUME NEW y \in S, ~(x <= y) PROVE FALSE
    OBVIOUS
  <2>1. x \in Nat /\ y \in Nat /\ y < x
    OBVIOUS
  <2> QED BY <2>1, <1>3
<1> QED BY <1>4 DEF Min

\* Max picks the last of a nonempty set of journal positions.
LEMMA MaxIsLast ==
  ASSUME NEW n \in Nat, NEW S, S \subseteq 1..n, S # {}
  PROVE  Max(S) \in S /\ \A y \in S : y <= Max(S)
<1> DEFINE Back == {n - i : i \in S}
<1>1. \A i \in S : i \in 1..n /\ n - i \in Nat
  OBVIOUS
<1>2. Back \subseteq Nat /\ Back # {}
  BY <1>1
<1>3. Min(Back) \in Back /\ \A y \in Back : Min(Back) <= y
  <2> HIDE DEF Back
  <2> QED BY <1>2, MinIsFirst
<1>4. PICK i \in S : Min(Back) = n - i
  BY <1>3
<1>5. ASSUME NEW j \in S PROVE j <= i
  <2>1. n - i <= n - j
    BY <1>3, <1>4
  <2>2. i \in Nat /\ j \in Nat
    BY <1>1
  <2> QED BY <2>1, <2>2
<1>6. \A j \in S : i >= j
  BY <1>1, <1>5
<1>7. Max(S) \in S /\ \A y \in S : Max(S) >= y
  BY <1>6 DEF Max
<1> QED BY <1>1, <1>7

-----------------------------------------------------------------------------
(* Types *)

Events == [kind : Kinds, of : Nat, keep : BOOLEAN]

Entries == [seq : Nat, cmd : Commands, keep : BOOLEAN]

Places == DriverPlaces \cup ClientPlaces

\* The latest lifecycle event is one of the journal.
LEMMA LatestIsThere ==
  ASSUME TypeOK, EntriesFit
  PROVE  /\ LatestLife \in LifeEvents /\ LatestLife \in 1..Len(journal)
         /\ \A i \in LifeEvents : i <= LatestLife
<1>1. journal \in Seq(Events) /\ Len(journal) \in Nat /\ DOMAIN journal = 1..Len(journal)
  BY DEF TypeOK, Events
<1>2. 1 \in LifeEvents
  BY <1>1 DEF EntriesFit, LifeEvents, Lifecycle
<1>3. LifeEvents \subseteq 1..Len(journal)
  BY <1>1 DEF LifeEvents
<1> QED BY <1>1, <1>2, <1>3, MaxIsLast DEF LatestLife

\* The first pending entry of a driver, and the first of some of them.
LEMMA FirstIsThere ==
  ASSUME TypeOK, EntriesFit, NEW p \in Drivers, NEW S, S \subseteq local[p].batch, S # {}
  PROVE  Min(S) \in S /\ Min(S) \in DOMAIN queue /\ Min(S) \in Nat /\ queue[Min(S)] \in Entries
<1>1. queue \in Seq(Entries) /\ DOMAIN queue = 1..Len(queue) /\ Len(queue) \in Nat
  BY DEF TypeOK, Entries
<1>2. S \subseteq DOMAIN queue
  BY DEF EntriesFit
<1>3. S \subseteq Nat
  BY <1>1, <1>2
<1>4. Min(S) \in S
  BY <1>3, MinIsFirst
<1>5. \A i \in 1..Len(queue) : queue[i] \in Entries
  BY <1>1
<1> QED BY <1>1, <1>2, <1>3, <1>4, <1>5

\* What Event makes is an event of the journal.
LEMMA EventIsTyped ==
  ASSUME NEW kind \in Kinds, NEW of \in Nat, NEW keep \in BOOLEAN
  PROVE  Event(kind, of, keep) \in Events
BY DEF Event, Events

\* An entry that is no retry has its event.
LEMMA EventOfIsTyped ==
  ASSUME TypeOK, NEW i \in DOMAIN queue, queue[i].cmd # "retry"
  PROVE  EventOf(i) \in Events /\ EventOf(i).kind # "resumed"
<1>1. queue[i] \in Entries /\ i \in Nat
  <2>1. queue \in Seq(Entries) /\ DOMAIN queue = 1..Len(queue) /\ Len(queue) \in Nat
    BY DEF TypeOK, Entries
  <2>2. \A j \in 1..Len(queue) : queue[j] \in Entries
    BY <2>1
  <2> QED BY <2>1, <2>2
<1>2. queue[i].cmd \in {"note", "pause", "abort"} /\ queue[i].keep \in BOOLEAN
  BY <1>1 DEF Entries, Commands
<1> QED BY <1>1, <1>2 DEF EventOf, Event, Events, Kinds, Lifecycle, Ended

\* The invariant holds when the run starts.
LEMMA InitIsOwnersInv == Init => OwnersInv
<1> SUFFICES ASSUME Init PROVE OwnersInv
  OBVIOUS
<1>1. Drivers \subseteq Processes /\ Clients \subseteq Processes /\ First \in Drivers
  BY DriverAssumption DEF Processes
<1>2. Fresh \in Memory
  BY DEF Fresh, Memory, DriverPlaces, ClientPlaces
<1>3. TypeOK
  <2>1. queue \in Seq(Entries)
    BY DEF Init
  <2>2. journal \in Seq(Events)
    <3>1. Event("started", 0, FALSE) \in Events
      BY EventIsTyped DEF Kinds, Lifecycle
    <3>2. \A e \in Events : <<e>> \in Seq(Events)
      OBVIOUS
    <3> QED BY <3>1, <3>2 DEF Init
  <2>3. pc \in [Processes -> Places] /\ local \in [Processes -> Memory]
    BY <1>2 DEF Init, Places, DriverPlaces, ClientPlaces
  <2>4. workdir \in Drivers \cup {Nobody, OtherRun, "parked"} /\ driverPid \in Drivers \cup {Nobody}
    BY <1>1 DEF Init
  <2> QED BY <2>1, <2>2, <2>3, <2>4 DEF Init, TypeOK, Entries, Events, Places
<1>4. EntriesFit
  BY <1>1 DEF EntriesFit, Init, Fresh, Event
<1>5. LocksFit
  BY <1>1, ProcessAssumption, DriverAssumption DEF LocksFit, UnderLock, Init, ClientPlaces
<1>6. OneWriter
  BY <1>1, DriverAssumption DEF OneWriter, Holding, Init
<1>7. AdmittedFit
  BY <1>1 DEF AdmittedFit, Init
<1>8. ResumesWhatItPlanned
  BY DEF ResumesWhatItPlanned, Init, Event
<1> QED BY <1>3, <1>4, <1>5, <1>6, <1>7, <1>8 DEF OwnersInv

-----------------------------------------------------------------------------
(* What the steps keep: types *)

\* A value put in place of a process's memory keeps the type of local.
LEMMA MemoryIsTyped ==
  ASSUME TypeOK, NEW p \in Processes, NEW m \in Memory, local' = [local EXCEPT ![p] = m]
  PROVE  local' \in [Processes -> Memory]
BY DEF TypeOK

\* A place given to a process keeps the type of pc.
LEMMA GotoIsTyped ==
  ASSUME TypeOK, NEW p \in Processes, NEW at \in Places, Goto(p, at)
  PROVE  pc' \in [Processes -> Places] /\ pc' = [pc EXCEPT ![p] = at]
BY DEF TypeOK, Goto, Places

\* What a step may do to the journal: nothing, or one event or two at its end.
Grows ==
  \/ journal' = journal
  \/ \E e \in Events : Append1(e)
  \/ \E e, f \in Events : journal' = journal \o <<e, f>>

\* A journal that grows keeps its type and its first event.
LEMMA JournalGrows ==
  ASSUME TypeOK, EntriesFit, Grows
  PROVE  journal' \in Seq(Events) /\ journal' # <<>> /\ journal'[1] = journal[1]
<1>1. journal \in Seq(Events) /\ journal # <<>> /\ Len(journal) \in Nat /\ Len(journal) >= 1
  BY DEF TypeOK, EntriesFit, Events
<1>2. CASE journal' = journal
  BY <1>1, <1>2
<1>3. CASE \E e \in Events : Append1(e)
  BY <1>1, <1>3 DEF Append1
<1>4. CASE \E e, f \in Events : journal' = journal \o <<e, f>>
  <2>1. PICK e \in Events, f \in Events : journal' = journal \o <<e, f>>
    BY <1>4
  <2>2. <<e, f>> \in Seq(Events)
    OBVIOUS
  <2> QED BY <1>1, <2>1, <2>2
<1> QED BY <1>2, <1>3, <1>4 DEF Grows

\* What a driver may remember at a place.
Fits(m, at) ==
  /\ m \in Memory
  /\ m.batch \subseteq DOMAIN queue
  /\ at = "consuming" =>
       /\ m.taking \in DOMAIN queue
       /\ m.next \in {"top", "scanning", "answering", "left"}

\* A step of a driver to a place it may be at, with a memory that fits it.
LEMMA DriverStep ==
  ASSUME TypeOK, EntriesFit, NEW p \in Drivers, NEW at \in Places, NEW m,
         Fits(m, at), Goto(p, at), local' = [local EXCEPT ![p] = m],
         Grows, queue' = queue, cursor' \in Nat, driverPid' \in Drivers \cup {Nobody},
         workdir' \in Drivers \cup {Nobody, OtherRun, "parked"},
         eventLock' \in Processes \cup {Nobody}
  PROVE  TypeOK' /\ EntriesFit'
<1>1. p \in Processes
  BY DEF Processes
<1>2. journal' \in Seq(Events) /\ journal' # <<>> /\ journal'[1] = journal[1]
  BY JournalGrows
<1>3. pc \in [Processes -> Places] /\ local \in [Processes -> Memory]
  BY DEF TypeOK, Places
<1>4. pc' \in [Processes -> Places] /\ local' \in [Processes -> Memory]
  BY <1>1, <1>3 DEF Goto, Fits
<1>5. TypeOK'
  BY <1>2, <1>4 DEF TypeOK, Events, Places
<1>6. ASSUME NEW q \in Drivers
      PROVE  /\ local'[q].batch \subseteq DOMAIN queue
             /\ pc'[q] = "consuming" =>
                  /\ local'[q].taking \in DOMAIN queue
                  /\ local'[q].next \in {"top", "scanning", "answering", "left"}
  <2>1. q \in Processes
    BY DEF Processes
  <2>2. CASE q = p
    <3>1. pc'[q] = at /\ local'[q] = m
      BY <2>1, <2>2, <1>3 DEF Goto
    <3> QED BY <3>1 DEF Fits
  <2>3. CASE q # p
    <3>1. pc'[q] = pc[q] /\ local'[q] = local[q]
      BY <2>1, <2>3, <1>3 DEF Goto
    <3> QED BY <3>1 DEF EntriesFit
  <2> QED BY <2>2, <2>3
<1>7. EntriesFit'
  BY <1>2, <1>6 DEF EntriesFit
<1> QED BY <1>5, <1>7

\* The memory of a driver fits its place.
LEMMA DriverFits ==
  ASSUME TypeOK, EntriesFit, NEW p \in Drivers
  PROVE  /\ p \in Processes /\ pc[p] \in Places /\ local[p] \in Memory
         /\ Fits(local[p], pc[p])
         /\ local' = local => local' = [local EXCEPT ![p] = local[p]]
         /\ local[p].batch \subseteq DOMAIN queue
         /\ DOMAIN queue \subseteq Nat
         /\ cursor \in Nat /\ driverPid \in Drivers \cup {Nobody}
         /\ workdir \in Drivers \cup {Nobody, OtherRun, "parked"}
         /\ eventLock \in Processes \cup {Nobody}
         /\ \A i \in DOMAIN queue : queue[i] \in Entries
<1>1. p \in Processes
  BY DEF Processes
<1>2. pc[p] \in Places /\ local[p] \in Memory
  BY <1>1 DEF TypeOK, Places
<1>3. Fits(local[p], pc[p])
  BY <1>2 DEF Fits, EntriesFit
<1>4. local' = local => local' = [local EXCEPT ![p] = local[p]]
  BY <1>1 DEF TypeOK
<1>5. queue \in Seq(Entries) /\ DOMAIN queue = 1..Len(queue) /\ Len(queue) \in Nat
  BY DEF TypeOK, Entries
<1>6. \A i \in 1..Len(queue) : queue[i] \in Entries
  BY <1>5
<1>7. cursor \in Nat /\ driverPid \in Drivers \cup {Nobody}
      /\ workdir \in Drivers \cup {Nobody, OtherRun, "parked"}
      /\ eventLock \in Processes \cup {Nobody}
  BY DEF TypeOK
<1> QED BY <1>1, <1>2, <1>3, <1>4, <1>5, <1>6, <1>7 DEF Fits

\* Every step of a drive keeps the types.
LEMMA LoopKeepsTypes ==
  ASSUME TypeOK, EntriesFit, NEW p \in Drivers, Loop(p)
  PROVE  TypeOK' /\ EntriesFit'
<1> DEFINE M == local[p]
<1>1. /\ p \in Processes /\ pc[p] \in Places /\ local[p] \in Memory
      /\ Fits(local[p], pc[p])
      /\ local' = local => local' = [local EXCEPT ![p] = local[p]]
      /\ local[p].batch \subseteq DOMAIN queue
      /\ DOMAIN queue \subseteq Nat
      /\ cursor \in Nat /\ driverPid \in Drivers \cup {Nobody}
      /\ workdir \in Drivers \cup {Nobody, OtherRun, "parked"}
      /\ eventLock \in Processes \cup {Nobody}
      /\ \A i \in DOMAIN queue : queue[i] \in Entries
  BY DriverFits
<1>2. CASE Scan(p)
  <2>1. Unread(M.mem) \subseteq DOMAIN queue
    BY DEF Unread
  <2> DEFINE m == [M EXCEPT !.batch = Unread(M.mem)]
  <2>2. Fits(m, "scanning")
    BY <1>1, <2>1 DEF Fits, Memory
  <2>3. local' = [local EXCEPT ![p] = m] /\ Goto(p, "scanning") /\ Grows
    BY <1>2 DEF Scan, Grows
  <2> HIDE DEF m
  <2> QED BY <1>1, <1>2, <2>2, <2>3, DriverStep DEF Scan, DriveOnly, Places, DriverPlaces
<1>3. CASE ScanDone(p)
  <2>1. Fits(M, "ready") /\ Goto(p, "ready") /\ Grows
    BY <1>1, <1>3 DEF ScanDone, Fits, Grows
  <2> QED BY <1>1, <1>3, <2>1, DriverStep DEF ScanDone, DriveOnly, Places, DriverPlaces
<1>4. CASE Await(p)
  <2>1. Unread(M.mem) \subseteq DOMAIN queue
    BY DEF Unread
  <2> DEFINE m == [M EXCEPT !.batch = Unread(M.mem)]
  <2>2. Fits(m, "answering")
    BY <1>1, <2>1 DEF Fits, Memory
  <2>3. local' = [local EXCEPT ![p] = m] /\ Goto(p, "answering") /\ Grows
    BY <1>1, <1>4 DEF Await, Grows, Goto, TypeOK
  <2> HIDE DEF m
  <2> QED BY <1>1, <1>4, <2>2, <2>3, DriverStep DEF Await, DriveOnly, Places, DriverPlaces
<1>5. CASE Apply(p)
  <2> DEFINE i == Min(M.batch)
             at == IF queue[i].cmd = "note" THEN pc[p] ELSE "left"
             m == [M EXCEPT !.taking = i, !.next = at]
  <2>1. i \in DOMAIN queue /\ queue[i].cmd # "retry"
    BY <1>5, FirstIsThere DEF Apply
  <2>2. EventOf(i) \in Events
    BY <2>1, EventOfIsTyped
  <2>3. Fits(m, "consuming")
    BY <1>1, <1>5, <2>1 DEF Apply, Fits, Memory, DriverPlaces
  <2>4. local' = [local EXCEPT ![p] = m] /\ Goto(p, "consuming") /\ Grows
    BY <1>1, <1>5, <2>2 DEF Apply, Taking, Grows
  <2> HIDE DEF m
  <2> QED BY <1>1, <1>5, <2>3, <2>4, DriverStep DEF Apply, DriveOnly, Places, DriverPlaces
<1>6. CASE Answer(p)
  <2> DEFINE i == Min(M.batch)
  <2>1. i \in DOMAIN queue /\ i \in Nat
    BY <1>6, FirstIsThere DEF Answer
  <2>2. PICK at \in {"top", "answering"} :
          /\ Taking(p, i, at)
          /\ Append1(Event("retried", i, FALSE)) \/ Append1(Event("refused", i, FALSE))
    BY <1>6 DEF Answer
  <2> DEFINE m == [M EXCEPT !.taking = i, !.next = at]
  <2>3. Fits(m, "consuming")
    BY <1>1, <2>1 DEF Fits, Memory, DriverPlaces
  <2>4. Grows
    BY <2>1, <2>2, EventIsTyped DEF Grows, Kinds
  <2>5. local' = [local EXCEPT ![p] = m] /\ Goto(p, "consuming")
    BY <1>1, <2>2 DEF Taking
  <2> HIDE DEF m
  <2> QED BY <1>1, <1>6, <2>3, <2>4, <2>5, DriverStep DEF Answer, DriveOnly, Places, DriverPlaces
<1>7. CASE AtRetry(p)
  <2> DEFINE i == Min(M.batch)
             stops == {j \in M.batch : queue[j].cmd \in {"pause", "abort"}}
             stop == Min(stops)
             salvaged == stops # {} /\ (queue[stop].cmd = "pause" \/ M.cancel)
             m == [M EXCEPT !.taking = stop, !.next = "left"]
  <2>1. i \in DOMAIN queue /\ i \in Nat
    BY <1>7, FirstIsThere DEF AtRetry
  <2>2. CASE salvaged
    <3>1. stop \in DOMAIN queue /\ queue[stop].cmd \in {"pause", "abort"}
      <4>1. stops \subseteq M.batch /\ stops # {}
        BY <2>2
      <4>2. stop \in stops /\ stop \in DOMAIN queue
        <5> HIDE DEF stops
        <5> QED BY <4>1, FirstIsThere
      <4> QED BY <4>2
    <3>2. EventOf(stop) \in Events
      BY <3>1, EventOfIsTyped
    <3>3. Event("superseded", i, FALSE) \in Events
      BY <2>1, EventIsTyped DEF Kinds
    <3>4. journal' = journal \o <<Event("superseded", i, FALSE), EventOf(stop)>> /\ Taking(p, stop, "left")
      BY <1>7, <2>2 DEF AtRetry
    <3>5. Fits(m, "consuming")
      BY <1>1, <3>1 DEF Fits, Memory, DriverPlaces
    <3>6. local' = [local EXCEPT ![p] = m] /\ Goto(p, "consuming") /\ Grows
      BY <3>2, <3>3, <3>4 DEF Taking, Grows
    <3> HIDE DEF m, stop, i
    <3> QED BY <1>1, <1>7, <3>5, <3>6, DriverStep DEF AtRetry, DriveOnly, Places, DriverPlaces
  <2>3. CASE ~salvaged
    <3>1. Goto(p, "ready") /\ UNCHANGED <<journal, local>>
      BY <1>7, <2>3 DEF AtRetry
    <3>2. Fits(M, "ready") /\ Grows
      BY <1>1, <3>1 DEF Fits, Grows
    <3> QED BY <1>1, <1>7, <3>1, <3>2, DriverStep DEF AtRetry, DriveOnly, Places, DriverPlaces
  <2> QED BY <2>2, <2>3
<1>8. CASE Consume(p)
  <2> DEFINE i == M.taking
             rest == IF queue[i].cmd = "retry" THEN {} ELSE M.batch \ 1..i
             m == [M EXCEPT !.mem = queue[i].seq, !.batch = rest, !.paused = (queue[i].cmd = "pause")]
  <2>1. i \in DOMAIN queue /\ M.next \in {"top", "scanning", "answering", "left"}
    BY <1>8 DEF Consume, EntriesFit
  <2>2. queue[i].seq \in Nat
    BY <1>1, <2>1 DEF Entries
  <2>3. rest \subseteq DOMAIN queue /\ rest \in SUBSET Nat
    BY <1>1
  <2>4. Fits(m, M.next)
    <3> HIDE DEF rest
    <3> QED BY <1>1, <2>1, <2>2, <2>3 DEF Fits, Memory
  <2>5. local' = [local EXCEPT ![p] = m]
    BY <1>8 DEF Consume
  <2>6. Goto(p, M.next) /\ Grows /\ M.next \in Places /\ cursor' \in Nat
    BY <1>8, <2>1, <2>2 DEF Consume, Grows, Places, DriverPlaces
  <2> HIDE DEF m
  <2> QED BY <1>1, <1>8, <2>4, <2>5, <2>6, DriverStep DEF Consume, DriveOnly
<1>9. CASE StartNode(p)
  <2>1. Fits(M, "working") /\ Goto(p, "working") /\ Grows
    BY <1>1, <1>9 DEF StartNode, Fits, Grows
  <2> QED BY <1>1, <1>9, <2>1, DriverStep DEF StartNode, DriveOnly, Places, DriverPlaces
<1>10. ASSUME NEW kind \in {"finished", "paused"}, EndWith(p, kind), DriveOnly, UNCHANGED cursor
       PROVE  TypeOK' /\ EntriesFit'
  <2> DEFINE m == [M EXCEPT !.paused = (kind = "paused")]
  <2>1. Event(kind, 0, FALSE) \in Events
    BY EventIsTyped DEF Kinds, Lifecycle, Ended
  <2>2. Fits(m, "left")
    BY <1>1 DEF Fits, Memory
  <2>3. local' = [local EXCEPT ![p] = m] /\ Goto(p, "left") /\ Grows
    BY <1>10, <2>1 DEF EndWith, Grows
  <2> HIDE DEF m
  <2> QED BY <1>1, <1>10, <2>2, <2>3, DriverStep DEF DriveOnly, Places, DriverPlaces
<1>11. CASE Finish(p)
  BY <1>10, <1>11 DEF Finish
<1>12. CASE EndNode(p)
  <2>0. DriveOnly /\ UNCHANGED cursor
    BY <1>12 DEF EndNode
  <2>1. CASE Goto(p, "top") /\ local' = [local EXCEPT ![p].hopped = TRUE] /\ UNCHANGED journal
    <3> DEFINE m == [M EXCEPT !.hopped = TRUE]
    <3>1. Fits(m, "top")
      BY <1>1 DEF Fits, Memory
    <3>2. local' = [local EXCEPT ![p] = m] /\ Grows
      BY <2>1 DEF Grows
    <3> HIDE DEF m
    <3> QED BY <1>1, <2>0, <2>1, <3>1, <3>2, DriverStep DEF DriveOnly, Places, DriverPlaces
  <2>2. CASE Goto(p, "top") /\ UNCHANGED <<journal, local>>
    <3>1. Fits(M, "top") /\ Grows
      BY <1>1, <2>2 DEF Fits, Grows
    <3> QED BY <1>1, <2>0, <2>2, <3>1, DriverStep DEF DriveOnly, Places, DriverPlaces
  <2>3. CASE Goto(p, "answering") /\ local' = [local EXCEPT ![p].batch = {}] /\ UNCHANGED journal
    <3> DEFINE m == [M EXCEPT !.batch = {}]
    <3>1. Fits(m, "answering")
      BY <1>1 DEF Fits, Memory
    <3>2. local' = [local EXCEPT ![p] = m] /\ Grows
      BY <2>3 DEF Grows
    <3> HIDE DEF m
    <3> QED BY <1>1, <2>0, <2>3, <3>1, <3>2, DriverStep DEF DriveOnly, Places, DriverPlaces
  <2>4. CASE EndWith(p, "paused")
    BY <1>10, <2>0, <2>4
  <2>5. CASE Goto(p, "left") /\ local' = [local EXCEPT ![p].failed = TRUE] /\ UNCHANGED journal
    <3> DEFINE m == [M EXCEPT !.failed = TRUE]
    <3>1. Fits(m, "left")
      BY <1>1 DEF Fits, Memory
    <3>2. local' = [local EXCEPT ![p] = m] /\ Grows
      BY <2>5 DEF Grows
    <3> HIDE DEF m
    <3> QED BY <1>1, <2>0, <2>5, <3>1, <3>2, DriverStep DEF DriveOnly, Places, DriverPlaces
  <2> QED BY <1>12, <2>1, <2>2, <2>3, <2>4, <2>5 DEF EndNode
<1>13. CASE Leave(p)
  <2> DEFINE at == IF M.failed THEN "failing" ELSE "leaving"
  <2>1. Fits(M, at) /\ Goto(p, at) /\ Grows /\ at \in Places
    BY <1>1, <1>13 DEF Leave, Fits, Grows, Places, DriverPlaces
  <2>2. local' = [local EXCEPT ![p] = M] /\ driverPid' \in Drivers \cup {Nobody}
    BY <1>1, <1>13 DEF Leave
  <2> HIDE DEF at
  <2> QED BY <1>1, <1>13, <2>1, <2>2, DriverStep DEF Leave
<1>14. CASE Fail(p)
  <2>1. Event("failed", 0, FALSE) \in Events
    BY EventIsTyped DEF Kinds, Lifecycle, Ended
  <2>2. Fits(M, "leaving") /\ Goto(p, "leaving") /\ Grows
    BY <1>1, <1>14, <2>1 DEF Fail, Fits, Grows
  <2> QED BY <1>1, <1>14, <2>2, DriverStep DEF Fail, Places, DriverPlaces
<1>15. CASE ReadKeep(p)
  <2> DEFINE m == [M EXCEPT !.keep = LatestKeep]
  <2>1. LatestKeep \in BOOLEAN
    <3> DEFINE pauses == {i \in DOMAIN journal : journal[i].kind = "paused"}
    <3>1. journal \in Seq(Events) /\ DOMAIN journal = 1..Len(journal) /\ Len(journal) \in Nat
      BY DEF TypeOK, Events
    <3>2. CASE pauses = {}
      BY <3>2 DEF LatestKeep
    <3>3. CASE pauses # {}
      <4>1. pauses \subseteq 1..Len(journal)
        BY <3>1
      <4>2. Max(pauses) \in pauses
        <5> HIDE DEF pauses
        <5> QED BY <3>1, <3>3, <4>1, MaxIsLast
      <4>3. journal[Max(pauses)] \in Events
        <5>1. \A i \in 1..Len(journal) : journal[i] \in Events
          BY <3>1
        <5> QED BY <4>1, <4>2, <5>1
      <4> QED BY <3>3, <4>3 DEF LatestKeep, Events
    <3> QED BY <3>2, <3>3
  <2>2. Fits(m, "parking")
    BY <1>1, <2>1 DEF Fits, Memory
  <2>3. local' = [local EXCEPT ![p] = m] /\ Goto(p, "parking") /\ Grows
    BY <1>15 DEF ReadKeep, Grows
  <2> HIDE DEF m
  <2> QED BY <1>1, <1>15, <2>2, <2>3, DriverStep DEF ReadKeep, Places, DriverPlaces
<1>16. CASE Park(p)
  <2>1. Fits(M, "gone") /\ Goto(p, "gone") /\ Grows
    BY <1>1, <1>16 DEF Park, Fits, Grows
  <2>2. workdir' \in Drivers \cup {Nobody, OtherRun, "parked"}
    BY <1>1, <1>16 DEF Park, DropGuard
  <2> QED BY <1>1, <1>16, <2>1, <2>2, DriverStep DEF Park, Places, DriverPlaces
<1>17. CASE Exit(p)
  <2>1. Fits(M, "gone") /\ Goto(p, "gone") /\ Grows
    BY <1>1, <1>17 DEF Exit, Fits, Grows
  <2>2. workdir' \in Drivers \cup {Nobody, OtherRun, "parked"}
    BY <1>1, <1>17 DEF Exit, DropGuard
  <2> QED BY <1>1, <1>17, <2>1, <2>2, DriverStep DEF Exit, Places, DriverPlaces
<1> QED BY <1>2, <1>3, <1>4, <1>5, <1>6, <1>7, <1>8, <1>9, <1>11, <1>12, <1>13, <1>14,
           <1>15, <1>16, <1>17 DEF Loop

\* Every step of a resume, of a watcher, and a crash keep the types.
LEMMA StartKeepsTypes ==
  ASSUME TypeOK, EntriesFit, NEW p \in Drivers, Start(p) \/ Watch(p) \/ Crash(p)
  PROVE  TypeOK' /\ EntriesFit'
<1> DEFINE M == local[p]
<1>1. /\ p \in Processes /\ pc[p] \in Places /\ local[p] \in Memory
      /\ Fits(local[p], pc[p])
      /\ local' = local => local' = [local EXCEPT ![p] = local[p]]
      /\ local[p].batch \subseteq DOMAIN queue
      /\ DOMAIN queue \subseteq Nat
      /\ cursor \in Nat /\ driverPid \in Drivers \cup {Nobody}
      /\ workdir \in Drivers \cup {Nobody, OtherRun, "parked"}
      /\ eventLock \in Processes \cup {Nobody}
      /\ \A i \in DOMAIN queue : queue[i] \in Entries
  BY DriverFits
<1>2. ASSUME NEW at \in DriverPlaces \ {"consuming"}, Goto(p, at), UNCHANGED <<queue, local>>, Grows,
             cursor' \in Nat, driverPid' \in Drivers \cup {Nobody},
             workdir' \in Drivers \cup {Nobody, OtherRun, "parked"},
             eventLock' \in Processes \cup {Nobody}
      PROVE  TypeOK' /\ EntriesFit'
  <2>1. Fits(M, at) /\ at \in Places
    BY <1>1, <1>2 DEF Fits, Places
  <2> QED BY <1>1, <1>2, <2>1, DriverStep
<1>3. LatestLife \in Nat
  <2>1. journal \in Seq(Events) /\ Len(journal) \in Nat
    BY DEF TypeOK, Events
  <2> QED BY <2>1, LatestIsThere
<1>4. CASE Clear(p)
  BY <1>1, <1>2, <1>4 DEF Clear, DriverPlaces, Grows
<1>5. CASE Publish(p)
  BY <1>1, <1>2, <1>5 DEF Publish, DriverPlaces, Grows
<1>6. CASE Plan(p)
  <2> DEFINE m == [M EXCEPT !.read = LatestLife]
  <2>1. Fits(m, "planned")
    BY <1>1, <1>3 DEF Fits, Memory
  <2>2. local' = [local EXCEPT ![p] = m] /\ Goto(p, "planned") /\ Grows
    BY <1>6 DEF Plan, Grows
  <2> HIDE DEF m
  <2> QED BY <1>1, <1>6, <2>1, <2>2, DriverStep DEF Plan, Places, DriverPlaces
<1>7. CASE Acquire(p)
  <2>1. workdir' \in Drivers \cup {Nobody, OtherRun, "parked"}
    BY <1>1, <1>7 DEF Acquire
  <2>2. Goto(p, "gone") \/ Goto(p, "holding")
    BY <1>7 DEF Acquire
  <2> QED BY <1>1, <1>2, <1>7, <2>1, <2>2 DEF Acquire, DriverPlaces, Grows
<1>8. CASE Admit(p)
  <2>1. eventLock' \in Processes \cup {Nobody}
    BY <1>1, <1>8 DEF Admit
  <2>2. Goto(p, "admitted") \/ Goto(p, "refused")
    BY <1>8 DEF Admit
  <2> QED BY <1>1, <1>2, <1>8, <2>1, <2>2 DEF Admit, DriverPlaces, Grows
<1>9. CASE Resume(p)
  <2>1. Event("resumed", M.read, FALSE) \in Events
    BY <1>1, EventIsTyped DEF Kinds, Lifecycle, Memory
  <2>2. Grows
    BY <1>9, <2>1 DEF Resume, Grows
  <2> QED BY <1>1, <1>2, <1>9, <2>2 DEF Resume, DriverPlaces
<1>10. CASE GiveBack(p)
  <2>1. workdir' \in Drivers \cup {Nobody, OtherRun, "parked"}
    BY <1>1, <1>10 DEF GiveBack, DropGuard
  <2> QED BY <1>1, <1>2, <1>10, <2>1 DEF GiveBack, DriverPlaces, Grows
<1>11. CASE Claim(p)
  <2> DEFINE m == [M EXCEPT !.mem = cursor, !.base = cursor]
  <2>1. Fits(m, "top")
    BY <1>1 DEF Fits, Memory
  <2>2. local' = [local EXCEPT ![p] = m] /\ Goto(p, "top") /\ Grows
    BY <1>11 DEF Claim, Grows
  <2> HIDE DEF m
  <2> QED BY <1>1, <1>11, <2>1, <2>2, DriverStep DEF Claim, Places, DriverPlaces
<1>12. CASE Watch(p)
  <2> DEFINE m == [M EXCEPT !.cancel = TRUE]
  <2>1. Fits(m, pc[p])
    BY <1>1 DEF Fits, Memory
  <2>2. local' = [local EXCEPT ![p] = m] /\ Goto(p, pc[p]) /\ Grows
    BY <1>1, <1>12 DEF Watch, Grows, Goto, TypeOK
  <2> HIDE DEF m
  <2> QED BY <1>1, <1>12, <2>1, <2>2, DriverStep DEF Watch, DriveOnly
<1>13. CASE TakeHandoff(p)
  <2> DEFINE m == [M EXCEPT !.unnamed = TRUE]
  <2>1. Fits(m, "launched")
    BY <1>1 DEF Fits, Memory
  <2>2. local' = [local EXCEPT ![p] = m] /\ Goto(p, "launched") /\ Grows
    BY <1>13 DEF TakeHandoff, Grows
  <2> HIDE DEF m
  <2> QED BY <1>1, <1>13, <2>1, <2>2, DriverStep DEF TakeHandoff, Places, DriverPlaces
<1>14. CASE PublishLate(p)
  <2> DEFINE m == [M EXCEPT !.unnamed = FALSE]
  <2>1. Fits(m, pc[p])
    BY <1>1 DEF Fits, Memory
  <2>2. local' = [local EXCEPT ![p] = m] /\ Goto(p, pc[p]) /\ Grows
    BY <1>1, <1>14 DEF PublishLate, Grows, Goto, TypeOK
  <2> HIDE DEF m
  <2> QED BY <1>1, <1>14, <2>1, <2>2, DriverStep DEF PublishLate
<1>15. CASE Crash(p)
  <2>1. eventLock' \in Processes \cup {Nobody}
    BY <1>1, <1>15 DEF Crash
  <2> QED BY <1>1, <1>2, <1>15, <2>1 DEF Crash, DriverPlaces, Grows
<1> QED BY <1>4, <1>5, <1>6, <1>7, <1>8, <1>9, <1>10, <1>11, <1>12, <1>13, <1>14, <1>15 DEF Start

\* A step of a client to one of its places, with a memory of its own.
LEMMA ClientStep ==
  ASSUME TypeOK, EntriesFit, NEW c \in Clients, NEW at \in ClientPlaces, NEW m \in Memory,
         Goto(c, at), local' = [local EXCEPT ![c] = m], Grows,
         \/ queue' = queue
         \/ \E e \in Entries : queue' = Append(queue, e),
         cursor' \in Nat, driverPid' = driverPid,
         workdir' \in Drivers \cup {Nobody, OtherRun, "parked"},
         eventLock' \in Processes \cup {Nobody}
  PROVE  TypeOK' /\ EntriesFit'
<1>1. c \in Processes /\ Drivers \cap Clients = {}
  BY ProcessAssumption DEF Processes
<1>2. journal' \in Seq(Events) /\ journal' # <<>> /\ journal'[1] = journal[1]
  BY JournalGrows
<1>3. /\ pc \in [Processes -> Places] /\ local \in [Processes -> Memory]
      /\ driverPid' \in Drivers \cup {Nobody}
  BY DEF TypeOK, Places
<1>4. pc' \in [Processes -> Places] /\ local' \in [Processes -> Memory]
  BY <1>1, <1>3 DEF Goto, Places
<1>5. queue' \in Seq(Entries) /\ DOMAIN queue \subseteq DOMAIN queue'
  <2>1. queue \in Seq(Entries)
    BY DEF TypeOK, Entries
  <2> QED BY <2>1
<1>6. TypeOK'
  BY <1>2, <1>3, <1>4, <1>5 DEF TypeOK, Events, Entries, Places
<1>7. ASSUME NEW q \in Drivers
      PROVE  pc'[q] = pc[q] /\ local'[q] = local[q]
  <2>1. q \in Processes /\ q # c
    BY <1>1 DEF Processes
  <2> QED BY <2>1, <1>3 DEF Goto
<1>8. EntriesFit'
  BY <1>2, <1>5, <1>7 DEF EntriesFit
<1> QED BY <1>6, <1>8

\* Every step of a client keeps the types.
LEMMA AskKeepsTypes ==
  ASSUME TypeOK, EntriesFit, NEW c \in Clients, Ask(c)
  PROVE  TypeOK' /\ EntriesFit'
<1> DEFINE M == local[c]
<1>1. /\ c \in Processes /\ pc[c] \in Places /\ local[c] \in Memory
      /\ local' = local => local' = [local EXCEPT ![c] = local[c]]
      /\ cursor \in Nat /\ driverPid \in Drivers \cup {Nobody}
      /\ workdir \in Drivers \cup {Nobody, OtherRun, "parked"}
      /\ eventLock \in Processes \cup {Nobody}
      /\ queue \in Seq(Entries) /\ Len(queue) \in Nat
      /\ Job[c] \in Jobs
  BY JobAssumption DEF TypeOK, Places, Processes, Entries
<1>2. ASSUME NEW at \in ClientPlaces, Goto(c, at), UNCHANGED <<queue, driverPid, local>>, Grows,
             cursor' \in Nat, workdir' \in Drivers \cup {Nobody, OtherRun, "parked"},
             eventLock' \in Processes \cup {Nobody}
      PROVE  TypeOK' /\ EntriesFit'
  BY <1>1, <1>2, ClientStep
<1>3. CASE Count(c)
  <2> DEFINE m == [M EXCEPT !.read = Len(queue), !.next = pc[c]]
  <2>1. m \in Memory
    BY <1>1 DEF Memory, Places
  <2>2. local' = [local EXCEPT ![c] = m] /\ Goto(c, "posting") /\ Grows
    BY <1>3 DEF Count, ClientOnly, Grows
  <2> HIDE DEF m
  <2> QED BY <1>1, <1>3, <2>1, <2>2, ClientStep DEF Count, ClientOnly, ClientPlaces
<1>4. CASE Post(c)
  <2> DEFINE e == [seq |-> M.read + 1, cmd |-> CommandOf(Job[c]), keep |-> Job[c] = "pause_keep"]
  <2>1. e \in Entries
    <3>1. CommandOf(Job[c]) \in Commands
      BY <1>1 DEF CommandOf, Jobs, Commands
    <3> QED BY <1>1, <3>1 DEF Entries, Memory
  <2>2. queue' = Append(queue, e)
    BY <1>4 DEF Post
  <2>3. PICK at \in {"asking", "gone"} : Goto(c, at)
    BY <1>4 DEF Post
  <2>4. eventLock' \in Processes \cup {Nobody}
    BY <1>1, <1>4 DEF Post
  <2>5. Grows
    BY <1>4 DEF Post, ClientOnly, Grows
  <2> HIDE DEF e
  <2> QED BY <1>1, <1>4, <2>1, <2>2, <2>3, <2>4, <2>5, ClientStep DEF Post, ClientOnly, ClientPlaces
<1>5. CASE Stop(c)
  <2>1. Goto(c, "gone") \/ Goto(c, "stopping")
    BY <1>5 DEF Stop
  <2>2. eventLock' \in Processes \cup {Nobody}
    BY <1>1, <1>5 DEF Stop
  <2> QED BY <1>1, <1>2, <1>5, <2>1, <2>2 DEF Stop, ClientOnly, ClientPlaces, Grows
<1>6. CASE StopAsk(c)
  <2>1. Goto(c, "gone") \/ Goto(c, "rereading")
    BY <1>6 DEF StopAsk
  <2>2. eventLock' \in Processes \cup {Nobody}
    BY <1>1, <1>6 DEF StopAsk
  <2> QED BY <1>1, <1>2, <1>6, <2>1, <2>2 DEF StopAsk, ClientOnly, ClientPlaces, Grows
<1>7. CASE StopReread(c)
  <2>1. Goto(c, "gone") \/ Goto(c, "finalizing")
    BY <1>7 DEF StopReread
  <2>2. eventLock' \in Processes \cup {Nobody} /\ cursor' \in Nat
    BY <1>1, <1>7 DEF StopReread, Memory
  <2> QED BY <1>1, <1>2, <1>7, <2>1, <2>2 DEF StopReread, ClientPlaces, Grows
<1>8. CASE StopFinalize(c)
  <2>1. Event("aborted", 0, FALSE) \in Events
    BY EventIsTyped DEF Kinds, Lifecycle, Ended
  <2>2. Grows
    BY <1>8, <2>1 DEF StopFinalize, Grows
  <2>3. workdir' \in Drivers \cup {Nobody, OtherRun, "parked"}
    BY <1>1, <1>8 DEF StopFinalize
  <2> QED BY <1>1, <1>2, <1>8, <2>2, <2>3 DEF StopFinalize, ClientPlaces
<1>9. CASE Pause(c)
  <2>1. Goto(c, "gone") \/ Goto(c, "syncing") \/ Goto(c, "looking")
    BY <1>9 DEF Pause
  <2>2. eventLock' \in Processes \cup {Nobody}
    BY <1>1, <1>9 DEF Pause
  <2> QED BY <1>1, <1>2, <1>9, <2>1, <2>2 DEF Pause, ClientOnly, ClientPlaces, Grows
<1>10. CASE PauseAsk(c)
  <2>1. Goto(c, "pausing") \/ Goto(c, "syncing")
    BY <1>10 DEF PauseAsk
  <2> QED BY <1>1, <1>2, <1>10, <2>1 DEF PauseAsk, ClientOnly, ClientPlaces, Grows
<1>11. CASE PauseSync(c)
  <2>1. Goto(c, "gone") \/ Goto(c, "journaling")
    BY <1>11 DEF PauseSync
  <2>2. /\ eventLock' \in Processes \cup {Nobody}
        /\ workdir' \in Drivers \cup {Nobody, OtherRun, "parked"}
    BY <1>1, <1>11 DEF PauseSync
  <2> QED BY <1>1, <1>2, <1>11, <2>1, <2>2 DEF PauseSync, ClientPlaces, Grows
<1>12. CASE PauseJournal(c)
  <2>1. Event("paused", 0, Job[c] = "pause_keep") \in Events
    BY EventIsTyped DEF Kinds, Lifecycle
  <2>2. Grows
    BY <1>12, <2>1 DEF PauseJournal, Grows
  <2> QED BY <1>1, <1>2, <1>12, <2>2 DEF PauseJournal, ClientPlaces
<1> QED BY <1>3, <1>4, <1>5, <1>6, <1>7, <1>8, <1>9, <1>10, <1>11, <1>12 DEF Ask

\* Types and fits are inductive.
LEMMA StepKeepsTypes ==
  ASSUME TypeOK, EntriesFit, [Next]_vars
  PROVE  TypeOK' /\ EntriesFit'
<1>1. CASE UNCHANGED vars
  <2>1. /\ queue' = queue /\ cursor' = cursor /\ journal' = journal /\ driverPid' = driverPid
        /\ workdir' = workdir /\ eventLock' = eventLock /\ pc' = pc /\ local' = local
    BY <1>1 DEF vars
  <2>2. TypeOK'
    BY <2>1 DEF TypeOK
  <2>3. EntriesFit'
    BY <2>1 DEF EntriesFit
  <2> QED BY <2>2, <2>3
<1>2. CASE OtherTakes \/ OtherLeaves
  <2>1. /\ queue' = queue /\ cursor' = cursor /\ journal' = journal /\ driverPid' = driverPid
        /\ workdir' \in {OtherRun, Nobody} /\ eventLock' = eventLock /\ pc' = pc /\ local' = local
    BY <1>2 DEF OtherTakes, OtherLeaves
  <2>2. TypeOK'
    BY <2>1 DEF TypeOK
  <2>3. EntriesFit'
    BY <2>1 DEF EntriesFit
  <2> QED BY <2>2, <2>3
<1> QED BY <1>1, <1>2, LoopKeepsTypes, StartKeepsTypes, AskKeepsTypes DEF Next

-----------------------------------------------------------------------------
(* What the steps keep: the event lock *)

Moves(p) == \/ p \in Drivers /\ (Loop(p) \/ Start(p) \/ Watch(p) \/ Crash(p))
            \/ p \in Clients /\ Ask(p)

\* Every step is of the other run or of one process.
LEMMA NextIsOneMove ==
  ASSUME [Next]_vars
  PROVE  \/ \E p \in Processes : Moves(p)
         \/ OtherTakes \/ OtherLeaves \/ UNCHANGED vars
BY DEF Next, Moves, Processes

\* A step of a process moves no other one.
LEMMA OthersStay ==
  ASSUME TypeOK, NEW p \in Processes, Moves(p), NEW q \in Processes, q # p
  PROVE  pc'[q] = pc[q] /\ local'[q] = local[q]
<1>1. pc \in [Processes -> Places] /\ local \in [Processes -> Memory]
  BY DEF TypeOK, Places
<1>2. pc' = pc \/ \E at : pc' = [pc EXCEPT ![p] = at]
  <2>1. CASE p \in Drivers /\ Loop(p)
    BY <2>1 DEF Loop, Scan, ScanDone, Await, Apply, Answer, AtRetry, Consume, StartNode, Finish,
                EndNode, Leave, Fail, ReadKeep, Park, Exit, Taking, EndWith, Goto
  <2>2. CASE p \in Drivers /\ (Start(p) \/ Watch(p) \/ Crash(p))
    BY <2>2 DEF Start, Clear, Publish, TakeHandoff, PublishLate, Plan, Acquire, Admit, Resume, GiveBack, Claim, Watch, Crash, Goto
  <2>3. CASE p \in Clients /\ Ask(p)
    BY <2>3 DEF Ask, Count, Post, Stop, StopAsk, StopReread, StopFinalize, Pause, PauseAsk,
                PauseSync, PauseJournal, Goto
  <2> QED BY <2>1, <2>2, <2>3 DEF Moves
<1>3. local' = local \/ \E m : local' = [local EXCEPT ![p] = m]
  <2>1. CASE p \in Drivers /\ Loop(p)
    BY <2>1 DEF Loop, Scan, ScanDone, Await, Apply, Answer, AtRetry, Consume, StartNode, Finish,
                EndNode, Leave, Fail, ReadKeep, Park, Exit, Taking, EndWith
  <2>2. CASE p \in Drivers /\ (Start(p) \/ Watch(p) \/ Crash(p))
    BY <2>2 DEF Start, Clear, Publish, TakeHandoff, PublishLate, Plan, Acquire, Admit, Resume, GiveBack, Claim, Watch, Crash
  <2>3. CASE p \in Clients /\ Ask(p)
    BY <2>3 DEF Ask, Count, Post, Stop, StopAsk, StopReread, StopFinalize, Pause, PauseAsk,
                PauseSync, PauseJournal, ClientOnly
  <2> QED BY <2>1, <2>2, <2>3 DEF Moves
<1> QED BY <1>1, <1>2, <1>3

\* A process that has the event lock.
Owns(p) == IF p \in Clients THEN UnderLock(p) ELSE pc[p] = "admitted"

\* LocksFit, for clients and drivers at once.
LEMMA OwnersFit ==
  LocksFit <=> \A p \in Processes : Owns(p) => eventLock = p
BY ProcessAssumption DEF LocksFit, Owns, Processes

\* A process takes the event lock when it is free, and gives back its own.
LEMMA LockMove ==
  ASSUME TypeOK, EntriesFit, LocksFit, NEW p \in Processes, Moves(p)
  PROVE  /\ eventLock' = eventLock \/ eventLock \in {Nobody, p}
         /\ Owns(p)' => eventLock' = p
<1>1. /\ pc \in [Processes -> Places] /\ local \in [Processes -> Memory]
      /\ Owns(p) => eventLock = p
      /\ p \in Clients <=> p \notin Drivers
  BY OwnersFit, ProcessAssumption DEF TypeOK, Places, Processes
<1>2. CASE p \in Drivers /\ Loop(p)
  <2>1. eventLock' = eventLock
    BY <1>2 DEF Loop, Scan, ScanDone, Await, Apply, Answer, AtRetry, Consume, StartNode, Finish,
                EndNode, Leave, Fail, ReadKeep, Park, Exit, DriveOnly
  <2>2. pc[p] # "admitted"
    BY <1>2 DEF Loop, Scan, ScanDone, Await, Apply, Answer, AtRetry, Consume, StartNode, Finish,
                EndNode, Leave, Fail, ReadKeep, Park, Exit
  <2>3. pc'[p] # "admitted"
    <3>1. CASE Consume(p)
      <4>1. pc[p] = "consuming" /\ Goto(p, local[p].next)
        BY <3>1 DEF Consume
      <4>2. local[p].next # "admitted"
        BY <1>2, <4>1 DEF EntriesFit
      <4> QED BY <1>1, <4>1, <4>2 DEF Goto
    <3>2. CASE Scan(p) \/ ScanDone(p) \/ Await(p) \/ Apply(p) \/ Answer(p) \/ AtRetry(p) \/ StartNode(p)
      BY <1>1, <2>2, <3>2 DEF Scan, ScanDone, Await, Apply, Answer, AtRetry, StartNode, Taking, Goto
    <3>3. CASE Finish(p) \/ EndNode(p)
      BY <1>1, <3>3 DEF Finish, EndNode, EndWith, Goto
    <3>4. CASE Leave(p) \/ Fail(p) \/ ReadKeep(p) \/ Park(p) \/ Exit(p)
      BY <1>1, <3>4 DEF Leave, Fail, ReadKeep, Park, Exit, Goto
    <3> QED BY <1>2, <3>1, <3>2, <3>3, <3>4 DEF Loop
  <2> QED BY <1>1, <1>2, <2>1, <2>3 DEF Owns
<1>3. CASE p \in Drivers /\ (Start(p) \/ Watch(p) \/ Crash(p))
  <2>1. CASE Clear(p) \/ Publish(p) \/ TakeHandoff(p) \/ Plan(p) \/ Acquire(p) \/ GiveBack(p) \/ Claim(p)
    BY <1>1, <1>3, <2>1 DEF Clear, Publish, TakeHandoff, Plan, Acquire, GiveBack, Claim, Goto, Owns
  <2>2. CASE Admit(p)
    BY <1>1, <1>3, <2>2 DEF Admit, Goto, Owns
  <2>3. CASE Resume(p)
    BY <1>1, <1>3, <2>3 DEF Resume, Goto, Owns
  <2>4. CASE Watch(p) \/ PublishLate(p)
    BY <1>1, <1>3, <2>4 DEF Watch, PublishLate, DriveOnly, InLoop, Owns
  <2>5. CASE Crash(p)
    BY <1>1, <1>3, <2>5 DEF Crash, Goto, Owns
  <2> QED BY <1>3, <2>1, <2>2, <2>3, <2>4, <2>5 DEF Start
<1>4. CASE p \in Clients /\ Ask(p)
  <2>1. CASE Count(p)
    BY <1>1, <1>4, <2>1 DEF Count, Goto, Owns, UnderLock, ClientOnly, ClientPlaces
  <2>2. CASE Post(p)
    BY <1>1, <1>4, <2>2 DEF Post, Goto, Owns, UnderLock, ClientOnly, ClientPlaces
  <2>3. CASE Stop(p) \/ Pause(p)
    BY <1>1, <1>4, <2>3 DEF Stop, Pause, Goto, Owns, UnderLock, ClientOnly, ClientPlaces
  <2>4. CASE StopAsk(p) \/ StopReread(p) \/ StopFinalize(p)
    BY <1>1, <1>4, <2>4 DEF StopAsk, StopReread, StopFinalize, Goto, Owns, UnderLock, ClientOnly, ClientPlaces
  <2>5. CASE PauseAsk(p) \/ PauseSync(p) \/ PauseJournal(p)
    BY <1>1, <1>4, <2>5 DEF PauseAsk, PauseSync, PauseJournal, Goto, Owns, UnderLock, ClientOnly, ClientPlaces
  <2> QED BY <1>4, <2>1, <2>2, <2>3, <2>4, <2>5 DEF Ask
<1> QED BY <1>2, <1>3, <1>4 DEF Moves

\* Who holds the event lock is inductive.
LEMMA StepKeepsLocks ==
  ASSUME TypeOK, EntriesFit, LocksFit, [Next]_vars
  PROVE  LocksFit'
<1>1. \A q \in Processes : Owns(q) => eventLock = q
  BY OwnersFit
<1>2. ASSUME NEW p \in Processes, Moves(p), NEW q \in Processes, Owns(q)'
      PROVE  eventLock' = q
  <2>1. CASE q = p
    BY <1>2, <2>1, LockMove
  <2>2. CASE q # p
    <3>1. pc'[q] = pc[q] /\ local'[q] = local[q]
      BY <1>2, <2>2, OthersStay
    <3>2. Owns(q)
      BY <1>2, <3>1 DEF Owns, UnderLock
    <3>3. eventLock = q /\ q # Nobody
      BY <1>1, <3>2, ProcessAssumption DEF Processes
    <3> QED BY <1>2, <2>2, <3>3, LockMove
  <2> QED BY <2>1, <2>2
<1>3. CASE OtherTakes \/ OtherLeaves \/ UNCHANGED vars
  <2>1. eventLock' = eventLock /\ pc' = pc /\ local' = local
    BY <1>3 DEF OtherTakes, OtherLeaves, vars
  <2> QED BY <2>1 DEF LocksFit, UnderLock
<1>4. CASE \E p \in Processes : Moves(p)
  <2>1. \A q \in Processes : Owns(q)' => eventLock' = q
    BY <1>2, <1>4
  <2>2. \A q \in Processes : (Owns(q) => eventLock = q)'
    BY <2>1
  <2> QED BY <2>2, ProcessAssumption DEF LocksFit, Owns, Processes
<1> QED BY <1>3, <1>4, NextIsOneMove

-----------------------------------------------------------------------------
(* What the steps keep: the working tree *)

\* A driver that holds the working tree keeps everybody else out of it.
LEMMA HolderIsBusy ==
  ASSUME TypeOK, OneWriter, TakesLock, NEW p \in Drivers, Holding(p)
  PROVE  workdir = p /\ p \notin {Nobody, OtherRun, "parked"} /\ BusyForUs /\ BusyForOther
<1>1. workdir = p /\ p \in Processes /\ p \notin {Nobody, OtherRun, "parked"}
  BY ProcessAssumption DEF OneWriter, Processes
<1>2. Alive(p)
  BY <1>1 DEF Holding, Alive
<1> QED BY <1>1, <1>2 DEF BusyForUs, BusyForOther

\* A driver comes to hold the tree by taking it, and a process changes the
\* busy lock when it is free, parked, or its own to leave.
LEMMA TreeMove ==
  ASSUME TypeOK, EntriesFit, OneWriter, TakesLock, NEW p \in Processes, Moves(p)
  PROVE  /\ workdir' = workdir \/ ~BusyForUs \/ workdir = p
         /\ p \in Drivers /\ Holding(p)' => workdir' = p
<1>1. /\ pc \in [Processes -> Places] /\ local \in [Processes -> Memory]
      /\ p \in Drivers /\ Holding(p) => workdir = p
      /\ p \in Clients <=> p \notin Drivers
  BY ProcessAssumption DEF TypeOK, Places, Processes, OneWriter
<1>2. CASE p \in Drivers /\ Loop(p)
  <2>1. Holding(p)
    <3>1. pc[p] \in {"top", "scanning", "answering", "consuming", "ready", "working",
                     "left", "failing", "leaving", "parking"}
      BY <1>2 DEF Loop, Scan, ScanDone, Await, Apply, Answer, AtRetry, Consume, StartNode, Finish,
                  EndNode, Leave, Fail, ReadKeep, Park, Exit
    <3> QED BY <3>1 DEF Holding, DriverPlaces
  <2>2. CASE Park(p) \/ Exit(p)
    <3>1. ~Holding(p)'
      BY <1>1, <1>2, <2>2 DEF Park, Exit, Goto, Holding
    <3> QED BY <1>1, <1>2, <2>1, <3>1
  <2>3. CASE ~(Park(p) \/ Exit(p))
    <3>1. workdir' = workdir
      BY <1>2, <2>3 DEF Loop, Scan, ScanDone, Await, Apply, Answer, AtRetry, Consume, StartNode, Finish,
                        EndNode, Leave, Fail, ReadKeep, DriveOnly
    <3> QED BY <1>1, <1>2, <2>1, <3>1
  <2> QED BY <2>2, <2>3
<1>3. CASE p \in Drivers /\ (Start(p) \/ Watch(p) \/ Crash(p))
  <2>1. CASE Clear(p) \/ Publish(p) \/ TakeHandoff(p) \/ Plan(p)
    BY <1>1, <1>3, <2>1 DEF Clear, Publish, TakeHandoff, Plan, Goto, Holding
  <2>2. CASE Acquire(p)
    BY <1>1, <1>3, <2>2 DEF Acquire, Goto, Holding
  <2>3. CASE Admit(p) \/ Resume(p) \/ Claim(p)
    BY <1>1, <1>3, <2>3 DEF Admit, Resume, Claim, Goto, Holding, DriverPlaces
  <2>4. CASE GiveBack(p)
    BY <1>1, <1>3, <2>4 DEF GiveBack, Goto, Holding, DriverPlaces
  <2>5. CASE Watch(p) \/ PublishLate(p)
    BY <1>1, <1>3, <2>5 DEF Watch, PublishLate, DriveOnly, Holding
  <2>6. CASE Crash(p)
    BY <1>1, <1>3, <2>6 DEF Crash, Goto, Holding
  <2> QED BY <1>3, <2>1, <2>2, <2>3, <2>4, <2>5, <2>6 DEF Start
<1>4. CASE p \in Clients /\ Ask(p)
  <2>1. workdir' = workdir \/ ~BusyForUs
    BY <1>4 DEF Ask, Count, Post, Stop, StopAsk, StopReread, StopFinalize, Pause, PauseAsk,
                PauseSync, PauseJournal, ClientOnly, BusyForUs
  <2> QED BY <1>1, <1>4, <2>1
<1> QED BY <1>2, <1>3, <1>4 DEF Moves

\* One writer at a time is inductive.
LEMMA StepKeepsOneWriter ==
  ASSUME TypeOK, EntriesFit, OneWriter, [Next]_vars
  PROVE  OneWriter'
<1> SUFFICES ASSUME NEW q \in Drivers, TakesLock, Holding(q)'
             PROVE  workdir' = q
  BY DEF OneWriter, Holding
<1>1. q \in Processes
  BY DEF Processes
<1>2. CASE OtherTakes \/ OtherLeaves \/ UNCHANGED vars
  <2>1. Holding(q)
    BY <1>2 DEF OtherTakes, OtherLeaves, vars, Holding
  <2> QED BY <1>2, <2>1, HolderIsBusy DEF OtherTakes, OtherLeaves, vars
<1>3. ASSUME NEW p \in Processes, Moves(p)
      PROVE  workdir' = q
  <2>1. CASE p = q
    BY <1>3, <2>1, TreeMove
  <2>2. CASE p # q
    <3>1. Holding(q)
      BY <1>1, <1>3, <2>2, OthersStay DEF Holding
    <3>2. workdir = q /\ BusyForUs
      BY <3>1, HolderIsBusy
    <3> QED BY <1>3, <2>2, <3>2, TreeMove
  <2> QED BY <2>1, <2>2
<1> QED BY <1>2, <1>3, NextIsOneMove

-----------------------------------------------------------------------------
(* What the steps keep: the resumes of the journal *)

\* The journal grows, and what is new in it is no run_resumed.
NothingResumed ==
  \/ \E e \in Events : e.kind # "resumed" /\ Append1(e)
  \/ \E e, f \in Events : /\ e.kind # "resumed" /\ f.kind # "resumed"
                          /\ journal' = journal \o <<e, f>>

\* Who writes the journal: the driver of the run, a resume that was admitted,
\* or a stop or a pause under the event lock.
LEMMA JournalMove ==
  ASSUME TypeOK, EntriesFit, NEW p \in Processes, Moves(p)
  PROVE  \/ journal' = journal
         \/ p \in Drivers /\ Holding(p) /\ NothingResumed
         \/ p \in Drivers /\ Resume(p)
         \/ p \in Clients /\ UnderLock(p) /\ NothingResumed
<1>1. CASE p \in Drivers /\ Loop(p)
  <2>1. Holding(p)
    <3>1. pc[p] \in {"top", "scanning", "answering", "consuming", "ready", "working",
                     "left", "failing", "leaving", "parking"}
      BY <1>1 DEF Loop, Scan, ScanDone, Await, Apply, Answer, AtRetry, Consume, StartNode, Finish,
                  EndNode, Leave, Fail, ReadKeep, Park, Exit
    <3> QED BY <3>1 DEF Holding, DriverPlaces
  <2>2. journal' = journal \/ NothingResumed
    <3>1. CASE Apply(p)
      <4>1. Min(local[p].batch) \in DOMAIN queue /\ queue[Min(local[p].batch)].cmd # "retry"
        BY <1>1, <3>1, FirstIsThere DEF Apply
      <4>2. /\ EventOf(Min(local[p].batch)) \in Events
            /\ EventOf(Min(local[p].batch)).kind # "resumed"
        BY <4>1, EventOfIsTyped
      <4> QED BY <3>1, <4>2 DEF Apply, NothingResumed
    <3>2. CASE Answer(p)
      <4> DEFINE i == Min(local[p].batch)
      <4>1. i \in Nat
        BY <1>1, <3>2, FirstIsThere DEF Answer
      <4>2. PICK kind \in {"retried", "refused"} : Append1(Event(kind, i, FALSE))
        BY <3>2 DEF Answer
      <4>3. Event(kind, i, FALSE) \in Events /\ Event(kind, i, FALSE).kind = kind
        BY <4>1, EventIsTyped DEF Event, Kinds
      <4> HIDE DEF i
      <4> QED BY <4>2, <4>3 DEF NothingResumed
    <3>3. CASE AtRetry(p)
      <4> DEFINE i == Min(local[p].batch)
                 stops == {j \in local[p].batch : queue[j].cmd \in {"pause", "abort"}}
                 stop == Min(stops)
                 salvaged == stops # {} /\ (queue[stop].cmd = "pause" \/ local[p].cancel)
      <4>1. i \in Nat
        BY <1>1, <3>3, FirstIsThere DEF AtRetry
      <4>2. CASE ~salvaged
        BY <3>3, <4>2 DEF AtRetry
      <4>3. CASE salvaged
        <5>1. stop \in DOMAIN queue /\ queue[stop].cmd \in {"pause", "abort"}
          <6>1. stops \subseteq local[p].batch /\ stops # {}
            BY <4>3
          <6>2. stop \in stops /\ stop \in DOMAIN queue
            <7> HIDE DEF stops
            <7> QED BY <1>1, <6>1, FirstIsThere
          <6> QED BY <6>2
        <5>2. EventOf(stop) \in Events /\ EventOf(stop).kind # "resumed"
          BY <5>1, EventOfIsTyped
        <5>3. /\ Event("superseded", i, FALSE) \in Events
              /\ Event("superseded", i, FALSE).kind # "resumed"
          BY <4>1, EventIsTyped DEF Event, Kinds
        <5>4. journal' = journal \o <<Event("superseded", i, FALSE), EventOf(stop)>>
          BY <3>3, <4>3 DEF AtRetry
        <5> HIDE DEF i, stop
        <5> QED BY <5>2, <5>3, <5>4 DEF NothingResumed
      <4> QED BY <4>2, <4>3
    <3>4. ASSUME NEW kind \in {"finished", "paused", "failed"}, Append1(Event(kind, 0, FALSE))
          PROVE  NothingResumed
      <4>1. Event(kind, 0, FALSE) \in Events /\ Event(kind, 0, FALSE).kind = kind
        BY EventIsTyped DEF Event, Kinds, Lifecycle, Ended
      <4> QED BY <3>4, <4>1 DEF NothingResumed
    <3>5. CASE Finish(p) \/ EndNode(p) \/ Fail(p)
      BY <3>4, <3>5 DEF Finish, EndNode, Fail, EndWith
    <3>6. CASE \/ Scan(p) \/ ScanDone(p) \/ Await(p) \/ Consume(p) \/ StartNode(p)
               \/ Leave(p) \/ ReadKeep(p) \/ Park(p) \/ Exit(p)
      BY <3>6 DEF Scan, ScanDone, Await, Consume, StartNode, Leave, ReadKeep, Park, Exit
    <3> QED BY <1>1, <3>1, <3>2, <3>3, <3>5, <3>6 DEF Loop
  <2> QED BY <1>1, <2>1, <2>2
<1>2. CASE p \in Drivers /\ (Start(p) \/ Watch(p) \/ Crash(p))
  BY <1>2 DEF Start, Clear, Publish, TakeHandoff, PublishLate, Plan, Acquire, Admit, GiveBack, Claim, Watch, Crash
<1>3. CASE p \in Clients /\ Ask(p)
  <2>1. CASE StopFinalize(p)
    <3>1. Event("aborted", 0, FALSE) \in Events /\ Event("aborted", 0, FALSE).kind # "resumed"
      BY EventIsTyped DEF Event, Kinds, Lifecycle, Ended
    <3> QED BY <1>3, <2>1, <3>1 DEF StopFinalize, NothingResumed, UnderLock, ClientPlaces
  <2>2. CASE PauseJournal(p)
    <3> DEFINE e == Event("paused", 0, Job[p] = "pause_keep")
    <3>1. e \in Events /\ e.kind # "resumed"
      BY EventIsTyped DEF Event, Kinds, Lifecycle
    <3> HIDE DEF e
    <3>2. Append1(e)
      BY <2>2 DEF PauseJournal, e
    <3> QED BY <1>3, <2>2, <3>1, <3>2 DEF PauseJournal, NothingResumed, UnderLock, ClientPlaces
  <2>3. CASE ~(StopFinalize(p) \/ PauseJournal(p))
    BY <1>3, <2>3 DEF Ask, Count, Post, Stop, StopAsk, StopReread, Pause, PauseAsk, PauseSync, ClientOnly
  <2> QED BY <2>1, <2>2, <2>3
<1> QED BY <1>1, <1>2, <1>3 DEF Moves

\* The journal behind an event does not change when the journal grows.
LEMMA PastStays ==
  ASSUME TypeOK, EntriesFit, Grows
  PROVE  /\ Len(journal) \in Nat /\ Len(journal') \in Nat /\ Len(journal) <= Len(journal')
         /\ DOMAIN journal = 1..Len(journal) /\ DOMAIN journal' = 1..Len(journal')
         /\ \A r \in DOMAIN journal : journal'[r] = journal[r]
         /\ \A r \in 1..(Len(journal) + 1) : {i \in LifeEvents' : i < r} = {i \in LifeEvents : i < r}
<1>1. journal \in Seq(Events) /\ journal' \in Seq(Events)
  BY JournalGrows DEF TypeOK, Events
<1>2. Len(journal) <= Len(journal') /\ \A r \in 1..Len(journal) : journal'[r] = journal[r]
  <2>1. CASE journal' = journal
    BY <1>1, <2>1
  <2>2. CASE \E e \in Events : Append1(e)
    BY <1>1, <2>2 DEF Append1
  <2>3. CASE \E e, f \in Events : journal' = journal \o <<e, f>>
    <3>1. PICK e \in Events, f \in Events : journal' = journal \o <<e, f>>
      BY <2>3
    <3>2. <<e, f>> \in Seq(Events)
      OBVIOUS
    <3> QED BY <1>1, <3>1, <3>2
  <2> QED BY <2>1, <2>2, <2>3 DEF Grows
<1>3. ASSUME NEW r \in 1..(Len(journal) + 1), NEW i, i < r
      PROVE  i \in LifeEvents' <=> i \in LifeEvents
  <2>1. CASE i \in 1..Len(journal')
    <3>1. i \in 1..Len(journal)
      BY <1>1, <1>3, <2>1
    <3> QED BY <1>1, <1>2, <2>1, <3>1 DEF LifeEvents
  <2>2. CASE i \notin 1..Len(journal')
    BY <1>1, <1>2, <2>2 DEF LifeEvents
  <2> QED BY <2>1, <2>2
<1>4. \A r \in 1..(Len(journal) + 1) : {i \in LifeEvents' : i < r} = {i \in LifeEvents : i < r}
  BY <1>3
<1> QED BY <1>1, <1>2, <1>4

\* New events that resume nothing leave every earlier resume where it was.
LEMMA NothingResumedKeepsPlan ==
  ASSUME TypeOK, EntriesFit, ResumesWhatItPlanned, NothingResumed
  PROVE  ResumesWhatItPlanned'
<1> SUFFICES ASSUME TakesLock, NEW r \in DOMAIN journal', journal'[r].kind = "resumed"
             PROVE  journal'[r].of = Max({i \in LifeEvents' : i < r})
  BY DEF ResumesWhatItPlanned
<1>1. Grows
  BY DEF NothingResumed, Grows
<1>2. journal \in Seq(Events)
  BY DEF TypeOK, Events
<1>3. r \in DOMAIN journal
  <2>1. CASE \E e \in Events : e.kind # "resumed" /\ Append1(e)
    BY <1>2, <2>1 DEF Append1
  <2>2. CASE \E e, f \in Events : /\ e.kind # "resumed" /\ f.kind # "resumed"
                                  /\ journal' = journal \o <<e, f>>
    <3>1. PICK e \in Events, f \in Events :
                 /\ e.kind # "resumed" /\ f.kind # "resumed"
                 /\ journal' = journal \o <<e, f>>
      BY <2>2
    <3>2. <<e, f>> \in Seq(Events) /\ Len(<<e, f>>) = 2 /\ <<e, f>>[1] = e /\ <<e, f>>[2] = f
      OBVIOUS
    <3>3. /\ Len(journal') = Len(journal) + 2
          /\ journal'[Len(journal) + 1] = e /\ journal'[Len(journal) + 2] = f
      BY <1>2, <3>1, <3>2
    <3>4. r \in 1..(Len(journal) + 2) /\ r # Len(journal) + 1 /\ r # Len(journal) + 2
      BY <1>1, <3>1, <3>3, PastStays
    <3> QED BY <1>1, <3>4, PastStays
  <2> QED BY <2>1, <2>2 DEF NothingResumed
<1>4. r \in 1..(Len(journal) + 1) /\ journal'[r] = journal[r]
  BY <1>1, <1>3, PastStays
<1>5. {i \in LifeEvents' : i < r} = {i \in LifeEvents : i < r}
  BY <1>1, <1>4, PastStays
<1> QED BY <1>3, <1>4, <1>5 DEF ResumesWhatItPlanned

\* The run_resumed of an admitted resume names the latest lifecycle event.
LEMMA ResumeKeepsPlan ==
  ASSUME TypeOK, EntriesFit, AdmittedFit, ResumesWhatItPlanned, NEW p \in Drivers, Resume(p)
  PROVE  ResumesWhatItPlanned'
<1> SUFFICES ASSUME TakesLock, NEW r \in DOMAIN journal', journal'[r].kind = "resumed"
             PROVE  journal'[r].of = Max({i \in LifeEvents' : i < r})
  BY DEF ResumesWhatItPlanned
<1> DEFINE e == Event("resumed", local[p].read, FALSE)
<1>1. local[p].read = LatestLife /\ journal' = Append(journal, e)
  BY DEF Resume, AdmittedFit, Append1
<1>2. local[p].read \in Nat
  BY DriverFits DEF Memory
<1>3. e \in Events /\ e.of = local[p].read
  BY <1>2, EventIsTyped DEF Event, Kinds, Lifecycle
<1>4. journal \in Seq(Events) /\ Grows
  BY <1>1, <1>3 DEF TypeOK, Events, Grows, Append1
<1>5. /\ Len(journal) \in Nat /\ Len(journal') = Len(journal) + 1
      /\ journal'[Len(journal) + 1] = e
  <2> HIDE DEF e
  <2> QED BY <1>1, <1>3, <1>4
<1>6. r \in 1..(Len(journal) + 1)
  BY <1>4, <1>5, PastStays
<1>7. {i \in LifeEvents' : i < r} = {i \in LifeEvents : i < r}
  BY <1>4, <1>6, PastStays
<1>8. CASE r \in DOMAIN journal
  BY <1>4, <1>7, <1>8, PastStays DEF ResumesWhatItPlanned
<1>9. CASE r = Len(journal) + 1
  <2>1. {i \in LifeEvents : i < r} = LifeEvents
    <3>1. LifeEvents \subseteq 1..Len(journal)
      BY <1>4 DEF LifeEvents
    <3>2. ASSUME NEW i \in LifeEvents PROVE i < r
      <4>1. i \in 1..Len(journal)
        BY <3>1
      <4> QED BY <1>5, <1>9, <4>1
    <3> QED BY <3>2
  <2> QED BY <1>1, <1>3, <1>5, <1>7, <1>9, <2>1 DEF LatestLife
<1> QED BY <1>4, <1>5, <1>6, <1>8, <1>9, PastStays

\* A driver that is admitted was just admitted, or stood still while its parent
\* named it.
LEMMA AdmittedByAdmit ==
  ASSUME TypeOK, EntriesFit, NEW p \in Drivers, Moves(p), pc'[p] = "admitted"
  PROVE  \/ Admit(p) /\ LatestLife = local[p].read /\ local' = local
         \/ PublishLate(p)
<1>1. /\ p \in Processes /\ pc \in [Processes -> Places] /\ p \notin Clients
  BY ProcessAssumption DEF TypeOK, Places, Processes
<1>2. CASE Loop(p)
  <2>1. CASE Consume(p)
    <3>1. pc[p] = "consuming" /\ Goto(p, local[p].next)
      BY <2>1 DEF Consume
    <3>2. local[p].next # "admitted"
      BY <3>1 DEF EntriesFit
    <3> QED BY <1>1, <3>1, <3>2 DEF Goto
  <2>2. CASE Scan(p) \/ ScanDone(p) \/ Await(p) \/ Apply(p) \/ Answer(p) \/ AtRetry(p) \/ StartNode(p)
    BY <1>1, <2>2 DEF Scan, ScanDone, Await, Apply, Answer, AtRetry, StartNode, Taking, Goto
  <2>3. CASE Finish(p) \/ EndNode(p)
    BY <1>1, <2>3 DEF Finish, EndNode, EndWith, Goto
  <2>4. CASE Leave(p) \/ Fail(p) \/ ReadKeep(p) \/ Park(p) \/ Exit(p)
    BY <1>1, <2>4 DEF Leave, Fail, ReadKeep, Park, Exit, Goto
  <2> QED BY <1>2, <2>1, <2>2, <2>3, <2>4 DEF Loop
<1>3. CASE Admit(p)
  BY <1>1, <1>3 DEF Admit, Goto
<1>4. CASE Start(p) /\ ~Admit(p)
  BY <1>1, <1>4 DEF Start, Clear, Publish, TakeHandoff, Plan, Acquire, Resume, GiveBack, Claim, Goto
<1>5. CASE Watch(p) \/ Crash(p)
  BY <1>1, <1>5 DEF Watch, InLoop, Crash, Goto
<1> QED BY <1>1, <1>2, <1>3, <1>4, <1>5 DEF Moves

\* The resumes of the journal, and the one about to be journaled, are inductive.
LEMMA StepKeepsPlan ==
  ASSUME OwnersInv, [Next]_vars
  PROVE  AdmittedFit' /\ ResumesWhatItPlanned'
<1>0. TypeOK /\ EntriesFit /\ LocksFit /\ OneWriter /\ AdmittedFit /\ ResumesWhatItPlanned
  BY DEF OwnersInv
<1>1. CASE OtherTakes \/ OtherLeaves \/ UNCHANGED vars
  <2>1. journal' = journal /\ pc' = pc /\ local' = local
    BY <1>1 DEF OtherTakes, OtherLeaves, vars
  <2> QED BY <1>0, <2>1 DEF AdmittedFit, ResumesWhatItPlanned, LatestLife, LifeEvents
<1>2. ASSUME NEW p \in Processes, Moves(p)
      PROVE  AdmittedFit'
  <2> SUFFICES ASSUME TakesLock, NEW q \in Drivers, pc'[q] = "admitted"
               PROVE  LatestLife' = local'[q].read
    BY DEF AdmittedFit
  <2>1. q \in Processes
    BY DEF Processes
  <2>2. CASE q = p
    <3>1. CASE Admit(p) /\ LatestLife = local[p].read /\ local' = local
      <4>1. journal' = journal
        BY <3>1 DEF Admit
      <4> QED BY <2>2, <3>1, <4>1 DEF LatestLife, LifeEvents
    <3>2. CASE PublishLate(p)
      <4>1. pc[q] = "admitted" /\ journal' = journal
        BY <2>2, <3>2 DEF PublishLate
      <4>2. local'[q].read = local[q].read
        BY <1>0, <2>1, <2>2, <3>2 DEF PublishLate, TypeOK, Memory
      <4> QED BY <1>0, <4>1, <4>2 DEF AdmittedFit, LatestLife, LifeEvents
    <3> QED BY <1>0, <1>2, <2>2, <3>1, <3>2, AdmittedByAdmit
  <2>3. CASE q # p
    <3>1. pc[q] = "admitted" /\ local'[q] = local[q]
      BY <1>0, <1>2, <2>1, <2>3, OthersStay
    <3>2. LatestLife = local[q].read /\ eventLock = q
      BY <1>0, <3>1 DEF AdmittedFit, LocksFit
    <3>3. workdir = q
      BY <1>0, <3>1 DEF OneWriter, Holding, DriverPlaces
    <3>4. ~(p \in Drivers /\ Holding(p))
      BY <1>0, <2>3, <3>3 DEF OneWriter
    <3>5. ~(p \in Drivers /\ Resume(p))
      BY <3>4 DEF Resume, Holding, DriverPlaces
    <3>6. ~(p \in Clients /\ UnderLock(p))
      BY <1>0, <2>3, <3>2 DEF LocksFit
    <3>7. journal' = journal
      BY <1>0, <1>2, <3>4, <3>5, <3>6, JournalMove
    <3> QED BY <3>1, <3>2, <3>7 DEF LatestLife, LifeEvents
  <2> QED BY <2>2, <2>3
<1>3. ASSUME NEW p \in Processes, Moves(p)
      PROVE  ResumesWhatItPlanned'
  <2>1. CASE journal' = journal
    BY <1>0, <2>1 DEF ResumesWhatItPlanned, LifeEvents
  <2>2. CASE NothingResumed
    BY <1>0, <2>2, NothingResumedKeepsPlan
  <2>3. CASE p \in Drivers /\ Resume(p)
    BY <1>0, <2>3, ResumeKeepsPlan
  <2> QED BY <1>0, <1>3, <2>1, <2>2, <2>3, JournalMove
<1> QED BY <1>1, <1>2, <1>3, NextIsOneMove

-----------------------------------------------------------------------------
(* The theorems *)

\* OwnersInv is inductive, and so holds in every state the run reaches.
THEOREM OwnersInvariant == Spec => []OwnersInv
<1>1. OwnersInv /\ [Next]_vars => OwnersInv'
  BY StepKeepsTypes, StepKeepsLocks, StepKeepsOneWriter, StepKeepsPlan DEF OwnersInv
<1> QED BY InitIsOwnersInv, <1>1, PTL DEF Spec

\* Every variable keeps its type, for any set of drivers and clients.
THEOREM TypeCorrect == Spec => []TypeOK
<1>1. OwnersInv => TypeOK
  BY DEF OwnersInv
<1> QED BY OwnersInvariant, <1>1, PTL

\* acquire_at, park, WorkdirGuard::drop: however many resumes, stops, pauses
\* and crashes there are, a process that drives or resumes a run that takes the
\* busy lock has the working tree to itself.
THEOREM OneWriterHolds == Spec => []OneWriter
<1>1. OwnersInv => OneWriter
  BY DEF OwnersInv
<1> QED BY OwnersInvariant, <1>1, PTL

\* try_journal_resumed: a run_resumed of such a run follows the very lifecycle
\* event its resume was planned from.
THEOREM ResumesArePlanned == Spec => []ResumesWhatItPlanned
<1>1. OwnersInv => ResumesWhatItPlanned
  BY DEF OwnersInv
<1> QED BY OwnersInvariant, <1>1, PTL
=============================================================================
