------------------------- MODULE FrontierRuns_proofs -------------------------
(***************************************************************************)
(* Proofs about whole runs. Of playbooks that a run goes through once: no  *)
(* node's work is done twice, no head is lost, a run fails only for a      *)
(* reason, a pause can be taken up again and a join waits for what can     *)
(* reach it. Of every playbook: what runs in the journal is what the       *)
(* driver waits for.                                                       *)
(***************************************************************************)
EXTENDS FrontierOrder_proofs

-----------------------------------------------------------------------------
(* The steps of a batch: a member finishes, is retried, is redirected, is *)
(* waited for.                                                            *)

\* What a member's finish leaves, folded.
Finishes(n, status, log, s) ==
  /\ log \in Seq(LogRecords(Nodes)) /\ Keeping(state, log) /\ Fold(state, log) = s
  /\ Kept(s) /\ s.run = "running" /\ (OwedIsPending(state) => OwedIsPending(s))
  /\ s.nodes[n] = status
  /\ \A m \in Nodes \ {n} : s.nodes[m] = state.nodes[m] /\ Onward(s, m) = Onward(state, m)
  /\ \A t : OwedIn(s, t) => OwedIn(state, t)

\* A running member is work at hand.
InHand(n) ==
  /\ n \in Nodes /\ n \in ToSet(drive.batch) /\ n \in Work(drive) /\ n \notin drive.ended /\ n \notin drive.advanced
  /\ n \notin ToSet(drive.queue) /\ n \notin ToSet(drive.frontier)
  /\ state.nodes[n] = "running" /\ ~IsFinished(state, n) /\ \A y \in Beyond(n) : state.nodes[y] = "pending"

\* So is one that finishes either way: its finish changes that node alone.
LEMMA MemberFinishes ==
  ASSUME DriveInv, OneWay, Tidy(state, drive, asked, crashes), drive.phase = "batch", NEW n \in drive.running
  PROVE  /\ InHand(n)
         /\ \A status \in {"succeeded", "failed"} :
              Finishes(n, status, <<NodeFinished(n, status)>>, FoldOne(state, NodeFinished(n, status)))
<1>1. /\ BatchHolds /\ drive \in Memories /\ shape \in DOMAIN Graphs /\ crashes \in Nat /\ state.run = "running"
      /\ Work(drive) = (ToSet(drive.batch) \ drive.advanced) \cup ToSet(drive.frontier) /\ Work(drive) \subseteq Nodes
  BY BatchFacts
<1>2. /\ n \in Nodes /\ n \in ToSet(drive.batch) /\ n \notin drive.ended /\ drive.advanced \subseteq drive.ended
      /\ n \notin ToSet(drive.queue) /\ state.nodes[n] = "running"
  BY DriverFacts DEF HeadsSound, MemorySound
<1>3. Kept(state) /\ ToSet(drive.frontier) \cap ToSet(drive.batch) = {} /\ Quiet(state, Work(drive), Work(drive))
  BY <1>1 DEF BatchHolds, BatchFits
<1>4. n \in Work(drive)
  BY <1>1, <1>2
<1>5. ~IsFinished(state, n) /\ \A y \in Beyond(n) : state.nodes[y] = "pending"
  BY <1>2, <1>3, <1>4 DEF Quiet, IsFinished
<1>6. ASSUME NEW status \in {"succeeded", "failed"}
      PROVE  Finishes(n, status, <<NodeFinished(n, status)>>, FoldOne(state, NodeFinished(n, status)))
  <2> DEFINE r == NodeFinished(n, status)
             s == FoldOne(state, r)
             log == <<r>>
  <2>1. status \in FinalStatuses
    BY DEF FinalStatuses
  <2>2. \A given \in FinalStatuses : \A z :
          z = FoldOne(state, NodeFinished(n, given)) =>
            /\ Kept(z) /\ (OwedIsPending(state) /\ state.nodes[n] = "running" => OwedIsPending(z))
            /\ z.nodes = [state.nodes EXCEPT ![n] = given] /\ z.started = state.started
            /\ z.run = state.run /\ z.hops = state.hops
            /\ \A m \in Nodes \ {n} : Onward(z, m) = Onward(state, m)
    BY <1>1, <1>2, <1>3, <1>5, FinishKeeps
  <2>3. /\ Kept(s) /\ (OwedIsPending(state) => OwedIsPending(s))
        /\ s.nodes = [state.nodes EXCEPT ![n] = status] /\ s.started = state.started
        /\ s.run = "running" /\ s.hops = state.hops
        /\ \A m \in Nodes \ {n} : Onward(s, m) = Onward(state, m)
    BY <1>1, <1>2, <2>1, <2>2
  <2>4. state.nodes \in [Nodes -> Statuses]
    BY <1>3 DEF Kept, Orderly, RunStates
  <2>5. log \in Seq(LogRecords(Nodes))
    <3>1. r \in LogRecords(Nodes)
      BY <1>2, <2>1 DEF LogRecords, NodeRecords
    <3> HIDE DEF r
    <3> QED BY <3>1
  <2>6. Keeping(state, log) /\ Fold(state, log) = s
    <3>1. Kept(state) /\ Kept(FoldOne(state, r)) /\ FoldOne(state, r).run = state.run
      BY <1>1, <1>3, <2>3
    <3> HIDE DEF r
    <3> QED BY <3>1, KeepingOne
  <2>7. \A t : OwedIn(s, t) => OwedIn(state, t)
    <3> HIDE DEF s
    <3> QED BY <2>3 DEF OwedIn
  <2> HIDE DEF s, log
  <2>8. s.nodes[n] = status /\ \A m \in Nodes \ {n} : s.nodes[m] = state.nodes[m]
    BY <1>2, <2>3, <2>4
  <2>9. Finishes(n, status, log, s)
    BY <2>3, <2>5, <2>6, <2>7, <2>8 DEF Finishes
  <2> QED BY <2>9 DEF s, log
<1> QED BY <1>2, <1>3, <1>4, <1>5, <1>6 DEF InHand

\* A member that is not routed at once: its finish is all that is journaled.
LEMMA MemberWaitsIsTidy ==
  ASSUME DriveInv, OneWay, Tidy(state, drive, asked, crashes), drive.phase = "batch", NEW n \in drive.running,
         NEW status \in {"succeeded", "failed"}, NEW log, NEW s, Finishes(n, status, log, s), InHand(n),
         NEW d, d = Ended(n, status), ~d.pipelining \/ d.halted, Write(log, d)
  PROVE  Tidy(state', drive', asked', crashes')
<1>1. /\ BatchHolds /\ drive \in Memories /\ shape \in DOMAIN Graphs /\ crashes \in Nat /\ state.run = "running"
      /\ Work(drive) = (ToSet(drive.batch) \ drive.advanced) \cup ToSet(drive.frontier) /\ Work(drive) \subseteq Nodes
  BY BatchFacts
<1>2. /\ d.phase = "batch" /\ d.batch = drive.batch /\ d.queue = drive.queue /\ d.frontier = drive.frontier
      /\ d.advanced = drive.advanced /\ d.ended = drive.ended \cup {n} /\ d.won = drive.won /\ d.halted = drive.halted
  BY <1>1 DEF Memories, Ended
<1>3. /\ Keeping(state, log) /\ Fold(state, log) = s /\ log \in Seq(LogRecords(Nodes)) /\ Kept(s) /\ s.run = "running"
      /\ (OwedIsPending(state) => OwedIsPending(s)) /\ s.nodes[n] = status
      /\ \A m \in Nodes \ {n} : s.nodes[m] = state.nodes[m] /\ Onward(s, m) = Onward(state, m)
      /\ \A t : OwedIn(s, t) => OwedIn(state, t)
  BY DEF Finishes
<1>4. /\ n \in Nodes /\ n \in Work(drive) /\ n \notin drive.ended /\ n \notin drive.advanced
      /\ n \in ToSet(drive.batch) /\ n \notin ToSet(drive.queue) /\ n \notin ToSet(drive.frontier)
  BY DEF InHand
<1>5. /\ Kept(state) /\ Quiet(state, Work(drive), Work(drive)) /\ Quiet(state, Sent(state, drive), Work(drive))
      /\ ToSet(drive.batch) # {}
      /\ \A m \in ToSet(drive.queue) \cup ToSet(drive.frontier) : ~IsFinished(state, m)
      /\ ToSet(drive.frontier) \cap ToSet(drive.batch) = {}
      /\ \A m \in drive.ended : state.nodes[m] \in {"succeeded", "failed"}
      /\ ~drive.won
      /\ \A m \in drive.advanced : \A t \in Onward(state, m) \ ToSet(drive.batch) :
           state.nodes[t] = "pending" /\ (IsJoin(t) \/ t \in ToSet(drive.frontier))
  BY <1>1 DEF BatchHolds, BatchFits
<1>6. /\ drive.advanced \subseteq Nodes /\ drive.ended \subseteq Nodes /\ ToSet(drive.queue) \subseteq Nodes
      /\ ToSet(drive.frontier) \subseteq Nodes
      /\ \A m \in drive.advanced : Onward(state, m) \subseteq Nodes
  <2>1. drive.advanced \subseteq Nodes /\ drive.ended \subseteq Nodes /\ drive.queue \in Seq(Nodes) /\ drive.frontier \in Seq(Nodes)
    BY <1>1, DriverFacts DEF Memories
  <2>2. \A m \in drive.advanced : Onward(state, m) \subseteq Nodes
    BY <1>1, <1>5, <2>1, RoutedAreOnward DEF Kept, Orderly
  <2> QED BY <2>1, <2>2, Elements
<1>7. Work(d) = Work(drive)
  BY <1>1, <1>2 DEF Work
<1>8. Sent(s, d) = Sent(state, drive)
  <2>1. \A m \in drive.advanced : Onward(s, m) = Onward(state, m)
    BY <1>3, <1>4, <1>6
  <2>2. UNION {Onward(s, m) : m \in drive.advanced} = UNION {Onward(state, m) : m \in drive.advanced}
    BY <2>1
  <2>3. Sent(s, d) = (UNION {Onward(s, m) : m \in drive.advanced}) \ drive.advanced
    BY <1>2 DEF Sent
  <2>4. Sent(state, drive) = (UNION {Onward(state, m) : m \in drive.advanced}) \ drive.advanced
    BY DEF Sent
  <2> QED BY <2>2, <2>3, <2>4
<1>9. Quiet(s, Work(drive), Work(drive)) /\ Quiet(s, Sent(state, drive), Work(drive))
  <2>1. \A m \in Sent(state, drive) : m \in Nodes
    BY <1>6 DEF Sent
  <2>2. \A a \in Work(drive) \cup Sent(state, drive) : \A y \in Beyond(a) : y \in Nodes
    BY <1>1, <2>1, BeyondFacts
  <2> QED BY <1>3, <1>4, <1>5, <2>2 DEF Quiet
<1>10. BatchFits(s, d)
  <2>1. \A m \in ToSet(drive.queue) \cup ToSet(drive.frontier) : ~IsFinished(s, m)
    BY <1>3, <1>4, <1>5, <1>6 DEF IsFinished
  <2>2. \A m \in drive.ended \cup {n} : s.nodes[m] \in {"succeeded", "failed"}
    BY <1>3, <1>4, <1>5, <1>6
  <2>3. ASSUME NEW m \in drive.advanced, NEW t \in Onward(s, m) \ ToSet(drive.batch)
        PROVE  s.nodes[t] = "pending" /\ (IsJoin(t) \/ t \in ToSet(drive.frontier))
    <3>1. m \in Nodes \ {n} /\ t \in Onward(state, m) /\ t \in Nodes /\ t # n
      BY <1>3, <1>4, <1>6
    <3> QED BY <1>3, <1>5, <3>1
  <2> QED BY <1>2, <1>5, <1>7, <1>8, <1>9, <2>1, <2>2, <2>3 DEF BatchFits
<1>11. Holds(s, d)
  BY <1>2, <1>7, <1>9, <1>10 DEF Holds, Upright
<1>12. crashes = 0 => Debts(s, d, asked)
  <2>1. crashes = 0 => OwedIsPending(s) /\ (~drive.halted => Remembers(state, drive))
    BY <1>1, <1>3 DEF BatchHolds
  <2> QED BY <1>2, <1>3, <2>1 DEF Debts, Remembers
<1>13. Tidy(s, d, asked, crashes) /\ MayBeCut(state, log)
  BY <1>1, <1>3, <1>11, <1>12, KeepingMayBeCut DEF Tidy
<1> QED BY <1>1, <1>3, <1>13, WriteIsTidy

\* A batch past a member it routed: its open successors beside the frontier, some of them admitted.
Grown(s, n, d, seeds, adm, p) ==
  /\ seeds = {t \in Onward(s, n) : Open(s, t, ToSet(d.frontier) \cup ToSet(d.batch))}
  /\ adm \subseteq ToSet(d.frontier) \cup seeds
  /\ p.drive.phase = "batch" /\ p.drive.halted = d.halted /\ p.drive.won = d.won
  /\ p.drive.ended = d.ended /\ p.drive.pipelining = d.pipelining /\ p.drive.advanced = d.advanced \cup {n}
  /\ ToSet(p.drive.batch) = ToSet(d.batch) \cup adm /\ ToSet(p.drive.queue) = ToSet(d.queue) \cup adm
  /\ ToSet(p.drive.frontier) = (ToSet(d.frontier) \cup seeds) \ adm
  /\ \A u : /\ Kept(u) /\ u.nodes = s.nodes
            /\ \A m \in Nodes : Onward(u, m) = Onward(s, m)
            => Continues(u, p.log, {n})

\* Routing a member adds to the batch, or to the frontier, exactly its open successors.
LEMMA PipelineGrows ==
  ASSUME shape \in DOMAIN Graphs, OneWay, NEW s, NEW n, Routable(s, n), NEW d, d \in Memories, d.phase = "batch",
         n \in ToSet(d.batch), ToSet(d.frontier) \cap ToSet(d.batch) = {}, Onward(s, n) \cap ToSet(d.batch) = {}
  PROVE  \E seeds, adm : Grown(s, n, d, seeds, adm, Pipeline(s, n, d))
<1> DEFINE me == CHOOSE i \in DOMAIN d.batch : d.batch[i] = n
           after == {d.batch[i] : i \in {k \in DOMAIN d.batch : k > me}}
           owed == ((ToSet(d.batch) \ d.ended) \cup after) \ ({n} \cup ToSet(d.frontier))
           later == Among(d.batch, owed)
           wide == d.frontier \o later
           adv == Advance(s, n, wide, ToSet(d.batch))
           routed == Without(adv.frontier, ToSet(later))
           unended == {m \in ToSet(d.batch) : m # n /\ m \notin d.ended}
           fit == {t \in Batchable(ToSet(routed)) \ ToSet(d.batch) : Reach(t) \cap unended = {}}
           admitted == IF d.running # {} \/ d.queue # <<>> THEN Among(routed, fit) ELSE <<>>
           advanced == d.advanced \cup {n}
           left == Without(routed, ToSet(admitted))
           batch == d.batch \o admitted
           queue == d.queue \o admitted
           next == [d EXCEPT !.advanced = advanced, !.frontier = left, !.batch = batch, !.queue = queue]
           seeds == {t \in Onward(s, n) : Open(s, t, ToSet(d.frontier) \cup ToSet(d.batch))}
           adm == ToSet(admitted)
<1>1. Pipeline(s, n, d) = [log |-> adv.log, drive |-> next]
  BY DEF Pipeline, Grow
<1>2. d.frontier \in Seq(Nodes) /\ d.batch \in Seq(Nodes) /\ d.queue \in Seq(Nodes)
  BY DEF Memories
<1>3. later \in Seq(Nodes) /\ ToSet(later) \subseteq ToSet(d.batch)
  <2> HIDE DEF owed
  <2> QED BY <1>2, AmongKeeps
<1> HIDE DEF later, me, after, owed
<1>4. wide \in Seq(Nodes) /\ ToSet(wide) = ToSet(d.frontier) \cup ToSet(later)
  BY <1>2, <1>3, Joined
<1> HIDE DEF wide
<1>5. Forwards(s, n, wide, ToSet(d.batch), adv)
  BY <1>4, AdvanceGoesOn
<1>6. {n} \cup ToSet(wide) \cup ToSet(d.batch) = ToSet(d.frontier) \cup ToSet(d.batch)
  BY <1>3, <1>4
<1> HIDE DEF adv
<1>7. /\ adv.frontier \in Seq(Nodes)
      /\ ToSet(adv.frontier) = ToSet(wide) \cup seeds
      /\ \A u : /\ Kept(u) /\ u.nodes = s.nodes
                /\ \A m \in Nodes : Onward(u, m) = Onward(s, m)
                => Continues(u, adv.log, {n})
  <2> DEFINE A == {n} \cup ToSet(wide) \cup ToSet(d.batch)
  <2>1. seeds = {t \in Onward(s, n) : Open(s, t, A)}
    BY <1>6
  <2> HIDE DEF seeds
  <2> QED BY <1>5, <2>1 DEF Forwards
<1>8. seeds \subseteq Onward(s, n)
  OBVIOUS
<1> HIDE DEF seeds
<1>9. routed \in Seq(Nodes) /\ ToSet(routed) = ToSet(d.frontier) \cup seeds
  <2>1. routed \in Seq(Nodes) /\ ToSet(routed) = ToSet(adv.frontier) \ ToSet(later)
    BY <1>7, WithoutDrops
  <2> QED BY <1>3, <1>4, <1>7, <1>8, <2>1
<1> HIDE DEF routed
<1>10. admitted \in Seq(Nodes) /\ adm \subseteq ToSet(routed)
  <2>1. PICK none : none = <<>>
    OBVIOUS
  <2>2. none \in Seq(Nodes) /\ ToSet(none) = {}
    BY <2>1 DEF ToSet
  <2> HIDE DEF fit
  <2>3. Among(routed, fit) \in Seq(Nodes) /\ ToSet(Among(routed, fit)) = ToSet(routed) \cap fit
    BY <1>9, AmongKeeps
  <2>4. admitted = none \/ admitted = Among(routed, fit)
    BY <2>1
  <2> HIDE DEF admitted
  <2> QED BY <2>2, <2>3, <2>4
<1> HIDE DEF admitted
<1>11. left \in Seq(Nodes) /\ ToSet(left) = ToSet(routed) \ adm
  <2> HIDE DEF adm
  <2> QED BY <1>9, WithoutDrops DEF adm
<1>12. ToSet(batch) = ToSet(d.batch) \cup adm
  BY <1>2, <1>10, Joined
<1>13. ToSet(queue) = ToSet(d.queue) \cup adm
  BY <1>2, <1>10, Joined
<1> HIDE DEF left, batch, queue
<1>14. next.phase = "batch" /\ next.frontier = left /\ next.batch = batch /\ next.queue = queue
       /\ next.ended = d.ended /\ next.advanced = d.advanced \cup {n} /\ next.halted = d.halted
       /\ next.won = d.won /\ next.pipelining = d.pipelining
  BY DEF Memories
<1> HIDE DEF next, adm
<1> DEFINE p == Pipeline(s, n, d)
<1>15. p.log = adv.log /\ p.drive = next
  BY <1>1
<1> HIDE DEF p
<1>16. Grown(s, n, d, seeds, adm, p)
  BY <1>7, <1>9, <1>10, <1>11, <1>12, <1>13, <1>14, <1>15 DEF Grown, seeds
<1> QED BY <1>16 DEF p

\* A member that is routed leaves the work at hand, and its open successors are added to it.
LEMMA WorkMovesOn ==
  ASSUME NEW batch, NEW advanced, advanced \subseteq batch, NEW frontier, NEW n, n \in batch,
         n \notin advanced, n \notin frontier, NEW seeds, seeds \cap batch = {},
         NEW adm, adm \subseteq frontier \cup seeds, adm \cap batch = {}
  PROVE  ((batch \cup adm) \ (advanced \cup {n})) \cup ((frontier \cup seeds) \ adm)
           = (((batch \ advanced) \cup frontier) \ {n}) \cup seeds
BY Zenon

\* A member routed at once: what it opens is beside the work at hand, never beyond it.
LEMMA MemberGoesOnIsTidy ==
  ASSUME DriveInv, OneWay, Tidy(state, drive, asked, crashes), drive.phase = "batch", NEW n \in drive.running,
         NEW finish, NEW s, Finishes(n, "succeeded", finish, s), InHand(n),
         NEW d, d = Ended(n, "succeeded"), d.pipelining, ~d.halted,
         NEW p, p = Pipeline(s, n, d), Write(finish \o p.log, p.drive)
  PROVE  Tidy(state', drive', asked', crashes')
<1>1. /\ BatchHolds /\ drive \in Memories /\ shape \in DOMAIN Graphs /\ crashes \in Nat /\ state.run = "running"
      /\ Work(drive) = (ToSet(drive.batch) \ drive.advanced) \cup ToSet(drive.frontier) /\ Work(drive) \subseteq Nodes
  BY BatchFacts
<1>2. /\ d.phase = "batch" /\ d.batch = drive.batch /\ d.queue = drive.queue /\ d.frontier = drive.frontier
      /\ d.advanced = drive.advanced /\ d.ended = drive.ended \cup {n} /\ d.won = drive.won /\ d.halted = drive.halted
      /\ drive.pipelining
  BY <1>1 DEF Memories, Ended
<1>3. /\ Keeping(state, finish) /\ Fold(state, finish) = s /\ finish \in Seq(LogRecords(Nodes)) /\ Kept(s) /\ s.run = "running"
      /\ (OwedIsPending(state) => OwedIsPending(s)) /\ s.nodes[n] = "succeeded"
      /\ \A m \in Nodes \ {n} : s.nodes[m] = state.nodes[m] /\ Onward(s, m) = Onward(state, m)
      /\ \A t : OwedIn(s, t) => OwedIn(state, t)
  BY DEF Finishes
<1>4. /\ n \in Nodes /\ n \in Work(drive) /\ n \notin drive.ended /\ n \notin drive.advanced
      /\ n \in ToSet(drive.batch) /\ n \notin ToSet(drive.queue) /\ n \notin ToSet(drive.frontier)
  BY DEF InHand
<1>5. /\ Kept(state) /\ Quiet(state, Work(drive), Work(drive)) /\ Quiet(state, Sent(state, drive), Work(drive))
      /\ ToSet(drive.batch) # {}
      /\ \A m \in ToSet(drive.queue) \cup ToSet(drive.frontier) : ~IsFinished(state, m)
      /\ ToSet(drive.frontier) \cap ToSet(drive.batch) = {}
      /\ \A m \in drive.ended : state.nodes[m] \in {"succeeded", "failed"}
      /\ drive.ended \subseteq drive.advanced
      /\ ~drive.won
      /\ \A m \in drive.advanced : \A t \in Onward(state, m) \ ToSet(drive.batch) :
           state.nodes[t] = "pending" /\ (IsJoin(t) \/ t \in ToSet(drive.frontier))
  BY <1>1, <1>2 DEF BatchHolds, BatchFits
<1>6. /\ drive.advanced \subseteq Nodes /\ drive.ended \subseteq Nodes /\ ToSet(drive.queue) \subseteq Nodes
      /\ ToSet(drive.frontier) \subseteq Nodes /\ ToSet(drive.batch) \subseteq Nodes
      /\ drive.advanced \subseteq drive.ended /\ drive.advanced \subseteq ToSet(drive.batch)
      /\ ToSet(drive.batch) \subseteq ToSet(drive.queue) \cup drive.running \cup drive.ended
      /\ \A m \in drive.running : m \in Nodes /\ state.nodes[m] = "running"
  <2>1. drive.advanced \subseteq Nodes /\ drive.ended \subseteq Nodes /\ drive.queue \in Seq(Nodes)
        /\ drive.frontier \in Seq(Nodes) /\ drive.batch \in Seq(Nodes)
    BY <1>1, DriverFacts DEF Memories
  <2>2. /\ drive.advanced \subseteq drive.ended /\ drive.advanced \subseteq ToSet(drive.batch)
        /\ ToSet(drive.batch) \subseteq ToSet(drive.queue) \cup drive.running \cup drive.ended
        /\ \A m \in drive.running : m \in Nodes /\ state.nodes[m] = "running"
    BY <1>2, DriverFacts DEF HeadsSound, MemorySound
  <2> QED BY <2>1, <2>2, Elements
<1>7. /\ Onward(s, n) \subseteq Beyond(n) /\ Onward(s, n) \subseteq Nodes
      /\ \A m \in drive.advanced : Onward(s, m) = Onward(state, m) /\ Onward(state, m) \subseteq Nodes
  <2>1. Orderly(s) /\ Orderly(state)
    BY <1>3, <1>5 DEF Kept
  <2>2. \A m \in Nodes : Onward(state, m) \subseteq Nodes
    BY <1>1, <2>1, RoutedAreOnward DEF Orderly
  <2>3. Onward(s, n) \subseteq Beyond(n) /\ Onward(s, n) \subseteq Nodes
    BY <1>1, <1>4, <2>1, RoutedAreOnward DEF Orderly
  <2> QED BY <1>3, <1>4, <1>6, <2>2, <2>3
\* Beyond the member nothing has begun, nor is in the batch.
<1>8. \A y \in Beyond(n) : /\ y \in Nodes /\ y # n /\ s.nodes[y] = "pending"
                           /\ y \notin Work(drive) /\ y \notin ToSet(drive.batch)
  <2> SUFFICES ASSUME NEW y \in Beyond(n)
               PROVE  y \in Nodes /\ y # n /\ s.nodes[y] = "pending" /\ y \notin Work(drive) /\ y \notin ToSet(drive.batch)
    OBVIOUS
  <2>1. y \in Nodes /\ state.nodes[y] = "pending" /\ y \notin Work(drive)
    BY <1>1, <1>4, <1>5, BeyondFacts DEF Quiet
  <2>2. y # n /\ s.nodes[y] = "pending"
    BY <1>3, <1>4, <2>1
  <2>3. y \notin ToSet(drive.batch)
    BY <1>1, <1>5, <1>6, <2>1
  <2> QED BY <2>1, <2>2, <2>3
<1>9. PICK seeds, adm : Grown(s, n, d, seeds, adm, p)
  <2>1. Routable(s, n)
    BY <1>3, <1>4, <1>7, <1>8 DEF Routable, IsFinished
  <2>2. Onward(s, n) \cap ToSet(d.batch) = {}
    BY <1>2, <1>7, <1>8
  <2>3. d \in Memories
    BY <1>1, <1>4 DEF Memories, Ended
  <2> QED BY <1>1, <1>2, <1>4, <1>5, <2>1, <2>2, <2>3, PipelineGrows
<1> DEFINE A == ToSet(drive.frontier) \cup ToSet(drive.batch)
           u == Fold(s, p.log)
           next == p.drive
<1>10. /\ seeds = {t \in Onward(s, n) : Open(s, t, A)}
       /\ adm \subseteq ToSet(drive.frontier) \cup seeds
       /\ next.phase = "batch" /\ next.halted = drive.halted /\ next.won = drive.won
       /\ next.ended = drive.ended \cup {n} /\ next.advanced = drive.advanced \cup {n}
       /\ ToSet(next.batch) = ToSet(drive.batch) \cup adm /\ ToSet(next.queue) = ToSet(drive.queue) \cup adm
       /\ ToSet(next.frontier) = (ToSet(drive.frontier) \cup seeds) \ adm
       /\ Continues(s, p.log, {n})
  BY <1>2, <1>3, <1>9 DEF Grown
<1>11. /\ Keeping(s, p.log) /\ p.log \in Seq(LogRecords({}))
       /\ Kept(u) /\ (OwedIsPending(s) => OwedIsPending(u)) /\ u.nodes = s.nodes /\ u.run = "running"
       /\ \A m \in Nodes : Onward(u, m) = Onward(s, m)
       /\ \A t : OwedIn(u, t) => OwedIn(s, t) \/ t \in Onward(s, n)
  <2>1. \A t : OwedIn(u, t) => OwedIn(s, t) \/ t \in Onward(s, n)
    BY <1>10, OwedContinues
  <2> QED BY <1>3, <1>10, <2>1 DEF Continues, Beside
<1> HIDE DEF u, next
<1>12. seeds \subseteq Onward(s, n) /\ seeds \cap ToSet(drive.batch) = {} /\ adm \cap ToSet(drive.batch) = {}
       /\ \A t \in seeds : t \in Nodes /\ s.nodes[t] = "pending"
  BY <1>5, <1>7, <1>8, <1>10
<1>13. Work(next) = (Work(drive) \ {n}) \cup seeds
  <2>1. Work(next) = ((ToSet(drive.batch) \cup adm) \ (drive.advanced \cup {n})) \cup ((ToSet(drive.frontier) \cup seeds) \ adm)
    BY <1>10 DEF Work
  <2>2. /\ Work(drive) = (ToSet(drive.batch) \ drive.advanced) \cup ToSet(drive.frontier)
        /\ drive.advanced \subseteq ToSet(drive.batch)
    BY <1>1, <1>6
  <2>3. n \in ToSet(drive.batch) /\ n \notin drive.advanced /\ n \notin ToSet(drive.frontier)
    BY <1>4
  <2>4. adm \subseteq ToSet(drive.frontier) \cup seeds
    BY <1>10
  <2> QED BY <1>12, <2>1, <2>2, <2>3, <2>4, WorkMovesOn
<1>14. \A m \in drive.advanced \cup {n} : Onward(u, m) = Onward(s, m) /\ Onward(s, m) \subseteq Nodes
  BY <1>4, <1>6, <1>7, <1>11
<1>15. Sent(u, next) \subseteq Sent(state, drive) \cup Onward(s, n)
  <2> SUFFICES ASSUME NEW x \in Sent(u, next), x \notin Onward(s, n) PROVE x \in Sent(state, drive)
    OBVIOUS
  <2>1. PICK m \in drive.advanced \cup {n} : x \in Onward(u, m)
    BY <1>10 DEF Sent
  <2>2. m \in drive.advanced /\ x \in Onward(state, m)
    BY <1>7, <1>14, <2>1
  <2>3. x \notin drive.advanced
    BY <1>10 DEF Sent
  <2> QED BY <2>2, <2>3 DEF Sent
<1>16. \A x \in Sent(u, next) : x \notin drive.advanced /\ x # n
  BY <1>10 DEF Sent
<1>17. ASSUME NEW a \in Work(next) \cup Sent(u, next)
       PROVE  /\ a \in Nodes /\ AtWork(s, a, A)
              /\ \A y \in Beyond(a) : s.nodes[y] = "pending" /\ y \notin Work(drive)
  <2>1. CASE a \in Work(drive) \ {n}
    <3>1. a \in Nodes
      BY <1>1, <2>1
    <3>2. ~IsFinished(state, a)
      BY <1>1, <1>5, <1>6, <2>1 DEF IsFinished
    <3>3. ~IsFinished(s, a)
      BY <1>3, <2>1, <3>1, <3>2 DEF IsFinished
    <3>4. a \in A
      BY <1>1, <2>1
    <3>5. \A y \in Beyond(a) : s.nodes[y] = "pending" /\ y \notin Work(drive)
      <4> SUFFICES ASSUME NEW y \in Beyond(a) PROVE s.nodes[y] = "pending" /\ y \notin Work(drive)
        OBVIOUS
      <4>1. y \in Nodes /\ state.nodes[y] = "pending" /\ y \notin Work(drive)
        BY <1>1, <1>5, <2>1, <3>1, BeyondFacts DEF Quiet
      <4> QED BY <1>3, <1>4, <4>1
    <3> QED BY <3>1, <3>3, <3>4, <3>5 DEF AtWork
  <2>2. CASE a \in Onward(s, n)
    <3>1. a \in Beyond(n) /\ a \in Nodes /\ s.nodes[a] = "pending"
      BY <1>7, <1>8, <2>2
    <3>2. n \in A /\ IsFinished(s, n) /\ ~IsFinished(s, a)
      BY <1>3, <1>4, <3>1 DEF IsFinished
    <3>3. Beyond(a) \subseteq Beyond(n)
      BY <1>1, <1>4, <3>1, BeyondFacts
    <3> QED BY <1>8, <2>2, <3>1, <3>2, <3>3 DEF AtWork
  <2>3. CASE a \in Sent(state, drive) /\ a \in Sent(u, next) /\ a \notin Onward(s, n)
    <3>1. PICK m \in drive.advanced : a \in Onward(state, m)
      BY <2>3 DEF Sent
    <3>2. a \in Nodes /\ a \notin drive.advanced /\ a # n /\ m \in Nodes /\ m # n
      BY <1>4, <1>6, <1>7, <1>16, <2>3, <3>1
    <3>3. ~IsFinished(state, a)
      <4>1. CASE a \in ToSet(drive.batch)
        BY <1>5, <1>6, <3>2, <4>1 DEF IsFinished
      <4>2. CASE a \notin ToSet(drive.batch)
        BY <1>5, <3>1, <4>2 DEF IsFinished
      <4> QED BY <4>1, <4>2
    <3>4. ~IsFinished(s, a)
      BY <1>3, <3>2, <3>3 DEF IsFinished
    <3>5. m \in A /\ IsFinished(s, m) /\ a \in Onward(s, m)
      BY <1>3, <1>5, <1>6, <1>7, <3>1, <3>2 DEF IsFinished
    <3>6. \A y \in Beyond(a) : s.nodes[y] = "pending" /\ y \notin Work(drive)
      <4> SUFFICES ASSUME NEW y \in Beyond(a) PROVE s.nodes[y] = "pending" /\ y \notin Work(drive)
        OBVIOUS
      <4>1. y \in Nodes /\ state.nodes[y] = "pending" /\ y \notin Work(drive)
        BY <1>1, <1>5, <2>3, <3>2, BeyondFacts DEF Quiet
      <4> QED BY <1>3, <1>4, <4>1
    <3> QED BY <3>2, <3>4, <3>5, <3>6 DEF AtWork
  <2> QED BY <1>12, <1>13, <1>15, <2>1, <2>2, <2>3
<1>18. Growing(s, A, Work(next) \cup Sent(u, next), Work(drive), Work(next))
  <2>1. A \in SUBSET Nodes
    BY <1>6
  <2>2. \A y \in Work(next) : y \in Work(drive) \/ \E B \in SUBSET Nodes : A \subseteq B /\ Open(s, y, B)
    BY <1>10, <1>13, <2>1
  <2> HIDE DEF A
  <2> QED BY <1>17, <2>1, <2>2 DEF Growing
<1>19. Quiet(u, Work(next), Work(next)) /\ Quiet(u, Sent(u, next), Work(next))
  <2>1. Quiet(s, Work(next) \cup Sent(u, next), Work(next))
    BY <1>1, <1>3, <1>18, GrowthIsQuiet DEF Kept
  <2> QED BY <1>11, <2>1 DEF Quiet
\* What needs no waiting for is seeded.
<1>20. \A t \in Onward(s, n) : ~IsJoin(t) => t \in seeds
  <2> SUFFICES ASSUME NEW t \in Onward(s, n), ~IsJoin(t) PROVE Open(s, t, A)
    BY <1>10
  <2>1. IsReady(s, t, A)
    BY DEF IsReady, Readiness
  <2>2. IsFinished(s, n)
    BY <1>3 DEF IsFinished
  <2> HIDE DEF A
  <2> QED BY <1>1, <1>3, <1>4, <2>1, <2>2, ReadyIsOpen DEF Kept
<1>21. BatchFits(u, next)
  <2>1. \A m \in ToSet(next.queue) \cup ToSet(next.frontier) : ~IsFinished(u, m)
    <3> SUFFICES ASSUME NEW m \in ToSet(next.queue) \cup ToSet(next.frontier) PROVE ~IsFinished(s, m)
      BY <1>11 DEF IsFinished
    <3>1. m \in ToSet(drive.queue) \cup ToSet(drive.frontier) \/ m \in seeds
      BY <1>10
    <3>2. CASE m \in seeds
      BY <1>12, <3>2 DEF IsFinished
    <3>3. CASE m \in ToSet(drive.queue) \cup ToSet(drive.frontier)
      BY <1>3, <1>4, <1>5, <1>6, <3>3 DEF IsFinished
    <3> QED BY <3>1, <3>2, <3>3
  <2>2. ToSet(next.frontier) \cap ToSet(next.batch) = {}
    BY <1>5, <1>10, <1>12
  <2>3. \A m \in next.ended : u.nodes[m] \in {"succeeded", "failed"}
    <3>1. \A m \in drive.ended \cup {n} : s.nodes[m] \in {"succeeded", "failed"}
      BY <1>3, <1>4, <1>5, <1>6
    <3> QED BY <1>10, <1>11, <3>1
  <2>4. next.ended \subseteq next.advanced /\ ~next.won
    BY <1>5, <1>10
  <2>5. ASSUME NEW m \in next.advanced, NEW t \in Onward(u, m) \ ToSet(next.batch)
        PROVE  u.nodes[t] = "pending" /\ (IsJoin(t) \/ t \in ToSet(next.frontier))
    <3>1. m \in drive.advanced \cup {n} /\ t \in Onward(s, m) /\ t \notin ToSet(drive.batch) /\ t \notin adm
      BY <1>10, <1>14
    <3>2. CASE m = n
      <4>1. s.nodes[t] = "pending"
        BY <1>7, <1>8, <3>1, <3>2
      <4>2. IsJoin(t) \/ t \in seeds
        BY <1>20, <3>1, <3>2
      <4> QED BY <1>10, <1>11, <3>1, <4>1, <4>2
    <3>3. CASE m \in drive.advanced
      <4>1. t \in Onward(state, m) \ ToSet(drive.batch) /\ t \in Nodes /\ t # n
        BY <1>4, <1>7, <3>1, <3>3
      <4>2. state.nodes[t] = "pending" /\ (IsJoin(t) \/ t \in ToSet(drive.frontier))
        BY <1>5, <3>3, <4>1
      <4>3. u.nodes[t] = "pending"
        BY <1>3, <1>11, <4>1, <4>2
      <4> QED BY <1>10, <3>1, <4>2, <4>3
    <3> QED BY <3>1, <3>2, <3>3
  <2>6. ToSet(next.batch) # {}
    BY <1>5, <1>10
  <2> QED BY <1>19, <2>1, <2>2, <2>3, <2>4, <2>5, <2>6 DEF BatchFits
<1>22. Holds(u, next)
  BY <1>10, <1>19, <1>21 DEF Holds, Upright
<1>23. crashes = 0 => Debts(u, next, asked)
  <2> SUFFICES ASSUME crashes = 0 PROVE OwedIsPending(u) /\ Remembers(u, next)
    BY DEF Debts
  <2>1. OwedIsPending(u) /\ Remembers(state, drive)
    BY <1>1, <1>2, <1>3, <1>11 DEF BatchHolds
  <2> SUFFICES ASSUME NEW t \in Nodes, OwedIn(u, t), ~IsJoin(t)
               PROVE  t \in ToSet(next.frontier) \cup ToSet(next.queue)
    BY <1>10, <2>1 DEF Remembers
  <2>2. CASE OwedIn(s, t)
    <3>1. t \in ToSet(drive.frontier) \cup ToSet(drive.queue)
      BY <1>2, <1>3, <2>1, <2>2 DEF Remembers
    <3> QED BY <1>10, <3>1
  <2>3. CASE t \in Onward(s, n)
    BY <1>10, <1>20, <2>3
  <2> QED BY <1>11, <2>2, <2>3
<1> DEFINE log == finish \o p.log
<1>24. Keeping(state, log) /\ Fold(state, log) = u /\ log \in Seq(LogRecords(Nodes))
  <2>1. p.log \in Seq(LogRecords(Nodes))
    BY <1>11, NoRecordsAreSome
  <2> QED BY <1>3, <1>11, <2>1, KeepingJoined DEF u
<1>25. Write(log, next)
  BY DEF next
<1> HIDE DEF log
<1>26. Tidy(u, next, asked, crashes) /\ MayBeCut(state, log)
  BY <1>1, <1>11, <1>22, <1>23, <1>24, KeepingMayBeCut DEF Tidy
<1> QED BY <1>1, <1>24, <1>25, <1>26, WriteIsTidy

\* A member ends, and its successors are taken into the batch or put on the frontier.
LEMMA MemberEndsIsTidy ==
  ASSUME DriveInv, OneWay, Tidy(state, drive, asked, crashes), MemberEnds
  PROVE  Tidy(state', drive', asked', crashes')
<1>0. drive.phase = "batch"
  BY DEF MemberEnds, MemberReports
<1>1. PICK n \in drive.running : \E status \in Outcomes(n) \cup (IF drive.won THEN {"cancelled"} ELSE {}) :
         LET finish == <<NodeFinished(n, status)>>
             s == Fold(state, finish)
             d == [drive EXCEPT !.running = @ \ {n}, !.ended = @ \cup {n},
                                !.pipelining = @ /\ status \in {"succeeded", "cancelled"}]
             racing == \E e \in ToSet(SelectedEdges(s, n, FALSE)) : JoinKind(e.to) = "any"
             goOn(piped) == Write(finish \o piped.log, piped.drive)
         IN  IF status = "succeeded" /\ FeedsReadyAny(s, n, d) THEN Write(finish, [d EXCEPT !.won = TRUE])
             ELSE IF status = "succeeded" /\ d.pipelining /\ ~d.won /\ ~d.halted /\ ~racing
             THEN goOn(Pipeline(s, n, d))
             ELSE Write(finish, d)
  BY DEF MemberEnds
<1>2. PICK status \in Outcomes(n) \cup (IF drive.won THEN {"cancelled"} ELSE {}) :
         LET finish == <<NodeFinished(n, status)>>
             s == Fold(state, finish)
             d == [drive EXCEPT !.running = @ \ {n}, !.ended = @ \cup {n},
                                !.pipelining = @ /\ status \in {"succeeded", "cancelled"}]
             racing == \E e \in ToSet(SelectedEdges(s, n, FALSE)) : JoinKind(e.to) = "any"
             goOn(piped) == Write(finish \o piped.log, piped.drive)
         IN  IF status = "succeeded" /\ FeedsReadyAny(s, n, d) THEN Write(finish, [d EXCEPT !.won = TRUE])
             ELSE IF status = "succeeded" /\ d.pipelining /\ ~d.won /\ ~d.halted /\ ~racing
             THEN goOn(Pipeline(s, n, d))
             ELSE Write(finish, d)
  BY <1>1
<1>3. BatchHolds /\ drive \in Memories /\ shape \in DOMAIN Graphs
  BY <1>0, BatchFacts
<1>4. ~drive.won
  BY <1>0, <1>3 DEF BatchHolds, BatchFits
<1>5. status \in {"succeeded", "failed"}
  BY <1>2, <1>4 DEF Outcomes
<1> DEFINE finish == <<NodeFinished(n, status)>>
           z == FoldOne(state, NodeFinished(n, status))
           s == Fold(state, finish)
           d == Ended(n, status)
           racing == \E e \in ToSet(SelectedEdges(s, n, FALSE)) : JoinKind(e.to) = "any"
           piped == Pipeline(s, n, d)
           won == [d EXCEPT !.won = TRUE]
<1>6. InHand(n) /\ Finishes(n, status, finish, z)
  BY <1>0, <1>5, MemberFinishes
<1>7. \/ status = "succeeded" /\ FeedsReadyAny(s, n, d)
      \/ /\ status = "succeeded" /\ d.pipelining /\ ~d.halted
         /\ Write(finish \o piped.log, piped.drive)
      \/ /\ ~(status = "succeeded" /\ d.pipelining /\ ~d.won /\ ~d.halted /\ ~racing)
         /\ Write(finish, d)
  BY <1>2 DEF Ended
<1>8. Fold(state, finish) = z /\ Kept(z) /\ Finishes(n, status, finish, s)
  BY <1>6 DEF Finishes
<1>9. d.won = drive.won /\ d.halted = drive.halted /\ (d.pipelining => status \in {"succeeded", "cancelled"})
  BY <1>3 DEF Memories, Ended
<1>10. n \in Nodes
  BY <1>6 DEF InHand
<1> HIDE DEF z, finish
<1>11. ~racing
  <2> HIDE DEF s
  <2>1. \A e \in ToSet(SelectedEdges(s, n, FALSE)) : e \in Edges
    BY <1>3, SelectedAreOutgoing
  <2>2. \A e \in Edges : e.to \in Nodes
    BY <1>3, GraphFacts
  <2> QED BY <2>1, <2>2 DEF OneWay
<1>12. ~FeedsReadyAny(s, n, d)
  <2> HIDE DEF s, d
  <2>1. ToSet(Successors(s, n)) \subseteq Nodes
    BY <1>3, SuccessorsAreTargets, Elements
  <2> QED BY <2>1 DEF FeedsReadyAny, OneWay
<1> HIDE DEF racing
<1>13. CASE status = "succeeded" /\ d.pipelining /\ ~d.halted /\ Write(finish \o piped.log, piped.drive)
  <2>1. Finishes(n, "succeeded", finish, s) /\ d = Ended(n, "succeeded")
    BY <1>8, <1>13
  <2> HIDE DEF s, d, piped
  <2> QED BY <1>0, <1>6, <1>13, <2>1, MemberGoesOnIsTidy DEF piped
<1>14. CASE /\ ~(status = "succeeded" /\ d.pipelining /\ ~d.won /\ ~d.halted /\ ~racing)
            /\ Write(finish, d)
  <2>1. ~d.pipelining \/ d.halted
    BY <1>4, <1>5, <1>9, <1>11, <1>14
  <2>2. d = Ended(n, status)
    OBVIOUS
  <2> HIDE DEF s, d
  <2> QED BY <1>0, <1>5, <1>6, <1>8, <1>14, <2>1, <2>2, MemberWaitsIsTidy
<1> QED BY <1>7, <1>12, <1>13, <1>14

-----------------------------------------------------------------------------
(* The end of a batch, and the choice of the next head. *)

Batch == ToSet(drive.batch)
Kin == ToSet(drive.batch) \cup ToSet(drive.frontier)

\* A batch whose members have all ended, and what they selected outside it.
BatchDone ==
  /\ drive.phase = "batch" /\ ~drive.halted /\ drive.queue = <<>> /\ BatchHolds
  /\ drive.advanced \subseteq Batch /\ Batch \subseteq drive.ended /\ Kin \subseteq Nodes
  /\ drive.frontier \in Seq(Nodes) /\ Batch # {}
  /\ Work(drive) = (Batch \ drive.advanced) \cup ToSet(drive.frontier)
  /\ \A m \in Batch : /\ state.nodes[m] \in {"succeeded", "failed"} /\ IsFinished(state, m)
                      /\ \A t \in Onward(state, m) : t \in Nodes /\ (t \notin Batch => state.nodes[t] = "pending")
  /\ \A m \in Batch \ drive.advanced : \A y \in Beyond(m) : state.nodes[y] = "pending" /\ y \notin Batch
  /\ \A m \in drive.advanced : \A t \in Onward(state, m) \ Batch : IsJoin(t) \/ t \in ToSet(drive.frontier)

\* Such is the batch when its last member has ended.
LEMMA BatchIsDone ==
  ASSUME DriveInv, OneWay, Tidy(state, drive, asked, crashes), BatchEnds
  PROVE  BatchDone
<1>1. drive.phase = "batch" /\ ~drive.halted /\ drive.queue = <<>> /\ drive.running = {}
  BY DEF BatchEnds, BatchOver
<1>2. /\ BatchHolds /\ drive \in Memories /\ shape \in DOMAIN Graphs
      /\ Work(drive) = (ToSet(drive.batch) \ drive.advanced) \cup ToSet(drive.frontier) /\ Work(drive) \subseteq Nodes
      /\ drive.batch \in Seq(Nodes) /\ drive.frontier \in Seq(Nodes)
  BY <1>1, BatchFacts
<1>3. PICK none : none = <<>>
  OBVIOUS
<1>4. ToSet(none) = {}
  BY <1>3 DEF ToSet
<1>5. drive.advanced \subseteq drive.ended /\ drive.ended \subseteq Batch /\ Batch \subseteq drive.ended
  BY <1>1, <1>3, <1>4, DriverFacts DEF HeadsSound, Batch
<1>6. Kin \subseteq Nodes /\ Batch \subseteq Nodes
  BY <1>2, Elements DEF Kin, Batch
<1>7. /\ Kept(state) /\ Quiet(state, Work(drive), Work(drive)) /\ Batch # {}
      /\ \A m \in drive.ended : state.nodes[m] \in {"succeeded", "failed"}
      /\ \A m \in drive.advanced : \A t \in Onward(state, m) \ Batch :
           state.nodes[t] = "pending" /\ (IsJoin(t) \/ t \in ToSet(drive.frontier))
  BY <1>1, <1>2 DEF BatchHolds, BatchFits, Batch
<1>8. \A m \in Batch : state.nodes[m] \in {"succeeded", "failed"} /\ IsFinished(state, m)
  BY <1>5, <1>7 DEF IsFinished
<1>9. \A m \in Batch \ drive.advanced : \A y \in Beyond(m) : state.nodes[y] = "pending" /\ y \notin Batch
  BY <1>2, <1>7, <1>8 DEF Quiet, Batch
<1>10. \A m \in Batch : \A t \in Onward(state, m) : t \in Nodes /\ (t \notin Batch => state.nodes[t] = "pending")
  <2>1. \A m \in Batch : Onward(state, m) \subseteq Nodes /\ Onward(state, m) \subseteq Beyond(m)
    BY <1>2, <1>6, <1>7, RoutedAreOnward DEF Kept, Orderly
  <2> QED BY <1>7, <1>9, <2>1
<1> QED BY <1>1, <1>2, <1>5, <1>6, <1>7, <1>8, <1>9, <1>10 DEF BatchDone, Batch

\* What a batch's end has gathered: hops of its members, and heads that are open beside them.
Gathered(acc) ==
  /\ acc.frontier \in Seq(Nodes) /\ Continues(state, acc.log, Batch)
  /\ ToSet(drive.frontier) \subseteq ToSet(acc.frontier)
  /\ \A y \in ToSet(acc.frontier) \ ToSet(drive.frontier) :
       /\ y \notin Batch /\ \E m \in Batch : y \in Onward(state, m)
       /\ \E A \in SUBSET Nodes : Kin \subseteq A /\ Open(state, y, A)

\* A selected node is gathered if it need not wait; if nothing was, it is not open.
Settled(acc, t) ==
  /\ ~IsJoin(t) => t \in ToSet(acc.frontier)
  /\ ToSet(acc.frontier) = {} => ~Open(state, t, Batch)

\* One more member or join taken up: what it selected is settled.
Gains(acc, next, selected) ==
  /\ Gathered(next) /\ ToSet(acc.frontier) \subseteq ToSet(next.frontier)
  /\ \A t \in selected : t \notin Batch => Settled(next, t)

\* A member routed at the batch's end.
LEMMA RoutedIsGathered ==
  ASSUME shape \in DOMAIN Graphs, OneWay, BatchDone, NEW m \in Batch \ drive.advanced, NEW acc, Gathered(acc),
         NEW next, next = AdvanceNext(state, drive.batch, acc, m)
  PROVE  Gains(acc, next, Onward(state, m))
<1> DEFINE adv == Advance(state, m, acc.frontier, Batch)
           A == {m} \cup ToSet(acc.frontier) \cup Batch
           u == Fold(state, acc.log)
<1>1. next.log = acc.log \o adv.log /\ next.frontier = adv.frontier
  BY DEF AdvanceNext, Batch
<1>2. /\ acc.frontier \in Seq(Nodes) /\ Continues(state, acc.log, Batch)
      /\ ToSet(drive.frontier) \subseteq ToSet(acc.frontier)
      /\ \A y \in ToSet(acc.frontier) \ ToSet(drive.frontier) :
           /\ y \notin Batch /\ \E k \in Batch : y \in Onward(state, k)
           /\ \E S \in SUBSET Nodes : Kin \subseteq S /\ Open(state, y, S)
  BY DEF Gathered
<1>3. /\ Kept(state) /\ IsFinished(state, m) /\ m \in Nodes /\ Kin \subseteq Nodes /\ Batch \subseteq Nodes
      /\ \A t \in Onward(state, m) : t \in Nodes
      /\ \A y \in Beyond(m) : state.nodes[y] = "pending" /\ y \notin Batch
  BY DEF BatchDone, BatchHolds, Kin, Batch
<1>4. \A t \in Onward(state, m) : t \in Nodes /\ state.nodes[t] = "pending" /\ t \notin Batch
  BY <1>3, RoutedAreOnward DEF Kept, Orderly
<1>5. Routable(state, m)
  BY <1>3, <1>4 DEF Routable
<1>6. Forwards(state, m, acc.frontier, Batch, adv)
  BY <1>2, <1>5, AdvanceGoesOn
<1> HIDE DEF adv, u
<1>7. /\ adv.frontier \in Seq(Nodes)
      /\ ToSet(adv.frontier) = ToSet(acc.frontier) \cup {t \in Onward(state, m) : Open(state, t, A)}
      /\ \A z : /\ Kept(z) /\ z.nodes = state.nodes
                /\ \A k \in Nodes : Onward(z, k) = Onward(state, k)
                => Continues(z, adv.log, {m})
  BY <1>6 DEF Forwards
<1>8. Continues(state, next.log, Batch)
  <2>1. Kept(u) /\ u.nodes = state.nodes /\ \A k \in Nodes : Onward(u, k) = Onward(state, k)
    BY <1>2 DEF Continues, Beside, u
  <2>2. Continues(u, adv.log, {m})
    BY <1>7, <2>1
  <2>3. Continues(u, adv.log, Batch)
    BY <2>2, ContinuesWider
  <2> QED BY <1>1, <1>2, <2>3, ContinuesJoined DEF u
<1>9. A \in SUBSET Nodes /\ Kin \subseteq A
  BY <1>2, <1>3, Elements DEF Kin, Batch
<1> HIDE DEF A
<1>10. ASSUME NEW y \in ToSet(next.frontier) \ ToSet(drive.frontier)
       PROVE  /\ y \notin Batch /\ \E k \in Batch : y \in Onward(state, k)
              /\ \E S \in SUBSET Nodes : Kin \subseteq S /\ Open(state, y, S)
  BY <1>1, <1>2, <1>4, <1>7, <1>9
<1>11. Gathered(next) /\ ToSet(acc.frontier) \subseteq ToSet(next.frontier)
  BY <1>1, <1>2, <1>7, <1>8, <1>10 DEF Gathered
<1>12. ASSUME NEW t \in Onward(state, m) PROVE Settled(next, t)
  <2>1. ~IsJoin(t) => Open(state, t, A)
    <3> SUFFICES ASSUME ~IsJoin(t) PROVE Open(state, t, A)
      OBVIOUS
    <3>1. IsReady(state, t, A)
      BY DEF IsReady, Readiness
    <3> QED BY <1>3, <3>1, ReadyIsOpen DEF Kept
  <2>2. ToSet(next.frontier) = {} => A = Batch
    BY <1>1, <1>7 DEF A
  <2> QED BY <1>1, <1>7, <2>1, <2>2 DEF Settled
<1> QED BY <1>11, <1>12 DEF Gains

\* A state the members' hops lead to from the batch's end.
Routed(now) ==
  /\ Kept(now) /\ Beside(state, now) /\ \A k \in Nodes : Onward(now, k) = Onward(state, k)

\* A join that an advanced member selected, offered again.
LEMMA OfferedIsGathered ==
  ASSUME shape \in DOMAIN Graphs, OneWay, BatchDone, NEW now, Routed(now), NEW m \in drive.advanced,
         NEW e \in ToSet(SelectedEdges(now, m, FALSE)), NEW acc, Gathered(acc),
         NEW next, next = Offer(now, drive.batch, acc, e)
  PROVE  Gains(acc, next, {e.to})
<1> DEFINE t == e.to
           A == {m} \cup ToSet(acc.frontier) \cup Batch
           due == IsJoin(t) /\ t \notin ToSet(acc.frontier) \cup Batch
                        /\ now.started[t] <= now.finished[m] /\ IsReady(now, t, A)
<1>1. e \in Edges /\ e.from = m
  BY SelectedAreOutgoing
<1>2. e.cap = 0
  BY <1>1 DEF OneWay
<1>3. /\ Kept(state) /\ IsFinished(state, m) /\ m \in Batch /\ m \in Nodes /\ Kin \subseteq Nodes /\ Batch \subseteq Nodes
      /\ \A k \in Onward(state, m) : k \in Nodes /\ (k \notin Batch => state.nodes[k] = "pending")
      /\ \A k \in Onward(state, m) \ Batch : IsJoin(k) \/ k \in ToSet(drive.frontier)
  BY DEF BatchDone, BatchHolds, Kin, Batch
<1>4. t \in Onward(state, m) /\ t \in Onward(now, m)
  <2>0. ToSet(Successors(now, m)) = {x.to : x \in ToSet(SelectedEdges(now, m, FALSE))}
    BY SuccessorsAreTargets
  <2>1. t \in Onward(now, m)
    BY <2>0 DEF Onward
  <2> QED BY <1>3, <2>1 DEF Routed
<1>5. /\ acc.frontier \in Seq(Nodes) /\ Continues(state, acc.log, Batch)
      /\ ToSet(drive.frontier) \subseteq ToSet(acc.frontier)
      /\ \A y \in ToSet(acc.frontier) \ ToSet(drive.frontier) :
           /\ y \notin Batch /\ \E k \in Batch : y \in Onward(state, k)
           /\ \E S \in SUBSET Nodes : Kin \subseteq S /\ Open(state, y, S)
  BY DEF Gathered
<1>6. A \in SUBSET Nodes /\ Kin \subseteq A /\ (ToSet(acc.frontier) = {} => A = Batch)
  BY <1>3, <1>5, Elements DEF Kin, Batch
<1>7. IsReady(now, t, A) <=> Open(state, t, A)
  <2> HIDE DEF A, t
  <2>1. Orderly(now) /\ now.nodes = state.nodes /\ Orderly(state) /\ Goes(now) = Goes(state)
    BY <1>3 DEF Routed, Kept, Beside, Goes
  <2>2. IsFinished(now, m)
    BY <1>3, <2>1 DEF IsFinished
  <2>3. IsReady(now, t, A) <=> Open(now, t, A)
    BY <1>3, <1>4, <2>1, <2>2, ReadyIsOpen
  <2>4. Open(now, t, A) <=> Open(state, t, A)
    BY <2>1, OpenAlike
  <2> QED BY <2>3, <2>4
<1>8. t \notin Batch => now.started[t] <= now.finished[m]
  <2> SUFFICES ASSUME t \notin Batch PROVE now.started[t] <= now.finished[m]
    OBVIOUS
  <2>1. t \in Nodes /\ state.nodes[t] = "pending" /\ now.nodes = state.nodes
    BY <1>3, <1>4 DEF Routed, Beside
  <2>2. now.started[t] = 0
    BY <2>1 DEF Routed, Kept, Stamped
  <2>3. now.finished[m] \in Nat
    BY <1>3 DEF Routed, Kept, Orderly, RunStates
  <2> QED BY <2>2, <2>3
<1>9. CASE due
  <2> DEFINE none == IF e.cap > 0 THEN <<CountedHop(e.from, e.to)>> ELSE <<>>
  <2>1. next.log = acc.log \o none /\ next.frontier = acc.frontier \o <<t>>
    BY <1>1, <1>9 DEF Offer, Batch
  <2>2. none = <<>>
    BY <1>2
  <2>3. next.log = acc.log
    <3>1. acc.log \in Seq(LogRecords({}))
      BY <1>5 DEF Continues
    <3> HIDE DEF none
    <3> QED BY <2>1, <2>2, <3>1
  <2>4. next.frontier \in Seq(Nodes) /\ ToSet(next.frontier) = ToSet(acc.frontier) \cup {t}
    <3> DEFINE one == <<t>>
    <3>1. one \in Seq(Nodes) /\ ToSet(one) = {t}
      BY <1>3, <1>4 DEF ToSet
    <3>2. next.frontier = acc.frontier \o one
      BY <2>1
    <3> HIDE DEF one, t
    <3>3. acc.frontier \o one \in Seq(Nodes) /\ ToSet(acc.frontier \o one) = ToSet(acc.frontier) \cup ToSet(one)
      BY <1>5, <3>1, Joined
    <3> QED BY <3>1, <3>2, <3>3
  <2>5. t \notin Batch /\ Open(state, t, A) /\ IsJoin(t)
    BY <1>7, <1>9
  <2> HIDE DEF A, t, none, due
  <2>6. Gathered(next)
    BY <1>3, <1>4, <1>5, <1>6, <2>3, <2>4, <2>5 DEF Gathered
  <2>7. Settled(next, t)
    BY <2>4, <2>5 DEF Settled
  <2> QED BY <2>4, <2>6, <2>7 DEF t, Gains
<1>10. CASE ~due
  <2>1. next = acc
    BY <1>1, <1>10 DEF Offer, Batch
  <2>2. ASSUME t \notin Batch PROVE Settled(acc, t)
    <3>1. ~IsJoin(t) => t \in ToSet(acc.frontier)
      BY <1>3, <1>4, <1>5, <2>2
    <3>2. ASSUME ToSet(acc.frontier) = {} PROVE ~Open(state, t, Batch)
      <4>1. IsJoin(t) /\ A = Batch
        BY <1>6, <3>1, <3>2
      <4>2. ~IsReady(now, t, A)
        BY <1>8, <1>10, <2>2, <3>2, <4>1
      <4> QED BY <1>7, <4>1, <4>2
    <3> QED BY <3>1, <3>2 DEF Settled
  <2> HIDE DEF A, due
  <2> QED BY <2>1, <2>2 DEF Gains
<1> QED BY <1>9, <1>10

\* What was settled stays settled as more is gathered.
LEMMA SettledStays ==
  ASSUME NEW acc, NEW next, ToSet(acc.frontier) \subseteq ToSet(next.frontier), NEW t, Settled(acc, t)
  PROVE  Settled(next, t)
BY DEF Settled

\* All that the members of a set selected outside the batch is settled.
AllSettled(acc, M) == \A m \in M : \A t \in Onward(state, m) \ Batch : Settled(acc, t)

\* Routing the members one after the other settles all that each of them selected.
LEMMA AllAreRouted ==
  ASSUME shape \in DOMAIN Graphs, OneWay, BatchDone, NEW members \in Seq(Batch \ drive.advanced), NEW acc,
         acc = AdvanceAll(state, members, drive.batch, drive.frontier)
  PROVE  Gathered(acc) /\ AllSettled(acc, ToSet(members))
<1>1. PICK at : RoutedThrough(state, members, drive.batch, drive.frontier, at)
  BY AdvanceAllSteps
<1>2. /\ at[0] = [log |-> <<>>, frontier |-> drive.frontier] /\ acc = at[Len(members)]
      /\ \A k \in 1 .. Len(members) : at[k] = AdvanceNext(state, drive.batch, at[k - 1], members[k])
  BY <1>1 DEF RoutedThrough
<1>3. Len(members) \in Nat /\ DOMAIN members = 1 .. Len(members)
      /\ \A k \in 1 .. Len(members) : members[k] \in Batch \ drive.advanced
  OBVIOUS
<1> DEFINE Good(k) == Gathered(at[k]) /\ \A j \in 1 .. k : \A t \in Onward(state, members[j]) \ Batch : Settled(at[k], t)
           P == {k \in Nat : k <= Len(members) => Good(k)}
<1>4. Good(0)
  <2> DEFINE base == [log |-> <<>>, frontier |-> drive.frontier]
  <2>1. base.log = <<>> /\ base.frontier = drive.frontier
    OBVIOUS
  <2> HIDE DEF base
  <2>2. Kept(state) /\ drive.frontier \in Seq(Nodes)
    BY DEF BatchDone, BatchHolds
  <2>3. Continues(state, <<>>, Batch)
    BY <2>2, ContinuesWithNothing
  <2>4. Gathered(base)
    BY <2>1, <2>2, <2>3 DEF Gathered
  <2> QED BY <1>2, <2>4 DEF base
<1>5. ASSUME NEW k \in Nat, Good(k), k + 1 <= Len(members) PROVE Good(k + 1)
  <2>1. Gathered(at[k]) /\ \A j \in 1 .. k : \A t \in Onward(state, members[j]) \ Batch : Settled(at[k], t)
    BY <1>5
  <2>2. k + 1 \in 1 .. Len(members) /\ (k + 1) - 1 = k
    BY <1>3, <1>5
  <2>3. at[k + 1] = AdvanceNext(state, drive.batch, at[k], members[k + 1]) /\ members[k + 1] \in Batch \ drive.advanced
    BY <1>2, <1>3, <2>2
  <2>4. Gains(at[k], at[k + 1], Onward(state, members[k + 1]))
    <3> DEFINE a == at[k]
               b == at[k + 1]
               m == members[k + 1]
    <3>1. b = AdvanceNext(state, drive.batch, a, m) /\ m \in Batch \ drive.advanced /\ Gathered(a)
      BY <2>1, <2>3
    <3> HIDE DEF a, b, m
    <3>2. Gains(a, b, Onward(state, m))
      BY <3>1, RoutedIsGathered
    <3> QED BY <3>2 DEF a, b, m
  <2>5. ASSUME NEW j \in 1 .. k + 1, NEW t \in Onward(state, members[j]) \ Batch PROVE Settled(at[k + 1], t)
    <3>1. CASE j = k + 1
      BY <2>4, <3>1 DEF Gains
    <3>2. CASE j \in 1 .. k
      <4>1. Settled(at[k], t) /\ ToSet(at[k].frontier) \subseteq ToSet(at[k + 1].frontier)
        BY <2>1, <2>4, <3>2 DEF Gains
      <4> QED BY <4>1, SettledStays
    <3> QED BY <3>1, <3>2
  <2> QED BY <2>4, <2>5 DEF Gains
<1> HIDE DEF Good
<1>6. \A k \in Nat : k \in P
  <2>1. 0 \in P
    BY <1>4
  <2>2. ASSUME NEW k \in Nat, k \in P PROVE k + 1 \in P
    <3>1. k + 1 <= Len(members) => k <= Len(members)
      BY <1>3
    <3> QED BY <1>5, <2>2, <3>1
  <2> HIDE DEF P
  <2> QED BY <2>1, <2>2, Induction
<1>7. /\ Gathered(acc) /\ \A j \in 1 .. Len(members) : \A t \in Onward(state, members[j]) \ Batch : Settled(acc, t)
  <2>1. Len(members) \in P
    BY <1>3, <1>6
  <2>2. Good(Len(members))
    BY <1>3, <2>1
  <2> QED BY <1>2, <1>3, <2>2 DEF Good
<1>8. ASSUME NEW m \in ToSet(members), NEW t \in Onward(state, m) \ Batch PROVE Settled(acc, t)
  <2>1. PICK j \in 1 .. Len(members) : members[j] = m
    BY <1>3 DEF ToSet
  <2> QED BY <1>7, <2>1
<1> QED BY <1>7, <1>8 DEF AllSettled

\* The offers of a list of edges that already routed members selected, each of them settled.
Offering(now, edges) ==
  /\ edges \in Seq(Edges)
  /\ \A e \in ToSet(edges) : \E m \in drive.advanced : e \in ToSet(SelectedEdges(now, m, FALSE))

AllOffered(acc, tail, edges) ==
  /\ Gathered(acc) /\ ToSet(tail.frontier) \subseteq ToSet(acc.frontier)
  /\ \A e \in ToSet(edges) : e.to \notin Batch => Settled(acc, e.to)

\* And so does offering every edge they selected to the frontier once more.
LEMMA AllAreOffered ==
  ASSUME shape \in DOMAIN Graphs, OneWay, BatchDone, NEW now, Routed(now), NEW tail, Gathered(tail),
         NEW edges, Offering(now, edges), NEW acc, acc = OfferAll(now, drive.batch, tail, edges)
  PROVE  AllOffered(acc, tail, edges)
<1>0. edges \in Seq(Edges) /\ \A e \in ToSet(edges) : \E m \in drive.advanced : e \in ToSet(SelectedEdges(now, m, FALSE))
  BY DEF Offering
<1>1. PICK at : OfferedThrough(now, drive.batch, tail, edges, at)
  BY <1>0, OfferSteps
<1>2. /\ at[0] = tail /\ acc = at[Len(edges)]
      /\ \A k \in 1 .. Len(edges) : at[k] = Offer(now, drive.batch, at[k - 1], edges[k])
  BY <1>1 DEF OfferedThrough
<1>3. /\ Len(edges) \in Nat /\ DOMAIN edges = 1 .. Len(edges)
      /\ \A k \in 1 .. Len(edges) : edges[k] \in ToSet(edges)
      /\ \A e \in ToSet(edges) : \E k \in 1 .. Len(edges) : edges[k] = e
  BY <1>0 DEF ToSet
<1> DEFINE Good(k) == /\ Gathered(at[k]) /\ ToSet(tail.frontier) \subseteq ToSet(at[k].frontier)
                      /\ \A j \in 1 .. k : edges[j].to \notin Batch => Settled(at[k], edges[j].to)
           P == {k \in Nat : k <= Len(edges) => Good(k)}
<1>4. Good(0)
  BY <1>2
<1>5. ASSUME NEW k \in Nat, Good(k), k + 1 <= Len(edges) PROVE Good(k + 1)
  <2>1. /\ Gathered(at[k]) /\ ToSet(tail.frontier) \subseteq ToSet(at[k].frontier)
        /\ \A j \in 1 .. k : edges[j].to \notin Batch => Settled(at[k], edges[j].to)
    BY <1>5
  <2>2. k + 1 \in 1 .. Len(edges) /\ (k + 1) - 1 = k
    BY <1>3, <1>5
  <2>3. at[k + 1] = Offer(now, drive.batch, at[k], edges[k + 1]) /\ edges[k + 1] \in ToSet(edges)
    BY <1>2, <1>3, <2>2
  <2>4. PICK m \in drive.advanced : edges[k + 1] \in ToSet(SelectedEdges(now, m, FALSE))
    BY <1>0, <2>3
  <2>5. Gains(at[k], at[k + 1], {edges[k + 1].to})
    <3> DEFINE a == at[k]
               b == at[k + 1]
               e == edges[k + 1]
    <3>1. b = Offer(now, drive.batch, a, e) /\ e \in ToSet(SelectedEdges(now, m, FALSE)) /\ Gathered(a)
      BY <2>1, <2>3, <2>4
    <3> HIDE DEF a, b, e
    <3>2. Gains(a, b, {e.to})
      BY <3>1, OfferedIsGathered
    <3> QED BY <3>2 DEF a, b, e
  <2>6. ASSUME NEW j \in 1 .. k + 1, edges[j].to \notin Batch PROVE Settled(at[k + 1], edges[j].to)
    <3>1. CASE j = k + 1
      BY <2>5, <2>6, <3>1 DEF Gains
    <3>2. CASE j \in 1 .. k
      <4>1. Settled(at[k], edges[j].to) /\ ToSet(at[k].frontier) \subseteq ToSet(at[k + 1].frontier)
        BY <2>1, <2>5, <2>6, <3>2 DEF Gains
      <4> QED BY <4>1, SettledStays
    <3> QED BY <3>1, <3>2
  <2> QED BY <2>1, <2>5, <2>6 DEF Gains
<1> HIDE DEF Good
<1>6. \A k \in Nat : k \in P
  <2>1. 0 \in P
    BY <1>4
  <2>2. ASSUME NEW k \in Nat, k \in P PROVE k + 1 \in P
    <3>1. k + 1 <= Len(edges) => k <= Len(edges)
      BY <1>3
    <3> QED BY <1>5, <2>2, <3>1
  <2> HIDE DEF P
  <2> QED BY <2>1, <2>2, Induction
<1>7. Len(edges) \in P
  BY <1>3, <1>6
<1>8. Good(Len(edges))
  BY <1>3, <1>7
<1> QED BY <1>2, <1>3, <1>8 DEF Good, AllOffered

\* The edges that routed members selected, one after the other.
EdgesOf(s, members) == FlattenSeq([i \in DOMAIN members |-> SelectedEdges(s, members[i], FALSE)])

\* Those are the edges that one of the members selected.
LEMMA EdgesOfMembers ==
  ASSUME shape \in DOMAIN Graphs, NEW s, NEW members \in Seq(Nodes)
  PROVE  ToSet(EdgesOf(s, members)) = UNION {ToSet(SelectedEdges(s, m, FALSE)) : m \in ToSet(members)}
<1> DEFINE parts == [i \in DOMAIN members |-> SelectedEdges(s, members[i], FALSE)]
           E == Seq(Edges)
<1>1. \A m : SelectedEdges(s, m, FALSE) \in E
  BY SelectedAreOutgoing
<1>2. /\ DOMAIN members = 1 .. Len(members) /\ Len(members) \in Nat /\ DOMAIN parts = DOMAIN members
      /\ \A i \in DOMAIN members : parts[i] = SelectedEdges(s, members[i], FALSE)
      /\ ToSet(members) = {members[i] : i \in DOMAIN members}
  BY DEF ToSet
<1>3. parts \in [1 .. Len(members) -> E] /\ EdgesOf(s, members) = FlattenSeq(parts)
  <2>1. EdgesOf(s, members) = FlattenSeq(parts)
    BY DEF EdgesOf
  <2> HIDE DEF E
  <2>2. parts \in [1 .. Len(members) -> E]
    BY <1>1, <1>2
  <2> HIDE DEF parts
  <2> QED BY <2>1, <2>2
<1> HIDE DEF parts, E
<1>4. parts \in Seq(E)
  BY <1>2, <1>3
<1>5. parts \in Seq(Seq(Edges))
  BY <1>4 DEF E
<1>6. ToSet(FlattenSeq(parts)) = UNION {ToSet(parts[i]) : i \in DOMAIN parts}
  BY <1>5, Flattened
<1>7. ASSUME NEW x PROVE (\E i \in DOMAIN parts : x \in ToSet(parts[i])) <=> \E m \in ToSet(members) : x \in ToSet(SelectedEdges(s, m, FALSE))
  <2>1. ASSUME NEW i \in DOMAIN parts, x \in ToSet(parts[i])
        PROVE  \E m \in ToSet(members) : x \in ToSet(SelectedEdges(s, m, FALSE))
    <3>1. members[i] \in ToSet(members) /\ parts[i] = SelectedEdges(s, members[i], FALSE)
      BY <1>2
    <3>2. x \in ToSet(SelectedEdges(s, members[i], FALSE))
      BY <2>1, <3>1
    <3> QED BY <3>1, <3>2
  <2>2. ASSUME NEW m \in ToSet(members), x \in ToSet(SelectedEdges(s, m, FALSE))
        PROVE  \E i \in DOMAIN parts : x \in ToSet(parts[i])
    <3>1. PICK i \in DOMAIN members : members[i] = m
      BY DEF ToSet
    <3>2. i \in DOMAIN parts /\ parts[i] = SelectedEdges(s, m, FALSE)
      BY <1>2, <3>1
    <3>3. x \in ToSet(parts[i])
      BY <2>2, <3>2
    <3> QED BY <3>2, <3>3
  <2> QED BY <2>1, <2>2
<1>8. UNION {ToSet(parts[i]) : i \in DOMAIN parts} = UNION {ToSet(SelectedEdges(s, m, FALSE)) : m \in ToSet(members)}
  BY <1>7
<1> QED BY <1>3, <1>6, <1>8

\* What a batch's end has gathered can be gone on with, and there is a reason if it is nothing.
LEMMA GatheredIsInLine ==
  ASSUME shape \in DOMAIN Graphs, OneWay, BatchDone, NEW done, Gathered(done), AllSettled(done, Batch),
         NEW u, u = Fold(state, done.log)
  PROVE  /\ Keeping(state, done.log) /\ done.log \in Seq(LogRecords({})) /\ done.frontier \in Seq(Nodes)
         /\ InLine(u, ToSet(done.frontier)) /\ (done.frontier = <<>> => Reason(u))
<1> DEFINE F == ToSet(done.frontier)
           F0 == ToSet(drive.frontier)
<1>1. /\ done.frontier \in Seq(Nodes) /\ Continues(state, done.log, Batch) /\ F0 \subseteq F
      /\ \A y \in F \ F0 :
           /\ y \notin Batch /\ \E m \in Batch : y \in Onward(state, m)
           /\ \E A \in SUBSET Nodes : Kin \subseteq A /\ Open(state, y, A)
  BY DEF Gathered
<1>2. /\ BatchHolds /\ drive.phase = "batch" /\ ~drive.halted /\ drive.queue = <<>> /\ Kin \subseteq Nodes
      /\ Batch # {} /\ Batch \subseteq Nodes /\ F0 \subseteq Nodes /\ Kin = Batch \cup F0
      /\ Work(drive) = (Batch \ drive.advanced) \cup F0
      /\ \A m \in Batch : /\ state.nodes[m] \in {"succeeded", "failed"} /\ IsFinished(state, m)
                          /\ \A t \in Onward(state, m) : t \in Nodes /\ (t \notin Batch => state.nodes[t] = "pending")
  BY DEF BatchDone, Kin, Batch
<1>3. /\ Kept(state) /\ Quiet(state, Work(drive), Work(drive)) /\ Quiet(state, Sent(state, drive), Work(drive))
      /\ \A n \in F0 : ~IsFinished(state, n)
      /\ crashes = 0 => OwedIsPending(state) /\ Remembers(state, drive)
  BY <1>2 DEF BatchHolds, BatchFits
<1>4. /\ Keeping(state, done.log) /\ done.log \in Seq(LogRecords({}))
      /\ Kept(u) /\ (OwedIsPending(state) => OwedIsPending(u)) /\ u.nodes = state.nodes
      /\ \A m \in Nodes : Onward(u, m) = Onward(state, m)
  BY <1>1 DEF Continues, Beside
<1>5. \A t \in Nodes : OwedIn(u, t) => OwedIn(state, t) \/ \E m \in Batch : t \in Onward(state, m)
  BY <1>1, OwedContinues
<1> HIDE DEF F, F0
<1>6. F \subseteq Nodes
  BY <1>1, Elements DEF F
<1>7. ASSUME NEW a \in F
      PROVE  /\ AtWork(state, a, Kin) /\ ~IsFinished(state, a)
             /\ \A y \in Beyond(a) : state.nodes[y] = "pending" /\ y \notin Work(drive)
  <2>1. CASE a \in F0
    <3>1. a \in Work(drive) /\ a \in Kin /\ ~IsFinished(state, a)
      BY <1>2, <1>3, <2>1
    <3> QED BY <1>3, <3>1 DEF AtWork, Quiet
  <2>2. CASE a \notin F0
    <3>1. PICK m \in Batch : a \in Onward(state, m)
      BY <1>1, <2>2 DEF F, F0
    <3>2. a \notin Batch /\ state.nodes[a] = "pending" /\ m \in Nodes /\ IsFinished(state, m) /\ m \in Kin
      BY <1>1, <1>2, <2>2, <3>1 DEF F, F0
    <3>3. ~IsFinished(state, a)
      BY <3>2 DEF IsFinished
    <3>4. \A y \in Beyond(a) : state.nodes[y] = "pending" /\ y \notin Work(drive)
      <4>1. CASE m \in drive.advanced
        <5>1. a \notin drive.advanced
          BY <1>2, <3>2 DEF BatchDone
        <5>2. a \in Sent(state, drive)
          BY <3>1, <4>1, <5>1 DEF Sent
        <5> QED BY <1>3, <5>2 DEF Quiet
      <4>2. CASE m \notin drive.advanced
        <5>1. a \in Beyond(m)
          BY <1>3, <3>1, <3>2, RoutedAreOnward DEF Kept, Orderly
        <5>2. Beyond(a) \subseteq Beyond(m)
          BY <3>2, <5>1, BeyondFacts
        <5>3. m \in Work(drive)
          BY <1>2, <4>2
        <5> QED BY <1>3, <5>2, <5>3 DEF Quiet
      <4> QED BY <4>1, <4>2
    <3> QED BY <3>1, <3>2, <3>3, <3>4 DEF AtWork
  <2> QED BY <2>1, <2>2
<1>8. Quiet(state, F, F)
  <2>1. \A y \in F : y \in Work(drive) \/ \E A \in SUBSET Nodes : Kin \subseteq A /\ Open(state, y, A)
    BY <1>1, <1>2 DEF F, F0
  <2>2. Growing(state, Kin, F, Work(drive), F)
    BY <1>2, <1>6, <1>7, <2>1 DEF Growing
  <2> QED BY <1>3, <2>2, GrowthIsQuiet DEF Kept
<1>9. ASSUME crashes = 0 PROVE OwedIsPending(u) /\ \A t \in Nodes : OwedIn(u, t) /\ ~IsJoin(t) => t \in F
  <2>1. OwedIsPending(u) /\ Remembers(state, drive)
    BY <1>3, <1>4, <1>9
  <2> SUFFICES ASSUME NEW t \in Nodes, OwedIn(u, t), ~IsJoin(t) PROVE t \in F
    BY <2>1
  <2>2. CASE OwedIn(state, t)
    <3>1. t \in F0 \cup ToSet(drive.queue)
      BY <1>2, <2>1, <2>2 DEF Remembers, F0
    <3>2. PICK none : none = <<>>
      OBVIOUS
    <3>3. ToSet(drive.queue) = {}
      BY <1>2, <3>2 DEF ToSet
    <3> QED BY <1>1, <3>1, <3>3 DEF F, F0
  <2>3. CASE \E m \in Batch : t \in Onward(state, m)
    <3>1. PICK m \in Batch : t \in Onward(state, m)
      BY <2>3
    <3>2. u.nodes[t] = "pending"
      BY <1>4, <2>1, OwedIsSelected DEF Kept, Orderly
    <3>3. t \notin Batch
      BY <1>2, <1>4, <3>2
    <3> QED BY <3>1, <3>3 DEF AllSettled, Settled, F
  <2> QED BY <1>5, <2>2, <2>3
<1>10. InLine(u, F)
  <2>1. Quiet(u, F, F) /\ \A n \in F : ~IsFinished(u, n)
    BY <1>4, <1>7, <1>8 DEF Quiet, IsFinished
  <2> QED BY <1>9, <2>1 DEF InLine
<1>11. ASSUME done.frontier = <<>> PROVE Reason(u)
  <2>1. F = {}
    BY <1>1, <1>11, HeadAndTail DEF F
  <2>2. \A m \in Batch : \A t \in Onward(state, m) : t \notin Batch => ~Open(state, t, Batch)
    BY <2>1 DEF AllSettled, Settled, F
  <2>3. \A m \in Batch : IsFinished(state, m) /\ \A t \in Onward(state, m) : t \in Batch \/ ~IsFinished(state, t)
    BY <1>2 DEF IsFinished
  <2>4. \E m \in Batch : Onward(state, m) = {}
    <3> SUFFICES ASSUME \A m \in Batch : Onward(state, m) # {} PROVE FALSE
      OBVIOUS
    <3>1. \A m \in Batch : /\ IsFinished(state, m) /\ Onward(state, m) # {}
                           /\ \A t \in Onward(state, m) : t \in Batch \/ ~IsFinished(state, t)
      BY <2>3
    <3>2. \E m \in Batch : \E t \in Onward(state, m) : t \notin Batch /\ Open(state, t, Batch)
      BY <1>2, <1>3, <3>1, SomethingIsOpen DEF Kept
    <3> QED BY <2>2, <3>2
  <2>5. PICK m \in Batch : Onward(state, m) = {}
    BY <2>4
  <2>6. m \in Nodes /\ u.nodes[m] \in {"succeeded", "failed"} /\ Onward(u, m) = {}
    BY <1>2, <1>4, <2>5
  <2>7. Successors(u, m) = <<>>
    BY <2>6, NowhereOnward
  <2> QED BY <2>6, <2>7 DEF Reason
<1> QED BY <1>1, <1>4, <1>10, <1>11 DEF F

\* The batch ends: its members are routed, and the turn chooses its next head.
LEMMA BatchEndsIsTidy ==
  ASSUME DriveInv, OneWay, Tidy(state, drive, asked, crashes), BatchEnds
  PROVE  Tidy(state', drive', asked', crashes') /\ LetsGoAtTheEnd
<1> DEFINE ended == {m \in drive.ended \ drive.advanced : state.nodes[m] # "cancelled"}
           rest == Among(drive.batch, ended)
           tail == AdvanceAll(state, rest, drive.batch, drive.frontier)
           now == Fold(state, tail.log)
           members == Among(drive.batch, drive.advanced)
           edges == FlattenSeq([i \in DOMAIN members |-> SelectedEdges(now, members[i], FALSE)])
           done == IF drive.advanced = {} THEN tail ELSE Reoffer(now, drive.advanced, drive.batch, tail)
<1>1. NextHead(done.log, done.frontier) /\ drive.phase # "off"
  BY DEF BatchEnds, BatchOver
<1>2. /\ shape \in DOMAIN Graphs /\ StateSound(state) /\ MemorySound(drive, state, asked) /\ HeadsSound(drive)
      /\ drive.frontier \in Seq(Nodes) /\ drive.batch \in Seq(Nodes)
  BY DriverFacts
<1>3. BatchDone
  BY BatchIsDone
<1>4. rest \in Seq(Nodes) /\ IsInjective(rest) /\ ToSet(rest) = Batch \cap ended
  <2> HIDE DEF ended
  <2> QED BY <1>2, AmongKeeps DEF HeadsSound, Batch
<1>5. ToSet(rest) = Batch \ drive.advanced
  BY <1>3, <1>4 DEF BatchDone
<1>6. members \in Seq(Nodes) /\ ToSet(members) = drive.advanced
  <2>1. members \in Seq(Nodes) /\ ToSet(members) = Batch \cap drive.advanced
    BY <1>2, AmongKeeps DEF Batch
  <2> QED BY <1>3, <2>1 DEF BatchDone
<1> HIDE DEF rest, members, ended
<1>7. TailSound(state, tail, ToSet(rest))
  <2>1. \A m \in ToSet(rest) : state.finished[m] > 0
    BY <1>2, <1>3, <1>5 DEF MemorySound, BatchDone
  <2>2. IsInjective(drive.frontier) /\ ToSet(drive.frontier) \subseteq InvitedIn(state)
    BY <1>1, <1>2 DEF MemorySound, HeadsSound
  <2> QED BY <1>2, <1>4, <2>1, <2>2, AdvanceAllIsSound
<1>8. Gathered(tail) /\ AllSettled(tail, Batch \ drive.advanced)
  <2>1. rest \in Seq(Batch \ drive.advanced)
    BY <1>4, <1>5, Elements
  <2> QED BY <1>2, <1>3, <1>5, <2>1, AllAreRouted
<1> HIDE DEF tail
<1>9. \E T : TailSound(state, done, T)
  <2>1. \A n \in drive.advanced : state.finished[n] > 0
    BY <1>2 DEF MemorySound, HeadsSound
  <2>2. drive.advanced \cap ToSet(rest) = {}
    BY <1>5
  <2>3. \E T : TailSound(state, Reoffer(now, drive.advanced, drive.batch, tail), T)
    BY <1>2, <1>7, <2>1, <2>2, ReofferIsSound
  <2> QED BY <1>7, <2>3
<1>10. Routed(now)
  BY <1>8 DEF Gathered, Continues, Routed
<1>11. ASSUME drive.advanced = {} PROVE Gathered(done) /\ AllSettled(done, Batch)
  <2>1. done = tail
    BY <1>11
  <2>2. Batch \ drive.advanced = Batch
    BY <1>11
  <2> HIDE DEF done
  <2> QED BY <1>8, <2>1, <2>2
<1>12. ASSUME drive.advanced # {} PROVE Gathered(done) /\ AllSettled(done, Batch)
  <2>1. done = OfferAll(now, drive.batch, tail, edges)
    BY <1>12 DEF Reoffer, members
  <2>2. edges \in Seq(Edges)
    BY <1>2, <1>6, SelectedByMembers
  <2>3. edges = EdgesOf(now, members)
    BY DEF EdgesOf
  <2> HIDE DEF now, edges
  <2>4. ToSet(edges) = UNION {ToSet(SelectedEdges(now, m, FALSE)) : m \in ToSet(members)}
    BY <1>2, <1>6, <2>3, EdgesOfMembers
  <2>5. ToSet(edges) = UNION {ToSet(SelectedEdges(now, m, FALSE)) : m \in drive.advanced}
    BY <1>6, <2>4
  <2> HIDE DEF done
  <2>6. \A e \in ToSet(edges) : \E m \in drive.advanced : e \in ToSet(SelectedEdges(now, m, FALSE))
    BY <2>5
  <2>7. Offering(now, edges)
    BY <2>2, <2>6 DEF Offering
  <2>8. AllOffered(done, tail, edges)
    BY <1>2, <1>3, <1>8, <1>10, <2>1, <2>7, AllAreOffered
  <2>9. /\ Gathered(done) /\ ToSet(tail.frontier) \subseteq ToSet(done.frontier)
        /\ \A e \in ToSet(edges) : e.to \notin Batch => Settled(done, e.to)
    BY <2>8 DEF AllOffered
  <2>10. ASSUME NEW m \in drive.advanced, NEW t \in Onward(state, m) \ Batch PROVE Settled(done, t)
    <3>1. m \in Nodes
      BY <1>3 DEF BatchDone, Kin, Batch
    <3>2. t \in Onward(now, m)
      BY <1>10, <3>1 DEF Routed
    <3>3. ToSet(Successors(now, m)) = {x.to : x \in ToSet(SelectedEdges(now, m, FALSE))}
      BY <1>2, SuccessorsAreTargets
    <3>4. PICK e \in ToSet(SelectedEdges(now, m, FALSE)) : e.to = t
      BY <3>2, <3>3 DEF Onward
    <3> QED BY <2>5, <2>9, <3>4
  <2>11. ASSUME NEW m \in Batch \ drive.advanced, NEW t \in Onward(state, m) \ Batch PROVE Settled(done, t)
    BY <1>8, <2>9, SettledStays DEF AllSettled
  <2> QED BY <2>9, <2>10, <2>11 DEF AllSettled
<1>13. Gathered(done) /\ AllSettled(done, Batch)
  BY <1>11, <1>12
<1> HIDE DEF done
<1> DEFINE u == Fold(state, done.log)
           log == done.log
           frontier == done.frontier
<1>14. /\ Keeping(state, log) /\ log \in Seq(LogRecords({})) /\ frontier \in Seq(Nodes)
       /\ InLine(u, ToSet(frontier)) /\ (frontier = <<>> => Reason(u))
  BY <1>2, <1>3, <1>13, GatheredIsInLine
<1>15. IsInjective(frontier)
  BY <1>9 DEF TailSound
<1>16. u = Fold(state, log) /\ NextHead(log, frontier)
  BY <1>1
<1> HIDE DEF u, log, frontier
<1> QED BY <1>1, <1>14, <1>15, <1>16, NextHeadIsTidy

-----------------------------------------------------------------------------
(* Resuming a run that stopped cleanly. *)

\* What a driver that is gone left in the middle: the interrupted nodes, or the one last finished.
Cut == IF Interrupted = <<>> /\ state.last # "none" THEN {state.last} ELSE ToSet(Interrupted)

\* No driver holds the run: a resume may rerun one interrupted node, or the first of those a pause
\* cut off, and nothing has begun past the heads and the cut.
CleanCut ==
  drive.phase = "off" /\ ~HasEnded(state) =>
    /\ Len(Interrupted) > 1 => state.run = "paused_now"
    /\ \A n \in ToSet(PendingHeads(state)) \cup Cut : \A y \in Beyond(n) : state.nodes[y] = "pending"

\* The pending heads are the unfinished nodes that finished nodes go on to.
LEMMA HeadsAreOnward ==
  ASSUME shape \in DOMAIN Graphs, OneWay, NEW s, Orderly(s)
  PROVE  /\ PendingHeads(s) \in Seq(Nodes)
         /\ ToSet(PendingHeads(s)) = {t \in Nodes : ~IsFinished(s, t) /\ \E n \in Nodes : IsFinished(s, n) /\ t \in Onward(s, n)}
<1> DEFINE sent == UNION {RoutedTargets(s, n) : n \in {m \in Nodes : IsFinished(s, m)}}
           left == {t \in sent : ~IsFinished(s, t)}
<1>1. PendingHeads(s) = Among(Graph.nodes, left)
  BY DEF PendingHeads
<1>2. left = {t \in Nodes : ~IsFinished(s, t) /\ \E n \in Nodes : IsFinished(s, n) /\ t \in Onward(s, n)}
  <2>1. \A n \in Nodes : RoutedTargets(s, n) = Onward(s, n) /\ Onward(s, n) \subseteq Nodes
    BY RoutedAreOnward DEF Orderly
  <2> QED BY <2>1
<1> HIDE DEF left
<1>3. Graph.nodes \in Seq(Nodes) /\ ToSet(Graph.nodes) = Nodes
  BY GraphFacts DEF Nodes
<1>4. Among(Graph.nodes, left) \in Seq(Nodes) /\ ToSet(Among(Graph.nodes, left)) = ToSet(Graph.nodes) \cap left
  BY <1>3, AmongKeeps
<1> QED BY <1>1, <1>2, <1>3, <1>4

\* restore_frontier adds exactly the lost heads that can run.
LEMMA RestoreGives ==
  ASSUME shape \in DOMAIN Graphs, OneWay, NEW s, Orderly(s), NEW current, NEW frontier \in Seq(Nodes)
  PROVE  /\ Restore(s, current, frontier) \in Seq(Nodes)
         /\ ToSet(Restore(s, current, frontier)) =
              ToSet(frontier) \cup {h \in ToSet(PendingHeads(s)) \ ({current} \cup ToSet(frontier)) :
                                      IsReady(s, h, {current} \cup ToSet(frontier) \cup ToSet(PendingHeads(s)))}
<1> DEFINE heads == PendingHeads(s)
           active == {current} \cup ToSet(frontier) \cup ToSet(heads)
           lost == ToSet(heads) \ ({current} \cup ToSet(frontier))
           ready == {h \in lost : IsReady(s, h, active)}
           back == Among(heads, ready)
<1>1. Restore(s, current, frontier) = frontier \o back
  BY DEF Restore, Readmit
<1>2. heads \in Seq(Nodes)
  BY HeadsAreOnward
<1>3. ready \subseteq ToSet(heads)
  OBVIOUS
<1>4. ready = {h \in ToSet(PendingHeads(s)) \ ({current} \cup ToSet(frontier)) :
                 IsReady(s, h, {current} \cup ToSet(frontier) \cup ToSet(PendingHeads(s)))}
  OBVIOUS
<1> HIDE DEF heads, ready
<1>5. back \in Seq(Nodes) /\ ToSet(back) = ToSet(heads) \cap ready
  BY <1>2, AmongKeeps
<1> HIDE DEF back
<1>6. frontier \o back \in Seq(Nodes) /\ ToSet(frontier \o back) = ToSet(frontier) \cup ToSet(back)
  BY <1>5, Joined
<1> QED BY <1>1, <1>3, <1>4, <1>5, <1>6

\* The heads a run can be taken up with: those it runs again, and pending heads that can run
\* while all of them are counted as at work.
TakenUp(s, W, again) ==
  LET heads == ToSet(PendingHeads(s))
  IN  /\ again \in SUBSET Nodes /\ W \in SUBSET Nodes
      /\ \A n \in again : ~IsFinished(s, n)
      /\ \A a \in again \cup heads : \A y \in Beyond(a) : s.nodes[y] = "pending" /\ y \notin again
      /\ \A w \in W : w \in again \/ (w \in heads /\ \E A \in SUBSET Nodes : again \cup heads \subseteq A /\ IsReady(s, w, A))

\* Nothing of such a memory lies behind another part of it.
LEMMA TakenUpIsQuiet ==
  ASSUME shape \in DOMAIN Graphs, OneWay, NEW s, Orderly(s), NEW W, NEW again, TakenUp(s, W, again)
  PROVE  Quiet(s, W, W) /\ \A w \in W : ~IsFinished(s, w)
<1> DEFINE heads == ToSet(PendingHeads(s))
           active == again \cup heads
<1>1. /\ again \in SUBSET Nodes /\ W \in SUBSET Nodes
      /\ \A n \in again : ~IsFinished(s, n)
      /\ \A a \in active : \A y \in Beyond(a) : s.nodes[y] = "pending" /\ y \notin again
      /\ \A w \in W : w \in again \/ (w \in heads /\ \E A \in SUBSET Nodes : active \subseteq A /\ IsReady(s, w, A))
  BY DEF TakenUp
<1>2. heads = {t \in Nodes : ~IsFinished(s, t) /\ \E n \in Nodes : IsFinished(s, n) /\ t \in Onward(s, n)}
  BY HeadsAreOnward
<1> HIDE DEF heads
<1>3. active \in SUBSET Nodes /\ \A a \in active : ~IsFinished(s, a)
  BY <1>1, <1>2
<1>4. \A w \in W : w \in active
  BY <1>1
<1>5. ASSUME NEW w \in W PROVE w \in again \/ \E A \in SUBSET Nodes : active \subseteq A /\ Open(s, w, A)
  <2> SUFFICES ASSUME w \notin again PROVE \E A \in SUBSET Nodes : active \subseteq A /\ Open(s, w, A)
    OBVIOUS
  <2>1. PICK A \in SUBSET Nodes : active \subseteq A /\ IsReady(s, w, A)
    BY <1>1
  <2>2. PICK n \in Nodes : IsFinished(s, n) /\ w \in Onward(s, n)
    BY <1>1, <1>2
  <2>3. Open(s, w, A)
    BY <2>1, <2>2, ReadyIsOpen
  <2> QED BY <2>1, <2>3
<1> HIDE DEF active
<1>6. \A a \in W : AtWork(s, a, active)
  BY <1>3, <1>4 DEF AtWork
<1>7. Growing(s, active, W, again, W)
  <2>1. \A a \in W : \A y \in Beyond(a) : s.nodes[y] = "pending" /\ y \notin again
    BY <1>1, <1>4
  <2> QED BY <1>1, <1>3, <1>5, <1>6, <2>1 DEF Growing
<1> QED BY <1>3, <1>4, <1>7, GrowthIsQuiet

\* A driver that takes up a run goes on with it.
LEMMA EntryKeeps ==
  ASSUME DriveInv, OneWay, Kept(state)
  PROVE  /\ Kept(Entry) /\ (OwedIsPending(state) => OwedIsPending(Entry)) /\ Beside(state, Entry)
         /\ Entry.run = "running" /\ \A m \in Nodes : Onward(Entry, m) = Onward(state, m)
         /\ ToSet(PendingHeads(Entry)) = ToSet(PendingHeads(state))
<1> DEFINE r == RunIs("running")
<1>1. shape \in DOMAIN Graphs /\ "running" \in RunStatuses
  BY InvNow DEF RunStatuses
<1>2. Entry = FoldOne(state, r)
  <2>1. Keeping(state, <<>>) /\ Fold(state, <<>>) = state
    BY KeepingNothing
  <2>2. PICK none : none = <<>> /\ none \in Seq({r})
    <3>1. <<>> \in Seq({r})
      OBVIOUS
    <3> QED BY <3>1
  <2>3. Fold(state, none \o <<r>>) = FoldOne(Fold(state, none), r)
    BY <2>2, OneMoreFolded
  <2>4. none \o <<r>> = <<r>>
    BY <2>2
  <2> QED BY <2>1, <2>2, <2>3, <2>4 DEF Entry
<1> HIDE DEF r
<1>3. /\ Kept(Entry) /\ (OwedIsPending(state) => OwedIsPending(Entry)) /\ Beside(state, Entry)
      /\ Entry.run = "running" /\ \A m \in Nodes : Onward(Entry, m) = Onward(state, m)
  BY <1>1, <1>2, RunRecordKeeps DEF r
<1>4. \A m \in Nodes : IsFinished(Entry, m) <=> IsFinished(state, m)
  BY <1>3 DEF Beside, IsFinished
<1>5. ToSet(PendingHeads(Entry)) = {t \in Nodes : ~IsFinished(Entry, t) /\ \E n \in Nodes : IsFinished(Entry, n) /\ t \in Onward(Entry, n)}
  BY <1>1, <1>3, HeadsAreOnward DEF Kept
<1>6. ToSet(PendingHeads(state)) = {t \in Nodes : ~IsFinished(state, t) /\ \E n \in Nodes : IsFinished(state, n) /\ t \in Onward(state, n)}
  BY <1>1, HeadsAreOnward DEF Kept
<1> QED BY <1>3, <1>4, <1>5, <1>6

\* Whatever is written of a second part after a first one is in order.
LEMMA KeepingAfter ==
  ASSUME NEW s, NEW R, NEW a \in Seq(R), NEW b \in Seq(R), Keeping(Fold(s, a), b), Fold(s, a).run = "running"
  PROVE  /\ Fold(s, a \o b) = Fold(Fold(s, a), b) /\ Len(a \o b) \in Nat
         /\ \A k \in Len(a) .. Len(a \o b) :
              Kept(Fold(s, SubSeq(a \o b, 1, k))) /\ Fold(s, SubSeq(a \o b, 1, k)).run = "running"
<1>1. a \o b \in Seq(R) /\ Len(a \o b) = Len(a) + Len(b) /\ Len(a) \in Nat /\ Len(b) \in Nat
  OBVIOUS
<1>2. ASSUME NEW k \in Len(a) .. Len(a \o b)
      PROVE  Kept(Fold(s, SubSeq(a \o b, 1, k))) /\ Fold(s, SubSeq(a \o b, 1, k)).run = "running"
  <2> DEFINE i == k - Len(a)
             part == SubSeq(b, 1, i)
  <2>1. i \in 0 .. Len(b) /\ k = Len(a) + i
    BY <1>1
  <2>2. part \in Seq(R)
    BY <2>1
  <2>3. SubSeq(a \o b, 1, k) = a \o part
    <3>1. /\ Len(SubSeq(a \o b, 1, k)) = k /\ SubSeq(a \o b, 1, k) \in Seq(R)
          /\ \A j \in 1 .. k : SubSeq(a \o b, 1, k)[j] = (a \o b)[j]
      BY <1>1
    <3>2. /\ Len(a \o part) = k /\ a \o part \in Seq(R)
          /\ \A j \in 1 .. k : (a \o part)[j] = (a \o b)[j]
      BY <1>1, <2>1, <2>2
    <3> QED BY <3>1, <3>2
  <2>4. Kept(Fold(Fold(s, a), part)) /\ Fold(Fold(s, a), part).run = "running"
    BY <2>1 DEF Keeping
  <2> HIDE DEF part
  <2>5. Fold(s, a \o part) = Fold(Fold(s, a), part)
    BY <2>2, FoldJoined
  <2> QED BY <2>3, <2>4, <2>5
<1> QED BY <1>1, <1>2, FoldJoined

\* The driver of a resumed run takes its first seed, and beside it the lost heads that can run.
LEMMA EnterIsTidy ==
  ASSUME DriveInv, OneWay, Tidy(state, drive, asked, crashes), CanResume,
         NEW log, NEW M, Continues(Entry, log, M),
         NEW seeds \in Seq(Nodes), IsInjective(seeds), seeds # <<>>,
         NEW again, again \subseteq ToSet(seeds), TakenUp(Entry, ToSet(seeds), again),
         Enter(Entry, log, seeds)
  PROVE  Tidy(state', drive', asked', crashes')
<1> DEFINE first == Head(seeds)
           rest == Tail(seeds)
           frontier == Restore(Entry, first, rest)
           next == [Off EXCEPT !.phase = "turn", !.current = first, !.frontier = frontier]
           whole == <<RunIs("running")>> \o log
           heads == ToSet(PendingHeads(Entry))
           W == {first} \cup ToSet(frontier)
           u == Fold(Entry, log)
<1>1. Write(whole, next)
  BY DEF Enter
<1>2. shape \in DOMAIN Graphs /\ crashes \in Nat /\ Kept(state)
  BY InvNow DEF Tidy
<1>3. /\ Kept(Entry) /\ (OwedIsPending(state) => OwedIsPending(Entry)) /\ Orderly(Entry)
      /\ Entry.run = "running" /\ Entry \in RunStates /\ Recorded(Entry)
  BY <1>2, EntryKeeps, EntryIsAlike DEF Kept
<1>4. /\ log \in Seq(LogRecords({})) /\ Keeping(Entry, log) /\ Kept(u) /\ (OwedIsPending(Entry) => OwedIsPending(u))
      /\ u.nodes = Entry.nodes /\ u.run = "running" /\ \A m \in Nodes : Onward(u, m) = Onward(Entry, m)
  BY <1>3 DEF Continues, Beside
<1>5. /\ first \in ToSet(seeds) /\ rest \in Seq(Nodes) /\ ToSet(seeds) = {first} \cup ToSet(rest)
      /\ IsInjective(rest) /\ first \notin ToSet(rest) /\ ToSet(seeds) \subseteq Nodes
  BY HeadAndTail, Elements
<1> HIDE DEF first, rest
<1>6. /\ frontier \in Seq(Nodes) /\ first \notin ToSet(frontier)
  BY <1>2, <1>3, <1>5, RestoreIsSound
<1>7. ToSet(frontier) = ToSet(rest) \cup {h \in heads \ ({first} \cup ToSet(rest)) : IsReady(Entry, h, {first} \cup ToSet(rest) \cup heads)}
  BY <1>2, <1>3, <1>5, RestoreGives
<1>8. /\ next.phase = "turn" /\ next.current = first /\ next.frontier = frontier
  BY DEF Off
<1>9. heads \subseteq Nodes /\ heads = {t \in Nodes : ~IsFinished(Entry, t) /\ \E n \in Nodes : IsFinished(Entry, n) /\ t \in Onward(Entry, n)}
  BY <1>2, <1>3, HeadsAreOnward
<1> HIDE DEF frontier, next
<1>10. Quiet(Entry, W, W) /\ \A w \in W : ~IsFinished(Entry, w)
  <2>1. \A w \in W : w \in ToSet(seeds) \/ (w \in heads /\ IsReady(Entry, w, ToSet(seeds) \cup heads))
    BY <1>5, <1>7
  <2>2. ToSet(seeds) \cup heads \in SUBSET Nodes /\ again \cup heads \subseteq ToSet(seeds) \cup heads
    BY <1>5, <1>9
  <2>3. W \in SUBSET Nodes
    BY <1>5, <1>6, Elements
  <2>4. TakenUp(Entry, W, again)
    <3> HIDE DEF W
    <3> QED BY <2>1, <2>2, <2>3 DEF TakenUp
  <2> HIDE DEF W
  <2> QED BY <1>2, <1>3, <2>4, TakenUpIsQuiet
<1> HIDE DEF heads
<1>11. ASSUME crashes = 0 PROVE OwedIsPending(u) /\ \A t \in Nodes : OwedIn(u, t) /\ ~IsJoin(t) => t \in W
  <2>1. OwedIsPending(u)
    BY <1>3, <1>4, <1>11 DEF Tidy, Debts, HasEnded, CanResume
  <2> SUFFICES ASSUME NEW t \in Nodes, OwedIn(u, t), ~IsJoin(t) PROVE t \in W
    BY <2>1
  <2>2. u.nodes[t] = "pending" /\ \E n \in Nodes : IsFinished(u, n) /\ t \in Onward(u, n)
    BY <1>2, <1>4, <2>1, OwedIsSelected DEF Kept, Orderly
  <2>3. t \in heads
    BY <1>4, <1>9, <2>2 DEF IsFinished
  <2>4. IsReady(Entry, t, {first} \cup ToSet(rest) \cup heads)
    BY DEF IsReady, Readiness
  <2> QED BY <1>7, <2>3, <2>4
<1>12. Holds(u, next)
  <2>1. Work(next) = W
    BY <1>8 DEF Work
  <2>2. Quiet(u, W, W) /\ \A w \in W : ~IsFinished(u, w)
    BY <1>4, <1>10 DEF Quiet, IsFinished
  <2> HIDE DEF u
  <2> QED BY <1>6, <1>8, <2>1, <2>2 DEF Holds, Upright, BatchFits
<1>13. crashes = 0 => Debts(u, next, asked)
  BY <1>8, <1>11 DEF Debts, Remembers
<1>14. Tidy(u, next, asked, crashes)
  BY <1>4, <1>12, <1>13 DEF Tidy
<1>15. MayBeCut(state, whole) /\ Fold(state, whole) = u
  <2> DEFINE r == RunIs("running")
             R == LogRecords({})
             one == <<r>>
  <2>1. r \in R
    BY DEF LogRecords, RunRecords, RunStatuses
  <2> HIDE DEF r, R
  <2>2. one \in Seq(R) /\ Len(one) = 1
    BY <2>1
  <2>3. Entry = Fold(state, one) /\ whole = one \o log
    BY DEF Entry, r
  <2>4. log \in Seq(R)
    BY <1>4 DEF R
  <2> HIDE DEF one, whole, u
  <2>5. /\ Fold(state, one \o log) = Fold(Entry, log) /\ Len(one \o log) \in Nat
        /\ \A k \in Len(one) .. Len(one \o log) :
             Kept(Fold(state, SubSeq(one \o log, 1, k))) /\ Fold(state, SubSeq(one \o log, 1, k)).run = "running"
    <3>1. Keeping(Fold(state, one), log) /\ Fold(state, one).run = "running" /\ one \in Seq(R) /\ log \in Seq(R)
      BY <1>3, <1>4, <2>2, <2>3, <2>4
    <3> QED BY <2>3, <3>1, KeepingAfter
  <2>6. /\ Fold(state, whole) = Fold(Entry, log) /\ Len(whole) \in Nat
        /\ \A k \in 1 .. Len(whole) :
             Kept(Fold(state, SubSeq(whole, 1, k))) /\ Fold(state, SubSeq(whole, 1, k)).run = "running"
    BY <2>2, <2>3, <2>5
  <2>7. \A k \in 1 .. Len(whole) - 1 : k \in 1 .. Len(whole)
    BY <2>6
  <2> QED BY <2>6, <2>7 DEF u, MayBeCut
<1> HIDE DEF whole, u
<1> QED BY <1>1, <1>2, <1>14, <1>15, WriteIsTidy

\* A resume runs an unfinished node again, or goes on past the node that finished last.
Reruns(n) ==
  /\ Plan = [node |-> n, mode |-> "rerun"] /\ n \in Nodes /\ ~IsFinished(state, n)
  /\ \A a \in {n} \cup ToSet(PendingHeads(state)) : \A y \in Beyond(a) : state.nodes[y] = "pending" /\ y # n

GoesPast(n) ==
  /\ Plan = [node |-> n, mode |-> "after"] /\ n \in Nodes /\ IsFinished(state, n)
  /\ \A a \in {n} \cup ToSet(PendingHeads(state)) : \A y \in Beyond(a) : state.nodes[y] = "pending"

\* The nodes a state shows as running.
RunningIn(s) == {n \in Nodes : s.nodes[n] = "running"}

\* A resume finds them in the order of the playbook.
LEMMA InterruptedFacts ==
  ASSUME shape \in DOMAIN Graphs
  PROVE  /\ Interrupted \in Seq(Nodes) /\ ToSet(Interrupted) = RunningIn(state)
         /\ Interrupted = <<>> <=> RunningIn(state) = {}
         /\ Interrupted # <<>> => Head(Interrupted) \in RunningIn(state)
         /\ Interrupted # <<>> => (Len(Interrupted) = 1 \/ Len(Interrupted) > 1)
<1> DEFINE at == RunningIn(state)
<1>1. Interrupted = Among(Graph.nodes, at) /\ at \subseteq Nodes
  BY DEF Interrupted, RunningIn
<1> HIDE DEF at
<1>2. Interrupted \in Seq(Nodes) /\ ToSet(Interrupted) = at
  <2>1. Graph.nodes \in Seq(Nodes) /\ ToSet(Graph.nodes) = Nodes
    BY GraphFacts DEF Nodes
  <2>2. Among(Graph.nodes, at) \in Seq(Nodes) /\ ToSet(Among(Graph.nodes, at)) = ToSet(Graph.nodes) \cap at
    BY <2>1, AmongKeeps
  <2> QED BY <1>1, <2>1, <2>2
<1>3. Interrupted # <<>> => Head(Interrupted) \in ToSet(Interrupted)
  BY <1>2, HeadAndTail
<1>4. PICK none : none = <<>> /\ ToSet(none) = {}
  BY DEF ToSet
<1>5. Interrupted # <<>> => (Len(Interrupted) = 1 \/ Len(Interrupted) > 1)
  <2>1. Interrupted # <<>> => Len(Interrupted) \in Nat /\ Len(Interrupted) # 0
    BY <1>2
  <2>2. \A k \in Nat : k # 0 => k = 1 \/ k > 1
    OBVIOUS
  <2> QED BY <2>1, <2>2
<1> QED BY <1>2, <1>3, <1>4, <1>5 DEF at

\* A run paused before its first node starts over.
LEMMA PlanFromTheStart ==
  ASSUME shape \in DOMAIN Graphs, StateSound(state), Kept(state),
         IsPaused /\ \A n \in Nodes : state.nodes[n] = "pending"
  PROVE  Plan = [node |-> "start", mode |-> "rerun"]
<1>1. Interrupted = <<>>
  <2>1. RunningIn(state) = {}
    BY DEF RunningIn
  <2> QED BY <2>1, InterruptedFacts
<1>2. state.last = "none"
  <2>1. state.last # "none" => state.last \in Nodes /\ state.finished[state.last] > 0
    BY DEF StateSound, Recorded, RunStates
  <2>2. \A n \in Nodes : state.finished[n] = 0
    BY DEF Kept, Stamped
  <2> QED BY <2>1, <2>2
<1>3. ~(Len(Interrupted) = 1) /\ ~(Len(Interrupted) > 1)
  BY <1>1
<1> QED BY <1>1, <1>2, <1>3 DEF Plan

\* From a clean cut a resume either runs one interrupted node again, or goes on past the last
\* finished one.
LEMMA PlanIsClean ==
  ASSUME DriveInv, OneWay, Kept(state), CanResume, CleanCut
  PROVE  \E n : Reruns(n) \/ GoesPast(n)
<1> DEFINE heads == ToSet(PendingHeads(state))
           at == RunningIn(state)
<1>1. /\ shape \in DOMAIN Graphs /\ StateSound(state) /\ state \in RunStates /\ drive.phase = "off" /\ Plan.node # "none"
      /\ state.run \notin {"succeeded", "failed"}
  BY DriverFacts DEF CanResume, IsRefused, CannotGoOn
<1>2. /\ Len(Interrupted) > 1 => state.run = "paused_now"
      /\ \A n \in heads \cup Cut : \A y \in Beyond(n) : state.nodes[y] = "pending"
  BY <1>1 DEF CleanCut, HasEnded
<1>3. Interrupted \in Seq(Nodes) /\ ToSet(Interrupted) = at
  BY <1>1, InterruptedFacts
<1>4. /\ Interrupted # <<>> => Head(Interrupted) \in at
      /\ Interrupted = <<>> <=> at = {}
  BY <1>1, InterruptedFacts
<1>5. \A a \in heads : ~IsFinished(state, a) /\ a \in Nodes /\ \E m \in Nodes : IsFinished(state, m)
  BY <1>1, HeadsAreOnward DEF Kept
<1> HIDE DEF heads
<1>6. ASSUME NEW n \in at, Plan = [node |-> n, mode |-> "rerun"] PROVE Reruns(n)
  <2>1. n \in Nodes /\ state.nodes[n] = "running" /\ ~IsFinished(state, n)
    BY DEF IsFinished, RunningIn
  <2>2. n \in Cut
    BY <1>3, <1>4 DEF Cut
  <2>3. ASSUME NEW a \in {n} \cup heads, NEW y \in Beyond(a) PROVE state.nodes[y] = "pending" /\ y # n
    BY <1>2, <2>1, <2>2
  <2> QED BY <1>6, <2>1, <2>3 DEF Reruns, heads
<1>7. CASE IsPaused /\ \A n \in Nodes : state.nodes[n] = "pending"
  <2>1. Plan = [node |-> "start", mode |-> "rerun"]
    BY <1>1, <1>7, PlanFromTheStart
  <2>2. "start" \in Nodes /\ ~IsFinished(state, "start") /\ \A m \in Nodes : ~IsFinished(state, m)
    BY <1>1, <1>7, GraphFacts DEF IsFinished
  <2>3. heads = {}
    BY <1>5, <2>2
  <2>4. ASSUME NEW y \in Beyond("start") PROVE state.nodes[y] = "pending" /\ y # "start"
    BY <1>1, <1>7, <2>2, BeyondFacts DEF OneWay
  <2>5. Reruns("start")
    BY <2>1, <2>2, <2>3, <2>4 DEF Reruns, heads
  <2> QED BY <2>5
<1>8. CASE ~(IsPaused /\ \A n \in Nodes : state.nodes[n] = "pending") /\ Interrupted # <<>>
  <2>1. Len(Interrupted) = 1 \/ Len(Interrupted) > 1
    BY <1>1, <1>8, InterruptedFacts
  <2>2. Plan = [node |-> Head(Interrupted), mode |-> "rerun"]
    BY <1>2, <1>8, <2>1 DEF Plan
  <2>3. Reruns(Head(Interrupted))
    BY <1>4, <1>6, <1>8, <2>2
  <2> QED BY <2>3
<1>9. CASE ~(IsPaused /\ \A n \in Nodes : state.nodes[n] = "pending") /\ Interrupted = <<>>
  <2>1. ~(Len(Interrupted) = 1) /\ ~(Len(Interrupted) > 1)
    BY <1>9
  <2>2. state.last # "none"
    <3> SUFFICES ASSUME state.last = "none" PROVE FALSE
      OBVIOUS
    <3>1. Plan = [node |-> state.last, mode |-> "rerun"]
      BY <1>9, <2>1 DEF Plan
    <3> QED BY <1>1, <3>1
  <2>3. Plan = [node |-> state.last, mode |-> "after"]
    BY <1>9, <2>1, <2>2 DEF Plan
  <2>4. state.last \in Nodes /\ state.finished[state.last] > 0
    BY <1>1, <2>2 DEF StateSound, Recorded, RunStates
  <2>5. IsFinished(state, state.last)
    <3>1. state.nodes[state.last] # "pending"
      BY <2>4 DEF Kept, Stamped
    <3>2. state.nodes[state.last] # "running"
      BY <1>4, <1>9, <2>4 DEF RunningIn
    <3>3. state.nodes[state.last] \in Statuses
      BY <1>1, <2>4 DEF RunStates
    <3> QED BY <3>1, <3>2, <3>3 DEF IsFinished, Statuses
  <2>6. state.last \in Cut
    BY <1>9, <2>2 DEF Cut
  <2>7. GoesPast(state.last)
    <3>1. \A a \in {state.last} \cup heads : \A y \in Beyond(a) : state.nodes[y] = "pending"
      BY <1>2, <2>6
    <3> QED BY <2>3, <2>4, <2>5, <3>1 DEF GoesPast, heads
  <2> QED BY <2>7
<1> QED BY <1>7, <1>8, <1>9

\* The automatic resume.
LEMMA ResumeIsTidy ==
  ASSUME DriveInv, OneWay, Tidy(state, drive, asked, crashes), CleanCut, Resume
  PROVE  Tidy(state', drive', asked', crashes')
<1> DEFINE adv == Seeds(Entry, Plan)
           heads == ToSet(PendingHeads(Entry))
           seeds == IF adv.frontier = <<>> THEN Restore(Entry, Plan.node, <<>>) ELSE adv.frontier
<1>1. CanResume /\ Enter(Entry, adv.log, seeds)
  BY DEF Resume, Entry
<1>2. /\ shape \in DOMAIN Graphs /\ Kept(state) /\ Kept(Entry) /\ Orderly(Entry) /\ Beside(state, Entry)
      /\ \A m \in Nodes : Onward(Entry, m) = Onward(state, m)
      /\ heads = ToSet(PendingHeads(state))
      /\ Entry \in RunStates /\ Recorded(Entry)
  BY InvNow, EntryKeeps, EntryIsAlike DEF Tidy, Kept
<1>3. /\ heads \subseteq Nodes
      /\ \A h \in heads : ~IsFinished(Entry, h)
      /\ \A t \in Nodes : ~IsFinished(Entry, t) /\ (\E m \in Nodes : IsFinished(Entry, m) /\ t \in Onward(Entry, m)) => t \in heads
  BY <1>2, HeadsAreOnward
<1>4. Entry.nodes = state.nodes /\ \A m : IsFinished(Entry, m) <=> IsFinished(state, m)
  BY <1>2 DEF Beside, IsFinished
<1>5. PICK n : Reruns(n) \/ GoesPast(n)
  BY <1>1, <1>2, PlanIsClean
<1>6. CASE Reruns(n)
  <2> DEFINE log == <<>>
             one == <<n>>
             again == {n}
  <2>1. Plan.mode # "after" /\ Plan.node = n /\ n \in Nodes
    BY <1>6 DEF Reruns
  <2>2. adv = [log |-> log, frontier |-> one]
    BY <2>1 DEF Seeds
  <2>3. adv.log = log /\ adv.frontier = one
    <3> HIDE DEF adv, log, one
    <3> QED BY <2>2
  <2>4. /\ one \in Seq(Nodes) /\ ToSet(one) = again /\ one # <<>> /\ IsInjective(one)
    BY <2>1 DEF ToSet, IsInjective
  <2>5. seeds = one
    BY <2>3, <2>4
  <2>6. TakenUp(Entry, ToSet(one), again)
    <3>1. again \in SUBSET Nodes /\ ~IsFinished(Entry, n)
      BY <1>4, <1>6, <2>1 DEF Reruns
    <3>2. \A a \in again \cup heads : \A y \in Beyond(a) : Entry.nodes[y] = "pending" /\ y \notin again
      BY <1>2, <1>4, <1>6 DEF Reruns
    <3> QED BY <2>4, <3>1, <3>2 DEF TakenUp
  <2>7. Enter(Entry, log, one)
    <3> HIDE DEF adv, seeds, log, one
    <3> QED BY <1>1, <2>3, <2>5
  <2>8. Continues(Entry, log, {})
    BY <1>2, ContinuesWithNothing
  <2>9. again \subseteq ToSet(one)
    BY <2>4
  <2> HIDE DEF log, one, again
  <2> QED BY <1>1, <2>4, <2>6, <2>7, <2>8, <2>9, EnterIsTidy
<1>7. CASE GoesPast(n)
  <2> DEFINE none == <<>>
             again == {}
  <2>1. /\ Plan.mode = "after" /\ Plan.node = n /\ n \in Nodes /\ IsFinished(Entry, n)
        /\ \A a \in {n} \cup heads : \A y \in Beyond(a) : Entry.nodes[y] = "pending"
    BY <1>2, <1>4, <1>7 DEF GoesPast
  <2>2. adv = Advance(Entry, n, none, heads)
    BY <2>1 DEF Seeds
  <2>3. none \in Seq(Nodes) /\ ToSet(none) = {} /\ IsInjective(none)
    BY DEF ToSet, IsInjective
  <2>4. none = <<>> /\ again = {}
    OBVIOUS
  <2>5. \A t \in Onward(Entry, n) : t \in Nodes /\ t \in Beyond(n)
    BY <1>2, <2>1, RoutedAreOnward DEF Orderly
  <2>6. Routable(Entry, n)
    BY <1>2, <2>1, <2>5 DEF Routable
  <2> HIDE DEF adv, none, again, heads
  <2>7. Forwards(Entry, n, none, heads, adv)
    BY <1>2, <2>2, <2>3, <2>6, AdvanceGoesOn
  <2>8. /\ adv.frontier \in Seq(Nodes) /\ Continues(Entry, adv.log, {n})
        /\ ToSet(adv.frontier) = {t \in Onward(Entry, n) : Open(Entry, t, {n} \cup heads)}
    <3>1. {n} \cup ToSet(none) \cup heads = {n} \cup heads
      BY <2>3
    <3> QED BY <1>2, <2>3, <2>7, <3>1 DEF Forwards
  <2>9. IsInjective(adv.frontier)
    <3>1. Advances(Entry, n, none, adv, ToSet(none))
      BY <1>2, <2>1, <2>2, <2>3, AdvanceAdvances
    <3> QED BY <2>3, <3>1 DEF Advances
  <2>10. /\ Restore(Entry, n, none) \in Seq(Nodes) /\ IsInjective(Restore(Entry, n, none))
         /\ ToSet(Restore(Entry, n, none)) = {h \in heads \ {n} : IsReady(Entry, h, {n} \cup heads)}
    <3>1. n \notin ToSet(none)
      BY <2>3
    <3>2. {n} \cup ToSet(none) \cup heads = {n} \cup heads /\ {n} \cup ToSet(none) = {n}
      BY <2>3
    <3>3. Restore(Entry, n, none) \in Seq(Nodes) /\ IsInjective(Restore(Entry, n, none))
      BY <1>2, <2>3, <3>1, RestoreIsSound
    <3>4. ToSet(Restore(Entry, n, none)) =
            ToSet(none) \cup {h \in heads \ ({n} \cup ToSet(none)) : IsReady(Entry, h, {n} \cup ToSet(none) \cup heads)}
      BY <1>2, <2>3, RestoreGives DEF heads
    <3> QED BY <2>3, <3>2, <3>3, <3>4
  <2>11. adv.frontier = none => Restore(Entry, n, none) # none
    BY <1>1, <2>1, <2>2, <2>4, SeedsAreFound DEF heads
  <2>12. seeds = IF adv.frontier = none THEN Restore(Entry, n, none) ELSE adv.frontier
    BY <2>1, <2>4
  <2> HIDE DEF seeds
  <2>13. /\ seeds \in Seq(Nodes) /\ IsInjective(seeds) /\ seeds # <<>>
         /\ \A t \in ToSet(seeds) : t \in heads /\ IsReady(Entry, t, {n} \cup heads)
    <3>1. \A t \in ToSet(adv.frontier) : t \in heads /\ IsReady(Entry, t, {n} \cup heads)
      <4> SUFFICES ASSUME NEW t \in ToSet(adv.frontier) PROVE t \in heads /\ IsReady(Entry, t, {n} \cup heads)
        OBVIOUS
      <4>1. t \in Onward(Entry, n) /\ Open(Entry, t, {n} \cup heads)
        BY <2>8
      <4>2. Entry.nodes[t] = "pending" /\ t \in Nodes
        BY <2>1, <2>5, <4>1
      <4>3. t \in heads
        BY <1>3, <2>1, <4>1, <4>2 DEF IsFinished
      <4> QED BY <1>2, <2>1, <4>1, <4>3, ReadyIsOpen
    <3> QED BY <2>4, <2>8, <2>9, <2>10, <2>11, <2>12, <3>1
  <2>14. TakenUp(Entry, ToSet(seeds), again)
    <3>1. {n} \cup heads \in SUBSET Nodes /\ again \cup heads \subseteq {n} \cup heads /\ ToSet(seeds) \in SUBSET Nodes
      BY <1>3, <2>1, <2>4, <2>13, Elements
    <3>2. \A a \in again \cup heads : \A y \in Beyond(a) : Entry.nodes[y] = "pending" /\ y \notin again
      BY <2>1, <2>4
    <3>3. \A t \in ToSet(seeds) : \E A \in SUBSET Nodes : again \cup heads \subseteq A /\ IsReady(Entry, t, A)
      BY <2>13, <3>1
    <3> QED BY <2>4, <2>13, <3>1, <3>2, <3>3 DEF TakenUp, heads
  <2>15. again \subseteq ToSet(seeds)
    BY <2>4
  <2> QED BY <1>1, <2>8, <2>13, <2>14, <2>15, EnterIsTidy
<1> QED BY <1>5, <1>6, <1>7

-----------------------------------------------------------------------------
(* The run's playbook does not change, and neither does what the operators above say of it. *)

\* The walks of an unchanged playbook are unchanged.
LEMMA SameWalks ==
  ASSUME UNCHANGED shape
  PROVE  /\ \A n : Reach(n)' = Reach(n) /\ Beyond(n)' = Beyond(n)
         /\ \A n : Incoming(n)' = Incoming(n) /\ Outgoing(n)' = Outgoing(n)
<1>1. Edges' = Edges /\ Graph' = Graph
  BY SameGraph
<1>2. \A n : Reach(n)' = Reach(n)
  BY Zenon DEF Reach
<1>3. \A n : Targets(n)' = Targets(n)
  BY <1>1, Zenon DEF Targets
<1>4. \A n : Beyond(n)' = Beyond(n)
  BY <1>2, <1>3 DEF Beyond
<1>5. \A n : Incoming(n)' = Incoming(n) /\ Outgoing(n)' = Outgoing(n)
  BY <1>1, Zenon DEF Incoming, Outgoing
<1> QED BY <1>2, <1>4, <1>5

\* So are its joins.
LEMMA SameJoins ==
  ASSUME UNCHANGED shape
  PROVE  \A n : JoinKind(n)' = JoinKind(n) /\ (IsJoin(n)' <=> IsJoin(n))
<1>1. Edges' = Edges /\ Graph' = Graph
  BY SameGraph
<1>2. \A n : JoinKind(n)' = JoinKind(n)
  BY <1>1, SameWalks DEF JoinKind
<1> QED BY <1>2 DEF IsJoin

\* Its finished nodes go on to the same nodes.
LEMMA SameRoutes ==
  ASSUME UNCHANGED shape
  PROVE  \A s, n : Successors(s, n)' = Successors(s, n) /\ Onward(s, n)' = Onward(s, n)
<1>1. Edges' = Edges /\ Graph' = Graph
  BY SameGraph
<1>2. \A s, n, open : Taken(s, n, open)' = Taken(s, n, open)
  BY <1>1 DEF Taken
<1>3. \A s, n, asRun : SelectedEdges(s, n, asRun)' = SelectedEdges(s, n, asRun)
  BY <1>1, <1>2, SameWalks DEF SelectedEdges
<1>4. \A s, n : Successors(s, n)' = Successors(s, n)
  BY <1>3 DEF Successors
<1> QED BY <1>4 DEF Onward

\* Its journal is in order by the same measure.
LEMMA SameKept ==
  ASSUME UNCHANGED shape
  PROVE  \A s : (Kept(s)' <=> Kept(s)) /\ (OwedIsPending(s)' <=> OwedIsPending(s)) /\ (Reason(s)' <=> Reason(s))
<1>1. Edges' = Edges /\ Graph' = Graph /\ Nodes' = Nodes /\ Pairs' = Pairs /\ RunStates' = RunStates
  BY SameGraph
<1>2. \A s : HopsTaken(s)' <=> HopsTaken(s)
  BY <1>1, SameRoutes, Zenon DEF HopsTaken
<1>3. \A s : InOrder(s)' <=> InOrder(s)
  BY <1>1, SameWalks, Zenon DEF InOrder
<1>4. \A s : Stamped(s)' <=> Stamped(s)
  BY <1>1, Zenon DEF Stamped
<1>5. \A s : DoneOnce(s)' <=> DoneOnce(s)
  BY <1>1, Zenon DEF DoneOnce
<1>6. \A s : Kept(s)' <=> Kept(s)
  BY <1>1, <1>2, <1>3, <1>4, <1>5, Zenon DEF Kept, Orderly
<1>7. \A s : OwedIsPending(s)' <=> OwedIsPending(s)
  BY <1>1, Zenon DEF OwedIsPending
<1>8. \A s : Reason(s)' <=> Reason(s)
  BY <1>1, SameRoutes, Zenon DEF Reason
<1> QED BY <1>6, <1>7, <1>8

\* And its drivers hold what they should.
LEMMA SameTidy ==
  ASSUME UNCHANGED shape
  PROVE  \A s, d, posted, crashed : Tidy(s, d, posted, crashed)' <=> Tidy(s, d, posted, crashed)
<1>1. Edges' = Edges /\ Graph' = Graph /\ Nodes' = Nodes /\ Pairs' = Pairs
  BY SameGraph
<1>2. \A s, from, held : Quiet(s, from, held)' <=> Quiet(s, from, held)
  BY SameWalks, Zenon DEF Quiet
<1>3. \A s, d : Sent(s, d)' = Sent(s, d)
  BY SameRoutes DEF Sent
<1>4. \A s, d : BatchFits(s, d)' <=> BatchFits(s, d)
  BY <1>2, <1>3, SameRoutes, SameJoins DEF BatchFits
<1>5. \A s, d : Holds(s, d)' <=> Holds(s, d)
  BY <1>2, <1>4, Zenon DEF Holds
<1>6. \A s, t : OwedIn(s, t)' <=> OwedIn(s, t)
  BY <1>1, Zenon DEF OwedIn
<1>7. \A s, d : Remembers(s, d)' <=> Remembers(s, d)
  BY <1>1, <1>6, SameJoins DEF Remembers
<1>8. \A s, d, posted : Debts(s, d, posted)' <=> Debts(s, d, posted)
  BY <1>7, SameKept, Zenon DEF Debts
<1> QED BY <1>5, <1>8, SameKept, Zenon DEF Tidy

\* A playbook without a way back stays one.
LEMMA SameOneWay ==
  ASSUME UNCHANGED shape
  PROVE  OneWay' <=> OneWay
<1>1. Edges' = Edges /\ Nodes' = Nodes
  BY SameGraph
<1> QED BY <1>1, SameWalks, SameJoins, Zenon DEF OneWay

-----------------------------------------------------------------------------
(* The theorems *)

\* A run begins with nothing journaled and its start node at hand.
LEMMA InitIsTidy ==
  ASSUME Init, OneWay
  PROVE  Tidy(state, drive, asked, crashes) /\ crashes = 0 /\ pauses = 0 /\ asked = "no" /\ drive.phase = "turn"
<1>1. shape \in DOMAIN Graphs /\ state \in RunStates /\ "start" \in Nodes
  BY InitIsSound, DriverFacts, GraphFacts DEF Init
<1>2. /\ state.nodes = [n \in Nodes |-> "pending"] /\ state.started = Nothing /\ state.finished = Nothing
      /\ state.runs = Nothing /\ state.hops = [p \in Pairs |-> 0] /\ state.run = "running" /\ state.seq = 0
      /\ asked = "no" /\ crashes = 0 /\ pauses = 0
  BY DEF Init
<1>3. /\ \A n \in Nodes : /\ state.nodes[n] = "pending" /\ state.started[n] = 0 /\ state.finished[n] = 0
                          /\ state.runs[n] = 0 /\ ~IsFinished(state, n)
      /\ \A p \in Pairs : state.hops[p] = 0 /\ p[1] \in Nodes /\ p[2] \in Nodes
  BY <1>1, <1>2, GraphFacts DEF Nothing, IsFinished
<1>4. drive = [Off EXCEPT !.phase = "turn"]
  BY DEF Init
<1>5. drive.phase = "turn" /\ drive.current = "start" /\ drive.frontier = <<>>
  BY <1>4 DEF Off
<1>6. ToSet(drive.frontier) = {} /\ Work(drive) = {"start"}
  <2>1. PICK none : none = <<>>
    OBVIOUS
  <2>2. ToSet(none) = {}
    BY <2>1 DEF ToSet
  <2> QED BY <1>5, <2>1, <2>2 DEF Work
<1>7. \A n \in Nodes : \A y \in Beyond(n) : y \in Nodes /\ y # n
  BY <1>1, BeyondFacts DEF OneWay
<1>8. Kept(state)
  <2>1. HopsTaken(state) /\ InOrder(state)
    <3>1. \A p \in Pairs : ~(state.hops[p] > state.started[p[1]])
      BY <1>3
    <3>2. \A n \in Nodes : \A y \in Beyond(n) : ~(state.finished[y] > 0)
      BY <1>3, <1>7
    <3> QED BY <3>1, <3>2 DEF HopsTaken, InOrder
  <2>2. Stamped(state) /\ DoneOnce(state)
    BY <1>2, <1>3 DEF Stamped, DoneOnce
  <2> QED BY <1>1, <2>1, <2>2 DEF Kept, Orderly
<1>9. Holds(state, drive)
  BY <1>1, <1>3, <1>5, <1>6, <1>7 DEF Holds, Quiet, Upright, BatchFits
<1>10. Debts(state, drive, asked)
  <2>1. \A p \in Pairs : ~(state.hops[p] > state.started[p[2]])
    BY <1>3
  <2>2. OwedIsPending(state) /\ \A t \in Nodes : ~OwedIn(state, t)
    BY <2>1 DEF OwedIsPending, OwedIn
  <2> QED BY <2>2 DEF Debts, Remembers
<1> QED BY <1>2, <1>5, <1>8, <1>9, <1>10 DEF Tidy

\* A step keeps a playbook one way and its run tidy, where it stops cleanly.
LEMMA StepsAreTidy ==
  ASSUME DriveInv, OneWay, Tidy(state, drive, asked, crashes), CleanCut, [Next]_vars
  PROVE  Tidy(state', drive', asked', crashes')
<1>1. CASE DriveStep
  <2>1. CASE ApplyPause
    BY <2>1, ApplyPauseIsTidy
  <2>2. CASE ReachFinish
    BY <2>2, ReachFinishIsTidy
  <2>3. CASE RunAlone
    BY <2>3, RunAloneIsTidy
  <2>4. CASE FailBarrier
    BY <2>4, FailBarrierIsTidy
  <2>5. CASE AloneEnds
    BY <2>5, AloneEndsIsTidy
  <2>6. CASE AloneInterrupted
    BY <2>6, AloneInterruptedIsTidy
  <2>7. CASE FormBatch
    BY <2>7, FormBatchIsTidy
  <2>8. CASE Admit
    BY <2>8, AdmitIsTidy
  <2>9. CASE StopAdmitting
    BY <2>9, StopAdmittingIsTidy
  <2>10. CASE WriteOffMember
    BY <2>10, WriteOffMemberIsTidy
  <2>11. CASE MemberEnds
    BY <2>11, MemberEndsIsTidy
  <2>12. CASE MemberInterrupted
    BY <2>12, MemberInterruptedIsTidy
  <2>13. CASE BatchHalts
    BY <2>13, BatchHaltsIsTidy
  <2>14. CASE BatchEnds
    BY <2>14, BatchEndsIsTidy
  <2> QED BY <1>1, <2>1, <2>2, <2>3, <2>4, <2>5, <2>6, <2>7, <2>8, <2>9, <2>10, <2>11, <2>12,
             <2>13, <2>14 DEF DriveStep
<1>2. CASE AskPause
  BY <1>2, AskPauseIsTidy
<1>3. CASE Notice
  BY <1>3, NoticeIsTidy
<1>4. CASE Crash
  BY <1>4, CrashIsTidy
<1>5. CASE Resume
  BY <1>5, ResumeIsTidy
<1>6. CASE UNCHANGED vars
  BY <1>6 DEF vars
<1> QED BY <1>1, <1>2, <1>3, <1>4, <1>5, <1>6 DEF Next

\* The playbook of a run does not change under it.
LEMMA ShapeStays ==
  ASSUME [Next]_vars
  PROVE  UNCHANGED shape
<1>1. \A log, next : Write(log, next) => UNCHANGED shape
  BY DEF Write
<1>2. \A log, frontier : NextHead(log, frontier) => UNCHANGED shape
  BY <1>1 DEF NextHead
<1>3. \A log : AfterAlone(log) => UNCHANGED shape
  BY <1>1, <1>2 DEF AfterAlone
<1>4. RunAlone \/ FailBarrier \/ AloneEnds \/ AloneInterrupted \/ ReachFinish => UNCHANGED shape
  BY <1>1, <1>3 DEF RunAlone, FailBarrier, AloneEnds, AloneInterrupted, ReachFinish
<1>5. FormBatch \/ Admit \/ StopAdmitting \/ WriteOffMember \/ MemberInterrupted \/ BatchHalts => UNCHANGED shape
  BY <1>1 DEF FormBatch, Admit, StopAdmitting, WriteOffMember, MemberInterrupted, BatchHalts
<1>6. MemberEnds => UNCHANGED shape
  BY <1>1 DEF MemberEnds
<1>7. BatchEnds => UNCHANGED shape
  BY <1>2 DEF BatchEnds
<1>8. ApplyPause \/ AskPause \/ Notice \/ Crash => UNCHANGED shape
  BY DEF ApplyPause, AskPause, Notice, Crash
<1>9. Resume => UNCHANGED shape
  BY <1>1 DEF Resume, Enter
<1> QED BY <1>4, <1>5, <1>6, <1>7, <1>8, <1>9 DEF Next, DriveStep, vars

\* A driver leaves a run only where it ends, dies or applies a pause.
LEMMA DriversStay ==
  ASSUME DriveInv, OneWay, Tidy(state, drive, asked, crashes), asked = "no", drive.phase # "off", [Next]_vars
  PROVE  LetsGoAtTheEnd
<1>1. crashes \in Nat /\ drive \in Memories /\ drive.phase # "off" /\ crashes + 1 # crashes
  BY DriverFacts, InvNow
<1>2. \A log, next : Write(log, next) /\ next.phase # "off" => LetsGoAtTheEnd
  BY <1>1, WriteLetsGo
<1>3. ASSUME NEW n, NEW d \in Memories, NEW log, NEW routed PROVE Grow(n, d, log, routed).drive.phase = d.phase
  <2> DEFINE batch == Grow(n, d, log, routed).drive.batch
             queue == Grow(n, d, log, routed).drive.queue
             frontier == Grow(n, d, log, routed).drive.frontier
  <2>1. Grow(n, d, log, routed).drive = [d EXCEPT !.advanced = @ \cup {n}, !.frontier = frontier, !.batch = batch, !.queue = queue]
    BY DEF Grow, Memories
  <2> HIDE DEF batch, queue, frontier
  <2> QED BY <2>1 DEF Memories
<1>4. CASE ReachFinish \/ FailBarrier \/ AloneEnds \/ BatchEnds
  BY <1>4, ReachFinishIsTidy, FailBarrierIsTidy, AloneEndsIsTidy, BatchEndsIsTidy
<1>5. CASE RunAlone
  <2>1. Write(<<NodeStarted(drive.current)>>, [drive EXCEPT !.phase = "node"])
    BY <1>5 DEF RunAlone
  <2>2. [drive EXCEPT !.phase = "node"].phase # "off"
    BY <1>1 DEF Memories
  <2> QED BY <1>2, <2>1, <2>2
<1>6. CASE AloneInterrupted \/ BatchHalts
  <2>1. Write(<<>>, [drive EXCEPT !.phase = "turn"])
    BY <1>6 DEF AloneInterrupted, BatchHalts
  <2>2. [drive EXCEPT !.phase = "turn"].phase # "off"
    BY <1>1 DEF Memories
  <2> QED BY <1>2, <2>1, <2>2
<1>7. CASE FormBatch
  <2> DEFINE next == [Off EXCEPT !.phase = "batch", !.current = drive.current, !.batch = Members,
                                 !.queue = Members, !.frontier = Without(drive.frontier, ToSet(Members)),
                                 !.halted = drive.halted]
  <2>1. Write(<<>>, next)
    BY <1>7 DEF FormBatch
  <2>2. next.phase # "off"
    BY DEF Off
  <2> HIDE DEF next
  <2> QED BY <1>2, <2>1, <2>2
<1>8. CASE Admit
  <2> DEFINE next == [drive EXCEPT !.queue = Tail(@), !.running = @ \cup {NextMember}]
  <2>1. Write(<<NodeStarted(NextMember)>>, next)
    BY <1>8 DEF Admit
  <2>2. next.phase # "off"
    BY <1>1 DEF Memories
  <2> HIDE DEF next
  <2> QED BY <1>2, <2>1, <2>2
<1>9. CASE StopAdmitting
  <2> DEFINE next == [drive EXCEPT !.queue = <<>>]
  <2>1. Write(<<>>, next)
    BY <1>9 DEF StopAdmitting
  <2>2. next.phase # "off"
    BY <1>1 DEF Memories
  <2> HIDE DEF next
  <2> QED BY <1>2, <2>1, <2>2
<1>10. CASE WriteOffMember
  <2> DEFINE next == [drive EXCEPT !.queue = Tail(@), !.ended = @ \cup {NextMember}]
  <2>1. Write(WrittenOff(NextMember), next)
    BY <1>10 DEF WriteOffMember
  <2>2. next.phase # "off"
    BY <1>1 DEF Memories
  <2> HIDE DEF next
  <2> QED BY <1>2, <2>1, <2>2
<1>11. CASE MemberInterrupted
  <2>1. PICK n \in drive.running : Write(<<>>, [drive EXCEPT !.running = @ \ {n}])
    BY <1>11 DEF MemberInterrupted
  <2>2. [drive EXCEPT !.running = @ \ {n}].phase # "off"
    BY <1>1 DEF Memories
  <2> QED BY <1>2, <2>1, <2>2
<1>12. CASE MemberEnds
  <2> DEFINE d(n, status) == [drive EXCEPT !.running = @ \ {n}, !.ended = @ \cup {n},
                                           !.pipelining = @ /\ status \in {"succeeded", "cancelled"}]
  <2>1. PICK n \in drive.running : \E status \in Outcomes(n) \cup (IF drive.won THEN {"cancelled"} ELSE {}) :
         LET finish == <<NodeFinished(n, status)>>
             s == Fold(state, finish)
             m == [drive EXCEPT !.running = @ \ {n}, !.ended = @ \cup {n},
                                !.pipelining = @ /\ status \in {"succeeded", "cancelled"}]
             racing == \E e \in ToSet(SelectedEdges(s, n, FALSE)) : JoinKind(e.to) = "any"
             goOn(piped) == Write(finish \o piped.log, piped.drive)
         IN  IF status = "succeeded" /\ FeedsReadyAny(s, n, m) THEN Write(finish, [m EXCEPT !.won = TRUE])
             ELSE IF status = "succeeded" /\ m.pipelining /\ ~m.won /\ ~m.halted /\ ~racing
             THEN goOn(Pipeline(s, n, m))
             ELSE Write(finish, m)
    BY <1>12 DEF MemberEnds
  <2>2. PICK status :
          LET finish == <<NodeFinished(n, status)>>
              s == Fold(state, finish)
              m == [drive EXCEPT !.running = @ \ {n}, !.ended = @ \cup {n},
                                 !.pipelining = @ /\ status \in {"succeeded", "cancelled"}]
              racing == \E e \in ToSet(SelectedEdges(s, n, FALSE)) : JoinKind(e.to) = "any"
              goOn(piped) == Write(finish \o piped.log, piped.drive)
          IN  IF status = "succeeded" /\ FeedsReadyAny(s, n, m) THEN Write(finish, [m EXCEPT !.won = TRUE])
              ELSE IF status = "succeeded" /\ m.pipelining /\ ~m.won /\ ~m.halted /\ ~racing
              THEN goOn(Pipeline(s, n, m))
              ELSE Write(finish, m)
    BY <2>1
  <2> DEFINE finish == <<NodeFinished(n, status)>>
             s == Fold(state, finish)
  <2>3. \/ Write(finish, [d(n, status) EXCEPT !.won = TRUE])
        \/ Write(finish \o Pipeline(s, n, d(n, status)).log, Pipeline(s, n, d(n, status)).drive)
        \/ Write(finish, d(n, status))
    BY <2>2
  <2> HIDE DEF finish, s
  <2>4. n \in Nodes
    BY DriverFacts
  <2>5. d(n, status) \in Memories /\ d(n, status).phase = drive.phase
    BY <1>1, <2>4 DEF Memories
  <2> HIDE DEF d
  <2>6. [d(n, status) EXCEPT !.won = TRUE].phase = drive.phase
    BY <2>5 DEF Memories
  <2>7. \A w : Pipeline(w, n, d(n, status)).drive.phase = drive.phase
    BY <1>3, <2>5 DEF Pipeline
  <2> QED BY <1>1, <1>2, <2>3, <2>5, <2>6, <2>7
<1>13. CASE ApplyPause \/ AskPause \/ Notice \/ Crash \/ UNCHANGED vars
  <2>1. ~ApplyPause
    BY DEF ApplyPause
  <2>2. CASE AskPause \/ Notice \/ UNCHANGED vars
    <3>1. drive'.phase = drive.phase
      BY <1>1, <2>2 DEF AskPause, Notice, vars, Memories
    <3> QED BY <1>1, <3>1 DEF LetsGoAtTheEnd
  <2>3. CASE Crash
    BY <1>1, <2>3 DEF Crash, LetsGoAtTheEnd
  <2> QED BY <1>13, <2>1, <2>2, <2>3
<1>14. CASE Resume
  BY <1>1, <1>14 DEF Resume, CanResume
<1> QED BY <1>4, <1>5, <1>6, <1>7, <1>8, <1>9, <1>10, <1>11, <1>12, <1>13, <1>14 DEF Next, DriveStep

\* What holds of a run while nothing has interrupted it: it is tidy, and only its end stops it.
FirstDrive ==
  crashes = 0 /\ pauses = 0 =>
    /\ Tidy(state, drive, asked, crashes)
    /\ asked = "no"
    /\ drive.phase = "off" => HasEnded(state)

\* Interruptions are counted, and a pause is posted by one of them.
LEMMA InterruptionsCount ==
  ASSUME DriveInv, [Next]_vars, crashes' = 0, pauses' = 0
  PROVE  crashes = 0 /\ pauses = 0 /\ (asked = "no" => asked' = "no")
<1>1. crashes \in Nat /\ pauses \in Nat
  BY InvNow
<1>2. \A log, next : Write(log, next) => crashes = 0 /\ pauses = 0 /\ asked' = asked
  BY <1>1 DEF Write
<1>3. \A log, frontier : NextHead(log, frontier) => crashes = 0 /\ pauses = 0 /\ asked' = asked
  BY <1>2 DEF NextHead
<1>4. \A log : AfterAlone(log) => crashes = 0 /\ pauses = 0 /\ asked' = asked
  BY <1>2, <1>3 DEF AfterAlone
<1>5. RunAlone \/ FailBarrier \/ AloneEnds \/ AloneInterrupted \/ ReachFinish => crashes = 0 /\ pauses = 0 /\ asked' = asked
  BY <1>2, <1>4 DEF RunAlone, FailBarrier, AloneEnds, AloneInterrupted, ReachFinish
<1>6. FormBatch \/ Admit \/ StopAdmitting \/ WriteOffMember \/ MemberInterrupted \/ BatchHalts =>
        crashes = 0 /\ pauses = 0 /\ asked' = asked
  BY <1>2 DEF FormBatch, Admit, StopAdmitting, WriteOffMember, MemberInterrupted, BatchHalts
<1>7. MemberEnds => crashes = 0 /\ pauses = 0 /\ asked' = asked
  BY <1>2 DEF MemberEnds
<1>8. BatchEnds => crashes = 0 /\ pauses = 0 /\ asked' = asked
  BY <1>3 DEF BatchEnds
<1>9. ApplyPause \/ AskPause \/ Notice \/ Crash \/ UNCHANGED vars =>
        crashes = 0 /\ pauses = 0 /\ (asked = "no" => asked' = "no")
  BY <1>1 DEF ApplyPause, AskPause, Notice, Crash, vars
<1>10. Resume => crashes = 0 /\ pauses = 0 /\ asked' = asked
  BY <1>2 DEF Resume, Enter
<1> QED BY <1>5, <1>6, <1>7, <1>8, <1>9, <1>10 DEF Next, DriveStep

\* A run that nothing interrupts goes on so.
LEMMA FirstDriveGoesOn ==
  ASSUME DriveInv, OneWay, FirstDrive, [Next]_vars
  PROVE  FirstDrive'
<1> SUFFICES ASSUME crashes' = 0, pauses' = 0
             PROVE  /\ Tidy(state', drive', asked', crashes') /\ asked' = "no"
                    /\ drive'.phase = "off" => HasEnded(state')
  BY ShapeStays, SameTidy DEF FirstDrive, HasEnded
<1>1. crashes = 0 /\ pauses = 0 /\ (asked = "no" => asked' = "no")
  BY InterruptionsCount
<1>2. Tidy(state, drive, asked, crashes) /\ asked = "no" /\ (drive.phase = "off" => HasEnded(state))
  BY <1>1 DEF FirstDrive
<1>3. CleanCut
  BY <1>2 DEF CleanCut
<1>4. Tidy(state', drive', asked', crashes')
  BY <1>2, <1>3, StepsAreTidy
<1>5. CASE drive.phase # "off"
  <2>1. LetsGoAtTheEnd
    BY <1>2, <1>5, DriversStay
  <2> QED BY <1>1, <1>2, <1>4, <2>1 DEF LetsGoAtTheEnd
<1>6. CASE drive.phase = "off"
  <2>1. ~Resume
    BY <1>2, <1>6 DEF Resume, CanResume, HasEnded
  <2>2. ~DriveStep /\ ~AskPause /\ ~Notice /\ ~Crash
    BY <1>6 DEF DriveStep, ApplyPause, ReachFinish, RunAlone, FailBarrier, AloneEnds, AloneInterrupted, FormBatch,
         Admit, StopAdmitting, WriteOffMember, MemberEnds, MemberInterrupted, BatchHalts, BatchEnds,
         AtTurn, MemberReports, BatchOver, AskPause, Notice, Crash
  <2>3. UNCHANGED vars
    BY <2>1, <2>2 DEF Next
  <2> QED BY <1>1, <1>2, <1>4, <2>3 DEF vars
<1> QED BY <1>5, <1>6

\* What a tidy run shows.
LEMMA TidyShows ==
  ASSUME Tidy(state, drive, asked, crashes)
  PROVE  /\ DeadEndsAreReal
         /\ \A n \in Nodes : state.runs[n] <= 1
         /\ crashes = 0 => NothingIsForgotten
<1>1. DeadEndsAreReal
  BY DEF Tidy, Reason, DeadEndsAreReal
<1>2. \A n \in Nodes : state.runs[n] <= 1
  BY DEF Tidy, Kept, DoneOnce
<1>3. ASSUME crashes = 0 PROVE NothingIsForgotten
  <2> SUFFICES ASSUME AtTurn, NEW t \in Nodes, Owed(t), ~IsJoin(t) PROVE t \in Heads
    BY DEF NothingIsForgotten
  <2>1. drive.phase = "turn" /\ asked = "no" /\ OwedIn(state, t)
    BY DEF AtTurn, Owed, OwedIn
  <2>2. Remembers(state, drive)
    BY <1>3, <2>1 DEF Tidy, Debts, GoesOn
  <2> QED BY <2>1, <2>2 DEF Remembers, Heads
<1> QED BY <1>1, <1>2, <1>3

-----------------------------------------------------------------------------
(* Theorems. *)

\* What such a run keeps to while its interruptions are clean.
CleanInv == DriveInv /\ OneWay /\ Tidy(state, drive, asked, crashes)

\* In a playbook without loops, races and caps, with branches forked and joined at will and pauses
\* and crashes at any step, as long as each of them leaves a clean cut: the journal keeps the
\* playbook's order, and the driver holds heads of which none lies behind another.
THEOREM CleanRunsAreTidy == Spec /\ OneWay /\ []CleanCut => []CleanInv
<1>1. Init /\ OneWay => CleanInv
  BY InitIsSound, InitIsTidy DEF CleanInv
<1>2. CleanInv /\ CleanCut /\ [Next]_vars => CleanInv'
  <2> SUFFICES ASSUME CleanInv, CleanCut, [Next]_vars PROVE CleanInv'
    OBVIOUS
  <2>1. DriveInv /\ OneWay /\ Tidy(state, drive, asked, crashes)
    BY DEF CleanInv
  <2>2. DriveInv'
    BY <2>1, StepsAreSound
  <2>3. UNCHANGED shape
    BY ShapeStays
  <2>4. OneWay'
    BY <2>1, <2>3, SameOneWay
  <2>5. Tidy(state', drive', asked', crashes')
    BY <2>1, StepsAreTidy
  <2>6. Tidy(state, drive, asked, crashes)'
    BY <2>3, <2>5, SameTidy
  <2> QED BY <2>2, <2>4, <2>6 DEF CleanInv
<1> QED BY <1>1, <1>2, PTL DEF Spec

\* A run through such a playbook, also one resumed from clean cuts, fails only at a finish or
\* where a node's outcome leads nowhere: its joins are never all left waiting for one another.
THEOREM DeadEndsHaveReasons == Spec /\ OneWay /\ []CleanCut => []DeadEndsAreReal
<1>1. CleanInv => DeadEndsAreReal
  BY TidyShows DEF CleanInv
<1> QED BY <1>1, CleanRunsAreTidy, PTL

\* No resume from a clean cut repeats a node's work: what it starts again had not finished.
THEOREM WorkIsDoneOnce == Spec /\ OneWay /\ []CleanCut => []RunsOnce
<1>1. CleanInv => RunsOnce
  BY TidyShows DEF CleanInv, RunsOnce
<1> QED BY <1>1, CleanRunsAreTidy, PTL

\* Seen from nodes that finished, what they went on to makes nothing else live.
LEMMA LiveFromTheFinished ==
  ASSUME shape \in DOMAIN Graphs, OneWay, NEW s, Orderly(s),
         NEW done \in SUBSET Nodes, \A m \in done : IsFinished(s, m),
         NEW active \in SUBSET Nodes, \A a \in active : a \in done \/ \E m \in done : a \in Onward(s, m),
         NEW t \in Nodes \ done
  PROVE  LiveNodes(s, active, t) \subseteq LiveNodes(s, done, t)
<1>1. PICK W \in SUBSET (Nodes \X BOOLEAN) :
        LiveNodes(s, done, t) = {p[1] : p \in W} /\ Spreads(Goes(s), Undone(s), done, t, W)
  BY LiveSpread
<1>2. PICK V \in SUBSET (Nodes \X BOOLEAN) :
        /\ LiveNodes(s, active, t) = {p[1] : p \in V}
        /\ \A S \in SUBSET (Nodes \X BOOLEAN) : Spreads(Goes(s), Undone(s), active, t, S) => V \subseteq S
  BY LiveSpread
<1>3. ASSUME NEW a \in active PROVE <<a, Undone(s)[a]>> \in W
  <2>1. CASE a \in done
    BY <1>1, <2>1 DEF Spreads
  <2>2. CASE \E m \in done : a \in Onward(s, m)
    <3>1. PICK m \in done : a \in Onward(s, m)
      BY <2>2
    <3>2. Undone(s)[m] = FALSE /\ Goes(s)[m] = Onward(s, m) /\ m \in Nodes \ {t}
      BY DEF Undone, Goes
    <3>3. <<m, FALSE>> \in W
      BY <1>1, <3>2 DEF Spreads
    <3> QED BY <1>1, <3>1, <3>2, <3>3 DEF Spreads
  <2> QED BY <2>1, <2>2
<1>4. Spreads(Goes(s), Undone(s), active, t, W)
  BY <1>1, <1>3 DEF Spreads
<1>5. V \subseteq W
  BY <1>2, <1>4
<1> QED BY <1>1, <1>2, <1>5

\* A run paused between its nodes has a head to go on with, as long as its nodes' outcomes lead on:
\* the unfinished nodes that finished ones lead to do not all wait for one another.
LEMMA SomeHeadIsReady ==
  ASSUME shape \in DOMAIN Graphs, OneWay, Kept(state), NEW last \in Nodes, IsFinished(state, last),
         \A n \in Nodes : IsFinished(state, n) => Successors(state, n) # <<>>
  PROVE  \E t \in ToSet(PendingHeads(state)) \ {last} :
           IsReady(state, t, {last} \cup ToSet(PendingHeads(state)))
<1> DEFINE done == {n \in Nodes : IsFinished(state, n)}
           heads == ToSet(PendingHeads(state))
           active == {last} \cup heads
<1>1. Orderly(state)
  BY DEF Kept
<1>2. heads = {t \in Nodes : ~IsFinished(state, t) /\ \E n \in Nodes : IsFinished(state, n) /\ t \in Onward(state, n)}
  BY <1>1, HeadsAreOnward
<1> HIDE DEF heads
<1>3. \A n \in Nodes : Onward(state, n) \subseteq Nodes
  BY <1>1, RoutedAreOnward DEF Orderly
<1>4. PICK m \in done : \E t \in Onward(state, m) : t \notin done /\ Open(state, t, done)
  <2>1. done \in SUBSET Nodes /\ done # {}
    OBVIOUS
  <2>2. \A m \in done : /\ IsFinished(state, m) /\ Onward(state, m) # {}
                         /\ \A t \in Onward(state, m) : t \in done \/ ~IsFinished(state, t)
    BY <1>3, NowhereOnward
  <2> HIDE DEF done
  <2> QED BY <1>1, <2>1, <2>2, SomethingIsOpen
<1>5. PICK t \in Onward(state, m) : t \notin done /\ Open(state, t, done)
  BY <1>4
<1>6. t \in Nodes \ done /\ t \in heads /\ t # last
  BY <1>2, <1>3, <1>5
<1>7. LiveNodes(state, active, t) \subseteq LiveNodes(state, done, t)
  <2>1. active \in SUBSET Nodes /\ \A a \in active : a \in done \/ \E n \in done : a \in Onward(state, n)
    BY <1>2
  <2>2. done \in SUBSET Nodes /\ \A n \in done : IsFinished(state, n)
    OBVIOUS
  <2> HIDE DEF done, active
  <2> QED BY <1>1, <1>6, <2>1, <2>2, LiveFromTheFinished
<1>8. Open(state, t, active)
  BY <1>5, <1>7 DEF Open
<1>9. IsReady(state, t, active)
  <2>1. m \in Nodes /\ IsFinished(state, m)
    BY <1>4
  <2> HIDE DEF active
  <2> QED BY <1>1, <1>5, <1>8, <2>1, ReadyIsOpen
<1> QED BY <1>6, <1>9 DEF heads

\* A node is over, and no edge is for its outcome.
LeadsNowhere == \E n \in Nodes : IsFinished(state, n) /\ Successors(state, n) = <<>>

\* So a paused run is not refused.
LEMMA PausesGoOn ==
  ASSUME DriveInv, OneWay, Kept(state), CleanCut, drive.phase = "off", IsPaused, ~LeadsNowhere
  PROVE  ~IsRefused
<1> DEFINE heads == ToSet(PendingHeads(state))
           at == RunningIn(state)
<1>1. shape \in DOMAIN Graphs /\ StateSound(state) /\ state \in RunStates /\ "none" \notin Nodes /\ "start" \in Nodes
  BY DriverFacts, GraphFacts, NoneIsNoNode
<1>2. Len(Interrupted) > 1 => state.run = "paused_now"
  BY DEF CleanCut, HasEnded, IsPaused
<1>3. /\ Interrupted = <<>> <=> at = {}
      /\ Interrupted # <<>> => Head(Interrupted) \in at
      /\ Interrupted # <<>> => (Len(Interrupted) = 1 \/ Len(Interrupted) > 1)
  BY <1>1, InterruptedFacts
<1>4. ASSUME NEW n \in Nodes, Plan = [node |-> n, mode |-> "rerun"] PROVE ~IsRefused
  <2>1. Plan.node # "none" /\ Plan.mode # "after"
    BY <1>1, <1>4
  <2> QED BY <2>1 DEF IsRefused, CannotGoOn
<1>5. CASE IsPaused /\ \A n \in Nodes : state.nodes[n] = "pending"
  <2>1. Plan = [node |-> "start", mode |-> "rerun"]
    BY <1>1, <1>5, PlanFromTheStart
  <2> QED BY <1>1, <1>4, <2>1
<1>6. CASE ~(\A n \in Nodes : state.nodes[n] = "pending") /\ Interrupted # <<>>
  <2>1. Plan = [node |-> Head(Interrupted), mode |-> "rerun"]
    BY <1>2, <1>3, <1>6 DEF Plan
  <2>2. Head(Interrupted) \in Nodes
    BY <1>3, <1>6 DEF RunningIn
  <2> QED BY <1>4, <2>1, <2>2
<1>7. CASE ~(\A n \in Nodes : state.nodes[n] = "pending") /\ Interrupted = <<>>
  <2>1. PICK n \in Nodes : state.nodes[n] # "pending"
    BY <1>7
  <2>2. IsFinished(state, n) /\ state.finished[n] > 0
    <3>1. state.nodes[n] # "running" /\ state.nodes[n] \in Statuses
      BY <1>1, <1>3, <1>7 DEF RunStates, RunningIn
    <3>2. IsFinished(state, n)
      BY <2>1, <3>1 DEF IsFinished, Statuses
    <3> QED BY <1>1, <3>2 DEF StateSound, Recorded
  <2>3. state.last # "none" /\ state.last \in Nodes
    BY <1>1, <2>2 DEF Kept, Stamped, RunStates
  <2>4. IsFinished(state, state.last)
    <3>1. state.finished[state.last] > 0
      BY <1>1, <2>3 DEF StateSound, Recorded
    <3>2. state.nodes[state.last] # "pending"
      BY <2>3, <3>1 DEF Kept, Stamped
    <3>3. state.nodes[state.last] # "running" /\ state.nodes[state.last] \in Statuses
      BY <1>1, <1>3, <1>7, <2>3 DEF RunStates, RunningIn
    <3> QED BY <3>2, <3>3 DEF IsFinished, Statuses
  <2>5. Plan = [node |-> state.last, mode |-> "after"]
    <3>1. ~(Len(Interrupted) = 1)
      BY <1>7
    <3> QED BY <1>7, <2>3, <3>1 DEF Plan
  <2>6. \E t \in heads \ {state.last} : IsReady(state, t, {state.last} \cup heads)
    BY <1>1, <2>3, <2>4, SomeHeadIsReady DEF LeadsNowhere
  <2> HIDE DEF heads
  <2>7. ~NothingReady(state.last, heads, {state.last} \cup heads)
    BY <2>6 DEF NothingReady
  <2>8. Plan.node = state.last
    BY <2>5
  <2> QED BY <2>3, <2>7, <2>8 DEF IsRefused, CannotGoOn, heads
<1> QED BY <1>5, <1>6, <1>7

\* A pause that leaves a clean cut can be taken up again without anybody naming a node, unless the
\* outcome of a node leads nowhere.
THEOREM PausesLeaveAWayOn == Spec /\ OneWay /\ []CleanCut => [](PausesAreResumable \/ LeadsNowhere)
<1>1. CleanInv /\ CleanCut => PausesAreResumable \/ LeadsNowhere
  BY PausesGoOn DEF CleanInv, Tidy, PausesAreResumable
<1> QED BY <1>1, CleanRunsAreTidy, PTL

\* While no driver has died, every head the journal knows of is in the driver's memory at each
\* turn, also after a pause, whose heads the resume rebuilds from the journal alone.
THEOREM HeadsOutliveAPause == Spec /\ OneWay /\ [](CleanCut /\ crashes = 0) => []NothingIsForgotten
<1>1. CleanInv /\ crashes = 0 => NothingIsForgotten
  BY TidyShows DEF CleanInv
<1> QED BY <1>1, CleanRunsAreTidy, PTL

\* What a run keeps to until its first interruption.
FirstInv == DriveInv /\ OneWay /\ FirstDrive

\* Until something interrupts it, no hypothesis about cuts is needed.
LEMMA FirstDriveIsTidy == Spec /\ OneWay => []FirstInv
<1>1. Init /\ OneWay => FirstInv
  BY InitIsSound, InitIsTidy DEF FirstInv, FirstDrive
<1>2. FirstInv /\ [Next]_vars => FirstInv'
  <2> SUFFICES ASSUME FirstInv, [Next]_vars PROVE FirstInv'
    OBVIOUS
  <2>1. DriveInv /\ OneWay /\ FirstDrive
    BY DEF FirstInv
  <2>2. DriveInv' /\ UNCHANGED shape /\ FirstDrive'
    BY <2>1, StepsAreSound, ShapeStays, FirstDriveGoesOn
  <2>3. OneWay'
    BY <2>1, <2>2, SameOneWay
  <2> QED BY <2>2, <2>3 DEF FirstInv
<1> QED BY <1>1, <1>2, PTL DEF Spec

\* What an uninterrupted run shows.
Undisturbed ==
  crashes = 0 /\ pauses = 0 =>
    /\ DeadEndsAreReal /\ RunsOnce /\ NothingIsForgotten
    /\ drive.phase = "off" => HasEnded(state)

\* Until something interrupts it, a run through a playbook without loops, races and caps fails
\* only for a reason, does no work twice and forgets no head, and its driver lets go of it only
\* at its end.
THEOREM FirstDriveIsRight == Spec /\ OneWay => []Undisturbed
<1>1. FirstInv => Undisturbed
  BY TidyShows DEF FirstInv, FirstDrive, Undisturbed, RunsOnce
<1> QED BY <1>1, FirstDriveIsTidy, PTL

-----------------------------------------------------------------------------
(* What runs in the journal is what the driver waits for, until an interruption. *)


\* Records that leave nothing running that was not.
Calm(log) ==
  /\ log \in Seq(LogRecords(Nodes))
  /\ \A s \in RunStates : Fold(s, log) \in RunStates /\ RunningIn(Fold(s, log)) \subseteq RunningIn(s)

\* A finish, a hop, a refusal and a record of the run start nothing.
Startless == LogRecords({}) \cup {NodeFinished(n, status) : n \in Nodes, status \in FinalStatuses}

\* Each of them leaves nothing running that was not.
LEMMA OneIsCalm ==
  ASSUME shape \in DOMAIN Graphs, NEW t \in RunStates,
         NEW r \in Startless,
         NEW u, u = FoldOne(t, r)
  PROVE  u \in RunStates /\ RunningIn(u) \subseteq RunningIn(t)
<1>1. u \in RunStates /\ u.nodes = t.nodes => RunningIn(u) \subseteq RunningIn(t)
  BY DEF RunningIn
<1>2. ASSUME NEW n \in Nodes, NEW status \in FinalStatuses, r = NodeFinished(n, status)
      PROVE  u \in RunStates /\ RunningIn(u) \subseteq RunningIn(t)
  <2>1. u \in RunStates /\ u.nodes = [t.nodes EXCEPT ![n] = status]
    BY <1>2, FoldFinished
  <2>2. t.nodes \in [Nodes -> Statuses] /\ status # "running"
    BY DEF RunStates, FinalStatuses
  <2> QED BY <2>1, <2>2 DEF RunningIn
<1>3. ASSUME NEW p \in Pairs, r = Hop(p[1], p[2]) PROVE u \in RunStates /\ u.nodes = t.nodes
  <2>1. p = <<p[1], p[2]>>
    BY GraphFacts
  <2> QED BY <1>3, <2>1, FoldHop
<1>4. ASSUME NEW p \in Pairs, r = CountedHop(p[1], p[2]) PROVE u \in RunStates /\ u.nodes = t.nodes
  <2>1. p = <<p[1], p[2]>>
    BY GraphFacts
  <2>2. /\ u \in RunStates
        /\ u.nodes = t.nodes /\ u.started = t.started /\ u.finished = t.finished /\ u.last = t.last
        /\ u.run = t.run /\ u.counts = [t.counts EXCEPT ![p] = @ + 1]
    BY <1>4, <2>1, FoldCountedHop
  <2> QED BY <2>2
<1>5. ASSUME NEW n \in Nodes, r = JoinRefused(n) PROVE u \in RunStates /\ u.nodes = t.nodes
  BY <1>5, FoldRefused
<1>6. ASSUME NEW status \in RunStatuses, r = RunIs(status) PROVE u \in RunStates /\ u.nodes = t.nodes
  BY <1>6, FoldRun
<1>7. r \in HopRecords \cup Refusals \cup RunRecords \cup {NodeFinished(n, status) : n \in Nodes, status \in FinalStatuses}
  BY DEF Startless, LogRecords, NodeRecords
<1>8. CASE r \in HopRecords
  BY <1>1, <1>3, <1>4, <1>8 DEF HopRecords, CountedHopRecords
<1>9. CASE r \in Refusals \cup RunRecords
  BY <1>1, <1>5, <1>6, <1>9 DEF Refusals, RunRecords
<1> QED BY <1>2, <1>7, <1>8, <1>9

\* Nor does writing nothing.
LEMMA CalmNothing == Calm(<<>>)
<1>1. <<>> \in Seq(LogRecords(Nodes))
  OBVIOUS
<1> QED BY <1>1, FoldOfNothing DEF Calm

\* Nor do two such logs in a row.
LEMMA CalmJoined ==
  ASSUME NEW a, Calm(a), NEW b, Calm(b)
  PROVE  Calm(a \o b)
<1>1. a \in Seq(LogRecords(Nodes)) /\ b \in Seq(LogRecords(Nodes))
  BY DEF Calm
<1>2. a \o b \in Seq(LogRecords(Nodes))
  BY <1>1, Joined
<1>3. ASSUME NEW s \in RunStates PROVE Fold(s, a \o b) \in RunStates /\ RunningIn(Fold(s, a \o b)) \subseteq RunningIn(s)
  <2>1. Fold(s, a \o b) = Fold(Fold(s, a), b)
    BY <1>1, FoldJoined
  <2>2. Fold(s, a) \in RunStates /\ RunningIn(Fold(s, a)) \subseteq RunningIn(s)
    BY DEF Calm
  <2>3. Fold(Fold(s, a), b) \in RunStates /\ RunningIn(Fold(Fold(s, a), b)) \subseteq RunningIn(Fold(s, a))
    BY <2>2 DEF Calm
  <2> QED BY <2>1, <2>2, <2>3
<1> QED BY <1>2, <1>3 DEF Calm

\* Records of which none starts a node.
LEMMA CalmRecords ==
  ASSUME shape \in DOMAIN Graphs,
         NEW log \in Seq(Startless)
  PROVE  Calm(log)
<1> DEFINE R == Startless
<1>1. R \subseteq LogRecords(Nodes)
  BY DEF Startless, LogRecords, NodeRecords
<1>2. Len(log) \in Nat /\ \A k \in 1 .. Len(log) : log[k] \in R
  OBVIOUS
<1>3. \A t \in RunStates : \A r \in R : FoldOne(t, r) \in RunStates /\ RunningIn(FoldOne(t, r)) \subseteq RunningIn(t)
  BY OneIsCalm
<1>0. log \in Seq(R)
  OBVIOUS
<1> HIDE DEF R
<1>4. log \in Seq(LogRecords(Nodes))
  BY <1>0, <1>1
<1>5. ASSUME NEW s \in RunStates PROVE Fold(s, log) \in RunStates /\ RunningIn(Fold(s, log)) \subseteq RunningIn(s)
  <2>1. PICK at : Through(s, log, at)
    BY <1>0, FoldSteps
  <2> DEFINE Led == {k \in Nat : k <= Len(log) => at[k] \in RunStates /\ RunningIn(at[k]) \subseteq RunningIn(s)}
  <2>2. 0 \in Led
    BY <2>1 DEF Through
  <2>3. ASSUME NEW k \in Nat, k \in Led PROVE k + 1 \in Led
    <3> SUFFICES ASSUME k + 1 <= Len(log) PROVE at[k + 1] \in RunStates /\ RunningIn(at[k + 1]) \subseteq RunningIn(s)
      OBVIOUS
    <3>1. k + 1 \in 1 .. Len(log) /\ (k + 1) - 1 = k /\ k <= Len(log)
      BY <1>2
    <3>2. at[k + 1] = FoldOne(at[k], log[k + 1]) /\ log[k + 1] \in R
      BY <1>2, <2>1, <3>1 DEF Through
    <3>3. at[k] \in RunStates /\ RunningIn(at[k]) \subseteq RunningIn(s)
      BY <2>3, <3>1
    <3> QED BY <1>3, <3>2, <3>3
  <2>4. Len(log) \in Led
    <3> HIDE DEF Led
    <3> QED BY <1>2, <2>2, <2>3, Induction
  <2>5. Fold(s, log) = at[Len(log)]
    BY <2>1 DEF Through
  <2> QED BY <1>2, <2>4, <2>5
<1> QED BY <1>4, <1>5 DEF Calm

\* One calm log after another.
LEMMA CalmFlattened ==
  ASSUME NEW seqs \in Seq(Seq(LogRecords(Nodes))), \A i \in DOMAIN seqs : Calm(seqs[i])
  PROVE  Calm(FlattenSeq(seqs))
<1>1. PICK cat \in [0 .. Len(seqs) -> Seq(LogRecords(Nodes))] :
        /\ cat[0] = <<>>
        /\ \A k \in 1 .. Len(seqs) : cat[k] = cat[k - 1] \o seqs[k]
        /\ FlattenSeq(seqs) = cat[Len(seqs)]
  BY Flattens
<1>2. Len(seqs) \in Nat /\ DOMAIN seqs = 1 .. Len(seqs)
  OBVIOUS
<1> DEFINE Led == {k \in Nat : k <= Len(seqs) => Calm(cat[k])}
<1>3. 0 \in Led
  BY <1>1, CalmNothing
<1>4. ASSUME NEW k \in Nat, k \in Led PROVE k + 1 \in Led
  <2> SUFFICES ASSUME k + 1 <= Len(seqs) PROVE Calm(cat[k + 1])
    OBVIOUS
  <2>1. k + 1 \in 1 .. Len(seqs) /\ (k + 1) - 1 = k /\ k <= Len(seqs)
    BY <1>2
  <2>2. cat[k + 1] = cat[k] \o seqs[k + 1] /\ Calm(cat[k]) /\ Calm(seqs[k + 1])
    BY <1>1, <1>2, <1>4, <2>1
  <2> QED BY <2>2, CalmJoined
<1>5. Len(seqs) \in Led
  <2> HIDE DEF Led
  <2> QED BY <1>2, <1>3, <1>4, Induction
<1> QED BY <1>1, <1>2, <1>5

\* A head that lost a race starts and is over at once.
LEMMA WriteOffIsCalm ==
  ASSUME shape \in DOMAIN Graphs, NEW nodes \in Seq(Nodes)
  PROVE  Calm(WriteOff(nodes)) /\ \A n \in Nodes : Calm(WrittenOff(n))
<1>1. ASSUME NEW n \in Nodes PROVE Calm(WrittenOff(n))
  <2>1. NodeStarted(n) \in LogRecords(Nodes) /\ NodeFinished(n, "cancelled") \in LogRecords(Nodes) /\ "cancelled" \in FinalStatuses
    BY NodeRecordsTell DEF FinalStatuses
  <2>2. WrittenOff(n) = <<NodeStarted(n)>> \o <<NodeFinished(n, "cancelled")>>
    BY DEF WrittenOff
  <2> DEFINE a == <<NodeStarted(n)>>
             b == <<NodeFinished(n, "cancelled")>>
  <2>3. a \in Seq(LogRecords(Nodes)) /\ b \in Seq(LogRecords(Nodes))
    BY <2>1
  <2>4. \A s : Fold(s, a) = FoldOne(s, NodeStarted(n)) /\ Fold(s, b) = FoldOne(s, NodeFinished(n, "cancelled"))
    <3>1. \A s : Fold(s, <<>>) = s
      <4>1. <<>> \in Seq(LogRecords(Nodes))
        OBVIOUS
      <4> QED BY <4>1, FoldOfNothing
    <3>2. <<>> \in Seq(LogRecords(Nodes)) /\ \A r : <<>> \o <<r>> = <<r>>
      OBVIOUS
    <3>3. \A s, r : Fold(s, <<>> \o <<r>>) = FoldOne(Fold(s, <<>>), r)
      BY <3>2, OneMoreFolded
    <3>4. \A s, r : Fold(s, <<r>>) = FoldOne(s, r)
      BY <3>1, <3>2, <3>3
    <3> QED BY <3>4, Zenon
  <2> HIDE DEF a, b
  <2>5. ASSUME NEW s \in RunStates
        PROVE  Fold(s, WrittenOff(n)) \in RunStates /\ RunningIn(Fold(s, WrittenOff(n))) \subseteq RunningIn(s)
    <3> DEFINE t == FoldOne(s, NodeStarted(n))
               u == FoldOne(t, NodeFinished(n, "cancelled"))
    <3>1. Fold(s, WrittenOff(n)) = u
      <4>1. WrittenOff(n) = a \o b
        BY <2>2 DEF a, b
      <4>2. Fold(s, a \o b) = Fold(Fold(s, a), b)
        BY <2>3, FoldJoined
      <4> QED BY <2>4, <4>1, <4>2
    <3>2. \A z : z = FoldOne(s, NodeStarted(n)) => z \in RunStates /\ z.nodes = [s.nodes EXCEPT ![n] = "running"]
      BY FoldStarted
    <3>3. t = FoldOne(s, NodeStarted(n))
      OBVIOUS
    <3> HIDE DEF t
    <3>4. t \in RunStates /\ t.nodes = [s.nodes EXCEPT ![n] = "running"]
      BY <3>2, <3>3
    <3>5. u \in RunStates /\ u.nodes = [t.nodes EXCEPT ![n] = "cancelled"]
      BY <2>1, <3>4, FoldFinished
    <3> HIDE DEF u
    <3>6. s.nodes \in [Nodes -> Statuses]
      BY DEF RunStates
    <3> QED BY <3>1, <3>4, <3>5, <3>6 DEF RunningIn
  <2>6. WrittenOff(n) \in Seq(LogRecords(Nodes))
    BY <2>1 DEF WrittenOff
  <2> QED BY <2>5, <2>6 DEF Calm
<1> DEFINE parts == [i \in DOMAIN nodes |-> WrittenOff(nodes[i])]
<1>2. DOMAIN nodes = 1 .. Len(nodes) /\ Len(nodes) \in Nat /\ \A i \in DOMAIN nodes : nodes[i] \in Nodes
  OBVIOUS
<1>3. \A i \in DOMAIN nodes : Calm(parts[i]) /\ parts[i] \in Seq(LogRecords(Nodes))
  BY <1>1, <1>2 DEF Calm
<1>4. DOMAIN parts = DOMAIN nodes /\ WriteOff(nodes) = FlattenSeq(parts)
  BY DEF WriteOff
<1> DEFINE R == LogRecords(Nodes)
<1>5. parts \in Seq(Seq(R))
  <2> HIDE DEF R
  <2>1. \A i \in DOMAIN nodes : parts[i] \in Seq(R)
    BY <1>3 DEF R
  <2>2. parts \in [1 .. Len(nodes) -> Seq(R)]
    BY <1>2, <2>1
  <2> QED BY <1>2, <2>2
<1> HIDE DEF parts
<1>6. Calm(WriteOff(nodes))
  BY <1>3, <1>4, <1>5, CalmFlattened
<1> QED BY <1>1, <1>6

\* Hops start nothing.
LEMMA HopsAreCalm ==
  ASSUME shape \in DOMAIN Graphs, NEW n, NEW to \in Seq(Nodes), ToSet(to) \subseteq Targets(n)
  PROVE  Calm(Hops(n, to)) /\ Calm(CountedHops(n, to))
<1>1. \A log : log \in Seq(LogRecords({})) => Calm(log)
  <2>1. LogRecords({}) \subseteq Startless
    BY DEF Startless
  <2> SUFFICES ASSUME NEW log \in Seq(LogRecords({})) PROVE Calm(log)
    OBVIOUS
  <2>2. log \in Seq(Startless)
    <3> DEFINE R == LogRecords({})
               L == Startless
    <3>1. R \subseteq L /\ log \in Seq(R)
      BY <2>1
    <3> HIDE DEF R, L
    <3>2. log \in Seq(L)
      BY <3>1
    <3> QED BY <3>2 DEF L
  <2> QED BY <2>2, CalmRecords
<1>2. Calm(Hops(n, to))
  BY <1>1, HopsTell
<1>3. \A i \in DOMAIN to : CountedHop(n, to[i]) \in LogRecords({})
  <2> SUFFICES ASSUME NEW i \in DOMAIN to PROVE CountedHop(n, to[i]) \in LogRecords({})
    OBVIOUS
  <2> DEFINE p == <<n, to[i]>>
  <2>1. p \in Pairs /\ CountedHop(n, to[i]) = CountedHop(p[1], p[2])
    BY DEF Targets, Pairs, ToSet
  <2> HIDE DEF p
  <2> QED BY <2>1 DEF LogRecords, HopRecords, CountedHopRecords
<1>4. DOMAIN to = 1 .. Len(to) /\ Len(to) \in Nat
  OBVIOUS
<1>5. CountedHops(n, to) \in [1 .. Len(to) -> LogRecords({})]
  BY <1>3, <1>4 DEF CountedHops
<1>6. CountedHops(n, to) \in Seq(LogRecords({}))
  <2> DEFINE R == LogRecords({})
  <2> HIDE DEF R
  <2> QED BY <1>4, <1>5 DEF R
<1> QED BY <1>1, <1>2, <1>6

\* Going past a finished node starts nothing: the heads a race drops start and are over at once.
LEMMA AdvanceIsCalm ==
  ASSUME shape \in DOMAIN Graphs, NEW s, NEW n, NEW frontier \in Seq(Nodes), NEW also
  PROVE  /\ Calm(Advance(s, n, frontier, also).log)
         /\ Advance(s, n, frontier, also).frontier \in Seq(Nodes)
<1> DEFINE found == SeedSuccessors(s, n, {n} \cup ToSet(frontier) \cup also)
           seeds == Without(found, ToSet(frontier))
           runnable == Runnable(seeds)
           losers == IF IsRace(seeds) THEN Among(frontier, {t \in ToSet(frontier) : ~IsJoin(t)}) ELSE <<>>
           to == Distinct(Successors(s, n))
           new == {t \in ToSet(to) \ (ToSet(losers) \cup (ToSet(seeds) \ ToSet(runnable))) : ~HopOfLatestRun(s, n, t)}
           bounded == {e.to : e \in {d \in ToSet(SelectedEdges(s, n, FALSE)) : d.cap > 0}}
           hopped == Among(to, new)
           counted == Among(runnable, bounded)
           adv == Advance(s, n, frontier, also)
<1>1. /\ adv.log = (WriteOff(losers) \o Hops(n, hopped)) \o CountedHops(n, counted)
      /\ adv.frontier = Without(frontier, ToSet(losers)) \o runnable
  BY DEF Advance, Route, Proceed
<1>2. to \in Seq(Nodes) /\ ToSet(to) \subseteq Targets(n)
  BY SuccessorsAreTargets, DistinctIsInjective
<1>3. hopped \in Seq(Nodes) /\ ToSet(hopped) \subseteq Targets(n)
  <2> HIDE DEF to, new
  <2> QED BY <1>2, AmongKeeps
<1>4. found \in Seq(Nodes) /\ IsInjective(found) /\ ToSet(found) \subseteq Targets(n)
  BY SeedsAreTargets, SuccessorsAreTargets
<1> HIDE DEF found
<1>5. seeds \in Seq(Nodes) /\ IsInjective(seeds) /\ ToSet(seeds) \subseteq Targets(n)
  BY <1>4, WithoutDrops
<1> HIDE DEF seeds
<1>6. runnable \in Seq(Nodes) /\ ToSet(runnable) \subseteq Targets(n)
  BY <1>5, RunnableAreSeeds
<1> HIDE DEF runnable
<1>7. counted \in Seq(Nodes) /\ ToSet(counted) \subseteq Targets(n)
  <2> HIDE DEF bounded
  <2> QED BY <1>6, AmongKeeps
<1>8. losers \in Seq(Nodes)
  <2>1. <<>> \in Seq(Nodes)
    OBVIOUS
  <2> DEFINE plain == {t \in ToSet(frontier) : ~IsJoin(t)}
  <2>2. Among(frontier, plain) \in Seq(Nodes)
    <3> HIDE DEF plain
    <3> QED BY AmongKeeps
  <2> QED BY <2>1, <2>2
<1> HIDE DEF hopped, counted, losers, adv
<1>9. Calm(WriteOff(losers)) /\ Calm(Hops(n, hopped)) /\ Calm(CountedHops(n, counted))
  BY <1>3, <1>7, <1>8, HopsAreCalm, WriteOffIsCalm
<1>10. Calm(adv.log)
  BY <1>1, <1>9, CalmJoined
<1>11. adv.frontier \in Seq(Nodes)
  BY <1>1, <1>6, WithoutDrops
<1> QED BY <1>10, <1>11 DEF adv

\* Nor does a batch's end, whatever it routes and offers again.
LEMMA BatchTailIsCalm ==
  ASSUME shape \in DOMAIN Graphs, NEW s, NEW members \in Seq(Nodes), NEW batch \in Seq(Nodes),
         NEW frontier \in Seq(Nodes), NEW tail, tail = AdvanceAll(s, members, batch, frontier)
  PROVE  /\ Calm(tail.log)
         /\ \A now, advanced : Calm(Reoffer(now, advanced, batch, tail).log)
<1>1. PICK at : RoutedThrough(s, members, batch, frontier, at)
  BY AdvanceAllSteps
<1>2. Len(members) \in Nat
  OBVIOUS
<1> DEFINE Led == {k \in Nat : k <= Len(members) => Calm(at[k].log) /\ at[k].frontier \in Seq(Nodes)}
<1>3. 0 \in Led
  <2>1. at[0] = [log |-> <<>>, frontier |-> frontier]
    BY <1>1 DEF RoutedThrough
  <2> QED BY <2>1, CalmNothing
<1>4. ASSUME NEW k \in Nat, k \in Led PROVE k + 1 \in Led
  <2> SUFFICES ASSUME k + 1 <= Len(members) PROVE Calm(at[k + 1].log) /\ at[k + 1].frontier \in Seq(Nodes)
    OBVIOUS
  <2>1. k + 1 \in 1 .. Len(members) /\ (k + 1) - 1 = k /\ k <= Len(members)
    BY <1>2
  <2> DEFINE m == members[k + 1]
             acc == at[k]
             adv == Advance(s, m, acc.frontier, ToSet(batch))
  <2>2. at[k + 1] = AdvanceNext(s, batch, acc, m)
    BY <1>1, <2>1 DEF RoutedThrough
  <2>3. Calm(acc.log) /\ acc.frontier \in Seq(Nodes)
    BY <1>4, <2>1
  <2>4. Calm(adv.log) /\ adv.frontier \in Seq(Nodes)
    <3> HIDE DEF m, acc
    <3> QED BY <2>3, AdvanceIsCalm
  <2>5. at[k + 1].log = acc.log \o adv.log /\ at[k + 1].frontier = adv.frontier
    <3> DEFINE both == acc.log \o adv.log
    <3>1. AdvanceNext(s, batch, acc, m) = [log |-> both, frontier |-> adv.frontier]
      BY DEF AdvanceNext
    <3> HIDE DEF adv, acc, m, both
    <3>2. at[k + 1].log = both /\ at[k + 1].frontier = adv.frontier
      BY <2>2, <3>1
    <3> QED BY <3>2 DEF both
  <2> HIDE DEF m, acc, adv
  <2> QED BY <2>3, <2>4, <2>5, CalmJoined
<1>5. Len(members) \in Led
  <2> HIDE DEF Led
  <2> QED BY <1>2, <1>3, <1>4, Induction
<1>6. tail = at[Len(members)]
  BY <1>1 DEF RoutedThrough
<1>7. Calm(tail.log)
  BY <1>2, <1>5, <1>6
<1>8. ASSUME NEW now, NEW advanced PROVE Calm(Reoffer(now, advanced, batch, tail).log)
  <2> DEFINE chosen == Among(batch, advanced)
             edges == FlattenSeq([i \in DOMAIN chosen |-> SelectedEdges(now, chosen[i], FALSE)])
  <2>1. chosen \in Seq(Nodes)
    BY AmongKeeps
  <2>2. Reoffer(now, advanced, batch, tail) = OfferAll(now, batch, tail, edges)
    BY DEF Reoffer
  <2> HIDE DEF chosen
  <2>3. edges = FlattenSeq([i \in DOMAIN chosen |-> SelectedEdges(now, chosen[i], FALSE)])
    OBVIOUS
  <2> HIDE DEF edges
  <2>4. edges \in Seq(Edges)
    BY <2>1, <2>3, SelectedByMembers
  <2>5. PICK b : OfferedThrough(now, batch, tail, edges, b)
    BY <2>4, OfferSteps
  <2>6. Len(edges) \in Nat /\ \A k \in 1 .. Len(edges) : edges[k] \in Edges
    BY <2>4
  <2> DEFINE Told == {k \in Nat : k <= Len(edges) => Calm(b[k].log)}
  <2>7. 0 \in Told
    BY <1>7, <2>5 DEF OfferedThrough
  <2>8. ASSUME NEW k \in Nat, k \in Told PROVE k + 1 \in Told
    <3> SUFFICES ASSUME k + 1 <= Len(edges) PROVE Calm(b[k + 1].log)
      OBVIOUS
    <3>1. k + 1 \in 1 .. Len(edges) /\ (k + 1) - 1 = k /\ k <= Len(edges)
      BY <2>6
    <3>2. b[k + 1] = Offer(now, batch, b[k], edges[k + 1]) /\ edges[k + 1] \in Edges
      BY <2>5, <2>6, <3>1 DEF OfferedThrough
    <3> DEFINE e == edges[k + 1]
               hop == IF e.cap > 0 THEN <<CountedHop(e.from, e.to)>> ELSE <<>>
    <3>3. Calm(b[k].log)
      BY <2>8, <3>1
    <3>4. Calm(hop)
      <4>1. CountedHops(e.from, <<e.to>>) = <<CountedHop(e.from, e.to)>>
        BY DEF CountedHops
      <4>2. e.to \in Nodes /\ e.to \in Targets(e.from)
        BY <3>2, GraphFacts DEF Targets
      <4>3. <<e.to>> \in Seq(Nodes) /\ ToSet(<<e.to>>) = {e.to}
        BY <4>2 DEF ToSet
      <4>4. Calm(CountedHops(e.from, <<e.to>>))
        <5> DEFINE to == <<e.to>>
                   n == e.from
        <5>1. to \in Seq(Nodes) /\ ToSet(to) \subseteq Targets(n)
          BY <4>2, <4>3
        <5> HIDE DEF to, n
        <5>2. Calm(CountedHops(n, to))
          BY <5>1, HopsAreCalm
        <5> QED BY <5>2 DEF to, n
      <4> QED BY <4>1, <4>4, CalmNothing
    <3>5. b[k + 1].log = b[k].log \/ b[k + 1].log = b[k].log \o hop
      <4> DEFINE acc == b[k]
      <4>1. \/ Offer(now, batch, acc, e) = acc
            \/ Offer(now, batch, acc, e) = [log |-> acc.log \o hop, frontier |-> acc.frontier \o <<e.to>>]
        BY Zenon DEF Offer
      <4>2. b[k + 1] = Offer(now, batch, acc, e)
        BY <3>2
      <4> HIDE DEF acc, e, hop
      <4>3. b[k + 1].log = acc.log \/ b[k + 1].log = acc.log \o hop
        BY <4>1, <4>2
      <4> QED BY <4>3 DEF acc
    <3> HIDE DEF hop
    <3> QED BY <3>3, <3>4, <3>5, CalmJoined
  <2>9. Len(edges) \in Told
    <3> HIDE DEF Told
    <3> QED BY <2>6, <2>7, <2>8, Induction
  <2>10. OfferAll(now, batch, tail, edges) = b[Len(edges)]
    BY <2>5 DEF OfferedThrough
  <2> QED BY <2>2, <2>6, <2>9, <2>10
<1> QED BY <1>7, <1>8

\* What the driver waits for.
Minded(d) == IF d.phase = "node" THEN {d.current} ELSE IF d.phase = "batch" THEN d.running ELSE {}

\* A finished node no longer runs, a started one does.
LEMMA NodeRecordsRun ==
  ASSUME shape \in DOMAIN Graphs, NEW s \in RunStates, NEW n \in Nodes
  PROVE  /\ \A status \in FinalStatuses : \A z : z = Fold(s, <<NodeFinished(n, status)>>) =>
              z \in RunStates /\ RunningIn(z) \subseteq RunningIn(s) \ {n}
         /\ \A z : z = Fold(s, <<NodeStarted(n)>>) =>
              z \in RunStates /\ RunningIn(z) \subseteq RunningIn(s) \cup {n}
<1>1. \A u, r : r \in LogRecords(Nodes) => Fold(u, <<r>>) = FoldOne(u, r)
  <2>1. <<>> \in Seq(LogRecords(Nodes)) /\ \A r : <<>> \o <<r>> = <<r>>
    OBVIOUS
  <2>2. \A u : Fold(u, <<>>) = u
    BY <2>1, FoldOfNothing
  <2>3. \A u, r : Fold(u, <<>> \o <<r>>) = FoldOne(Fold(u, <<>>), r)
    BY <2>1, OneMoreFolded
  <2> QED BY <2>1, <2>2, <2>3
<1>2. s.nodes \in [Nodes -> Statuses]
  BY DEF RunStates
<1>3. ASSUME NEW status \in FinalStatuses, NEW z, z = Fold(s, <<NodeFinished(n, status)>>)
      PROVE  z \in RunStates /\ RunningIn(z) \subseteq RunningIn(s) \ {n}
  <2>1. z = FoldOne(s, NodeFinished(n, status))
    BY <1>1, <1>3, NodeRecordsTell
  <2>2. z \in RunStates /\ z.nodes = [s.nodes EXCEPT ![n] = status]
    BY <2>1, FoldFinished
  <2>3. status # "running"
    BY DEF FinalStatuses
  <2> QED BY <1>2, <2>2, <2>3 DEF RunningIn
<1>4. ASSUME NEW z, z = Fold(s, <<NodeStarted(n)>>)
      PROVE  z \in RunStates /\ RunningIn(z) \subseteq RunningIn(s) \cup {n}
  <2>1. NodeStarted(n) \in LogRecords(Nodes)
    BY NodeRecordsTell DEF FinalStatuses
  <2>2. z = FoldOne(s, NodeStarted(n))
    BY <1>1, <1>4, <2>1
  <2>3. \A x : x = FoldOne(s, NodeStarted(n)) => x \in RunStates /\ x.nodes = [s.nodes EXCEPT ![n] = "running"]
    BY FoldStarted
  <2>4. z \in RunStates /\ z.nodes = [s.nodes EXCEPT ![n] = "running"]
    BY <2>2, <2>3
  <2> QED BY <1>2, <2>4 DEF RunningIn
<1> QED BY <1>3, <1>4

\* A step that no crash cuts short.
LEMMA WholeWrite ==
  ASSUME crashes \in Nat, crashes' = 0, NEW log, NEW next, Write(log, next)
  PROVE  state' = Fold(state, log) /\ drive' = next /\ UNCHANGED shape
BY DEF Write

\* A write whose records leave running only what the next memory waits for, does so cut or whole.
LEMMA WriteMinds ==
  ASSUME crashes \in Nat, crashes' = 0, NEW log, NEW next, Write(log, next),
         RunningIn(Fold(state, log)) \subseteq Minded(next)
  PROVE  RunningIn(state') \subseteq Minded(drive')
BY WholeWrite

\* The tail of a node or a batch: nothing runs when the next head is taken, or the run fails.
LEMMA NextHeadMinds ==
  ASSUME shape \in DOMAIN Graphs, crashes \in Nat, crashes' = 0, NEW log \in Seq(LogRecords(Nodes)),
         Fold(state, log) \in RunStates, RunningIn(Fold(state, log)) = {}, NEW frontier, NextHead(log, frontier)
  PROVE  RunningIn(state') \subseteq Minded(drive')
<1>1. CASE frontier = <<>>
  <2> DEFINE u == Fold(state, log \o <<RunIs("failed")>>)
  <2>1. u = FoldOne(Fold(state, log), RunIs("failed"))
    BY OneMoreFolded
  <2>2. "failed" \in RunStatuses
    BY DEF RunStatuses
  <2>3. \A t \in RunStates : \A z : z = FoldOne(t, RunIs("failed")) => z.nodes = t.nodes
    BY <2>2, FoldRun
  <2>4. u.nodes = Fold(state, log).nodes
    BY <2>1, <2>3
  <2>5. RunningIn(u) = {}
    BY <2>4 DEF RunningIn
  <2>6. Write(log \o <<RunIs("failed")>>, Off)
    BY <1>1 DEF NextHead
  <2> QED BY <2>5, <2>6, WriteMinds
<1>2. CASE frontier # <<>>
  <2> DEFINE next == [Off EXCEPT !.phase = "turn", !.current = Head(frontier),
                                 !.frontier = Tail(frontier), !.halted = drive.halted]
  <2>1. Write(log, next)
    BY <1>2 DEF NextHead
  <2> HIDE DEF next
  <2> QED BY <2>1, WriteMinds
<1> QED BY <1>1, <1>2

\* What follows a node's finish leaves nothing running beside it.
LEMMA AfterAloneMinds ==
  ASSUME shape \in DOMAIN Graphs, crashes \in Nat, crashes' = 0, drive.frontier \in Seq(Nodes),
         NEW log \in Seq(LogRecords(Nodes)), Fold(state, log) \in RunStates, RunningIn(Fold(state, log)) = {},
         AfterAlone(log)
  PROVE  RunningIn(state') \subseteq Minded(drive')
<1> DEFINE now == Fold(state, log)
           adv == Advance(now, drive.current, drive.frontier, {})
           off == WriteOff(drive.frontier)
<1>1. \/ Write(log \o off \o <<RunIs("failed")>>, Off)
      \/ NextHead(log \o adv.log, adv.frontier)
  BY DEF AfterAlone
<1>2. Calm(adv.log) /\ Calm(off)
  BY AdvanceIsCalm, WriteOffIsCalm
<1> HIDE DEF adv, off
<1>3. \A rest : Calm(rest) => /\ log \o rest \in Seq(LogRecords(Nodes))
                              /\ Fold(state, log \o rest) \in RunStates /\ RunningIn(Fold(state, log \o rest)) = {}
  <2> SUFFICES ASSUME NEW rest, Calm(rest)
               PROVE  /\ log \o rest \in Seq(LogRecords(Nodes))
                      /\ Fold(state, log \o rest) \in RunStates /\ RunningIn(Fold(state, log \o rest)) = {}
    OBVIOUS
  <2>1. rest \in Seq(LogRecords(Nodes))
    BY DEF Calm
  <2>2. log \o rest \in Seq(LogRecords(Nodes)) /\ Fold(state, log \o rest) = Fold(now, rest)
    BY <2>1, FoldJoined, Joined
  <2>3. Fold(now, rest) \in RunStates /\ RunningIn(Fold(now, rest)) \subseteq RunningIn(now)
    BY DEF Calm
  <2> QED BY <2>2, <2>3
<1>4. CASE Write(log \o off \o <<RunIs("failed")>>, Off)
  <2> DEFINE both == log \o off
  <2>1. both \in Seq(LogRecords(Nodes)) /\ Fold(state, both) \in RunStates /\ RunningIn(Fold(state, both)) = {}
    BY <1>2, <1>3
  <2>2. Write(both \o <<RunIs("failed")>>, Off)
    BY <1>4
  <2> HIDE DEF both
  <2>3. NextHead(both, <<>>)
    BY <2>2 DEF NextHead
  <2> QED BY <2>1, <2>3, NextHeadMinds
<1>5. CASE NextHead(log \o adv.log, adv.frontier)
  <2> DEFINE both == log \o adv.log
  <2>1. both \in Seq(LogRecords(Nodes)) /\ Fold(state, both) \in RunStates /\ RunningIn(Fold(state, both)) = {}
    BY <1>2, <1>3
  <2>2. NextHead(both, adv.frontier)
    BY <1>5
  <2> HIDE DEF both
  <2> QED BY <2>1, <2>2, NextHeadMinds
<1> QED BY <1>1, <1>4, <1>5

\* While nothing interrupts it, all that runs in the journal is what the driver waits for.
Minds == crashes = 0 /\ pauses = 0 => asked = "no" /\ RunningIn(state) \subseteq Minded(drive)

\* A step whose records start nothing.
LEMMA CalmMinds ==
  ASSUME crashes \in Nat, crashes' = 0, state \in RunStates, NEW log, Calm(log), NEW next, Write(log, next),
         RunningIn(state) \subseteq Minded(next)
  PROVE  RunningIn(state') \subseteq Minded(drive')
<1>1. RunningIn(Fold(state, log)) \subseteq RunningIn(state)
  BY DEF Calm
<1> QED BY <1>1, WriteMinds

\* The sequential arm leaves nothing running but the node it waits for.
LEMMA AloneMinds ==
  ASSUME DriveInv, crashes' = 0, RunningIn(state) \subseteq Minded(drive), asked = "no",
         RunAlone \/ FailBarrier \/ AloneEnds \/ AloneInterrupted \/ ReachFinish
  PROVE  RunningIn(state') \subseteq Minded(drive')
<1>1. /\ shape \in DOMAIN Graphs /\ state \in RunStates /\ crashes \in Nat /\ drive.current \in Nodes
      /\ drive.frontier \in Seq(Nodes) /\ drive \in Memories
  BY DriverFacts, InvNow
<1>2. AtTurn => RunningIn(state) = {}
  BY DEF AtTurn, Minded
<1> DEFINE n == drive.current
<1>3. CASE RunAlone
  <2> DEFINE next == [drive EXCEPT !.phase = "node"]
  <2>1. Write(<<NodeStarted(n)>>, next) /\ RunningIn(state) = {}
    BY <1>2, <1>3 DEF RunAlone
  <2>2. RunningIn(Fold(state, <<NodeStarted(n)>>)) \subseteq RunningIn(state) \cup {n}
    BY <1>1, NodeRecordsRun
  <2>3. Minded(next) = {n}
    BY <1>1 DEF Minded, Memories
  <2> HIDE DEF next
  <2>4. RunningIn(Fold(state, <<NodeStarted(n)>>)) \subseteq Minded(next)
    BY <2>1, <2>2, <2>3
  <2> QED BY <1>1, <2>1, <2>4, WriteMinds
<1>4. CASE FailBarrier
  <2> DEFINE start == <<NodeStarted(n)>>
             refuse == IF Verdict(n) = "refused" THEN <<JoinRefused(n)>> ELSE <<>>
             finish == <<NodeFinished(n, "failed")>>
  <2>1. AfterAlone(start \o refuse \o finish) /\ RunningIn(state) = {}
    BY <1>2, <1>4 DEF FailBarrier
  <2>2. start \in Seq(LogRecords(Nodes)) /\ finish \in Seq(LogRecords(Nodes)) /\ "failed" \in FinalStatuses
    <3>1. NodeStarted(n) \in LogRecords(Nodes) /\ NodeFinished(n, "failed") \in LogRecords(Nodes) /\ "failed" \in FinalStatuses
      BY <1>1, NodeRecordsTell DEF FinalStatuses
    <3> QED BY <3>1
  <2>3. Calm(refuse)
    <3>1. JoinRefused(n) \in Startless
      BY <1>1 DEF Startless, LogRecords, Refusals
    <3>2. <<JoinRefused(n)>> \in Seq(Startless)
      BY <3>1
    <3> QED BY <1>1, <3>2, CalmNothing, CalmRecords
  <2>4. Fold(state, start) \in RunStates /\ RunningIn(Fold(state, start)) \subseteq RunningIn(state) \cup {n}
    BY <1>1, NodeRecordsRun
  <2>5. \A s \in RunStates : Fold(s, finish) \in RunStates /\ RunningIn(Fold(s, finish)) \subseteq RunningIn(s) \ {n}
    <3>1. \A s \in RunStates : \A z : z = Fold(s, <<NodeFinished(n, "failed")>>) =>
            z \in RunStates /\ RunningIn(z) \subseteq RunningIn(s) \ {n}
      BY <1>1, <2>2, NodeRecordsRun
    <3> HIDE DEF finish
    <3>2. finish = <<NodeFinished(n, "failed")>>
      BY DEF finish
    <3> QED BY <3>1, <3>2
  <2> HIDE DEF start, refuse, finish
  <2>6. /\ start \o refuse \in Seq(LogRecords(Nodes)) /\ Fold(state, start \o refuse) \in RunStates
        /\ RunningIn(Fold(state, start \o refuse)) \subseteq {n}
    <3>1. refuse \in Seq(LogRecords(Nodes))
      BY <2>3 DEF Calm
    <3>2. start \o refuse \in Seq(LogRecords(Nodes)) /\ Fold(state, start \o refuse) = Fold(Fold(state, start), refuse)
      BY <2>2, <3>1, FoldJoined, Joined
    <3>3. /\ Fold(Fold(state, start), refuse) \in RunStates
          /\ RunningIn(Fold(Fold(state, start), refuse)) \subseteq RunningIn(Fold(state, start))
      BY <2>3, <2>4 DEF Calm
    <3> QED BY <2>1, <2>4, <3>2, <3>3
  <2> DEFINE head == start \o refuse
             log == head \o finish
  <2>7. log \in Seq(LogRecords(Nodes)) /\ Fold(state, log) = Fold(Fold(state, head), finish)
    <3>1. head \in Seq(LogRecords(Nodes))
      BY <2>6
    <3> HIDE DEF head
    <3>2. head \o finish \in Seq(LogRecords(Nodes)) /\ Fold(state, head \o finish) = Fold(Fold(state, head), finish)
      BY <2>2, <3>1, FoldJoined, Joined
    <3> QED BY <3>2
  <2>8. Fold(state, log) \in RunStates /\ RunningIn(Fold(state, log)) = {}
    <3>1. Fold(state, head) \in RunStates /\ RunningIn(Fold(state, head)) \subseteq {n}
      BY <2>6
    <3> HIDE DEF head, log
    <3> QED BY <2>5, <2>7, <3>1
  <2>9. AfterAlone(log)
    BY <2>1
  <2> HIDE DEF log
  <2> QED BY <1>1, <2>7, <2>8, <2>9, AfterAloneMinds
<1>5. CASE AloneEnds
  <2>1. PICK status \in Outcomes(n) : AfterAlone(<<NodeFinished(n, status)>>)
    BY <1>5 DEF AloneEnds
  <2>2. drive.phase = "node" /\ status \in FinalStatuses
    BY <1>5 DEF AloneEnds, Outcomes, FinalStatuses
  <2> DEFINE log == <<NodeFinished(n, status)>>
  <2>3. RunningIn(state) \subseteq {n}
    BY <2>2 DEF Minded
  <2>4. Fold(state, log) \in RunStates /\ RunningIn(Fold(state, log)) \subseteq RunningIn(state) \ {n}
    <3>1. \A z : z = Fold(state, <<NodeFinished(n, status)>>) =>
            z \in RunStates /\ RunningIn(z) \subseteq RunningIn(state) \ {n}
      BY <1>1, <2>2, NodeRecordsRun
    <3>2. log = <<NodeFinished(n, status)>>
      OBVIOUS
    <3> HIDE DEF log
    <3> QED BY <3>1, <3>2
  <2>5. log \in Seq(LogRecords(Nodes))
    <3>1. NodeFinished(n, status) \in LogRecords(Nodes)
      BY <1>1, <2>2, NodeRecordsTell
    <3> QED BY <3>1
  <2> HIDE DEF log
  <2> QED BY <1>1, <2>1, <2>3, <2>4, <2>5, AfterAloneMinds DEF log
<1>6. CASE AloneInterrupted
  BY <1>6 DEF AloneInterrupted
<1>7. CASE ReachFinish
  <2> DEFINE how == IF n \in Graph.failure \/ UnhandledFailure(state) THEN "failed" ELSE "succeeded"
             log == <<NodeFinished(n, "succeeded"), RunIs(how)>>
  <2>1. Write(log, Off) /\ RunningIn(state) = {}
    BY <1>2, <1>7 DEF ReachFinish
  <2>2. NodeFinished(n, "succeeded") \in Startless /\ RunIs(how) \in Startless
    <3>1. how \in RunStatuses /\ "succeeded" \in FinalStatuses
      BY DEF RunStatuses, FinalStatuses
    <3> HIDE DEF how
    <3> QED BY <1>1, <3>1 DEF Startless, LogRecords, RunRecords
  <2> HIDE DEF how
  <2>3. log \in Seq(Startless)
    BY <2>2
  <2>4. Calm(log)
    BY <1>1, <2>3, CalmRecords
  <2> HIDE DEF log
  <2> QED BY <1>1, <2>1, <2>4, CalmMinds
<1> QED BY <1>3, <1>4, <1>5, <1>6, <1>7

\* A batch leaves nothing running but the members it waits for.
LEMMA BatchMinds ==
  ASSUME DriveInv, crashes' = 0, RunningIn(state) \subseteq Minded(drive), asked = "no",
         \/ FormBatch \/ Admit \/ StopAdmitting \/ WriteOffMember
         \/ MemberEnds \/ MemberInterrupted \/ BatchHalts \/ BatchEnds
  PROVE  RunningIn(state') \subseteq Minded(drive')
<1>1. /\ shape \in DOMAIN Graphs /\ state \in RunStates /\ crashes \in Nat /\ drive \in Memories
      /\ drive.batch \in Seq(Nodes) /\ drive.frontier \in Seq(Nodes) /\ drive.running \in SUBSET Nodes
  BY DriverFacts, InvNow
<1>2. drive.phase = "batch" => RunningIn(state) \subseteq drive.running
  BY DEF Minded
<1>3. CASE FormBatch
  <2> DEFINE next == [Off EXCEPT !.phase = "batch", !.current = drive.current, !.batch = Members,
                                 !.queue = Members, !.frontier = Without(drive.frontier, ToSet(Members)),
                                 !.halted = drive.halted]
  <2>1. Write(<<>>, next) /\ RunningIn(state) = {}
    BY <1>3 DEF FormBatch, AtTurn, Minded
  <2> HIDE DEF next
  <2> QED BY <1>1, <2>1, CalmNothing, CalmMinds
<1>4. CASE Admit
  <2> DEFINE n == NextMember
             next == [drive EXCEPT !.queue = Tail(@), !.running = @ \cup {n}]
  <2>1. Write(<<NodeStarted(n)>>, next) /\ drive.phase = "batch" /\ n \in Nodes
    BY <1>4, NextMemberFacts DEF Admit, HasSlot
  <2>2. RunningIn(Fold(state, <<NodeStarted(n)>>)) \subseteq RunningIn(state) \cup {n}
    BY <1>1, <2>1, NodeRecordsRun
  <2>3. Minded(next) = drive.running \cup {n}
    BY <1>1, <2>1 DEF Minded, Memories
  <2> HIDE DEF next, n
  <2>4. RunningIn(Fold(state, <<NodeStarted(n)>>)) \subseteq Minded(next)
    BY <1>2, <2>1, <2>2, <2>3
  <2> QED BY <1>1, <2>1, <2>4, WriteMinds
<1>5. CASE StopAdmitting
  <2> DEFINE next == [drive EXCEPT !.queue = <<>>]
  <2>1. Write(<<>>, next) /\ drive.phase = "batch"
    BY <1>5 DEF StopAdmitting
  <2>2. Minded(next) = drive.running
    BY <1>1, <2>1 DEF Minded, Memories
  <2> HIDE DEF next
  <2> QED BY <1>1, <1>2, <2>1, <2>2, CalmNothing, CalmMinds
<1>6. CASE WriteOffMember
  <2> DEFINE n == NextMember
             next == [drive EXCEPT !.queue = Tail(@), !.ended = @ \cup {n}]
  <2>1. Write(WrittenOff(n), next) /\ drive.phase = "batch" /\ n \in Nodes
    BY <1>6, NextMemberFacts DEF WriteOffMember, HasSlot
  <2>2. Minded(next) = drive.running
    BY <1>1, <2>1 DEF Minded, Memories
  <2>3. Calm(WrittenOff(n))
    BY <1>1, <2>1, WriteOffIsCalm
  <2> HIDE DEF next, n
  <2> QED BY <1>1, <1>2, <2>1, <2>2, <2>3, CalmMinds
<1>7. CASE MemberEnds
  <2>1. PICK n \in drive.running : \E status \in Outcomes(n) \cup (IF drive.won THEN {"cancelled"} ELSE {}) :
         LET finish == <<NodeFinished(n, status)>>
             s == Fold(state, finish)
             m == [drive EXCEPT !.running = @ \ {n}, !.ended = @ \cup {n},
                                !.pipelining = @ /\ status \in {"succeeded", "cancelled"}]
             racing == \E e \in ToSet(SelectedEdges(s, n, FALSE)) : JoinKind(e.to) = "any"
             goOn(piped) == Write(finish \o piped.log, piped.drive)
         IN  IF status = "succeeded" /\ FeedsReadyAny(s, n, m) THEN Write(finish, [m EXCEPT !.won = TRUE])
             ELSE IF status = "succeeded" /\ m.pipelining /\ ~m.won /\ ~m.halted /\ ~racing
             THEN goOn(Pipeline(s, n, m))
             ELSE Write(finish, m)
    BY <1>7 DEF MemberEnds
  <2>2. PICK status \in Outcomes(n) \cup (IF drive.won THEN {"cancelled"} ELSE {}) :
          LET finish == <<NodeFinished(n, status)>>
              s == Fold(state, finish)
              m == [drive EXCEPT !.running = @ \ {n}, !.ended = @ \cup {n},
                                 !.pipelining = @ /\ status \in {"succeeded", "cancelled"}]
              racing == \E e \in ToSet(SelectedEdges(s, n, FALSE)) : JoinKind(e.to) = "any"
              goOn(piped) == Write(finish \o piped.log, piped.drive)
          IN  IF status = "succeeded" /\ FeedsReadyAny(s, n, m) THEN Write(finish, [m EXCEPT !.won = TRUE])
              ELSE IF status = "succeeded" /\ m.pipelining /\ ~m.won /\ ~m.halted /\ ~racing
              THEN goOn(Pipeline(s, n, m))
              ELSE Write(finish, m)
    BY <2>1
  <2> DEFINE finish == <<NodeFinished(n, status)>>
             s == Fold(state, finish)
             d == [drive EXCEPT !.running = @ \ {n}, !.ended = @ \cup {n},
                                !.pipelining = @ /\ status \in {"succeeded", "cancelled"}]
             piped == Pipeline(s, n, d)
  <2>3. \/ Write(finish, [d EXCEPT !.won = TRUE])
        \/ Write(finish \o piped.log, piped.drive)
        \/ Write(finish, d)
    BY <2>2
  <2>4. n \in Nodes /\ status \in FinalStatuses /\ drive.phase = "batch"
    BY <1>1, <1>7, <2>2 DEF Outcomes, FinalStatuses, MemberEnds, MemberReports
  <2>5. s \in RunStates /\ RunningIn(s) \subseteq drive.running \ {n} /\ finish \in Seq(LogRecords(Nodes))
    <3>1. \A z : z = Fold(state, <<NodeFinished(n, status)>>) =>
            z \in RunStates /\ RunningIn(z) \subseteq RunningIn(state) \ {n}
      BY <1>1, <2>4, NodeRecordsRun
    <3>2. s = Fold(state, <<NodeFinished(n, status)>>)
      OBVIOUS
    <3>3. NodeFinished(n, status) \in LogRecords(Nodes)
      BY <2>4, NodeRecordsTell
    <3>4. finish \in Seq(LogRecords(Nodes))
      BY <3>3
    <3> HIDE DEF s, finish
    <3> QED BY <1>2, <2>4, <3>1, <3>2, <3>4
  <2>6. /\ d \in Memories /\ d.phase = "batch" /\ d.running = drive.running \ {n}
        /\ d.frontier = drive.frontier /\ d.batch = drive.batch
    BY <1>1, <2>4 DEF Memories
  <2>7. [d EXCEPT !.won = TRUE].phase = "batch" /\ [d EXCEPT !.won = TRUE].running = drive.running \ {n}
    <3> HIDE DEF d
    <3> QED BY <2>6 DEF Memories
  <2>8. Calm(piped.log) /\ piped.drive.phase = "batch" /\ piped.drive.running = drive.running \ {n}
    <3> HIDE DEF d, s
    <3> DEFINE me == CHOOSE i \in DOMAIN d.batch : d.batch[i] = n
               after == {d.batch[i] : i \in {k \in DOMAIN d.batch : k > me}}
               later == Among(d.batch, ((ToSet(d.batch) \ d.ended) \cup after) \ ({n} \cup ToSet(d.frontier)))
               adv == Advance(s, n, d.frontier \o later, ToSet(d.batch))
               routed == Without(adv.frontier, ToSet(later))
    <3>1. piped = Grow(n, d, adv.log, routed)
      BY DEF Pipeline
    <3>2. later \in Seq(Nodes)
      BY <1>1, <2>6, AmongKeeps
    <3> HIDE DEF later
    <3>3. d.frontier \o later \in Seq(Nodes)
      BY <1>1, <2>6, <3>2
    <3>4. Calm(adv.log)
      BY <1>1, <3>3, AdvanceIsCalm
    <3> HIDE DEF adv, routed
    <3>5. /\ Grow(n, d, adv.log, routed).log = adv.log
          /\ Grow(n, d, adv.log, routed).drive.phase = d.phase
          /\ Grow(n, d, adv.log, routed).drive.running = d.running
      BY <2>6 DEF Grow, Memories
    <3> QED BY <2>6, <3>1, <3>4, <3>5
  <2> HIDE DEF piped, d
  <2>9. CASE Write(finish \o piped.log, piped.drive)
    <3>1. Fold(state, finish \o piped.log) = Fold(s, piped.log)
      <4>1. piped.log \in Seq(LogRecords(Nodes))
        BY <2>8 DEF Calm
      <4> HIDE DEF finish
      <4> QED BY <2>5, <4>1, FoldJoined
    <3>2. RunningIn(Fold(s, piped.log)) \subseteq RunningIn(s)
      BY <2>5, <2>8 DEF Calm
    <3>3. Minded(piped.drive) = drive.running \ {n}
      BY <2>8 DEF Minded
    <3> HIDE DEF s, finish
    <3>4. RunningIn(Fold(state, finish \o piped.log)) \subseteq Minded(piped.drive)
      BY <2>5, <3>1, <3>2, <3>3
    <3> QED BY <1>1, <2>9, <3>4, WriteMinds
  <2>10. CASE Write(finish, d)
    <3>1. Minded(d) = drive.running \ {n}
      BY <2>6 DEF Minded
    <3>2. RunningIn(Fold(state, finish)) \subseteq Minded(d)
      BY <2>5, <3>1
    <3> QED BY <1>1, <2>10, <3>2, WriteMinds
  <2>11. CASE Write(finish, [d EXCEPT !.won = TRUE])
    <3> DEFINE next == [d EXCEPT !.won = TRUE]
    <3>1. Minded(next) = drive.running \ {n}
      BY <2>7 DEF Minded
    <3>2. Write(finish, next)
      BY <2>11
    <3> HIDE DEF next
    <3>3. RunningIn(Fold(state, finish)) \subseteq Minded(next)
      BY <2>5, <3>1
    <3> QED BY <1>1, <3>2, <3>3, WriteMinds
  <2> QED BY <2>3, <2>9, <2>10, <2>11
<1>8. CASE MemberInterrupted
  BY <1>8 DEF MemberInterrupted
<1>9. CASE BatchHalts
  <2> DEFINE next == [drive EXCEPT !.phase = "turn"]
  <2>1. Write(<<>>, next) /\ RunningIn(state) = {}
    BY <1>2, <1>9 DEF BatchHalts, BatchOver
  <2> HIDE DEF next
  <2> QED BY <1>1, <2>1, CalmNothing, CalmMinds
<1>10. CASE BatchEnds
  <2> DEFINE rest == Among(drive.batch, {m \in drive.ended \ drive.advanced : state.nodes[m] # "cancelled"})
             tail == AdvanceAll(state, rest, drive.batch, drive.frontier)
             done == IF drive.advanced = {} THEN tail
                     ELSE Reoffer(Fold(state, tail.log), drive.advanced, drive.batch, tail)
  <2>1. NextHead(done.log, done.frontier) /\ RunningIn(state) = {}
    BY <1>2, <1>10 DEF BatchEnds, BatchOver
  <2>2. rest \in Seq(Nodes)
    BY <1>1, AmongKeeps
  <2> HIDE DEF rest
  <2>3. Calm(tail.log) /\ \A now, advanced : Calm(Reoffer(now, advanced, drive.batch, tail).log)
    BY <1>1, <2>2, BatchTailIsCalm
  <2> HIDE DEF tail
  <2>4. Calm(done.log)
    BY <2>3
  <2> HIDE DEF done
  <2>5. /\ done.log \in Seq(LogRecords(Nodes)) /\ Fold(state, done.log) \in RunStates
        /\ RunningIn(Fold(state, done.log)) = {}
    BY <1>1, <2>1, <2>4 DEF Calm
  <2> QED BY <1>1, <2>1, <2>5, NextHeadMinds
<1> QED BY <1>3, <1>4, <1>5, <1>6, <1>7, <1>8, <1>9, <1>10

\* Without a crash or a pause a run is never taken up again.
LEMMA ResumeMinds ==
  ASSUME DriveInv, crashes' = 0, RunningIn(state) \subseteq Minded(drive), Resume
  PROVE  RunningIn(state') \subseteq Minded(drive')
<1>1. shape \in DOMAIN Graphs /\ state \in RunStates /\ crashes \in Nat
  BY DriverFacts, InvNow
<1>2. RunningIn(state) = {}
  BY DEF Resume, CanResume, Minded
<1> DEFINE entry == Fold(state, <<RunIs("running")>>)
           adv == Seeds(entry, Plan)
           seeds == IF adv.frontier = <<>> THEN Restore(entry, Plan.node, <<>>) ELSE adv.frontier
           next == [Off EXCEPT !.phase = "turn", !.current = Head(seeds),
                               !.frontier = Restore(entry, Head(seeds), Tail(seeds))]
           opening == <<RunIs("running")>>
<1>3. Write(opening \o adv.log, next)
  BY DEF Resume, Enter
<1>4. Calm(adv.log)
  <2> DEFINE heads == ToSet(PendingHeads(entry))
             found == Advance(entry, Plan.node, <<>>, heads)
  <2>1. adv.log = found.log \/ adv.log = <<>>
    BY DEF Seeds
  <2>2. <<>> \in Seq(Nodes)
    OBVIOUS
  <2>3. Calm(found.log)
    <3> HIDE DEF entry, heads
    <3> QED BY <1>1, <2>2, AdvanceIsCalm
  <2> HIDE DEF adv, found
  <2> QED BY <2>1, <2>3, CalmNothing
<1>5. Calm(opening)
  <2>1. RunIs("running") \in Startless
    BY DEF Startless, LogRecords, RunRecords, RunStatuses
  <2>2. opening \in Seq(Startless)
    BY <2>1
  <2> HIDE DEF opening
  <2> QED BY <1>1, <2>2, CalmRecords
<1> DEFINE log == opening \o adv.log
<1> HIDE DEF opening, adv
<1>6. Calm(log)
  BY <1>4, <1>5, CalmJoined
<1> HIDE DEF log, next
<1>7. Write(log, next)
  BY <1>3 DEF log
<1> QED BY <1>1, <1>2, <1>6, <1>7, CalmMinds

\* No step starts a node that the driver does not wait for.
LEMMA StepsMind ==
  ASSUME DriveInv, Minds, [Next]_vars
  PROVE  Minds'
<1> SUFFICES ASSUME crashes' = 0, pauses' = 0
             PROVE  asked' = "no" /\ RunningIn(state') \subseteq Minded(drive') /\ UNCHANGED shape
  <2>1. UNCHANGED shape
    BY ShapeStays
  <2>2. Nodes' = Nodes
    BY <2>1, SameGraph
  <2> QED BY <2>1, <2>2 DEF Minds, RunningIn, Minded
<1>1. crashes = 0 /\ pauses = 0 /\ (asked = "no" => asked' = "no")
  BY InterruptionsCount
<1>2. asked = "no" /\ RunningIn(state) \subseteq Minded(drive)
  BY <1>1 DEF Minds
<1>3. asked' = "no" /\ UNCHANGED shape
  BY <1>1, <1>2, ShapeStays
<1>4. CASE RunAlone \/ FailBarrier \/ AloneEnds \/ AloneInterrupted \/ ReachFinish
  BY <1>2, <1>3, <1>4, AloneMinds
<1>5. CASE \/ FormBatch \/ Admit \/ StopAdmitting \/ WriteOffMember
           \/ MemberEnds \/ MemberInterrupted \/ BatchHalts \/ BatchEnds
  BY <1>2, <1>3, <1>5, BatchMinds
<1>6. CASE Resume
  BY <1>2, <1>3, <1>6, ResumeMinds
<1>7. CASE ApplyPause \/ AskPause \/ Notice \/ Crash
  <2>1. crashes \in Nat /\ pauses \in Nat
    BY InvNow
  <2>2. ~ApplyPause /\ ~AskPause /\ ~Notice /\ ~Crash
    BY <1>1, <1>2, <2>1 DEF ApplyPause, AskPause, Notice, Crash
  <2> QED BY <1>7, <2>2
<1>8. CASE UNCHANGED vars
  BY <1>2, <1>3, <1>8 DEF vars
<1> QED BY <1>4, <1>5, <1>6, <1>7, <1>8 DEF Next, DriveStep

\* The nodes the journal shows as running are the ones the driver waits for, and no more of them
\* than defaults.max_parallel allows: no node is left running by the driver that started it.
OnlyTheDriverRuns ==
  crashes = 0 /\ pauses = 0 => /\ RunningIn(state) = Minded(drive)
                               /\ Cardinality(RunningIn(state)) <= MaxParallel

\* In every playbook, and until a pause or a crash interrupts the run: what runs in the journal is
\* what the driver waits for, within its slots.
THEOREM NothingIsLeftRunning == Spec => []OnlyTheDriverRuns
<1>1. Init => Minds
  BY DEF Init, Minds, RunningIn
<1>2. DriveInv /\ Minds /\ [Next]_vars => Minds'
  BY StepsMind
<1>3. DriveInv /\ Minds => OnlyTheDriverRuns
  <2> SUFFICES ASSUME DriveInv, Minds, crashes = 0, pauses = 0
               PROVE  /\ RunningIn(state) = Minded(drive)
                      /\ Cardinality(RunningIn(state)) <= MaxParallel
    BY DEF OnlyTheDriverRuns
  <2>1. /\ shape \in DOMAIN Graphs /\ MemorySound(drive, state, asked)
        /\ drive.current \in Nodes /\ drive.running \in SUBSET Nodes
    BY DriverFacts
  <2>2. RunningIn(state) \subseteq Minded(drive)
    BY DEF Minds
  <2>3. Minded(drive) \subseteq RunningIn(state)
    BY <2>1 DEF Minded, RunningIn, MemorySound
  <2>4. Cardinality(Minded(drive)) <= MaxParallel
    <3>1. Cardinality(drive.running) <= MaxParallel
      BY <2>1 DEF MemorySound, HeadsSound
    <3>2. Cardinality({drive.current}) = 1 /\ Cardinality({}) = 0
      BY FS_Singleton, FS_EmptySet
    <3>3. MaxParallel \in Nat \ {0}
      BY BoundsAreNaturals
    <3> QED BY <3>1, <3>2, <3>3 DEF Minded
  <2> QED BY <2>2, <2>3, <2>4
<1> QED BY <1>1, <1>2, <1>3, DriveIsSound, PTL DEF Spec

\* Work on the way to a node: running, or sent for and not held up by a join of its own.
OnTheWay(m) == state.nodes[m] = "running" \/ (Owed(m) /\ ~IsJoin(m))

\* Nothing that is on the way leads to a node that has begun: no branch reaches a join late.
NoBranchIsLate ==
  crashes = 0 /\ pauses = 0 /\ drive.phase # "off" =>
    \A m \in Nodes : OnTheWay(m) => \A y \in Nodes \ {m} : y \in Reach(m) => state.nodes[y] = "pending"

\* Until something interrupts a run through a playbook without loops, races and caps, a join, or
\* any other node, only begins once no running node and no head leads to it any more.
THEOREM BranchesArriveInTime == Spec /\ OneWay => []NoBranchIsLate
<1>1. FirstInv /\ OnlyTheDriverRuns => NoBranchIsLate
  <2> SUFFICES ASSUME FirstInv, OnlyTheDriverRuns,
                      crashes = 0, pauses = 0, drive.phase # "off", NEW m \in Nodes, OnTheWay(m), NEW y \in Nodes \ {m}, y \in Reach(m)
               PROVE  state.nodes[y] = "pending"
    BY DEF NoBranchIsLate
  <2>1. Tidy(state, drive, asked, crashes) /\ asked = "no"
    BY DEF FirstInv, FirstDrive
  <2>2. RunningIn(state) = Minded(drive)
    BY DEF OnlyTheDriverRuns
  <2>3. /\ shape \in DOMAIN Graphs /\ drive.batch \in Seq(Nodes) /\ drive.queue \in Seq(Nodes)
        /\ drive.frontier \in Seq(Nodes) /\ MemorySound(drive, state, asked)
    BY DriverFacts DEF FirstInv
  <2>4. y \in Beyond(m)
    BY <2>3, BeyondFacts
  <2>5. HeadsSound(drive) /\ ~drive.halted
    BY <2>1, <2>3 DEF MemorySound
  <2>6. Quiet(state, Work(drive), Work(drive)) /\ Remembers(state, drive)
    BY <2>1, <2>5 DEF Tidy, GoesOn, Holds, Debts
  <2>7. m \in Work(drive)
    <3>1. drive.phase = "batch" =>
            /\ ToSet(drive.queue) \subseteq ToSet(drive.batch) \ drive.advanced
            /\ drive.running \subseteq ToSet(drive.batch) \ drive.advanced
      BY <2>5 DEF HeadsSound
    <3>2. CASE state.nodes[m] = "running"
      <4>1. m \in Minded(drive)
        BY <2>2, <3>2 DEF RunningIn
      <4> QED BY <3>1, <4>1 DEF Minded, Work
    <3>3. CASE Owed(m) /\ ~IsJoin(m)
      <4>1. OwedIn(state, m)
        BY <3>3 DEF Owed, OwedIn
      <4> QED BY <2>6, <3>1, <3>3, <4>1 DEF Remembers, Work
    <3> QED BY <3>2, <3>3 DEF OnTheWay
  <2> QED BY <2>4, <2>6, <2>7 DEF Quiet
<1> QED BY <1>1, FirstDriveIsTidy, NothingIsLeftRunning, PTL

\* No join leads on to another.
JoinsApart == \A n \in Nodes : IsJoin(n) => \A y \in Beyond(n) : ~IsJoin(y)

\* Where no join leads on to another one, a join of such a run starts once none of the work the run
\* has begun, or was sent to, can reach it: what the join still waits for is never late.
THEOREM JoinsWaitForBranches == Spec /\ OneWay /\ JoinsApart => [](crashes = 0 /\ pauses = 0 => JoinsWait)
<1>1. JoinsApart /\ [Next]_vars => JoinsApart'
  <2> SUFFICES ASSUME JoinsApart, [Next]_vars PROVE JoinsApart'
    OBVIOUS
  <2>1. UNCHANGED shape
    BY ShapeStays
  <2>2. Nodes' = Nodes
    BY <2>1, SameGraph
  <2> QED BY <2>1, <2>2, SameWalks, SameJoins, Zenon DEF JoinsApart
<1>2. DriveInv /\ JoinsApart /\ NoBranchIsLate /\ OnlyTheDriverRuns => (crashes = 0 /\ pauses = 0 => JoinsWait)
  <2> SUFFICES ASSUME DriveInv, JoinsApart, NoBranchIsLate, OnlyTheDriverRuns, crashes = 0, pauses = 0,
                      NEW j \in RunningJoins, NEW m \in Nodes \ {j}, state.nodes[m] = "running" \/ Owed(m)
               PROVE  j \notin Reach(m)
    BY DEF JoinsWait
  <2>1. j \in Nodes /\ state.nodes[j] = "running" /\ IsJoin(j)
    BY DEF RunningJoins, IsJoin
  <2>2. drive.phase # "off"
    <3>1. j \in Minded(drive)
      BY <2>1 DEF OnlyTheDriverRuns, RunningIn
    <3> QED BY <3>1 DEF Minded
  <2>3. CASE OnTheWay(m)
    BY <2>1, <2>2, <2>3 DEF NoBranchIsLate
  <2>4. CASE ~OnTheWay(m)
    <3>1. IsJoin(m) /\ m \in Nodes
      BY <2>4 DEF OnTheWay
    <3>2. j \notin Beyond(m) /\ m # j
      BY <2>1, <3>1 DEF JoinsApart
    <3> QED BY <3>1, <3>2, DriverFacts, BeyondFacts
  <2> QED BY <2>3, <2>4
<1> QED BY <1>1, <1>2, BranchesArriveInTime, NothingIsLeftRunning, DriveIsSound, PTL DEF Spec

=============================================================================
