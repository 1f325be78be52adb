------------------------------ MODULE Frontier ------------------------------
(***************************************************************************)
(* How a drive walks its playbook: which edges a finished node takes, when *)
(* a join runs, which branches run at once, and how the branch heads a     *)
(* driver kept only in memory are rebuilt from the journal when another    *)
(* drive continues the run.                                                *)
(*                                                                         *)
(* `state` is what the journal folds to.  A step of the drive appends a    *)
(* sequence of records, each durable on its own, so a crash may keep any   *)
(* prefix of them.  `drive` is the driver's memory and dies with it.       *)
(*                                                                         *)
(* Modelled: plain, conditional, fallback and bounded edges; explicit      *)
(* `all` and `any` joins, `require: all_succeeded`, implicit joins; the    *)
(* sequential arm, the batch with pipelined admission; a pause (at the     *)
(* next boundary or `--now`), a crash, and the automatic resume after      *)
(* either.  Left out: `--from-node` and the revivals, fork policies,       *)
(* `defaults.on_failure`, a supervisor, gates, deferred retries, and every *)
(* edge condition but the outcome of the edge's own source.                *)
(***************************************************************************)
EXTENDS Naturals, Sequences, FiniteSets, SequencesExt

CONSTANTS Graphs,       \* name -> playbook graph
          MaxParallel,  \* defaults.max_parallel: batch members in flight
          MaxCrashes,   \* bound: name -> how often its driver dies
          MaxPauses     \* bound: name -> how often its run is asked to pause

\* What a playbook must be to be driven: its edges join nodes it has, and it has a start. "none"
\* stands for the absence of a node.
ASSUME GraphsAreValid ==
  \A g \in DOMAIN Graphs :
    LET G == Graphs[g]
        nodes == ToSet(G.nodes)
    IN  /\ G.nodes \in Seq(nodes) /\ IsInjective(G.nodes) /\ "start" \in nodes /\ "none" \notin nodes
        /\ G.edges \in Seq([from: nodes, to: nodes, on: {"always", "success", "failure", "fallback"},
                            cap: Nat, join: {"none", "all", "any"}, strict: BOOLEAN])
        /\ UNION {G.tasks, G.fallible, G.finish, G.failure} \subseteq nodes

ASSUME BoundsAreNaturals ==
  /\ MaxParallel \in Nat \ {0}
  /\ MaxCrashes \in [DOMAIN Graphs -> Nat]
  /\ MaxPauses \in [DOMAIN Graphs -> Nat]

VARIABLES shape,    \* the playbook of this run, a name of Graphs
          state,    \* the fold of the journal (RunState)
          drive,    \* the driver's memory
          asked,    \* the pause posted and not yet applied: no, soft, now
          crashes, pauses

vars == <<shape, state, drive, asked, crashes, pauses>>

-----------------------------------------------------------------------------
(* The playbook graph. *)

Graph == Graphs[shape]
Nodes == ToSet(Graph.nodes)
Edges == ToSet(Graph.edges)
Pairs == {<<e.from, e.to>> : e \in Edges}

\* The elements of a sequence that are in a set, in their order.
Among(seq, S) == FlattenSeq([i \in DOMAIN seq |-> IF seq[i] \in S THEN <<seq[i]>> ELSE <<>>])

Incoming(n) == Among(Graph.edges, {e \in Edges : e.to = n})
Outgoing(n) == Among(Graph.edges, {e \in Edges : e.from = n})

\* Everything some steps along `next` lead to.
Walk(start, next, steps) ==
  FoldLeft(LAMBDA seen, k : seen \cup UNION {next[x] : x \in seen}, start, [k \in 1 .. steps |-> k])

\* Nodes forward-reachable from a node, itself included.
ReachableFrom ==
  [g \in DOMAIN Graphs |->
    LET nodes == ToSet(Graphs[g].nodes)
        next == [n \in nodes |-> {e.to : e \in {d \in ToSet(Graphs[g].edges) : d.from = n}}]
    IN  [n \in nodes |-> Walk({n}, next, Len(Graphs[g].nodes))]]

Reach(n) == ReachableFrom[shape][n]

\* Why a node synchronizes: an author's join, a fan-in no cycle leads back to, or not at all.
JoinKind(n) ==
  LET inc == {e \in Edges : e.to = n}
      drawn == Among(Incoming(n), {e \in inc : e.join # "none"})
  IN  IF Len(Incoming(n)) < 2 THEN "none"
      ELSE IF drawn # <<>> THEN Head(drawn).join
      ELSE IF \A e \in inc : e.from \notin Reach(n) THEN "implicit"
      ELSE "none"

IsJoin(n) == JoinKind(n) # "none"
IsExplicit(n) == JoinKind(n) \in {"all", "any"}
RequiresAllSucceeded(n) == \E e \in Edges : e.to = n /\ e.strict

\* Agent and script nodes run on the batch's threads; a join whose verdict may fail it does not.
IsBatchable(n) == n \in Graph.tasks /\ ~IsExplicit(n) /\ ~(IsJoin(n) /\ RequiresAllSucceeded(n))

-----------------------------------------------------------------------------
(* The journal's records, and what the fold makes of each. *)

Record(kind, node, to, status) ==
  [kind |-> kind, node |-> node, to |-> to, status |-> status]

NodeStarted(n) == Record("node_started", n, n, "running")
NodeFinished(n, status) == Record("node_finished", n, n, status)
Hop(from, to) == Record("hop", from, to, "uncounted")
CountedHop(from, to) == Record("hop", from, to, "counted")
JoinRefused(n) == Record("join_refused", n, n, "failed")
RunIs(status) == Record("run", "start", "start", status)
WrittenOff(n) == <<NodeStarted(n), NodeFinished(n, "cancelled")>>

FoldOne(s, r) ==
  LET at == s.seq + 1
  IN  CASE r.kind = "node_started" ->
             [s EXCEPT !.seq = at, !.started[r.node] = at, !.nodes[r.node] = "running",
                       !.refused = @ \ {r.node}]
        [] r.kind = "node_finished" ->
             [s EXCEPT !.seq = at, !.finished[r.node] = at, !.nodes[r.node] = r.status,
                       !.runs[r.node] = @ + 1, !.last = r.node]
        [] r.kind = "hop" ->
             [s EXCEPT !.seq = at, !.hops[<<r.node, r.to>>] = at,
                       !.counts[<<r.node, r.to>>] = IF r.status = "counted" THEN @ + 1 ELSE @]
        [] r.kind = "join_refused" ->
             [s EXCEPT !.seq = at, !.refused = @ \cup {r.node}]
        [] r.kind = "run" -> [s EXCEPT !.seq = at, !.run = r.status]

Fold(s, log) == FoldLeft(FoldOne, s, log)

IsFinished(s, n) == s.nodes[n] \in {"succeeded", "failed", "cancelled"}

-----------------------------------------------------------------------------
(* Routing: the edges a finished node takes. *)

EdgeMatches(s, e) ==
  \/ e.on = "success" /\ s.nodes[e.from] = "succeeded"
  \/ e.on = "failure" /\ s.nodes[e.from] = "failed"

HopOfLatestRun(s, from, to) ==
  s.hops[<<from, to>>] > 0 /\ s.hops[<<from, to>>] > s.started[from]

\* A bounded edge at its cap is spent; read back after the run that took it, it is not.
EdgeAvailable(s, e, asRun) ==
  \/ e.cap = 0
  \/ s.counts[<<e.from, e.to>>] < e.cap
  \/ asRun /\ HopOfLatestRun(s, e.from, e.to)

\* Of the edges still open: the unconditional ones, else the first that matches, else a fallback.
Taken(s, n, open) ==
  LET plain    == Among(open, {e \in Edges : e.on = "always"})
      matching == Among(open, {e \in Edges : EdgeMatches(s, e)})
      spare    == Among(open, {e \in Edges : e.on = "fallback"})
  IN  IF plain # <<>> /\ n \notin s.refused THEN plain
      ELSE IF matching # <<>> THEN <<Head(matching)>>
      ELSE IF spare # <<>> THEN <<Head(spare)>>
      ELSE <<>>

SelectedEdges(s, n, asRun) ==
  Taken(s, n, Among(Outgoing(n), {e \in Edges : EdgeAvailable(s, e, asRun)}))

Successors(s, n) ==
  LET sel == SelectedEdges(s, n, FALSE) IN [i \in DOMAIN sel |-> sel[i].to]

\* Where a finished node went: the hops its latest run journaled, and its routing re-derived.
RoutedTargets(s, n) ==
  {e.to : e \in {d \in Edges : d.from = n /\ HopOfLatestRun(s, n, d.to)}}
    \cup {e.to : e \in ToSet(SelectedEdges(s, n, TRUE))}

PendingHeads(s) ==
  LET sent == UNION {RoutedTargets(s, n) : n \in {m \in Nodes : IsFinished(s, m)}}
  IN  Among(Graph.nodes, {t \in sent : ~IsFinished(s, t)})

-----------------------------------------------------------------------------
(* Joins: what can still arrive, and what a join does about it. *)

\* A predecessor finished after the node and routed into it: the node runs again.
DeliveredAgain(s, n, routed) ==
  /\ s.finished[n] > 0
  /\ \E e \in Edges : /\ e.to = n /\ e.from # n
                      /\ s.finished[e.from] > s.finished[n]
                      /\ n \in routed[e.from]

\* Mutant of LiveNodes: every edge is followed, also those a finished node did not take.
LiveByShape(s, active, join) ==
  LET next == [n \in Nodes |-> IF n = join THEN {} ELSE {e.to : e \in {d \in Edges : d.from = n}}]
  IN  Walk(active, next, Cardinality(Nodes))

\* Each live node with whether it runs (again), walked from `active`, never through `join`.
LiveNodes(s, active, join) ==
  LET routed == [n \in Nodes |-> RoutedTargets(s, n)]
      runs == [n \in Nodes |-> ~IsFinished(s, n) \/ DeliveredAgain(s, n, routed)]
      next(p) == IF p[1] = join THEN {}
                 ELSE IF p[2] THEN {e.to : e \in {d \in Edges : d.from = p[1]}}
                 ELSE routed[p[1]]
      step == [p \in Nodes \X BOOLEAN |-> {<<t, p[2] \/ runs[t]>> : t \in next(p)}]
  IN  {p[1] : p \in Walk({<<n, runs[n]>> : n \in active}, step, 2 * Cardinality(Nodes))}

\* The join's latest run finished after the source did, and it has not started again since.
JoinConsumed(s, source, join) ==
  /\ s.finished[source] > 0
  /\ s.finished[join] > s.finished[source]
  /\ s.started[join] < s.finished[join]

\* Mutant of DeliveredIntoAnEarlierRound: what a branch delivered a round ago still counts.
NoRounds(s, join, source) == FALSE

DeliveredIntoAnEarlierRound(s, join, source) ==
  JoinConsumed(s, source, join) /\ source \in Reach(join)

Arrival(s, join, source, live) ==
  IF ~IsFinished(s, source) \/ DeliveredIntoAnEarlierRound(s, join, source)
  THEN IF source \in live THEN "pending" ELSE "dead"
  ELSE IF join \in RoutedTargets(s, source) THEN s.nodes[source] ELSE "dead"

\* What has arrived at a join, or can still, over its incoming edges.
Arrivals(s, n, live) == {Arrival(s, n, e.from, live) : e \in {d \in Edges : d.to = n}}

JoinVerdict(n, arrivals) ==
  LET delivered == arrivals \ {"pending", "dead"}
      waiting == "pending" \in arrivals
  IN  IF RequiresAllSucceeded(n) /\ ~waiting /\ arrivals # {"succeeded"} THEN "refused"
      ELSE IF delivered = {} /\ ~waiting THEN "success"
      ELSE CASE JoinKind(n) = "implicit" -> IF waiting THEN "not_ready" ELSE "success"
             [] JoinKind(n) = "all" -> IF waiting THEN "not_ready"
                                       ELSE IF delivered = {"succeeded"} THEN "success"
                                       ELSE "failure"
             [] JoinKind(n) = "any" -> IF "succeeded" \in delivered THEN "success"
                                       ELSE IF waiting THEN "not_ready"
                                       ELSE "failure"

Readiness(s, n, active) ==
  IF IsJoin(n) THEN JoinVerdict(n, Arrivals(s, n, LiveNodes(s, active, n))) ELSE "success"

IsReady(s, n, active) == Readiness(s, n, active) # "not_ready"

-----------------------------------------------------------------------------
(* The frontier: advancing past a finished node, and rebuilding it. *)

\* A sequence with only the first of equal elements.
Distinct(seq) ==
  FlattenSeq([i \in DOMAIN seq |-> IF seq[i] \in {seq[j] : j \in 1 .. i - 1} THEN <<>> ELSE <<seq[i]>>])
Without(seq, S) == Among(seq, ToSet(seq) \ S)

SeedSuccessors(s, n, active) ==
  LET to == Distinct(Successors(s, n)) IN Among(to, {t \in ToSet(to) : IsReady(s, t, active)})

WriteOff(nodes) == FlattenSeq([i \in DOMAIN nodes |-> WrittenOff(nodes[i])])
Hops(n, targets) == [i \in DOMAIN targets |-> Hop(n, targets[i])]
CountedHops(n, targets) == [i \in DOMAIN targets |-> CountedHop(n, targets[i])]

\* A ready `join: any` takes the run alone: the first one, and every other head is dropped.
Races(nodes) == {t \in nodes : JoinKind(t) = "any"}
IsRace(seeds) == Races(ToSet(seeds)) # {}
Runnable(seeds) ==
  IF IsRace(seeds) THEN <<Head(Among(seeds, Races(ToSet(seeds))))>> ELSE seeds

\* What is journaled as a node goes on to `runnable`, in order, and the frontier that is left.
Proceed(s, n, frontier, seeds, runnable, losers) ==
  LET to == Distinct(Successors(s, n))
      racedOut == ToSet(losers) \cup (ToSet(seeds) \ ToSet(runnable))
      new == {t \in ToSet(to) \ racedOut : ~HopOfLatestRun(s, n, t)}
      bounded == {e.to : e \in {d \in ToSet(SelectedEdges(s, n, FALSE)) : d.cap > 0}}
  IN  [log |-> WriteOff(losers) \o Hops(n, Among(to, new)) \o CountedHops(n, Among(runnable, bounded)),
       frontier |-> Without(frontier, ToSet(losers)) \o runnable]

Route(s, n, frontier, seeds) ==
  Proceed(s, n, frontier, seeds, Runnable(seeds),
          IF IsRace(seeds) THEN Among(frontier, {t \in ToSet(frontier) : ~IsJoin(t)}) ELSE <<>>)

\* advance_frontier, with the branches that run beside it counted as active.
Advance(s, n, frontier, also) ==
  Route(s, n, frontier,
        Without(SeedSuccessors(s, n, {n} \cup ToSet(frontier) \cup also), ToSet(frontier)))

\* Mutant of Readmit: the heads of the driver that died are not looked for.
ReadmitNone(s, current, frontier, heads) == frontier

\* Mutant of Readmit: a lost head that is a join is taken back before it has decided.
ReadmitAll(s, current, frontier, heads) ==
  frontier \o Among(heads, ToSet(heads) \ ({current} \cup ToSet(frontier)))

\* restore_frontier: the lost heads back on the frontier, a join only once it has decided.
Readmit(s, current, frontier, heads) ==
  LET active == {current} \cup ToSet(frontier) \cup ToSet(heads)
      lost == ToSet(heads) \ ({current} \cup ToSet(frontier))
  IN  frontier \o Among(heads, {h \in lost : IsReady(s, h, active)})

Restore(s, current, frontier) == Readmit(s, current, frontier, PendingHeads(s))

-----------------------------------------------------------------------------
(* The driver. *)

Off == [phase |-> "off", current |-> "start", frontier |-> <<>>, batch |-> <<>>, queue |-> <<>>,
        running |-> {}, ended |-> {}, advanced |-> {}, pipelining |-> TRUE, won |-> FALSE,
        halted |-> FALSE]

Nothing == [k \in Nodes |-> 0]

Init ==
  /\ shape \in DOMAIN Graphs
  /\ state = [nodes |-> [n \in Nodes |-> "pending"], started |-> Nothing, finished |-> Nothing,
              runs |-> Nothing, hops |-> [p \in Pairs |-> 0], counts |-> [p \in Pairs |-> 0],
              refused |-> {}, last |-> "none", run |-> "running", seq |-> 0]
  /\ drive = [Off EXCEPT !.phase = "turn"]
  /\ asked = "no"
  /\ crashes = 0
  /\ pauses = 0

\* One step of the drive: its records, each durable as it is appended, then its memory.
Write(log, next) ==
  /\ UNCHANGED <<shape, asked, pauses>>
  /\ \/ /\ state' = Fold(state, log)
        /\ drive' = next
        /\ UNCHANGED crashes
     \/ /\ crashes < MaxCrashes[shape]
        /\ \E k \in 1 .. Len(log) - 1 : state' = Fold(state, SubSeq(log, 1, k))
        /\ drive' = Off
        /\ crashes' = crashes + 1

Crash ==
  /\ drive.phase # "off"
  /\ crashes < MaxCrashes[shape]
  /\ drive' = Off
  /\ crashes' = crashes + 1
  /\ UNCHANGED <<shape, state, asked, pauses>>

AskPause ==
  /\ drive.phase # "off"
  /\ asked = "no"
  /\ pauses < MaxPauses[shape]
  /\ asked' \in {"soft", "now"}
  /\ pauses' = pauses + 1
  /\ UNCHANGED <<shape, state, drive, crashes>>

\* The watcher thread reads the pause while nodes run: no new member, and under `now` a kill.
Notice ==
  /\ drive.phase \in {"node", "batch"}
  /\ asked # "no"
  /\ ~drive.halted
  /\ drive' = [drive EXCEPT !.halted = TRUE]
  /\ UNCHANGED <<shape, state, asked, crashes, pauses>>

AtTurn == drive.phase = "turn" /\ asked = "no"

\* The control scan at the top of a turn: the driver lets go of the paused run.
ApplyPause ==
  /\ drive.phase = "turn"
  /\ asked # "no"
  /\ state' = Fold(state, <<RunIs(IF asked = "now" THEN "paused_now" ELSE "paused")>>)
  /\ drive' = Off
  /\ asked' = "no"
  /\ UNCHANGED <<shape, crashes, pauses>>

\* A failure carried past only by unconditional edges: no success may be reported over it.
UnhandledFailure(s) ==
  \E n \in Nodes :
    LET left == {t \in Nodes : <<n, t>> \in Pairs /\ s.hops[<<n, t>>] > s.finished[n]}
    IN  /\ s.nodes[n] = "failed"
        /\ left # {}
        /\ \A t \in left : ~IsExplicit(t)
        /\ \A e \in Edges : e.from = n /\ e.to \in left => e.on = "always"

ReachFinish ==
  /\ AtTurn
  /\ drive.current \in Graph.finish
  /\ Write(<<NodeFinished(drive.current, "succeeded"),
             RunIs(IF drive.current \in Graph.failure \/ UnhandledFailure(state)
                   THEN "failed" ELSE "succeeded")>>,
           Off)

\* The tail of a node or a batch: the next head, or no way on.
NextHead(log, frontier) ==
  IF frontier = <<>>
  THEN Write(log \o <<RunIs("failed")>>, Off)
  ELSE Write(log, [Off EXCEPT !.phase = "turn", !.current = Head(frontier),
                              !.frontier = Tail(frontier), !.halted = drive.halted])

Batchable(nodes) == {t \in nodes : IsBatchable(t)}
Members == <<drive.current>> \o Among(drive.frontier, Batchable(ToSet(drive.frontier)))
FormsBatch == IsBatchable(drive.current) /\ Len(Members) >= 2 /\ MaxParallel >= 2

-----------------------------------------------------------------------------
(* The sequential arm. *)

\* What follows a node's finish: its edges, or the end of a run with a refusal nobody takes.
AfterAlone(log) ==
  LET now == Fold(state, log)
      n == drive.current
      adv == Advance(now, n, drive.frontier, {})
  IN  IF n \in now.refused /\ Successors(now, n) = <<>>
      THEN Write(log \o WriteOff(drive.frontier) \o <<RunIs("failed")>>, Off)
      ELSE NextHead(log \o adv.log, adv.frontier)

Verdict(n) == Readiness(state, n, {n} \cup ToSet(drive.frontier))
Barred(n) == IsJoin(n) /\ Verdict(n) \in {"failure", "refused"}

\* A join whose verdict is against it is not run: it fails on the spot.
FailBarrier ==
  /\ AtTurn
  /\ drive.current \notin Graph.finish
  /\ ~FormsBatch
  /\ Barred(drive.current)
  /\ AfterAlone(<<NodeStarted(drive.current)>>
                \o (IF Verdict(drive.current) = "refused" THEN <<JoinRefused(drive.current)>> ELSE <<>>)
                \o <<NodeFinished(drive.current, "failed")>>)

RunAlone ==
  /\ AtTurn
  /\ drive.current \notin Graph.finish
  /\ ~FormsBatch
  /\ ~Barred(drive.current)
  /\ Write(<<NodeStarted(drive.current)>>, [drive EXCEPT !.phase = "node"])

\* How a node that ran may end; the graph names the tasks that may fail.
Outcomes(n) == IF n \in Graph.fallible THEN {"succeeded", "failed"} ELSE {"succeeded"}

AloneEnds ==
  /\ drive.phase = "node"
  /\ \E status \in Outcomes(drive.current) : AfterAlone(<<NodeFinished(drive.current, status)>>)

\* `--now`: the attempt is killed and the node left unfinished, for a resume to run again.
AloneInterrupted ==
  /\ drive.phase = "node"
  /\ drive.current \in Graph.tasks
  /\ drive.halted
  /\ asked = "now"
  /\ Write(<<>>, [drive EXCEPT !.phase = "turn"])

-----------------------------------------------------------------------------
(* The concurrent batch. *)

FormBatch ==
  /\ AtTurn
  /\ FormsBatch
  /\ Write(<<>>, [Off EXCEPT !.phase = "batch", !.current = drive.current, !.batch = Members,
                            !.queue = Members, !.frontier = Without(drive.frontier, ToSet(Members)),
                            !.halted = drive.halted])

HasSlot == Cardinality(drive.running) < MaxParallel /\ drive.queue # <<>>
NextMember == Head(drive.queue)

WriteOffMember ==
  /\ drive.phase = "batch"
  /\ HasSlot
  /\ drive.won
  /\ Write(WrittenOff(NextMember), [drive EXCEPT !.queue = Tail(@), !.ended = @ \cup {NextMember}])

\* A pause: the members that never started are forgotten, not written off.
StopAdmitting ==
  /\ drive.phase = "batch"
  /\ HasSlot
  /\ ~drive.won
  /\ drive.halted
  /\ Write(<<>>, [drive EXCEPT !.queue = <<>>])

Admit ==
  /\ drive.phase = "batch"
  /\ HasSlot
  /\ ~drive.won
  /\ ~drive.halted
  /\ Write(<<NodeStarted(NextMember)>>,
           [drive EXCEPT !.queue = Tail(@), !.running = @ \cup {NextMember}])

FeedsReadyAny(s, n, d) ==
  \E t \in ToSet(Successors(s, n)) :
    JoinKind(t) = "any" /\ Readiness(s, t, {n} \cup ToSet(d.frontier) \cup ToSet(d.batch)) = "success"

\* Mutant of Grow: the successors are queued without being entered in the batch.
GrowQueueOnly(n, d, log, routed) ==
  LET admitted == Among(routed, Batchable(ToSet(routed)))
  IN  [log |-> log, drive |-> [d EXCEPT !.advanced = @ \cup {n}, !.frontier = Without(routed, ToSet(admitted)),
                                        !.queue = @ \o admitted]]

\* A routed member's batchable successors join the batch, while it still has siblings.
Grow(n, d, log, routed) ==
  LET unended == {m \in ToSet(d.batch) : m # n /\ m \notin d.ended}
      fit == {t \in Batchable(ToSet(routed)) \ ToSet(d.batch) : Reach(t) \cap unended = {}}
      admitted == IF d.running # {} \/ d.queue # <<>> THEN Among(routed, fit) ELSE <<>>
  IN  [log |-> log,
       drive |-> [d EXCEPT !.advanced = @ \cup {n}, !.frontier = Without(routed, ToSet(admitted)),
                           !.batch = @ \o admitted, !.queue = @ \o admitted]]

\* pipeline_member: a success routed at once, beside the members still owed.
Pipeline(s, n, d) ==
  LET me == CHOOSE i \in DOMAIN d.batch : d.batch[i] = n
      after == {d.batch[i] : i \in {k \in DOMAIN d.batch : k > me}}
      later == Among(d.batch, ((ToSet(d.batch) \ d.ended) \cup after) \ ({n} \cup ToSet(d.frontier)))
      grow(adv) == Grow(n, d, adv.log, Without(adv.frontier, ToSet(later)))
  IN  grow(Advance(s, n, d.frontier \o later, ToSet(d.batch)))

MemberReports == drive.phase = "batch" /\ ~HasSlot

MemberEnds ==
  /\ MemberReports
  /\ \E n \in drive.running :
       \E status \in Outcomes(n) \cup (IF drive.won THEN {"cancelled"} ELSE {}) :
         LET finish == <<NodeFinished(n, status)>>
             s == Fold(state, finish)
             d == [drive EXCEPT !.running = @ \ {n}, !.ended = @ \cup {n},
                                !.pipelining = @ /\ status \in {"succeeded", "cancelled"}]
             racing == \E e \in ToSet(SelectedEdges(s, n, FALSE)) : JoinKind(e.to) = "any"
             goOn(piped) == Write(finish \o piped.log, piped.drive)
         IN  IF status = "succeeded" /\ FeedsReadyAny(s, n, d) THEN Write(finish, [d EXCEPT !.won = TRUE])
             ELSE IF status = "succeeded" /\ d.pipelining /\ ~d.won /\ ~d.halted /\ ~racing
             THEN goOn(Pipeline(s, n, d))
             ELSE Write(finish, d)

MemberInterrupted ==
  /\ MemberReports
  /\ drive.halted
  /\ asked = "now"
  /\ ~drive.won
  /\ \E n \in drive.running : Write(<<>>, [drive EXCEPT !.running = @ \ {n}])

\* One member routed after others, past the frontier they left.
AdvanceNext(s, batch, acc, m) ==
  LET adv == Advance(s, m, acc.frontier, ToSet(batch))
  IN  [log |-> acc.log \o adv.log, frontier |-> adv.frontier]

\* The members a batch routes at its end, each against the state the batch left.
AdvanceAll(s, members, batch, frontier) ==
  FoldLeft(LAMBDA acc, m : AdvanceNext(s, batch, acc, m), [log |-> <<>>, frontier |-> frontier], members)

\* A join an edge delivered into, ready now that the siblings ended.
Offer(s, batch, acc, e) ==
  IF /\ IsJoin(e.to)
     /\ e.to \notin ToSet(acc.frontier) \cup ToSet(batch)
     /\ s.started[e.to] <= s.finished[e.from]
     /\ IsReady(s, e.to, {e.from} \cup ToSet(acc.frontier) \cup ToSet(batch))
  THEN [log |-> acc.log \o (IF e.cap > 0 THEN <<CountedHop(e.from, e.to)>> ELSE <<>>),
        frontier |-> acc.frontier \o <<e.to>>]
  ELSE acc

OfferAll(s, batch, tail, edges) == FoldLeft(LAMBDA acc, e : Offer(s, batch, acc, e), tail, edges)

\* reoffer_joins: what the members routed while the batch went on selected, offered again.
Reoffer(s, advanced, batch, tail) ==
  LET members == Among(batch, advanced)
  IN  OfferAll(s, batch, tail, FlattenSeq([i \in DOMAIN members |-> SelectedEdges(s, members[i], FALSE)]))

\* Mutant of BatchOver: a batch is over once one of its members has ended.
BatchOverOnceEnded == drive.phase = "batch" /\ drive.queue = <<>> /\ drive.running = {} /\ drive.ended # {}

BatchOver == drive.phase = "batch" /\ drive.queue = <<>> /\ drive.running = {}

\* A batch a pause cut short goes back to the control scan, which ends the drive.
BatchHalts ==
  /\ BatchOver
  /\ drive.halted
  /\ Write(<<>>, [drive EXCEPT !.phase = "turn"])

BatchEnds ==
  /\ BatchOver
  /\ ~drive.halted
  /\ LET rest == Among(drive.batch, {m \in drive.ended \ drive.advanced : state.nodes[m] # "cancelled"})
         reoffered(tail) == IF drive.advanced = {} THEN tail
                            ELSE Reoffer(Fold(state, tail.log), drive.advanced, drive.batch, tail)
         next(done) == NextHead(done.log, done.frontier)
     IN  next(reoffered(AdvanceAll(state, rest, drive.batch, drive.frontier)))

-----------------------------------------------------------------------------
(* The automatic resume of a paused run, or of one whose driver died. *)

IsPaused == state.run \in {"paused", "paused_now"}
Interrupted == Among(Graph.nodes, {n \in Nodes : state.nodes[n] = "running"})

\* Mutant of Plan: the last node that finished runs again.
PlanReruns ==
  [node |-> IF Interrupted # <<>> THEN Head(Interrupted)
            ELSE IF state.last # "none" THEN state.last
            ELSE "start",
   mode |-> "rerun"]

\* plan_resume: the node to start at and whether it runs again; "none" when it is refused.
Plan ==
  LET rerun(n) == [node |-> n, mode |-> "rerun"]
  IN  CASE IsPaused /\ \A n \in Nodes : state.nodes[n] = "pending" -> rerun("start")
        [] Len(Interrupted) = 1 -> rerun(Head(Interrupted))
        [] Interrupted = <<>> /\ state.last # "none" -> [node |-> state.last, mode |-> "after"]
        [] Len(Interrupted) > 1 /\ state.run = "paused_now" -> rerun(Head(Interrupted))
        [] OTHER -> rerun(state.last)

\* Mutant of NothingReady: the other heads of the paused run are not looked at.
NoSuccessorReady(n, heads, active) == SeedSuccessors(state, n, active) = <<>>

\* Past a finished node there must be something to run, or another head a clean pause left.
NothingReady(n, heads, active) ==
  /\ SeedSuccessors(state, n, active) = <<>>
  /\ ~(IsPaused /\ \E h \in heads \ {n} : IsReady(state, h, active))

CannotGoOn(plan, heads) ==
  \/ plan.node = "none"
  \/ plan.mode = "after" /\ NothingReady(plan.node, heads, {plan.node} \cup heads)

IsRefused == CannotGoOn(Plan, ToSet(PendingHeads(state)))

CanResume == drive.phase = "off" /\ state.run \notin {"succeeded", "failed"} /\ ~IsRefused

\* drive's entry: the seeds of the resume point, and the other heads beside the first of them.
Seeds(s, plan) ==
  IF plan.mode = "after" THEN Advance(s, plan.node, <<>>, ToSet(PendingHeads(s)))
  ELSE [log |-> <<>>, frontier |-> <<plan.node>>]

Enter(s, log, seeds) ==
  Write(<<RunIs("running")>> \o log,
        [Off EXCEPT !.phase = "turn", !.current = Head(seeds),
                    !.frontier = Restore(s, Head(seeds), Tail(seeds))])

Resume ==
  /\ CanResume
  /\ LET entry == Fold(state, <<RunIs("running")>>)
         first(node, adv) == IF adv.frontier = <<>> THEN Restore(entry, node, <<>>) ELSE adv.frontier
         enter(plan, adv) == Enter(entry, adv.log, first(plan.node, adv))
         from(plan) == enter(plan, Seeds(entry, plan))
     IN  from(Plan)

DriveStep ==
  \/ ApplyPause \/ ReachFinish
  \/ RunAlone \/ FailBarrier \/ AloneEnds \/ AloneInterrupted
  \/ FormBatch \/ Admit \/ StopAdmitting \/ WriteOffMember
  \/ MemberEnds \/ MemberInterrupted \/ BatchHalts \/ BatchEnds

Next == DriveStep \/ AskPause \/ Notice \/ Crash \/ Resume

Spec == Init /\ [][Next]_vars

\* When the driver can take a step: at a turn, when a node or a member reports, at a batch's end.
CanStep ==
  \/ drive.phase \in {"turn", "node"}
  \/ drive.phase = "batch" /\ (HasSlot \/ drive.running # {} \/ BatchOver)

\* A live driver goes on and a run that can be resumed is resumed: weak fairness of both, with
\* what enables them spelt out.
FairSpec ==
  /\ Spec
  /\ []<>~CanStep \/ []<><<DriveStep>>_vars
  /\ []<>~CanResume \/ []<><<Resume>>_vars

-----------------------------------------------------------------------------
(* Properties. *)

Statuses == {"pending", "running", "succeeded", "failed", "cancelled"}

FinalStatuses == {"succeeded", "failed", "cancelled"}
RunStatuses == {"running", "paused", "paused_now", "succeeded", "failed"}

\* What the journal folds to.
RunStates ==
  [nodes: [Nodes -> Statuses], started: [Nodes -> Nat], finished: [Nodes -> Nat], runs: [Nodes -> Nat],
   hops: [Pairs -> Nat], counts: [Pairs -> Nat], refused: SUBSET Nodes, last: Nodes \cup {"none"},
   run: RunStatuses, seq: Nat]

\* What the driver holds in memory.
Memories ==
  [phase: {"off", "turn", "node", "batch"}, current: Nodes, frontier: Seq(Nodes), batch: Seq(Nodes),
   queue: Seq(Nodes), running: SUBSET Nodes, ended: SUBSET Nodes, advanced: SUBSET Nodes,
   pipelining: BOOLEAN, won: BOOLEAN, halted: BOOLEAN]

\* The fold and the driver's memory stay within their types.
TypeOK ==
  /\ shape \in DOMAIN Graphs
  /\ state \in RunStates
  /\ drive \in Memories
  /\ asked \in {"no", "soft", "now"}
  /\ crashes \in Nat /\ pauses \in Nat

\* No head is driven twice at once: the frontier, the batch and its queue hold a node at most
\* once, a member waits, runs or has ended, and no more members run than the playbook allows.
HeadsAreDistinct ==
  /\ IsInjective(drive.frontier) /\ IsInjective(drive.batch) /\ IsInjective(drive.queue)
  /\ drive.phase \in {"turn", "node"} /\ ~drive.halted => drive.current \notin ToSet(drive.frontier)
  /\ UNION {ToSet(drive.queue), drive.running, drive.ended} \subseteq ToSet(drive.batch)
  /\ ToSet(drive.queue) \cap drive.running = {} /\ ToSet(drive.queue) \cap drive.ended = {}
  /\ drive.running \cap drive.ended = {} /\ drive.advanced \subseteq drive.ended
  /\ ~drive.halted => ToSet(drive.batch) \subseteq ToSet(drive.queue) \cup drive.running \cup drive.ended
  /\ Cardinality(drive.running) <= MaxParallel

\* What the driver waits for is running in the journal, and what it saw end has finished there.
RunningFits ==
  /\ drive.phase = "node" => state.nodes[drive.current] = "running"
  /\ \A n \in drive.running : state.nodes[n] = "running"
  /\ \A n \in drive.ended : state.finished[n] > 0

\* Only a run in progress is driven, and a pause stops its admissions only once it was asked for.
DrivenFits ==
  /\ drive.phase # "off" => state.run = "running"
  /\ drive.phase = "off" => drive = Off
  /\ drive.halted => asked # "no"

\* Where the run may be: the start node, and what an edge of a node that finished leads to.
Invitees == {"start"} \cup {e.to : e \in {d \in Edges : state.finished[d.from] > 0}}

\* Nothing runs that no finished node leads to, whatever a pause, a crash or a race dropped and
\* a resume rebuilt: what the journal started or finished, and every head, was invited.
OnlyInvited ==
  /\ \A n \in Nodes : state.started[n] > 0 \/ state.finished[n] > 0 => n \in Invitees
  /\ drive.phase # "off" =>
       {drive.current} \cup ToSet(drive.frontier) \cup ToSet(drive.batch) \subseteq Invitees

\* A node reads as over only once it finished, and so does the one a resume goes on from.
FinishesAreRecorded ==
  /\ \A n \in Nodes : IsFinished(state, n) => state.finished[n] > 0
  /\ \A n \in Nodes : state.nodes[n] = "running" => state.started[n] > 0
  /\ state.last # "none" => state.finished[state.last] > 0

\* No bounded edge is taken more often than its cap, also when a resume routes its source again.
LoopsAreBounded ==
  \A p \in Pairs : state.counts[p] > 0 =>
    \E e \in Edges : e.from = p[1] /\ e.to = p[2] /\ state.counts[p] <= e.cap

\* What the run relies on, whatever the playbook: the conjunction is inductive.
DriveInv ==
  /\ TypeOK /\ HeadsAreDistinct /\ RunningFits /\ DrivenFits
  /\ OnlyInvited /\ FinishesAreRecorded /\ LoopsAreBounded

Heads == {drive.current} \cup ToSet(drive.frontier)

\* Where the journal says the run went next, and that has not started since.
Owed(t) == \E n \in Nodes : <<n, t>> \in Pairs /\ state.hops[<<n, t>>] > state.started[t]

RunningJoins == {j \in Nodes : state.nodes[j] = "running" /\ JoinKind(j) \in {"implicit", "all"}}

\* While a join runs (implicit, or `join: all`) no work the run has begun or has been sent to
\* leads to it: no branch arrives late, whatever the batch, the pause or the resume did.
JoinsWait ==
  \A j \in RunningJoins : \A m \in Nodes \ {j} :
    state.nodes[m] = "running" \/ Owed(m) => j \notin Reach(m)

\* What a fork starts whenever it finishes: nodes entered from it, or from one another, only and always.
Branches ==
  [g \in DOMAIN Graphs |->
    LET into(m) == {e \in ToSet(Graphs[g].edges) : e.to = m}
        within(seen) == {m \in ToSet(Graphs[g].nodes) :
                           into(m) # {} /\ \A e \in into(m) : e.from \in seen /\ e.on = "always"}
    IN  [f \in ToSet(Graphs[g].nodes) |->
           FoldLeft(LAMBDA seen, k : seen \cup within(seen), {f}, Graphs[g].nodes) \ {f}]]

\* A join runs on the results of its own round: each branch of the fork finished after the fork
\* last did, so a loop never runs the join on what a branch delivered a round before.
RoundsAreWhole ==
  \A j \in RunningJoins : \A f \in Nodes : \A m \in Branches[shape][f] :
    (\E e \in Edges : e.from = m /\ e.to = j /\ e.on = "always") => state.finished[f] < state.finished[m]

\* No head is lost: what the journal sent the run to and does not synchronize is in the driver's
\* memory at every turn, also in that of a driver that rebuilt it after a pause or a crash.
NothingIsForgotten ==
  AtTurn => \A t \in Nodes : Owed(t) /\ ~IsJoin(t) => t \in Heads

\* A run fails for a reason: a finish it reached, or a node whose outcome nothing takes; never
\* because the joins left were all waiting for one another or for a branch long gone.
DeadEndsAreReal ==
  state.run = "failed" =>
    \/ \E n \in Graph.finish : state.finished[n] > 0
    \/ \E n \in Nodes : state.nodes[n] \in {"succeeded", "failed"} /\ Successors(state, n) = <<>>

\* A paused run can be resumed without an operator naming a node.
PausesAreResumable == drive.phase = "off" /\ IsPaused => ~IsRefused

\* Without a loop and without a crash no node's work is done twice.
RunsOnce ==
  (crashes = 0 /\ \A e \in Edges : e.from \notin Reach(e.to)) => \A n \in Nodes : state.runs[n] <= 1

\* A run whose driver does not die reaches its end, through its pauses and its loops.
RunsEnd == <>(state.run \in {"succeeded", "failed"} \/ crashes > 0)

\* A join something was delivered into runs, is the next to run, or has a branch still to come:
\* the manual promises that it never waits for a branch that cannot arrive any more.
NoJoinWaitsForever ==
  AtTurn => \A j \in Nodes : Owed(j) /\ IsJoin(j) => \E h \in Heads : j \in Reach(h)
=============================================================================
