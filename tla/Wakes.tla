-------------------------------- MODULE Wakes --------------------------------
(***************************************************************************)
(* Runs that wait without a driver, and who wakes them: delayed retries    *)
(* and the drive that releases its run over them (scheduler/deferred.rs,   *)
(* scheduler.rs), pauses with an `until` (pause/request.rs), the wakers    *)
(* and their leases (waker.rs, pause/waker.rs, pause/probe.rs), the passes *)
(* of `apb resume --all` (pause/resume_all.rs) and the resumes all of them *)
(* start (scheduler/resume.rs).                                            *)
(*                                                                         *)
(* One run.  A wait is the run_paused or drive_released in force, and is   *)
(* named by its seq; seqs count only the events a wait or a resume is      *)
(* compared by.  Times are what is left of them, so that no clock runs     *)
(* away: `left` of the wait, and of each delay while the run is not        *)
(* paused.  A process that ended may start again as another one.  What a   *)
(* stop, a pause, a release or run_resumed does under the run's event lock *)
(* is one step.                                                            *)
(***************************************************************************)
EXTENDS Integers, FiniteSetsExt

CONSTANTS
  Nodes,         \* nodes that fail and are tried again after a delay
  Delay,         \* how long each waits
  ReleaseAfter,  \* RELEASE_AFTER: a shorter wait is slept through
  Drivers,       \* processes that drive the run or are started to
  First,         \* the one that started it
  Wakers,        \* `apb __pause-waker` processes
  Passes,        \* `apb resume --all` processes
  OtherRun,      \* another run of the same working tree
  Nobody         \* no process

\* Bounds of the model: retries of a node, the time of a pause, how often
\* people ask, the other run starts, a quota holds on, and a process dies.
CONSTANTS MaxRetries, PauseFor, MaxAsks, MaxOther, MaxQuota, MaxCrashes

CONSTANT Refusals  \* whether a resume may be refused for another reason than the lock

ASSUME DelayAssumption == Delay \in [Nodes -> Nat \ {0}]
ASSUME DriverAssumption == First \in Drivers
ASSUME ProcessAssumption ==
  /\ Drivers \cap Wakers = {} /\ Drivers \cap Passes = {} /\ Wakers \cap Passes = {}
  /\ {OtherRun, Nobody} \cap (Drivers \cup Wakers \cup Passes) = {}
  /\ OtherRun # Nobody
ASSUME BoundAssumption ==
  /\ {ReleaseAfter, MaxRetries, PauseFor, MaxAsks, MaxOther, MaxQuota, MaxCrashes} \subseteq Nat
  /\ Refusals \in BOOLEAN

VARIABLES
  node,       \* each node: where it is, the delay left and its retries
  status,     \* the run's status, folded from its journal
  wait,       \* the seq of the pause or release in force, or 0
  left,       \* the time until it wakes the run, or Never
  life,       \* the seq of the latest lifecycle event (lifecycle_seq)
  last,       \* the latest seq
  control,    \* stops and pauses posted and not applied
  driverPid,  \* driver.pid
  lock,       \* whom the busy lock names
  pc,         \* where each process is
  local,      \* what each process remembers
  spent,      \* how much of each bound is used up
  lost        \* history: the wait, and the stop or pause, that `apb resume` is left with

run == <<status, wait, left, life, last>>
vars == <<node, run, control, driverPid, lock, pc, local, spent, lost>>

Watchers == Wakers \cup Passes
Processes == Drivers \cup Watchers

Never == -1

Fresh == [hold |-> 0, plan |-> 0, now |-> FALSE, child |-> Nobody, paused |-> FALSE]

Stopping == [kind |-> "stop", time |-> Never]
Pausing(time) == [kind |-> "pause", time |-> time]

Init ==
  /\ node = [n \in Nodes |-> [at |-> "ready", left |-> 0, tries |-> 0]]
  /\ status = "running" /\ wait = 0 /\ left = Never /\ life = 1 /\ last = 1
  /\ control = {} /\ driverPid = First /\ lock = First
  /\ pc = [p \in Processes |-> IF p = First THEN "top" ELSE "off"]
  /\ local = [p \in Processes |-> Fresh]
  /\ spent = [asks |-> 0, other |-> 0, quota |-> 0, crashes |-> 0]
  /\ lost = [wait |-> 0, news |-> FALSE]

-----------------------------------------------------------------------------
(* What every process reads *)

Alive(p) == p = OtherRun \/ (p \in Processes /\ pc[p] # "off")

DriverAlive == driverPid # Nobody /\ Alive(driverPid)

Busy == lock # Nobody /\ Alive(lock)

Terminal == status \in {"aborted", "finished"}

Released == status = "running" /\ wait # 0

\* Deferrals that are open, and those of them not due yet (held).
Open == {n \in Nodes : node[n].at \in {"waiting", "urged"}}
Held == {n \in Nodes : node[n].at = "waiting" /\ node[n].left > 0}
Urged == {n \in Nodes : node[n].at = "urged"}

\* The wake time of the first of them.
Earliest == Min({node[n].left : n \in Held})

\* release_wake, and the until of a pause: whether the wait in force is over.
Due == left = 0 \/ (Released /\ Urged # {})

\* WakeHold::holds, for a resume that may be nobody's in particular.
Holds(p) == local[p].hold \in {0, wait}

\* Lease: whether somebody has the one of the wait s.
Leased(s) ==
  \E p \in Watchers : local[p].hold = s /\ pc[p] \in {"asleep", "waking", "sweeping", "watching"}

-----------------------------------------------------------------------------
(* Steps that several processes take *)

Spend(what) == spent' = [spent EXCEPT ![what] = @ + 1]

Goto(p, at) == pc' = [pc EXCEPT ![p] = at] /\ UNCHANGED local

Ends(p) == pc' = [pc EXCEPT ![p] = "off"] /\ local' = [local EXCEPT ![p] = Fresh]

\* A lifecycle event; a pause starts a wait of its own.
Enters(s, time) ==
  /\ status' = s
  /\ last' = last + 1 /\ life' = last + 1
  /\ wait' = IF s = "paused" THEN last + 1 ELSE 0
  /\ left' = time

\* An event of a node: the release it follows is over.
NodeEvent ==
  /\ wait' = IF Released THEN 0 ELSE wait
  /\ left' = IF Released THEN Never ELSE left
  /\ UNCHANGED <<status, life, last>>

\* p gives up: the wait it was for is left to `apb resume`.
Loses(p) == lost' = [lost EXCEPT !.wait = IF local[p].hold = wait THEN wait ELSE @]

\* A driver that ends before it drives takes with it what was posted to it.
TurnsAway(d) == lost' = [lost EXCEPT !.news = @ \/ control # {} \/ Urged # {}]

\* Turned away by the busy lock, after the process that started it was told
\* that it runs: the wait is lost as well.
Bounces(d) == lost' = [wait |-> IF local[d].hold = wait THEN wait ELSE lost.wait,
                       news |-> lost.news \/ control # {} \/ Urged # {}]

\* waker::spawn, `then` being where everybody else is afterwards: nothing
\* while the lease is held.  Asking whether it is takes it for a moment, and
\* wakers still starting may find it taken and give up.
SpawnWaker(s, then) ==
  IF Leased(s)
  THEN pc' = then /\ local' = [q \in Processes |-> IF then[q] = "off" THEN Fresh ELSE local[q]]
  ELSE \E w \in Wakers, late \in SUBSET {v \in Wakers : pc[v] = "starting" /\ local[v].hold = s} :
         /\ pc[w] = "off"
         /\ pc' = [q \in Processes |-> IF q = w THEN "starting"
                                       ELSE IF q \in late THEN "off" ELSE then[q]]
         /\ local' = [q \in Processes |-> IF q = w THEN [Fresh EXCEPT !.hold = s]
                                          ELSE IF pc'[q] = "off" THEN Fresh ELSE local[q]]

\* resume_detached by p: with the busy lock free, the driver is spawned and
\* named.  A process whose pid nothing names any more can be that driver.
Launch(d, hold, now, p) ==
  /\ ~Busy
  /\ pc[d] = "off" /\ driverPid # d /\ lock # d /\ \A q \in Watchers : local[q].child # d
  /\ pc' = [q \in Processes |-> IF q = d THEN "launched"
                                ELSE IF q # p THEN pc[q]
                                ELSE IF hold = 0 THEN "off" ELSE "watching"]
  /\ local' = [q \in Processes |-> IF q = d THEN [Fresh EXCEPT !.hold = hold, !.now = now]
                                   ELSE IF q # p THEN local[q]
                                   ELSE IF hold = 0 THEN Fresh ELSE [local[q] EXCEPT !.child = d]]
  /\ driverPid' = d

-----------------------------------------------------------------------------
(* A resume's driver, until it drives *)

\* resume_inner_checked: the wait it is for still holds the run, and the
\* lifecycle it plans against is read.
Plan(d) ==
  /\ pc[d] = "launched"
  /\ \/ /\ Holds(d) /\ status # "finished" /\ UNCHANGED lost
        /\ pc' = [pc EXCEPT ![d] = "planned"] /\ local' = [local EXCEPT ![d].plan = life]
     \/ ~(Holds(d) /\ status # "finished") /\ Ends(d) /\ TurnsAway(d)
  /\ UNCHANGED <<node, run, control, driverPid, lock, spent>>

\* The busy lock, after one more look at the wait.
TakeLock(d) ==
  /\ pc[d] = "planned"
  /\ \/ Holds(d) /\ ~Busy /\ Goto(d, "locked") /\ lock' = d /\ UNCHANGED lost
     \/ ~(Holds(d) /\ ~Busy) /\ Ends(d) /\ UNCHANGED lock /\ Bounces(d)
  /\ UNCHANGED <<node, run, control, driverPid, spent>>

\* A bug: run_resumed is journaled without another look at the journal.
AdmitUnread(d) ==
  /\ pc[d] = "locked"
  /\ Enters("running", Never) /\ Goto(d, "entering")
  /\ UNCHANGED <<node, lock, lost, control, driverPid, spent>>

\* journal_resumed under the event lock: nothing moved the lifecycle since
\* the plan, and the wait still holds the run.  A retry-now makes every
\* deferral due.
Admit(d) ==
  /\ pc[d] = "locked"
  /\ IF Holds(d) /\ life = local[d].plan
     THEN /\ Enters("running", Never) /\ Goto(d, "entering")
          /\ node' = [n \in Nodes |-> IF local[d].now /\ node[n].at = "waiting"
                                      THEN [node[n] EXCEPT !.at = "urged", !.left = 0] ELSE node[n]]
          /\ lost' = [lost EXCEPT !.news = FALSE] /\ UNCHANGED lock
     ELSE Ends(d) /\ lock' = Nobody /\ TurnsAway(d) /\ UNCHANGED <<node, run>>
  /\ UNCHANGED <<control, driverPid, spent>>

Claim(d) ==
  /\ pc[d] = "entering" /\ Goto(d, "top") /\ driverPid' = d
  /\ UNCHANGED <<node, run, control, lock, spent, lost>>

-----------------------------------------------------------------------------
(* The drive *)

\* scan_control: a stop or a pause ends the drive.
Scan(d) ==
  /\ pc[d] = "top"
  /\ \/ control = {} /\ Goto(d, "turn") /\ UNCHANGED <<run, control>>
     \/ \E c \in control :
          /\ control' = control \ {c}
          /\ Enters(IF c.kind = "stop" THEN "aborted" ELSE "paused", c.time)
          /\ pc' = [pc EXCEPT ![d] = "leaving"]
          /\ local' = [local EXCEPT ![d].paused = c.kind = "pause"]
  /\ UNCHANGED <<node, driverPid, lock, spent, lost>>

\* What may run at this turn: a node a dead driver left running goes first.
Runnable ==
  LET cut == {n \in Nodes : node[n].at = "running"}
  IN  IF cut # {} THEN cut ELSE {n \in Nodes : node[n].at # "done"} \ Held

Attempt(d, n) ==
  /\ pc[d] = "turn" /\ n \in Runnable
  /\ node' = [node EXCEPT ![n].at = "running", ![n].left = 0]
  /\ NodeEvent /\ Goto(d, "working")
  /\ UNCHANGED <<control, driverPid, lock, spent, lost>>

\* The attempt succeeds, or fails for good, or is deferred.
EndAttempt(d, n) ==
  /\ pc[d] = "working" /\ node[n].at = "running"
  /\ \/ node' = [node EXCEPT ![n].at = "done"] /\ UNCHANGED run
     \/ /\ node[n].tries < MaxRetries
        /\ node' = [node EXCEPT ![n] = [at |-> "waiting", left |-> Delay[n], tries |-> @.tries + 1]]
        /\ NodeEvent
  /\ Goto(d, "top")
  /\ UNCHANGED <<control, driverPid, lock, spent, lost>>

\* hold and may_release: with nothing to run but retries that wait, a long
\* wait is tried to be released, a short one slept through.
Rest(d) ==
  /\ pc[d] = "turn" /\ Runnable = {} /\ Held # {}
  /\ Goto(d, IF Earliest > ReleaseAfter THEN "releasing" ELSE "top")
  /\ UNCHANGED <<node, run, control, driverPid, lock, spent, lost>>

\* A bug: the release does not look again at what came in.
ReleaseUnread(d) ==
  /\ pc[d] = "releasing" /\ Held # {}
  /\ last' = last + 1 /\ wait' = last + 1 /\ left' = Earliest
  /\ lock' = Nobody /\ driverPid' = Nobody
  /\ Goto(d, "released") /\ UNCHANGED <<status, life, node, control, spent, lost>>

\* A bug: the driver lets go of its claim only when it exits.
ReleaseLate(d) ==
  /\ pc[d] = "releasing" /\ control = {} /\ Held # {} /\ Held = Open
  /\ last' = last + 1 /\ wait' = last + 1 /\ left' = Earliest
  /\ Goto(d, "released")
  /\ UNCHANGED <<status, life, lock, driverPid, node, control, spent, lost>>

\* try_release, under the event lock: nothing came in since the drive looked.
\* The busy lock and driver.pid go before the event lock does.
Release(d) ==
  /\ pc[d] = "releasing"
  /\ IF control = {} /\ Held # {} /\ Held = Open
     THEN /\ last' = last + 1 /\ wait' = last + 1 /\ left' = Earliest
          /\ lock' = Nobody /\ driverPid' = Nobody
          /\ Goto(d, "released") /\ UNCHANGED <<status, life>>
     ELSE Goto(d, "top") /\ UNCHANGED <<run, lock, driverPid>>
  /\ UNCHANGED <<node, control, spent, lost>>

Finish(d) ==
  /\ pc[d] = "turn" /\ \A n \in Nodes : node[n].at = "done"
  /\ Enters("finished", Never) /\ Goto(d, "leaving")
  /\ UNCHANGED <<node, control, driverPid, lock, spent, lost>>

\* drive_inner returns, and its claim goes with it.
Leave(d) ==
  /\ pc[d] = "leaving" /\ Goto(d, "parting") /\ driverPid' = Nobody
  /\ UNCHANGED <<node, run, control, lock, spent, lost>>

\* after_pause: the waker of the pause the journal has by now.
Part(d) ==
  /\ pc[d] = "parting"
  /\ IF local[d].paused /\ status = "paused" /\ left # Never
     THEN SpawnWaker(wait, [pc EXCEPT ![d] = "exiting"])
     ELSE Goto(d, "exiting")
  /\ UNCHANGED <<node, run, control, driverPid, lock, spent, lost>>

\* The process goes, and the lock it still has with it.
Exit(d) ==
  /\ pc[d] = "exiting" /\ Ends(d)
  /\ lock' = IF lock = d THEN Nobody ELSE lock
  /\ UNCHANGED <<node, run, control, driverPid, spent, lost>>

\* after_release: a waker for the release, or for the pause that replaced it.
AfterRelease(d) ==
  /\ pc[d] = "released"
  /\ IF status \in {"running", "paused"} /\ wait # 0 /\ left # Never
     THEN SpawnWaker(wait, [pc EXCEPT ![d] = "exiting"])
     ELSE Goto(d, "exiting")
  /\ UNCHANGED <<node, run, control, driverPid, lock, spent, lost>>

-----------------------------------------------------------------------------
(* Wakers: run_waker and run_release_waker *)

\* The lease, or nothing.
Start(w) ==
  /\ pc[w] = "starting"
  /\ IF Leased(local[w].hold) THEN Ends(w) ELSE Goto(w, "asleep")
  /\ UNCHANGED <<node, run, control, driverPid, lock, spent, lost>>

\* A bug: the waker looks for its pause, and a release is none.
RouseFromPauses(w) ==
  /\ pc[w] = "asleep"
  /\ \/ wait # local[w].hold /\ Ends(w)
     \/ wait = local[w].hold /\ status = "paused" /\ Due /\ Goto(w, "waking")
  /\ UNCHANGED <<node, run, control, driverPid, lock, spent, lost>>

\* The wait is over, or was replaced.
Rouse(w) ==
  /\ pc[w] = "asleep"
  /\ \/ wait # local[w].hold /\ Ends(w)
     \/ wait = local[w].hold /\ Due /\ Goto(w, "waking")
  /\ UNCHANGED <<node, run, control, driverPid, lock, spent, lost>>

\* journal_outcome of a probe that met the quota again: a new pause.
Repauses ==
  /\ status = "paused" /\ spent.quota < MaxQuota
  /\ Enters("paused", PauseFor) /\ Spend("quota")

\* probe_before_wake: the waker goes on with the new pause.
Repause(w) ==
  /\ pc[w] = "asleep" /\ wait = local[w].hold /\ left = 0
  /\ Repauses
  /\ pc' = [pc EXCEPT ![w] = "starting"] /\ local' = [local EXCEPT ![w].hold = last + 1]
  /\ UNCHANGED <<node, control, driverPid, lock, lost>>

\* A bug: a busy lock is a refusal like another.
WakeOnce(w) ==
  /\ pc[w] = "waking"
  /\ \/ wait # local[w].hold \/ Busy
     \/ Refusals
  /\ Ends(w)
  /\ UNCHANGED <<node, run, control, lock, spent, driverPid, lost>>

\* resume_while: a driver is started once the lock is free.
Wake(w) ==
  /\ pc[w] = "waking"
  /\ \/ wait # local[w].hold /\ Ends(w) /\ UNCHANGED <<driverPid, lost>>
     \/ /\ wait = local[w].hold /\ UNCHANGED lost
        /\ \E d \in Drivers : Launch(d, wait, FALSE, w)
     \/ wait = local[w].hold /\ Refusals /\ Ends(w) /\ Loses(w) /\ UNCHANGED driverPid
  /\ UNCHANGED <<node, run, control, lock, spent>>

\* await_takeover: until the driver took the run over or ended, and a minute
\* at the most, which says nothing of how far the driver is.
Watch(p) ==
  /\ pc[p] = "watching" /\ Ends(p)
  /\ UNCHANGED <<node, run, control, driverPid, lock, spent, lost>>

-----------------------------------------------------------------------------
(* Passes: resume_all_as on this run *)

\* What the pass reads of the run: a wait that lasts gets its waker back, one
\* that is over is for this pass, and so is a run whose driver is gone.
Look(p) ==
  /\ pc[p] = "off" /\ spent.asks < MaxAsks /\ Spend("asks")
  /\ \/ status = "paused" \/ (status = "running" /\ ~DriverAlive)
  /\ IF wait # 0 /\ ~Due THEN left # Never /\ SpawnWaker(wait, pc)
     ELSE /\ pc' = [pc EXCEPT ![p] = IF wait = 0 THEN "sweeping" ELSE "looking"]
          /\ local' = [local EXCEPT ![p] = [Fresh EXCEPT !.hold = wait, !.paused = status = "paused"]]
  /\ UNCHANGED <<node, run, control, driverPid, lock, lost>>

\* The lease of the wait, or its waker is resuming it.
TakeLease(p) ==
  /\ pc[p] = "looking"
  /\ IF Leased(local[p].hold) THEN Ends(p) ELSE Goto(p, "sweeping")
  /\ UNCHANGED <<node, run, control, driverPid, lock, spent, lost>>

\* The probe of a quota pause before it.
Probe(p) ==
  /\ pc[p] = "sweeping" /\ local[p].paused /\ wait = local[p].hold
  /\ Repauses
  /\ SpawnWaker(last + 1, [pc EXCEPT ![p] = "off"])
  /\ UNCHANGED <<node, control, driverPid, lock, lost>>

\* A busy lock leaves the run to the next pass, and its lease with it.
Sweep(p) ==
  /\ pc[p] = "sweeping"
  /\ \/ (\E d \in Drivers : Launch(d, local[p].hold, FALSE, p)) /\ UNCHANGED lost
     \/ Busy /\ Ends(p) /\ Loses(p) /\ UNCHANGED driverPid
  /\ UNCHANGED <<node, run, control, lock, spent>>

\* Another refusal: mark_driverless journals a pause without another look at
\* a run it read as running.
Mark(p) ==
  /\ pc[p] = "sweeping" /\ Refusals /\ Ends(p) /\ Loses(p)
  /\ IF local[p].paused THEN UNCHANGED run ELSE Enters("paused", Never)
  /\ UNCHANGED <<node, control, driverPid, lock, spent>>

-----------------------------------------------------------------------------
(* People, other runs, time, and processes that die *)

\* stop_run: posted, and journaled here if nothing drives the run.
Stop ==
  /\ spent.asks < MaxAsks /\ Spend("asks")
  /\ ~Terminal
  /\ control' = control \cup {Stopping}
  /\ IF DriverAlive THEN UNCHANGED run ELSE Enters("aborted", Never)
  /\ UNCHANGED <<node, driverPid, lock, pc, local, lost>>

\* request_pause: posted to a live driver of a run that is not released.
Pause(time) ==
  /\ spent.asks < MaxAsks /\ Spend("asks")
  /\ ~Terminal
  /\ \/ /\ status # "paused" /\ ~Released /\ DriverAlive
        /\ control' = control \cup {Pausing(time)}
        /\ UNCHANGED <<run, pc, local>>
     \/ /\ ~(status # "paused" /\ ~Released /\ DriverAlive)
        /\ Enters("paused", time) /\ UNCHANGED control
        /\ IF time = Never THEN UNCHANGED <<pc, local>> ELSE SpawnWaker(last + 1, pc)
  /\ UNCHANGED <<node, driverPid, lock, lost>>

\* expedite_live: one deferral of a run that a live driver holds, or each.
RetryNow ==
  /\ spent.asks < MaxAsks /\ Spend("asks")
  /\ status = "running" /\ ~Released /\ DriverAlive
  /\ \E which \in SUBSET {n \in Nodes : node[n].at = "waiting"} \ {{}} :
       node' = [n \in Nodes |-> IF n \in which THEN [node[n] EXCEPT !.at = "urged", !.left = 0]
                                ELSE node[n]]
  /\ UNCHANGED <<run, control, driverPid, lock, pc, local, lost>>

\* `apb resume`, with the retries that wait started now or not.
Resume(d, now) ==
  /\ spent.asks < MaxAsks /\ Spend("asks")
  /\ status # "finished" /\ Launch(d, 0, now, Nobody)
  /\ UNCHANGED <<node, run, control, lock, lost>>

OtherTakes ==
  /\ ~Busy /\ spent.other < MaxOther /\ Spend("other") /\ lock' = OtherRun
  /\ UNCHANGED <<node, run, control, driverPid, pc, local, lost>>

OtherLeaves ==
  /\ lock = OtherRun /\ lock' = Nobody
  /\ UNCHANGED <<node, run, control, driverPid, pc, local, spent, lost>>

\* A bug: a delay that is over goes on counting (no saturating_sub).
TickOn ==
  /\ ~Terminal /\ (left > 0 \/ (status # "paused" /\ Open # {}))
  /\ left' = IF left > 0 THEN left - 1 ELSE left
  /\ node' = IF status = "paused" THEN node
             ELSE [n \in Nodes |-> IF n \in Open THEN [node[n] EXCEPT !.left = @ - 1] ELSE node[n]]
  /\ UNCHANGED <<status, wait, life, last, control, driverPid, lock, pc, local, spent, lost>>

\* Delays stand still while the run is paused (active_elapsed_ms).
Tick ==
  /\ ~Terminal /\ (left > 0 \/ (status # "paused" /\ Held # {}))
  /\ left' = IF left > 0 THEN left - 1 ELSE left
  /\ node' = IF status = "paused" THEN node
             ELSE [n \in Nodes |-> IF n \in Held THEN [node[n] EXCEPT !.left = @ - 1] ELSE node[n]]
  /\ UNCHANGED <<status, wait, life, last, control, driverPid, lock, pc, local, spent, lost>>

\* The lock and driver.pid still name it.
Crash(p) ==
  /\ pc[p] # "off" /\ spent.crashes < MaxCrashes /\ Spend("crashes")
  /\ Ends(p) /\ lost' = [wait |-> wait, news |-> TRUE]
  /\ UNCHANGED <<node, run, control, driverPid, lock>>

-----------------------------------------------------------------------------

Driver(d) ==
  \/ Plan(d) \/ TakeLock(d) \/ Admit(d) \/ Claim(d)
  \/ Scan(d) \/ Rest(d) \/ Release(d) \/ Finish(d)
  \/ Leave(d) \/ Part(d) \/ Exit(d) \/ AfterRelease(d)

Agent(d) == \E n \in Nodes : Attempt(d, n) \/ EndAttempt(d, n)

Waker(w) == Start(w) \/ Rouse(w) \/ Repause(w) \/ Wake(w) \/ Watch(w)

Pass(p) == TakeLease(p) \/ Probe(p) \/ Sweep(p) \/ Mark(p) \/ Watch(p)

Person ==
  \/ Stop \/ RetryNow
  \/ \E time \in {PauseFor, Never} : Pause(time)
  \/ \E d \in Drivers, now \in BOOLEAN : Resume(d, now)
  \/ \E p \in Passes : Look(p)

Next ==
  \/ \E d \in Drivers : Driver(d) \/ Agent(d)
  \/ \E w \in Wakers : Waker(w)
  \/ \E p \in Passes : Pass(p)
  \/ Person \/ OtherTakes \/ OtherLeaves \/ Tick
  \/ \E p \in Processes : Crash(p)

Spec == Init /\ [][Next]_vars

\* Processes that were started go on, the clock too, and a run of the same
\* tree ends.  Nothing is assumed of agents and people.
FairSpec ==
  /\ Spec
  /\ \A d \in Drivers : WF_vars(Driver(d))
  /\ \A w \in Wakers : WF_vars(Waker(w))
  /\ \A p \in Passes : WF_vars(Pass(p))
  /\ WF_vars(Tick) /\ WF_vars(OtherLeaves)

-----------------------------------------------------------------------------
(* Properties *)

Preparing == {"launched", "planned", "locked"}
Driving == {"entering", "top", "turn", "working", "releasing"}
Departing == {"leaving", "parting", "released", "exiting"}
DriverPlaces == {"off"} \cup Preparing \cup Driving \cup Departing
WakerPlaces == {"off", "starting", "asleep", "waking", "watching"}
PassPlaces == {"off", "looking", "sweeping", "watching"}

Statuses == {"running", "paused", "aborted", "finished"}

\* Types: what the journal folds to, what the files name, and where each
\* process can be.
TypeOK ==
  /\ node \in [Nodes -> [at : {"ready", "running", "waiting", "urged", "done"},
                         left : Nat, tries : 0..MaxRetries]]
  /\ status \in Statuses /\ {wait, life, last} \subseteq Nat /\ left \in Nat \cup {Never}
  /\ control \subseteq {Stopping} \cup {Pausing(time) : time \in {PauseFor, Never}}
  /\ driverPid \in Drivers \cup {Nobody} /\ lock \in Drivers \cup {OtherRun, Nobody}
  /\ pc \in [Processes -> DriverPlaces \cup WakerPlaces \cup PassPlaces]
  /\ \A d \in Drivers : pc[d] \in DriverPlaces
  /\ \A w \in Wakers : pc[w] \in WakerPlaces
  /\ \A p \in Passes : pc[p] \in PassPlaces
  /\ local \in [Processes -> [hold : Nat, plan : Nat, now : BOOLEAN,
                              child : Drivers \cup {Nobody}, paused : BOOLEAN]]
  /\ spent \in [asks : 0..MaxAsks, other : 0..MaxOther, quota : 0..MaxQuota, crashes : 0..MaxCrashes]
  /\ lost \in [wait : Nat, news : BOOLEAN]

\* "whoever decides under that lock next (a stop, a pause, a retry-now, a
\* resume) finds a run nothing drives" (try_release): a released run has no
\* driver that still moves it, and driver.pid names none but one on its way
\* in; and a run is driven by one process at a time, the one its lock names.
ReleasedIsUndriven ==
  \A d \in Drivers :
    /\ pc[d] \in Driving => lock = d /\ ~Released
    /\ Released /\ driverPid = d => pc[d] \in Preparing \cup {"off"}

\* A stop, a pause or a retry-now that was posted to a running run is going to
\* be read: its driver did not let go of the run over it.  Only a process that
\* dies or a resume that is turned away leaves it behind.
NewsHasAReader ==
  status = "running" /\ (control # {} \/ Urged # {}) /\ ~lost.news =>
    \E d \in Drivers : pc[d] \in Preparing \cup Driving

\* A pause with an `until` and a release have somebody who wakes the run: a
\* waker, a pass, the driver that is about to start one, or the driver of the
\* resume.  Only a process that dies, a refusal, and a pass or a started
\* driver that met a busy lock leave it to `apb resume`.
WaitIsWatched ==
  wait # 0 /\ left # Never /\ lost.wait # wait =>
    \/ \E p \in Watchers : local[p].hold = wait /\ pc[p] \notin {"off", "looking"}
    \/ \E d \in Drivers : local[d].hold = wait /\ pc[d] \in Preparing
    \/ \E d \in Drivers : pc[d] = "released" \/ (local[d].paused /\ pc[d] \in {"leaving", "parting"})

\* The engine resumes a run from the wait it waited for, while that wait is in
\* force, and not before its time: never from a pause that replaced it, nor a
\* run that was stopped or resumed meanwhile.  So no two wakers resume a run
\* from one wait.
WokenInTime ==
  [][\A d \in Drivers :
       pc[d] = "locked" /\ pc'[d] = "entering" /\ local[d].hold # 0
         => wait = local[d].hold /\ Due]_vars

\* A run does not wait for ever: what is not left to `apb resume` ends, though
\* another run has the tree when the time comes, or the quota still holds.
EveryWaitEnds ==
  []<>(\/ wait = 0 \/ left = Never \/ lost.wait = wait
       \/ \E d \in Drivers : pc[d] \in Driving)
=============================================================================
