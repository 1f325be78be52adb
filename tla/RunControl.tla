----------------------------- MODULE RunControl -----------------------------
(***************************************************************************)
(* Who moves a run: the control queue its commands wait in (control.rs),   *)
(* the drive loop that scans it between nodes (scheduler/control_apply.rs, *)
(* scheduler/supervisor.rs), stop and pause requests from other processes  *)
(* (stop.rs, pause/request.rs), resumes (scheduler/resume.rs), the         *)
(* driver.pid claim (driver.rs) and the busy lock of the working tree      *)
(* (workdir.rs).                                                           *)
(*                                                                         *)
(* One run, started and driven by First; the other Drivers are resumes of  *)
(* it.  A process is a pid and drives at most once.  Each client makes one *)
(* request.  stop, pause and resume take the run's event lock; the drive   *)
(* loop and the plain posters of commands do not, so every read of theirs  *)
(* is a step of its own.  A seq is the 0-based one of the code plus one,   *)
(* and cursor 0 is the missing control.cursor.                             *)
(***************************************************************************)
EXTENDS Naturals, Sequences, FiniteSetsExt

CONSTANTS
  Drivers,     \* processes that drive the run
  First,       \* the driver that started it
  Detached,    \* the resumes that drive in a process of their own
  Granted,     \* those of them that are handed a launch grant
  Clients,     \* processes that ask something of the run
  Job,         \* what each client asks
  TakesLock,   \* whether the run takes the working tree's busy lock
  Supervised,  \* whether a failed node waits for a command
  OtherRun,    \* a second run of the same working tree
  Nobody       \* no process

CONSTANT MaxCrashes  \* a bound of the model

Jobs == {"note", "retry", "engine_pause", "cancel", "stop", "pause", "pause_keep"}

ASSUME DriverAssumption ==
  First \in Drivers /\ Detached \subseteq Drivers \ {First} /\ Granted \subseteq Detached
ASSUME ProcessAssumption ==
  /\ Drivers \cap Clients = {}
  /\ {OtherRun, Nobody, "parked"} \cap (Drivers \cup Clients) = {}
  /\ OtherRun # Nobody /\ "parked" \notin {OtherRun, Nobody}
ASSUME JobAssumption == Job \in [Clients -> Jobs]
ASSUME ModeAssumption == TakesLock \in BOOLEAN /\ Supervised \in BOOLEAN
ASSUME CrashAssumption == MaxCrashes \in Nat

VARIABLES
  queue,      \* control.jsonl
  cursor,     \* control.cursor
  journal,    \* the events of the run this module is about
  driverPid,  \* driver.pid
  workdir,    \* whom the busy lock names: a process, "parked" (this run) or Nobody
  eventLock,  \* who holds events.jsonl.lock
  pc,         \* where each process is
  local       \* what each process remembers

vars == <<queue, cursor, journal, driverPid, workdir, eventLock, pc, local>>

Processes == Drivers \cup Clients

Fresh == [read |-> 0, mem |-> 0, base |-> 0, batch |-> {}, taking |-> 0,
          next |-> "idle", cancel |-> FALSE, hopped |-> FALSE, keep |-> FALSE,
          paused |-> FALSE, failed |-> FALSE, unnamed |-> FALSE]

-----------------------------------------------------------------------------
(* The journal and the locks, as every process reads them *)

Ended == {"aborted", "finished", "failed"}

Lifecycle == {"started", "paused", "resumed"} \cup Ended

LifeEvents == {i \in DOMAIN journal : journal[i].kind \in Lifecycle}

LatestLife == Max(LifeEvents)

Status == journal[LatestLife].kind

\* Whether the run's latest pause asked to keep the lock (latest_pause).
LatestKeep ==
  LET pauses == {i \in DOMAIN journal : journal[i].kind = "paused"} IN
  pauses # {} /\ journal[Max(pauses)].keep

Event(kind, of, keep) == [kind |-> kind, of |-> of, keep |-> keep]

Alive(p) == p = OtherRun \/ (p \in Processes /\ pc[p] \notin {"idle", "gone", "dead"})

\* driver_alive: whether driver.pid names a live process.
DriverAlive == driverPid # Nobody /\ Alive(driverPid)

Terminal == Status \in Ended

\* busy_reason: whether the busy lock is not free for this run.
BusyForUs == workdir \notin {Nobody, "parked"} /\ Alive(workdir)

BusyForOther ==
  \/ workdir = "parked" /\ ~Terminal
  \/ workdir \notin {Nobody, "parked"} /\ Alive(workdir)

Goto(p, at) == pc' = [pc EXCEPT ![p] = at]

Unread(seq) == {i \in DOMAIN queue : queue[i].seq > seq}

Append1(event) == journal' = Append(journal, event)

-----------------------------------------------------------------------------
(* The drive loop *)

DriveOnly == UNCHANGED <<queue, driverPid, workdir, eventLock>>

\* scan_control reads the pending entries once.
Scan(p) ==
  /\ pc[p] = "top"
  /\ Goto(p, "scanning")
  /\ local' = [local EXCEPT ![p].batch = Unread(local[p].mem)]
  /\ DriveOnly /\ UNCHANGED <<cursor, journal>>

ScanDone(p) ==
  /\ pc[p] = "scanning"
  /\ local[p].batch = {}
  /\ Goto(p, "ready")
  /\ DriveOnly /\ UNCHANGED <<cursor, journal, local>>

\* await_control reads again and again until something is pending.
Await(p) ==
  /\ pc[p] = "answering"
  /\ local[p].batch = {}
  /\ Unread(local[p].mem) # {}
  /\ local' = [local EXCEPT ![p].batch = Unread(local[p].mem)]
  /\ DriveOnly /\ UNCHANGED <<cursor, journal, pc>>

\* The event an entry is journaled as, and where the loop goes after it.
EventOf(i) ==
  CASE queue[i].cmd = "note" -> Event("noted", i, FALSE)
    [] queue[i].cmd = "pause" -> Event("paused", i, queue[i].keep)
    [] queue[i].cmd = "abort" -> Event("aborted", i, FALSE)

Taking(p, i, at) ==
  /\ Goto(p, "consuming")
  /\ local' = [local EXCEPT ![p].taking = i, ![p].next = at]

\* A note, a pause or an abort: the effect is journaled first.
Apply(p) ==
  /\ pc[p] \in {"scanning", "answering"}
  /\ local[p].batch # {}
  /\ LET i == Min(local[p].batch) IN
       /\ queue[i].cmd # "retry"
       /\ Append1(EventOf(i))
       /\ Taking(p, i, IF queue[i].cmd = "note" THEN pc[p] ELSE "left")
  /\ DriveOnly /\ UNCHANGED cursor

\* A retry answers a wake; one past a gate nobody passed is refused.
Answer(p) ==
  /\ pc[p] = "answering"
  /\ local[p].batch # {}
  /\ LET i == Min(local[p].batch) IN
       /\ queue[i].cmd = "retry"
       /\ \/ Append1(Event("retried", i, FALSE)) /\ Taking(p, i, "top")
          \/ Append1(Event("refused", i, FALSE)) /\ Taking(p, i, "answering")
  /\ DriveOnly /\ UNCHANGED cursor

\* A bug (Phase 4a): the scan moves its cursor past a retry it cannot apply.
PassRetry(p) ==
  /\ pc[p] = "scanning"
  /\ local[p].batch # {}
  /\ queue[Min(local[p].batch)].cmd = "retry"
  /\ Taking(p, Min(local[p].batch), "scanning")
  /\ DriveOnly /\ UNCHANGED <<cursor, journal>>

\* A bug: a scan stuck at a retry never looks at what is behind it.
StuckAtRetry(p) ==
  /\ pc[p] = "scanning"
  /\ local[p].batch # {}
  /\ queue[Min(local[p].batch)].cmd = "retry"
  /\ Goto(p, "ready")
  /\ DriveOnly /\ UNCHANGED <<cursor, journal, local>>

\* Outside a wake a retry blocks the scan, except that the first stop behind it
\* is salvaged: a pause always, an abort once the watcher saw it too.
AtRetry(p) ==
  /\ pc[p] = "scanning"
  /\ local[p].batch # {}
  /\ queue[Min(local[p].batch)].cmd = "retry"
  /\ LET retry == Min(local[p].batch)
         stops == {i \in local[p].batch : queue[i].cmd \in {"pause", "abort"}}
         salvaged == stops # {} /\ (queue[Min(stops)].cmd = "pause" \/ local[p].cancel)
     IN IF salvaged
        THEN /\ journal' = journal \o <<Event("superseded", retry, FALSE), EventOf(Min(stops))>>
             /\ Taking(p, Min(stops), "left")
        ELSE Goto(p, "ready") /\ UNCHANGED <<journal, local>>
  /\ DriveOnly /\ UNCHANGED cursor

\* A bug: only the loop's own cursor moves, control.cursor stays behind.
ConsumeInMemory(p) ==
  /\ pc[p] = "consuming"
  /\ LET i == local[p].taking IN
       local' = [local EXCEPT ![p].mem = queue[i].seq, ![p].batch = @ \ 1..i]
  /\ Goto(p, local[p].next)
  /\ DriveOnly /\ UNCHANGED <<cursor, journal>>

\* A bug: the seq before the entry's is what is written.
ConsumeBehind(p) ==
  /\ pc[p] = "consuming"
  /\ LET i == local[p].taking IN
       /\ cursor' = local[p].mem - 1
       /\ local' = [local EXCEPT ![p].mem = queue[i].seq, ![p].batch = @ \ 1..i,
                                 ![p].paused = (queue[i].cmd = "pause")]
  /\ Goto(p, local[p].next)
  /\ DriveOnly /\ UNCHANGED journal

\* write_control_cursor, after the effect; after a retry the queue is read anew.
Consume(p) ==
  /\ pc[p] = "consuming"
  /\ LET i == local[p].taking IN
       /\ cursor' = queue[i].seq
       /\ local' = [local EXCEPT ![p].mem = queue[i].seq,
                                 ![p].batch = IF queue[i].cmd = "retry" THEN {} ELSE @ \ 1..i,
                                 ![p].paused = (queue[i].cmd = "pause")]
  /\ Goto(p, local[p].next)
  /\ DriveOnly /\ UNCHANGED journal

\* The loop reached a node: a finish ends the run, any other one runs.
StartNode(p) ==
  /\ pc[p] = "ready"
  /\ Goto(p, "working")
  /\ DriveOnly /\ UNCHANGED <<cursor, journal, local>>

EndWith(p, kind) ==
  /\ Append1(Event(kind, 0, FALSE))
  /\ Goto(p, "left")
  /\ local' = [local EXCEPT ![p].paused = (kind = "paused")]

Finish(p) ==
  /\ pc[p] = "ready"
  /\ EndWith(p, "finished")
  /\ DriveOnly /\ UNCHANGED cursor

\* A node ended: a stop that landed meanwhile sends the loop back to the scan
\* once; else the run goes on, waits for its supervisor, pauses itself over an
\* interrupted node, or fails.
EndNode(p) ==
  /\ pc[p] = "working"
  /\ IF local[p].cancel /\ ~local[p].hopped
     THEN /\ Goto(p, "top")
          /\ local' = [local EXCEPT ![p].hopped = TRUE]
          /\ UNCHANGED journal
     ELSE \/ Goto(p, "top") /\ UNCHANGED <<journal, local>>
          \/ /\ Supervised
             /\ Goto(p, "answering")
             /\ local' = [local EXCEPT ![p].batch = {}]
             /\ UNCHANGED journal
          \/ EndWith(p, "paused")
          \/ /\ Goto(p, "left")
             /\ local' = [local EXCEPT ![p].failed = TRUE]
             /\ UNCHANGED journal
  /\ DriveOnly /\ UNCHANGED cursor

InLoop(p) ==
  pc[p] \in {"top", "scanning", "answering", "consuming", "ready", "working"}

\* StopWatcher: it reads after the cursor the drive began with.
Watch(p) ==
  /\ InLoop(p)
  /\ ~local[p].cancel
  /\ \E i \in Unread(local[p].base) : queue[i].cmd = "abort"
  /\ local' = [local EXCEPT ![p].cancel = TRUE]
  /\ DriveOnly /\ UNCHANGED <<cursor, journal, pc>>


-----------------------------------------------------------------------------
(* The end of a drive *)

\* drive_inner returns: the claim's guard removes driver.pid.
Leave(p) ==
  /\ pc[p] = "left"
  /\ driverPid' = Nobody
  /\ Goto(p, IF local[p].failed THEN "failing" ELSE "leaving")
  /\ UNCHANGED <<queue, cursor, journal, workdir, eventLock, local>>

\* drive: a failed drive journals its end once drive_inner has returned.
Fail(p) ==
  /\ pc[p] = "failing"
  /\ Append1(Event("failed", 0, FALSE))
  /\ Goto(p, "leaving")
  /\ UNCHANGED <<queue, cursor, driverPid, workdir, eventLock, local>>

\* after_pause reads whether the latest pause keeps the lock.
ReadKeep(p) ==
  /\ pc[p] = "leaving"
  /\ local[p].paused
  /\ local' = [local EXCEPT ![p].keep = LatestKeep]
  /\ Goto(p, "parking")
  /\ UNCHANGED <<queue, cursor, journal, driverPid, workdir, eventLock>>

DropGuard(p) == workdir' = IF workdir = p THEN Nobody ELSE workdir

Park(p) ==
  /\ pc[p] = "parking"
  /\ IF local[p].keep /\ TakesLock THEN workdir' = "parked" ELSE DropGuard(p)
  /\ Goto(p, "gone")
  /\ UNCHANGED <<queue, cursor, journal, driverPid, eventLock, local>>

Exit(p) ==
  /\ pc[p] = "leaving"
  /\ ~local[p].paused
  /\ DropGuard(p)
  /\ Goto(p, "gone")
  /\ UNCHANGED <<queue, cursor, journal, driverPid, eventLock, local>>

\* The process dies where it stands; a lock it held is stolen as stale.
Crash(p) ==
  /\ Alive(p)
  /\ Cardinality({d \in Drivers : pc[d] = "dead"}) < MaxCrashes
  /\ Goto(p, "dead")
  /\ eventLock' = IF eventLock = p THEN Nobody ELSE eventLock
  /\ UNCHANGED <<queue, cursor, journal, driverPid, workdir, local>>

-----------------------------------------------------------------------------
(* A resume (scheduler/resume.rs) *)

\* resume_detached checks the busy lock, spawns the driver and names it in
\* driver.pid; a full exec takes longer than that.
Clear(p) ==
  /\ pc[p] = "idle"
  /\ p \in Detached
  /\ ~(TakesLock /\ BusyForUs)
  /\ Goto(p, "cleared")
  /\ UNCHANGED <<queue, cursor, journal, driverPid, workdir, eventLock, local>>

Publish(p) ==
  /\ pc[p] = "cleared"
  /\ p \notin Granted
  /\ driverPid' = p
  /\ Goto(p, "launched")
  /\ UNCHANGED <<queue, cursor, journal, workdir, eventLock, local>>

\* A driver that is handed a grant gets past its exec and takes the handoff
\* first: its parent waits for that.
TakeHandoff(p) ==
  /\ pc[p] = "cleared"
  /\ p \in Granted
  /\ local' = [local EXCEPT ![p].unnamed = TRUE]
  /\ Goto(p, "launched")
  /\ UNCHANGED <<queue, cursor, journal, driverPid, workdir, eventLock>>

\* The parent saw that the handoff is gone and names the driver, whatever became
\* of it meanwhile.
PublishLate(p) ==
  /\ p \in Granted
  /\ local[p].unnamed
  /\ driverPid' = p
  /\ local' = [local EXCEPT ![p].unnamed = FALSE]
  /\ UNCHANGED <<queue, cursor, journal, workdir, eventLock, pc>>

Plan(p) ==
  /\ \/ pc[p] = "launched"
     \/ pc[p] = "idle" /\ p \notin Detached
  /\ local' = [local EXCEPT ![p].read = LatestLife]
  /\ Goto(p, "planned")
  /\ UNCHANGED <<queue, cursor, journal, driverPid, workdir, eventLock>>

\* A bug: a resume that takes over a live lock.
AcquireOver(p) ==
  /\ pc[p] = "planned"
  /\ workdir' = IF TakesLock THEN p ELSE workdir
  /\ Goto(p, "holding")
  /\ UNCHANGED <<queue, cursor, journal, driverPid, eventLock, local>>

\* The busy lock comes before run_resumed; a busy one refuses the resume.
Acquire(p) ==
  /\ pc[p] = "planned"
  /\ IF TakesLock /\ BusyForUs
     THEN Goto(p, "gone") /\ UNCHANGED workdir
     ELSE /\ workdir' = IF TakesLock THEN p ELSE workdir
          /\ Goto(p, "holding")
  /\ UNCHANGED <<queue, cursor, journal, driverPid, eventLock, local>>

\* A bug: the lifecycle is not read again under the event lock.
AdmitUnread(p) ==
  /\ pc[p] = "holding"
  /\ eventLock = Nobody
  /\ eventLock' = p
  /\ Goto(p, "admitted")
  /\ UNCHANGED <<queue, cursor, journal, driverPid, workdir, local>>

\* try_journal_resumed: under the event lock, refused once the lifecycle moved.
Admit(p) ==
  /\ pc[p] = "holding"
  /\ eventLock = Nobody
  /\ IF LatestLife = local[p].read
     THEN eventLock' = p /\ Goto(p, "admitted")
     ELSE Goto(p, "refused") /\ UNCHANGED eventLock
  /\ UNCHANGED <<queue, cursor, journal, driverPid, workdir, local>>

Resume(p) ==
  /\ pc[p] = "admitted"
  /\ Append1(Event("resumed", local[p].read, FALSE))
  /\ eventLock' = Nobody
  /\ Goto(p, "entering")
  /\ UNCHANGED <<queue, cursor, driverPid, workdir, local>>

\* A bug: a refused resume only drops its guard.
DropBack(p) ==
  /\ pc[p] = "refused"
  /\ eventLock = Nobody
  /\ DropGuard(p)
  /\ Goto(p, "gone")
  /\ UNCHANGED <<queue, cursor, journal, driverPid, eventLock, local>>

\* give_lock_back: parked again while a pause that keeps it holds the run.
GiveBack(p) ==
  /\ pc[p] = "refused"
  /\ eventLock = Nobody
  /\ IF TakesLock /\ Status = "paused" /\ LatestKeep
     THEN workdir' = "parked" ELSE DropGuard(p)
  /\ Goto(p, "gone")
  /\ UNCHANGED <<queue, cursor, journal, driverPid, eventLock, local>>

\* drive_inner claims driver.pid and starts from the persisted cursor.
Claim(p) ==
  /\ pc[p] = "entering"
  /\ driverPid' = p
  /\ local' = [local EXCEPT ![p].mem = cursor, ![p].base = cursor]
  /\ Goto(p, "top")
  /\ UNCHANGED <<queue, cursor, journal, workdir, eventLock>>

-----------------------------------------------------------------------------
(* The clients *)

ClientOnly == UNCHANGED <<cursor, journal, driverPid, workdir>>

CommandOf(job) ==
  CASE job = "note" -> "note"
    [] job = "retry" -> "retry"
    [] job \in {"engine_pause", "pause", "pause_keep"} -> "pause"
    [] job \in {"cancel", "stop"} -> "abort"

\* post_control counts the entries, then appends one.
Count(c) ==
  /\ \/ pc[c] = "idle" /\ Job[c] \notin {"stop", "pause", "pause_keep"}
     \/ pc[c] \in {"stopping", "pausing"}
  /\ local' = [local EXCEPT ![c].read = Len(queue), ![c].next = pc[c]]
  /\ Goto(c, "posting")
  /\ ClientOnly /\ UNCHANGED <<queue, eventLock>>

Post(c) ==
  /\ pc[c] = "posting"
  /\ queue' = Append(queue, [seq |-> local[c].read + 1, cmd |-> CommandOf(Job[c]),
                             keep |-> Job[c] = "pause_keep"])
  /\ Goto(c, IF local[c].next = "stopping" THEN "asking" ELSE "gone")
  /\ eventLock' = IF eventLock = c /\ local[c].next = "pausing" THEN Nobody ELSE eventLock
  /\ ClientOnly /\ UNCHANGED local

\* stop_run: under the event lock, nothing to do on a run that ended.
Stop(c) ==
  /\ pc[c] = "idle"
  /\ Job[c] = "stop"
  /\ eventLock = Nobody
  /\ IF Terminal THEN Goto(c, "gone") /\ UNCHANGED eventLock
     ELSE Goto(c, "stopping") /\ eventLock' = c
  /\ ClientOnly /\ UNCHANGED <<queue, local>>

\* The abort is posted; a live driver applies it.
StopAsk(c) ==
  /\ pc[c] = "asking"
  /\ IF DriverAlive THEN Goto(c, "gone") /\ eventLock' = Nobody
     ELSE Goto(c, "rereading") /\ UNCHANGED eventLock
  /\ ClientOnly /\ UNCHANGED <<queue, local>>

\* The run ended on its own meanwhile: the stop marks its entry consumed.
StopReread(c) ==
  /\ pc[c] = "rereading"
  /\ IF Terminal
     THEN cursor' = local[c].read + 1 /\ Goto(c, "gone") /\ eventLock' = Nobody
     ELSE Goto(c, "finalizing") /\ UNCHANGED <<cursor, eventLock>>
  /\ UNCHANGED <<queue, journal, driverPid, workdir, local>>

\* A bug: the stop marks what is queued applied, its own entry with it.
FinalizeConsuming(c) ==
  /\ pc[c] = "finalizing"
  /\ Append1(Event("aborted", 0, FALSE))
  /\ cursor' = local[c].read + 1
  /\ eventLock' = Nobody
  /\ Goto(c, "gone")
  /\ UNCHANGED <<queue, driverPid, workdir, local>>

\* The terminal event and nothing else: the next drive reads the abort again.
StopFinalize(c) ==
  /\ pc[c] = "finalizing"
  /\ Append1(Event("aborted", 0, FALSE))
  /\ workdir' = IF workdir = "parked" THEN Nobody ELSE workdir
  /\ eventLock' = Nobody
  /\ Goto(c, "gone")
  /\ UNCHANGED <<queue, cursor, driverPid, local>>

\* request_pause: under the event lock, an error on a run that ended.
Pause(c) ==
  /\ pc[c] = "idle"
  /\ Job[c] \in {"pause", "pause_keep"}
  /\ eventLock = Nobody
  /\ IF Terminal THEN Goto(c, "gone") /\ UNCHANGED eventLock
     ELSE /\ eventLock' = c
          /\ Goto(c, IF Status = "paused" THEN "syncing" ELSE "looking")
  /\ ClientOnly /\ UNCHANGED <<queue, local>>

PauseAsk(c) ==
  /\ pc[c] = "looking"
  /\ Goto(c, IF DriverAlive THEN "pausing" ELSE "syncing")
  /\ ClientOnly /\ UNCHANGED <<queue, eventLock, local>>

\* sync_lock: a lock it cannot park refuses the pause.
PauseSync(c) ==
  /\ pc[c] = "syncing"
  /\ IF Job[c] = "pause_keep" /\ TakesLock
     THEN IF BusyForUs
          THEN Goto(c, "gone") /\ eventLock' = Nobody /\ UNCHANGED workdir
          ELSE workdir' = "parked" /\ Goto(c, "journaling") /\ UNCHANGED eventLock
     ELSE /\ workdir' = IF workdir = "parked" /\ Job[c] = "pause" THEN Nobody ELSE workdir
          /\ Goto(c, "journaling")
          /\ UNCHANGED eventLock
  /\ UNCHANGED <<queue, cursor, journal, driverPid, local>>

PauseJournal(c) ==
  /\ pc[c] = "journaling"
  /\ Append1(Event("paused", 0, Job[c] = "pause_keep"))
  /\ eventLock' = Nobody
  /\ Goto(c, "gone")
  /\ UNCHANGED <<queue, cursor, driverPid, workdir, local>>

\* The other run takes the working tree when it is free to it, and leaves it.
OtherTakes ==
  /\ workdir # OtherRun
  /\ ~BusyForOther
  /\ workdir' = OtherRun
  /\ UNCHANGED <<queue, cursor, journal, driverPid, eventLock, pc, local>>

OtherLeaves ==
  /\ workdir = OtherRun
  /\ workdir' = Nobody
  /\ UNCHANGED <<queue, cursor, journal, driverPid, eventLock, pc, local>>

-----------------------------------------------------------------------------
Init ==
  /\ queue = <<>>
  /\ cursor = 0
  /\ journal = <<Event("started", 0, FALSE)>>
  /\ driverPid = First
  /\ workdir = IF TakesLock THEN First ELSE Nobody
  /\ eventLock = Nobody
  /\ pc = [p \in Processes |-> IF p = First THEN "top" ELSE "idle"]
  /\ local = [p \in Processes |-> Fresh]

Loop(p) ==
  \/ Scan(p) \/ ScanDone(p) \/ Await(p) \/ Apply(p) \/ Answer(p) \/ AtRetry(p)
  \/ Consume(p) \/ StartNode(p) \/ Finish(p) \/ EndNode(p)
  \/ Leave(p) \/ Fail(p) \/ ReadKeep(p) \/ Park(p) \/ Exit(p)

Start(p) ==
  \/ Clear(p) \/ Publish(p) \/ TakeHandoff(p) \/ PublishLate(p) \/ Plan(p) \/ Acquire(p) \/ Admit(p) \/ Resume(p) \/ GiveBack(p) \/ Claim(p)

Ask(c) ==
  \/ Count(c) \/ Post(c)
  \/ Stop(c) \/ StopAsk(c) \/ StopReread(c) \/ StopFinalize(c)
  \/ Pause(c) \/ PauseAsk(c) \/ PauseSync(c) \/ PauseJournal(c)

Next ==
  \/ \E p \in Drivers : Loop(p) \/ Start(p) \/ Watch(p) \/ Crash(p)
  \/ \E c \in Clients : Ask(c)
  \/ OtherTakes \/ OtherLeaves

Spec == Init /\ [][Next]_vars

\* A driver's process keeps running, and so does its watcher thread.
FairSpec == Spec /\ \A p \in Drivers : WF_vars(Loop(p)) /\ WF_vars(Watch(p))

-----------------------------------------------------------------------------
(* Type invariant *)

Commands == {"note", "retry", "pause", "abort"}

Kinds == Lifecycle \cup {"noted", "retried", "refused", "superseded"}

DriverPlaces ==
  {"idle", "cleared", "launched", "planned", "holding", "admitted", "refused", "entering",
   "top", "scanning", "answering", "consuming", "ready", "working",
   "left", "failing", "leaving", "parking", "gone", "dead"}

ClientPlaces ==
  {"idle", "posting", "stopping", "asking", "rereading", "finalizing",
   "looking", "pausing", "syncing", "journaling", "gone"}

Memory ==
  [read : Nat, mem : Nat, base : Nat, batch : SUBSET Nat, taking : Nat,
   next : DriverPlaces \cup ClientPlaces, cancel : BOOLEAN, hopped : BOOLEAN,
   keep : BOOLEAN, paused : BOOLEAN, failed : BOOLEAN, unnamed : BOOLEAN]

\* Every variable holds a value of its kind.
TypeOK ==
  /\ queue \in Seq([seq : Nat, cmd : Commands, keep : BOOLEAN])
  /\ cursor \in Nat
  /\ journal \in Seq([kind : Kinds, of : Nat, keep : BOOLEAN])
  /\ driverPid \in Drivers \cup {Nobody}
  /\ workdir \in Drivers \cup {Nobody, OtherRun, "parked"}
  /\ eventLock \in Processes \cup {Nobody}
  /\ pc \in [Processes -> DriverPlaces \cup ClientPlaces]
  /\ local \in [Processes -> Memory]

-----------------------------------------------------------------------------
(* Properties *)

\* No other post came between this one's count and its append.
Whole(i) == queue[i].seq = i

\* The events journaled for entry i.
EventsOf(i) == {e \in DOMAIN journal : journal[e].of = i /\ journal[e].kind # "resumed"}

Crashed == {p \in Drivers : pc[p] = "dead"}

IsStop(i) == queue[i].cmd \in {"pause", "abort"}

\* What is behind seq x was journaled, or a stop or a pause of the queue passed
\* it over, one that was journaled too or that came to a run that had ended.
Passed(x) ==
  \A i \in DOMAIN queue :
    Whole(i) /\ i <= x =>
      \/ EventsOf(i) # {}
      \/ \E j \in DOMAIN queue :
           /\ j >= i /\ IsStop(j) /\ queue[j].seq <= x
           /\ EventsOf(j) # {} \/ \E e \in LifeEvents : journal[e].kind \in Ended

\* scan_control: a command is never lost to the cursor; what the cursor passes
\* unheard it passes on to a stop or a pause of the queue, which was journaled
\* or came to a run that had ended.
PassedOverOnlyByAStop == Passed(cursor)

AllWhole == \A i \in DOMAIN queue : Whole(i)

Times(i) == Cardinality(EventsOf(i))

\* control.cursor: in a run that takes the busy lock no drive applies an entry
\* again that another one applied, but for the one a crash cut off before its
\* cursor was written.
AppliedOnce ==
  TakesLock /\ AllWhole =>
    \A i \in DOMAIN queue : Times(i) <= 1 + Cardinality(Crashed)

\* journal_resumed: a run_resumed follows the very pause, stop or end it was
\* planned for, although the drive loop journals without the event lock: in a
\* run that takes the busy lock, that lock keeps the loop out of the way.
ResumesWhatItPlanned ==
  TakesLock =>
    \A r \in DOMAIN journal :
      journal[r].kind = "resumed" =>
        journal[r].of = Max({i \in LifeEvents : i < r})

\* The process resumes or drives the run, or is about to leave it.
Holding(p) ==
  pc[p] \in DriverPlaces \ {"idle", "cleared", "launched", "planned", "gone", "dead"}

\* acquire_at, park, WorkdirGuard::drop: a process that resumes or drives the
\* run has the working tree to itself, through parks, crashes and steals.
OneWriter == \A p \in Drivers : TakesLock /\ Holding(p) => workdir = p

NoRetry == \A i \in DOMAIN queue : queue[i].cmd # "retry"

\* stop_run: a driver that driver.pid names starts no node once the run was
\* stopped, whoever wrote the stop, until a resume.  The run takes the busy
\* lock, and neither a retry nor a post that counted the same entries hides the
\* stop: behind a retry the scan gives way only to a stop its watcher saw, and
\* a drive that has just claimed the run may be ahead of its watcher.  A driver
\* that was handed a grant may be named again after a stop saw another name.
NamedDriverHeedsStops ==
  [][TakesLock /\ AllWhole /\ NoRetry =>
       \A p \in Drivers \ Granted :
         pc[p] = "ready" /\ pc'[p] = "working" /\ driverPid = p => ~Terminal]_vars

\* --keep-lock: no other run gets the working tree of a run whose pause keeps
\* it, whichever of its own processes come and go, as long as none crashes,
\* the run never ended and no later pause is just giving the lock up.
KeptLockHolds ==
  (/\ Status = "paused" /\ LatestKeep /\ TakesLock /\ Crashed = {}
   /\ \A i \in LifeEvents : journal[i].kind \notin Ended
   /\ \A c \in Clients : pc[c] = "journaling" => Job[c] = "pause_keep")
     => workdir # OtherRun

\* StopWatcher and scan_control: a stop posted to a driving process ends its
\* drive, although a retry nobody can apply may be queued ahead of it.
StopsLand ==
  \A p \in Drivers, i \in 1..Cardinality(Clients) :
    (/\ i \in DOMAIN queue /\ Whole(i) /\ queue[i].cmd = "abort"
     /\ InLoop(p) /\ local[p].mem < i)
      ~> ~InLoop(p)

(* Why they hold: the inductive invariant, in named parts *)

\* What a driver reads of the queue is there, and the journal begins with the start.
EntriesFit ==
  /\ journal # <<>> /\ journal[1].kind = "started"
  /\ \A p \in Drivers :
       /\ local[p].batch \subseteq DOMAIN queue
       /\ pc[p] = "consuming" =>
            /\ local[p].taking \in DOMAIN queue
            /\ local[p].next \in {"top", "scanning", "answering", "left"}

\* A client between taking the event lock and giving it back.
UnderLock(c) ==
  \/ pc[c] \in ClientPlaces \ {"idle", "posting", "gone"}
  \/ pc[c] = "posting" /\ local[c].next \in {"stopping", "pausing"}

LocksFit ==
  /\ \A c \in Clients : UnderLock(c) => eventLock = c
  /\ \A p \in Drivers : pc[p] = "admitted" => eventLock = p

\* Nothing moved the lifecycle of an admitted resume.
AdmittedFit ==
  TakesLock => \A p \in Drivers : pc[p] = "admitted" => LatestLife = local[p].read

\* A seq is at most its entry's place, and no cursor is beyond the queue.
SeqsFit ==
  /\ \A i \in DOMAIN queue : queue[i].seq \in 1..i
  /\ cursor <= Len(queue)
  /\ \A p \in Drivers : local[p].mem <= Len(queue)
  /\ \A e \in DOMAIN journal : journal[e].kind # "resumed" => journal[e].of <= Len(queue)

\* A client has posted its stop and still holds the event lock.
Stopping(c) == pc[c] \in {"asking", "rereading", "finalizing"}

\* Its entry is in the queue.
StopOf(c) ==
  {j \in DOMAIN queue : /\ j > local[c].read /\ queue[j].seq = local[c].read + 1
                        /\ queue[j].cmd = "abort"}

PostsFit ==
  \A c \in Clients :
    /\ pc[c] = "stopping" => Job[c] = "stop"
    /\ pc[c] = "posting" =>
         local[c].read <= Len(queue) /\ (local[c].next = "stopping" => Job[c] = "stop")
    /\ Stopping(c) => StopOf(c) # {}

\* A drive since its claim: what is behind its cursor and not pending any more
\* was journaled, in the order of the queue but for a stop that is salvaged.
Heard(p) == LET m == local[p] IN
  /\ pc[p] \in {"idle", "cleared", "launched", "planned", "holding", "admitted", "entering"}
       => m.batch = {} /\ ~m.failed
  /\ InLoop(p) =>
       /\ ~m.failed /\ Passed(m.base) /\ m.base <= m.mem
       /\ \A b \in m.batch : b > m.mem /\ queue[b].seq > m.base
       /\ \A i \in DOMAIN queue \ m.batch :
            /\ Whole(i) /\ i > m.base
            /\ i <= m.mem \/ \E b \in m.batch : i <= b
            => EventsOf(i) # {}
  /\ pc[p] = "consuming" =>
       /\ m.taking \in m.batch /\ EventsOf(m.taking) # {}
       /\ \/ \A b \in m.batch : m.taking <= b
          \/ IsStop(m.taking) /\ m.next = "left"

HeardFit == \A p \in Drivers : Heard(p)

\* The driver is on its way to park the lock for the pause it journaled.
WillPark(p) == LET m == local[p] IN
  \/ pc[p] = "consuming" /\ m.next = "left" /\ queue[m.taking].cmd = "pause" /\ ~m.failed
  \/ pc[p] \in {"left", "leaving"} /\ m.paused /\ ~m.failed
  \/ pc[p] = "parking" /\ m.keep

\* A pause that keeps the lock finds it free or parked; from then on it is
\* parked, on its way there, or with a resume that will give it back.
KeptFit ==
  TakesLock /\ Crashed = {} /\ (\A i \in LifeEvents : journal[i].kind \notin Ended) =>
    /\ \A c \in Clients : pc[c] = "journaling" /\ Job[c] = "pause_keep" =>
         workdir = "parked" \/ \E p \in Drivers : workdir = p /\ pc[p] = "holding"
    /\ /\ Status = "paused" /\ LatestKeep
       /\ \A c \in Clients : pc[c] = "journaling" => Job[c] = "pause_keep"
       => \/ workdir = "parked"
          \/ \E p \in Drivers :
               workdir = p /\ (pc[p] \in {"holding", "admitted", "refused"} \/ WillPark(p))

\* With no two entries of one seq, a batch has no gaps, and an entry that a
\* drive has not passed was journaled at most once for every crash.
Counted(p) == LET m == local[p] IN
  InLoop(p) =>
    /\ m.mem <= cursor
    /\ \A b \in m.batch, i \in DOMAIN queue : m.mem < i /\ i < b => i \in m.batch
    /\ \A i \in DOMAIN queue :
         i > (IF pc[p] = "consuming" THEN m.taking ELSE m.mem) => Times(i) <= Cardinality(Crashed)

CountFit ==
  /\ IsFiniteSet(Crashed)
  /\ TakesLock /\ AllWhole =>
       /\ \A p \in Drivers : Counted(p)
       /\ (\A p \in Drivers : pc[p] # "consuming") =>
            \A i \in DOMAIN queue : i > cursor => Times(i) <= Cardinality(Crashed)
       /\ \A i \in DOMAIN queue : Times(i) <= 1 + Cardinality(Crashed)

\* The driver is not past the entry of a stop.
IsAhead(p, stop) == LET m == local[p] IN
  /\ pc[p] = "entering" => cursor < stop
  /\ InLoop(p) => m.mem < stop
  /\ pc[p] = "consuming" => m.taking <= stop /\ (m.taking = stop => m.next = "left")

\* No cursor is past such a stop.
AheadFit ==
  TakesLock /\ AllWhole =>
    \A c \in Clients : Stopping(c) =>
      /\ cursor <= local[c].read + 1
      /\ \A p \in Drivers : IsAhead(p, local[c].read + 1)

\* The driver's scan has a stop before it, or it is leaving for one.
Obeying(p) == LET m == local[p] IN
  \/ pc[p] = "consuming" /\ m.next = "left"
  \/ \E stop \in DOMAIN queue :
       /\ queue[stop].cmd = "abort" /\ stop > m.mem
       /\ \/ pc[p] = "top"
          \/ pc[p] = "scanning" /\ stop \in m.batch
          \/ pc[p] = "consuming" /\ m.next = "scanning" /\ stop \in m.batch /\ stop > m.taking

OnStop(c) ==
  pc[c] = "stopping" \/ (pc[c] = "posting" /\ local[c].next = "stopping") \/ Stopping(c)

\* A stop under way finds a driver that it did not see at its start: it scans
\* the stop before it starts a node.
Named(p) ==
  /\ /\ InLoop(p) /\ driverPid = p
     /\ Terminal \/ \E c \in Clients : pc[c] \in {"rereading", "finalizing"}
     => Obeying(p)
  /\ pc[p] = "entering" /\ Terminal =>
       /\ \E stop \in DOMAIN queue : queue[stop].cmd = "abort" /\ stop > cursor
       /\ \A c \in Clients : ~OnStop(c)

NamedFit == TakesLock /\ AllWhole /\ NoRetry => \A p \in Drivers \ Granted : Named(p)

\* Who may write what.
OwnersInv ==
  /\ TypeOK /\ EntriesFit /\ LocksFit
  /\ OneWriter /\ AdmittedFit /\ ResumesWhatItPlanned

\* And what the queue, the cursors and a kept lock come to.
RunInv ==
  /\ OwnersInv
  /\ SeqsFit /\ PostsFit /\ HeardFit /\ PassedOverOnlyByAStop /\ KeptFit
  /\ CountFit /\ AheadFit /\ NamedFit

(* What documentation and comments say, and the code does not do. *)

\* docs/MCP.md: pausing a finished run is an error.
NoPauseOfAnEndedRun ==
  \A i \in DOMAIN journal :
    journal[i].kind = "paused" =>
      journal[Max({j \in LifeEvents : j < i})].kind \notin Ended

\* control.rs: a cursor of N says that every entry up to N was applied, so a
\* driver about to start a node of a run no stop ended has no abort behind it.
CursorCoversApplied ==
  \A p \in Drivers, i \in DOMAIN queue :
    pc[p] = "ready" /\ queue[i].cmd = "abort" /\ queue[i].seq <= local[p].mem =>
      EventsOf(i) # {} \/ \E e \in LifeEvents : journal[e].kind \in Ended
=============================================================================
