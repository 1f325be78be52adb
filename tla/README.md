# Agentic playbooks: a TLA+ model of its engine

A playbook is a graph of nodes (agents, scripts, gates, publishes, sub-playbooks).
A run of it lives in a directory `.apb/runs/<id>`; any number of processes read
and write that directory: the driver that moves the run, commands that stop,
pause, resume or annotate it, agents of the run that call connectors, and wakers.
There is no server that orders them. What keeps a run correct is a handful of
files and the order in which they are read and written: the journal
`events.jsonl`, the command queue `control.jsonl` with its `control.cursor`, the
claim `driver.pid`, the busy lock of the working tree, and the journal lock.
This project models that coordination.

## Inventory

Paths are below `src/crates/apb-engine/src/` unless they begin with `src/`.

| Component | State | Operations | What makes it correct |
|---|---|---|---|
| Send-intent ledger (`connector/intent`) | `send_intent` / `send_settled` events, folded into records with links | admit, settle, resolve by a person, effective state, chain and send verdicts, effect scope | a send takes effect once unless somebody allowed a repeat; what is settled is true; repeats of one send form a line |
| Send-once gate (`connector/call/send_once.rs`) | one call between its steps | gate, decide under the journal lock, reconcile outside it, finish | one sender per chain at a time; a lookup never settles what it cannot know; a send in flight ends |
| Connector call path (`connector/call`) | the attempt's claim, `connector_call` events | bind, budget, prepare, dispatch, append | only the current attempt sends; the call budget |
| Push (`publish/intent.rs`, `publish/push.rs`) | a ref-mode intent | admit, push, read back | no read back while the push may still move the ref |
| Control queue (`control.rs`, `scheduler/control_apply.rs`) | `control.jsonl`, `control.cursor` | post, scan, apply, salvage, consume | no command lost, none applied by two drives, discards visible |
| Stop and pause (`stop.rs`, `pause/request.rs`) | the run's end or pause in the journal | stop, watch, pause, park the lock | a stop ends the run once and is heeded; a pause only of a run that goes on; the lock follows the pause |
| Resume (`scheduler/resume.rs`) | plan, `run_resumed` | plan, take the lock, journal, give back | it follows the lifecycle it was planned for; a refusal changes nothing |
| Driver claim (`driver.rs`, `liveness.rs`) | `driver.pid` | claim, publish, drop, probe | the file names the live driver |
| Busy lock (`workdir.rs`) | the lock file of a working tree | take, steal from the dead, park, give back, queue, hand over | one writer of a tree at a time; a kept lock is kept |
| Drive loop (`scheduler.rs`, `scheduler/supervisor.rs`) | frontier, cursor, flags | scan, run nodes, wait for a supervisor, finish, leave | no node starts on a stopped run |
| Run journal (`event.rs`, `event/`) | `events.jsonl` | append, synced append, read with a torn tail, guards | every line once, seqs in order, no state change behind an unknown event |
| Deferred retries and wakers (`scheduler/deferred.rs`, `waker.rs`, `pause/waker.rs`) | released runs, leases | release, expedite, wake, resume | a released run is resumed once, and in the end |
| Fork, join, routing (`parallel.rs`, `scheduler/fork.rs`) | derived from the journal | select edges, readiness of a join, pending heads | a join neither waits for ever nor fires early |
| State fold and revival (`state.rs`, `scheduler/revive.rs`) | `RunState` | fold | the same journal gives the same run |
| List nodes (`list/`, `scheduler/list/`) | items, batches | claim, settle, sample | each item is done once |
| Host tasks (`host_task.rs`) | tasks, replies | ask, submit, close | a late or second reply changes nothing |
| Publish node (`scheduler/publish.rs`) | plan, consent, push | plan, ask, push, reconcile | what is pushed is what was approved |
| Run budget (`budget/`) | spent, limit, raises | cross, pause, raise | a crossed budget stops the run before the next node |
| Gates and questions (`approval.rs`, `gate/`, `review.rs`, `question.rs`) | requests, answers | ask, answer, withdraw | one answer counts, and only of its request |
| Launch and consent (`launch_handoff.rs`, `resume_launch.rs`) | handoff files | write, take | a grant is used once by the process it was for |
| Notifications (`notify/`) | send ledger of messages | sweep, retry | a message goes out once |
| Node execution, sub-runs, sandbox, decision engine, evaluation, views | | | see "Not modelled" |
| `src/crates/apb-core`, `apb-mcp`, `apb-cli`, `apb-server`, `apb-decide`, `src/web` | playbook model and the surfaces | call the engine | |

How they interact. Commands come in through the CLI, the MCP server and the HTTP
server, all of which call the engine functions above on the run's directory. A
command that must not race another one (stop, pause, the last step of a resume)
takes the run's event lock `events.jsonl.lock`; the drive loop does not, and
neither do plain posts to the control queue. The drive loop reads the queue
between nodes, and a watcher thread reads it during them. A resume takes the busy
lock of the working tree, then the event lock, then claims `driver.pid`. Agents
call connectors in processes of their own: these decide from the run journal,
under the journal's lock, whether a send may go out, and journal what came of it.

What is hard, and where a test hardly reaches, is listed with its line under
`hazards` in `PROJECT.json`: processes that die between two writes, decisions
taken from a state read before a lock was given up, files overwritten by somebody
else's late write, commands queued behind one that nobody can apply, answers that
come after their timeout, and windows that close between a decision and its
effect.

## Modules

| Module | What it is |
|---|---|
| `SendOnce` | abstract specification: how often a purpose may take effect |
| `SendLedger` | the ledger, the gate around a call, the attempt's claim and budget, the push; composed with a service, a network, a clock and a person |
| `MCSendLedger` | instances of it: the idempotency mode and the resend policy of each key |
| `SendLedger_proofs` | theorems about `SendLedger`: effects; chains, senders and read backs; the refinement of `SendOnce` |
| `RunControl` | the command queue, the drive loop between nodes, stops, pauses, resumes, `driver.pid` and the busy lock; composed with a second run of the tree |
| `MCRunControl` | instances of it: who asks what of the run |
| `RunControl_proofs`, `RunQueue_proofs` | theorems about `RunControl`: who owns the tree and the run; the queue, the cursor, kept locks and stops |
| `Wakes` | runs that wait without a driver (a release over delayed retries, a pause with an `until`) and who wakes them |
| `MCWakes` | instances of it: the nodes and their delays |
| `Wakes_proofs` | theorems about `Wakes` |
| `Frontier` | the walk over the playbook: edges, joins, batches, and the frontier rebuilt after a pause or a crash |
| `MCFrontier` | the playbooks it is checked on |
| `Frontier_proofs`, `FrontierOrder_proofs`, `FrontierRuns_proofs` | theorems about `Frontier`: `DriveInv`, of any playbook; in which order a run goes through a playbook without loops; what becomes of whole runs |
| `HostTasks` | an agent step that a host session executes: tasks, replies, questions, deadlines |
| `MCHostTasks`, `HostTasks_proofs` | its instance; theorems about it |

### SendLedger and the code

One execution key is modelled: a node, or an item of a list node. `ledger` is what
`Ledger::fold` makes of the journal; an intent is identified by its position, and
`root` stands for the walk back along `replay_of` and `resend_of` (`ChainIsALine`
says that this is the same). A call is a process `caller[c]` that goes `calling`
-> `admitted` -> `sent` -> `heard`, or `calling` -> `looking`:

- `Admit`, `AdmitUnsynced`, `Refuse`, `AnswerAlreadySent`, `StartLookup` are the
  outcomes of `gate`/`decide`, which runs as one step because it holds the
  journal lock from its read to its append.
- `LookupFinds` and `LookupFails` are `reconcile_marker` (and the read back of a
  push): steps of their own, since the lock is released before.
- `Leave`, `BuildFails`, `Hear`, `Finish` are the request, its answer
  (`classify`) and its settlement (`finish`, `settle_unsent`).
- `StartAttempt`, `EndAttempt` are the events `attempt.rs` and
  `effect_scope_floor` read; `Resolve` is `resolve_by_person`.
- `ServiceAccepts`, `Drop`, `Tick`, `Die` are the world: a service that
  deduplicates a key within its window, a network that loses and delays, a
  clock, a process that dies at any step.

`Orphaned` is the only place where the code looks at other processes: a pending
intent whose process is dead or whose deadline passed reads as unknown.

`Timely` says whether the clock waits for senders and service. A key window and a
push's deadline are worth nothing without it: an admitted request that its
process sends an hour later is outside any window. The rules that do not rely on
time are checked and proved with `Timely` false as well.

`trail` is history that the properties need: who allowed a repeat (`policy`,
`released`), what a person vouched for, who was told "already sent".

Abstracted: rendering, accounts, secrets, http / imap / smtp, paging (a lookup
finds, or cannot tell), the text of markers and digests. A push that is its
run's own act belongs to no attempt and to no budget, and its visits are
over-approximated.

### RunControl and the code

One run, driven first by `First`; the other `Drivers` are resumes, in the
foreground or `Detached`; each of the `Clients` makes one request (`Job`). A
place of `pc` is a point between two reads or writes that others can see:

- `Scan`, `ScanDone`, `Apply`, `AtRetry`, `Consume` are `scan_control`: it reads
  what is pending once, journals the effect of an entry and then writes the
  cursor. `AtRetry` is the retry nobody can apply outside a wake, with the
  salvage of the first stop behind it. `Await`, `Answer` are the wait for a
  supervisor after a failed node.
- `StartNode`, `EndNode`, `Finish` are the loop around a node, with the hop back
  to the scan after a stop that landed meanwhile. `Watch` is the watcher thread.
- `Leave`, `Fail`, `ReadKeep`, `Park`, `Exit` are the end of a drive, in the order
  of the code: the claim goes when `drive_inner` returns, a failure is journaled
  after that, then a pause that keeps the lock parks it.
- `Clear`, `Publish`, `Plan`, `Acquire`, `Admit`, `Resume`, `GiveBack`, `Claim`
  are a resume. A detached one checks the lock in its parent, is spawned, and is
  named in `driver.pid` by its parent before it gets past its exec (the claim the
  comment of `publish_driver_pid` makes). A driver in `Granted` is handed a launch
  grant: it takes the handoff first (`TakeHandoff`), its parent waits for that, and
  names it at any time later (`PublishLate`), whatever became of it. That nobody
  takes a handoff within `CONSUME_WAIT` is left out.
- `Stop` ... `StopFinalize` and `Pause` ... `PauseJournal` hold the event lock;
  `Count` and `Post` are `post_control`, which takes no lock and is two steps.
- `Crash` leaves everything where it is, and a dead process's event lock is
  stolen as stale. `OtherTakes`, `OtherLeaves` are another run of the tree.

A seq is that of the code plus one, so cursor 0 is the missing file. Elsewhere:
releases, wakers and engine resumes are in `Wakes`, `--now` in `Frontier` and
`HostTasks`. Not in the model: stops of sub-runs (`abort_children`), patches,
rebinds, progress and continue-from commands, batches, the queue and the handover
of a fresh start, drives in threads that share a pid, failed appends, and an event
lock that cannot be taken at all (a stop then goes ahead without it). The two
appends of a salvage are one step.

### Wakes and the code

One run. A wait is the `run_paused` or `drive_released` in force, named by its seq
(`wait`); `left` is the time until it is over, so that no clock runs away. `life`
is the seq a resume plans against. Every event the model appends under the run's
event lock is one step.

- `Attempt`, `EndAttempt`, `Rest`, `Release` are the drive around delayed retries:
  a node that failed and is tried again later is `waiting`, one that a person
  expedited is `urged`. `Rest` is `hold`/`may_release` (a wait not longer than
  `RELEASE_AFTER` is slept through), `Release` is `try_release`: under the event
  lock it looks again at the controls and at the deferrals, journals the release
  and gives up the busy lock and `driver.pid` before it lets the event lock go.
- `Leave`, `Part`, `AfterRelease`, `Exit` are the end of a drive; `Part` and
  `AfterRelease` are `after_pause` and `after_release`, which start the waker.
- `Start`, `Rouse`, `Repause`, `Wake`, `Watch` are `apb __pause-waker`: the lease,
  the sleep until the wait is over or was replaced, the probe of a quota that may
  pause the run again, `resume_while` the lock is busy, `await_takeover`.
- `Look`, `TakeLease`, `Probe`, `Sweep`, `Mark` are one run's part of
  `apb resume --all`; `Mark` is `mark_driverless`.
- `Plan`, `TakeLock`, `Admit`, `Claim` are the driver any of these started, with
  the second look at the wait before each (`WakeHold::holds`) and the lifecycle
  compared under the event lock.
- `Stop`, `Pause`, `RetryNow`, `Resume` are people; `OtherTakes`, `OtherLeaves`
  another run of the tree; `Tick` the clock, in which delays stand still while the
  run is paused; `Crash` any process.

`lost` is history: the wait that is left to `apb resume` (a process died, a
refusal, a pass or a started driver that met a busy lock), and whether what was
posted may lie there unread for the same reasons. A pid is not reused while a file
names it. Left out: a pause that parks the lock and resumes in the foreground
(`RunControl` has both), sub-runs, parallel batches, a waker that cannot be
spawned, the order of what is posted (`RunControl`), and an expedite from a
supervisor's session, which takes no lock. `Finish` needs every node done: routing
is `Frontier`'s.

### Frontier and the code

One run of one of the playbooks `Graphs`. `state` is the fold of the journal
(`RunState`), `drive` the driver's memory. A step of the drive is a sequence of
records followed by a new memory (`Write`); in a step that crashes, any proper
prefix of the records is in the journal and the memory is gone.

- `Taken`, `SelectedEdges`, `RoutedTargets`, `JoinKind`, `LiveNodes`, `Arrival`,
  `JoinVerdict` are `parallel.rs` and `parallel/liveness.rs`: which edges a
  finished node takes, what may still arrive at a join, and what the join makes of
  it.
- `Advance`, `Route`, `Proceed` are `advance_frontier`, with a ready `join: any`
  that writes the other heads off; `Readmit`, `PendingHeads` are
  `restore_frontier`.
- `RunAlone`, `AloneEnds`, `FailBarrier`, `ReachFinish` are the sequential arm;
  `FormBatch`, `Admit`, `MemberEnds`, `BatchEnds` and the rest of "The concurrent
  batch" are the batch, with members that are routed while their siblings run
  (`Pipeline`, `Grow`) and joins that are offered again at its end (`Reoffer`).
- `AskPause`, `Notice`, `ApplyPause`, `AloneInterrupted`, `MemberInterrupted`,
  `StopAdmitting`, `BatchHalts` are a pause at the next boundary or `--now`.
- `Plan`, `IsRefused`, `Seeds`, `Resume` are `plan_resume` and the entry of the
  drive that follows it; a run whose driver died is resumed the same way.

`DriveInv` holds of every playbook, paused and killed at will: the fold and the
memory keep their types; frontier, batch and queue hold a head once
(`HeadsAreDistinct`); what the driver waits for runs in the journal, and what it
saw end has finished there (`RunningFits`); only a run in progress is driven
(`DrivenFits`); nothing was started, and no head is kept or rebuilt, but the start
node and what an edge of a finished node leads to (`OnlyInvited`); what reads as
over has finished (`FinishesAreRecorded`); and no bounded edge is counted past its
cap (`LoopsAreBounded`). The other properties ask more of the walk. They hold of the
playbooks of the run, and of which others "Theorems" says.

Left out: `--from-node` and the revivals, fork policies, `defaults.on_failure`, a
supervisor, gates and other interactive nodes, deferred retries (`Wakes`), edge
conditions other than the outcome of the edge's own source, and the resume of a
failed run.

### HostTasks and the code

One run with one agent step. A task is named by the order its directory was made
in, a question by its place in `questions.jsonl`, an answer by its place in
`answers.jsonl`, with the question it names as its value. Instead of a clock, each
task and question carries the time since it was opened, counted while the run was
active and while it was paused, up to the point where more makes no difference.

- `Adopt`, `Allocate`, `File` are `host_task::request`; `Look`, `Consume`,
  `Cancelled`, `Interrupted`, `Expired`, `PollAgain` the poll of
  `run_cancellable`, in its order: the reply, the kill flag, an interrupt, the
  deadline.
- `Count`, `Post`, `Observe`, `AwaitEnds`, `Enforce`, `AnswerByDefault`, `Take`,
  `TakeNothing` are the question of a `blocked` reply (`question.rs`,
  `scheduler/live.rs`): answers are paired with questions by position. Whether the
  node has a `default_answer` is left open each time a question is over its time.
- `Retry`, `Settle`, `Halt` end an attempt, the node and the drive; `Mark` and
  `Latch` are the stop watcher, which marks the kill flag as graceful before a
  `--now` pause fires it.
- `CheckOpen` and `Publish` are `submit`: a read of the journal and, any time
  later, a link that does not overwrite. `Answer`, `Pause`, `Stop`, `Interrupt`,
  `Tick`, `Crash`, `Resume` are the rest of the world.

Left out: answers that name no question, a branch cancelled by a sibling
(`join: any`, a fork), failing journal appends, sub-runs, the resume of a run that
ended and a step that runs again after it was settled. Only `--now` pauses are
asked for: a pause at the boundary does not touch a task.

## Runs

Every run finishes in three minutes or less. `MaxIntents`, `MaxAttempts`,
`MaxTime`, `MaxCrashes` and the other `Max...` constants are bounds of the model;
`Job` bounds the requests of `RunControl`. Deadlock is not checked: every run ends,
and so does a bounded clock.

| Run | Asks | Why these bounds |
|---|---|---|
| `send_key` | `AtMostOnce`, `LookupIsQuiet`, `ChainIsALine`, `KeepsPromise` (`SendOnce` as a property), `NoFreshSendOverAnOpenOne` | two keys, one in key mode that resends, one a push that refuses; three intents: a repeat of a repeat, of either kind; two attempts: one succeeds over an open send, the other starts; window 1, timeout 1, time 3: a replay inside, at the end of and past the window, and a push that is read back once its pusher died and its deadline passed, or once it was settled as unknown. The constraints take one key at a time (keys of an attempt share only its budget), let a third intent and a second attempt come early, and give a push one attempt and one repeat; `Timely` kills a push at its timeout, so a pusher hanging past its deadline is excluded by assumption |
| `send_marker` | `SettlementsAreTrue`, `OneSenderPerChain`, `SendInv`, `FlightsEnd` | a clock that waits for nobody: late requests, hung senders, lookups that overlap a send; two intents, since links do not depend on timing |
| `run_queue` | `PassedOverOnlyByAStop`, `AppliedOnce` | a retry, a note and a stop in every order of posts and scans, a supervisor, a resume, one crash: the cursor is written, inherited and lost in between |
| `run_life` | `OneWriter`, `ResumesWhatItPlanned`, `KeptLockHolds`, `NamedDriverHeedsStops` | three drivers, so that two resumes race each other and the first; a stop, both kinds of pause, another run; no crash, which gives any lock up (`run_queue` and `run_live` have one) |
| `run_live` | `RunInv`, `StopsLand` | a retry ahead of the stop, a supervisor, a crash and a detached resume that is handed a launch grant and named late; the inductive invariant of the proofs on the same states |
| `run_pause`, `run_cursor` | divergences 1 and 2 | the fewest processes that show them |
| `wakes` | `TypeOK`, `ReleasedIsUndriven`, `NewsHasAReader`, `WaitIsWatched`, `WokenInTime` | two nodes, one with a delay on each side of the threshold, two drivers, two wakers and a pass, two requests of people in any combination, a quota that holds once |
| `wakes_live` | `EveryWaitEnds` | one node; here a crash, another run in the tree and a resume that is refused for another reason |
| `frontier` | `DriveInv`, `RoundsAreWhole`, `JoinsWait`, `NothingIsForgotten`, `DeadEndsAreReal`, `PausesAreResumable`, `RunsOnce`, `RunsEnd` | eight playbooks of at most eight nodes, one for each kind of join and of loop, two slots for up to three branches, a pause or a crash at every step of those that allow one |
| `frontier_report` | divergence 3 | the playbook of the manual's example |
| `host` | `OneOpenTask`, `RepliesAtRestAreApplied`, `OneReplyCounts`, `DeadlineIsTheOneShown`, `PauseKeepsTasks`, `WaitCanEnd`, `AnswersFit`, `Served`, types | two attempts with follow-ups (three directories), two questions, one submission on its way, two mishaps of any kind (a death, a pause, a stop, an interrupt) |

Which of `frontier`'s playbooks may pause or crash follows from the noted
divergences below: a pause inside a loop or a won race, and a crash inside a batch
that grew, lose or repeat work in the code, so those runs are stopped elsewhere.
`barrier`, `sink` and `strict` do both, `diamond` and `repair` pause, `race`
crashes, `retry` and `rounds` do neither.

Fairness. `FlightsEnd` needs only a clock that moves. `StopsLand` assumes that a
driver's process and its watcher thread keep running (weak fairness of the drive
loop and of the watcher): the code polls in both. `EveryWaitEnds` assumes that a
process that was started goes on, that time passes and that another run of the
tree ends; nothing of agents and people. `RunsEnd` and `Served` assume that a live
driver goes on and that a run which waits without one is resumed, as a person, a
waker or `apb resume --all` does; `Frontier` spells out what enables the two
(`CanStep`, `CanResume`), since its actions are too large to be tried for
ENABLED. Nothing is assumed of clients, services, hosts, supervisors or people.

Each property is tried against a bug in the definition it is about (the operators
commented "A bug" or "Mutant", listed as `mutants`): each of these TLC finds.

### Where the code and its documents disagree

A run shows each of these:

1. A run that ends while a pause is being requested is journaled as paused after
   its end (`run_pause`; docs/MCP.md:924).
2. Two posts at once get one seq, and the cursor hides one of them, an abort too
   (`run_cursor`; control.rs:164). The properties of the queue speak of entries
   with a seq of their own (`Whole`, `AllWhole`).
3. After a node the drive ran alone, no join is offered again, so a join whose last
   input turns out dead there never runs (`frontier_report`;
   docs/HOWTO-authoring.md:2577).

Noted divergences: seen in the models' behaviours, of less consequence, and no run
is spent on them. The properties are worded so as not to claim the contrary.

Sends.

- A lookup in flight overwrites a person's "not sent" with unknown
  (send_once.rs:280; docs/CONNECTORS.md:597).
- `max_calls` is checked against calls already journaled, so calls at once
  exceed it (docs/CONNECTORS.md:182).

Stops, pauses and resumes.

- A stop or pause salvaged from behind a retry silently discards what is between
  them (control.rs:175).
- The parent of a second detached resume overwrites the first one's claim
  (driver.rs:124); its own child then finds the lock taken and dies, and a pause or
  stop between the first one's `run_resumed` and its claim is journaled over a run
  that is then driven on.
- A pause that gives the lock up can be overtaken by a driver that parks it for
  the pause before (pause/request.rs:47).
- A failed drive journals its end after it dropped `driver.pid`, so a stop in
  between ends the run a second time (stop.rs:168).
- A stop that saw no driver finalizes while a resume claims the run behind a queued
  retry: the named driver starts a node of the stopped run.
  `NamedDriverHeedsStops` is therefore stated of runs whose queue holds no retry
  (`NoRetry`).
- A driver that was handed a launch grant is named only after it took the handoff
  (scheduler/resume.rs:579), while the comment of `publish_driver_pid` counts on a
  name that is there before the child gets past its exec (driver.rs:90). Named over
  another resume that a stop just found dead, it starts a node of the stopped run:
  `NamedDriverHeedsStops` leaves out the drivers in `Granted`.

Wakes.

- A waker's child that finds the lock busy dies; `await_takeover` returns and the
  waker lets go of its lease, though a busy lock is said to be no refusal
  (pause/waker.rs:232).
- `mark_driverless` journals a pause of a run it read as running without reading it
  again; it may follow a stop (pause/resume_all.rs:421).
- Asking whether a lease is held takes it for a moment, and a waker that is just
  starting gives up; a pass that met a busy lock leaves no waker behind.

Routing.

- A bounded edge whose hop was journaled before a pause is counted again, or not
  taken, on the resume (node.rs:5609; against loop_edges_test.rs:240 and
  docs/superpowers/specs/2026-07-20-run-reliability-design.md:86).
- A pause after a won `join: any` brings a cancelled node's branch back
  (`pending_heads`; against 2026-07-08-workflows-cli-design.md:556), and a member
  that succeeds after the race is won is still routed at the batch's end
  (scheduler.rs:2275).
- In a loop, a pause or crash before a re-entered branch starts loses that branch:
  `pending_heads` skips nodes that finished in an earlier round.
- A join with `require: all_succeeded` whose last input goes elsewhere in the
  sequential arm is never refused: the same cause as divergence 3.
- A crash inside a batch that grew runs the node that finished last again, beside
  its own successors. So does a pause: after `--now` cut off two nodes, a resume that is
  paused again at a boundary, before either has started, leaves two running nodes in a
  run that is no longer paused by `--now` (resume.rs:96), and the next resume falls
  back to the node that finished last.
- A head left behind as in divergence 3 comes back with the next resume, which rebuilds
  the heads from the journal, and runs beside what the run went on with meanwhile.
- An edge of a loop into a node that is just running in the batch is dropped: the batch
  holds that node already, so its branch does not run again.

Host tasks.

- After a question left without an answer (a death after it was posted, or its
  timeout and another attempt), answers are still paired by position: one that
  names the replaced question is accepted and handed back as the answer to the next
  one, and a second answer is accepted (question.rs:190, docs/MCP.md on
  `run_answer`). A duplicate that names no question shifts the positions too.
- `submit` says Ok for a reply it publishes after the engine closed the task
  (host_task.rs:608).
- A branch that a sibling cancels and whose flag a `--now` pause then marks
  graceful leaves its task open; a death between consuming a `blocked` reply and
  posting its question loses the question.

## Theorems

Checked by TLAPS for all values of the constants: any number of callers, keys,
drivers, clients, nodes, wakers and tasks, any delays and timeouts, and any value
of the bounds. The assumptions are those of the modules (types of the constants,
processes distinct from one another) and the ones named below. Each module of
proofs has an invariant in named parts, a lemma for each part (or part and group of
actions) and a case per action in it; TLC checks the invariants of `SendLedger`
and `RunControl` as well (`SendInv` in `send_marker`, `RunInv` in `run_live`). That
a nonempty set of positions has a first and a last member comes from well-founded
induction on the naturals, and what is counted (effects of a chain, events of an
entry) from the library's theorems on finite sets.

`SendLedger_proofs`. `CoreInv` - types, links, times, where each process is, which
effect belongs to which request, and that once a chain moved on to a fresh nonce
the earlier requests are harmless unless somebody allowed a second effect
(`EarlierAreHarmless`) - is inductive whatever the clock does, and gives
`TypeCorrect` and `SettlementsHold`. `AtMostOnce` is not inductive: that a resend
is safe depends on what was settled before, and that a replay is safe on the
window. `EffectsInv` adds that no nonce acts twice (`OneActPerNonce`), which holds
only if requests are on time or no function relies on a key window:
`EffectsInvariant` and `NoBlindSecondSend` assume
`Timely \/ \A k \in Keys : Mode[k] # "key"`.

Chains. `LineInv` needs no such assumption. A repeat is linked to the
tip, the latest intent of its key in scope, and the tip is not superseded yet: the
intent that did it would be of the same key and later. So `ChainIsALine` is
inductive, and the walks of `chain_of` see the whole chain. `OneSenderPerChain`
rests on `SendersFit` - nobody settles or looks up an intent whose sender is still
before its deadline - and on the verdict that refuses a repeat while a member reads
as in flight. `LookupIsQuiet` needs that a push which is settled or heard of is over
(`ReadBacksFit`), and is stated for `Timely` alone. `EarlierAreCharged` says which
act paid for each further effect: every nonce but the latest is harmless or has a
member of its own that a person released or the policy sent again. `NoFreshSends` is
of list items (`IsItem`: a push never is one), as the rule is: what their scope
leaves behind is settled.

The refinement. `LedgerKeepsPromise`: `Spec => KeepsPromise`, under the
assumption of `EffectsInvariant`. The mapping reads the abstract state off the
ledger (`PromiseReads`); recording and a person's decision may raise what is
allowed, `ServiceAccepts` is the abstract effect, an answer "already sent" the
abstract telling, and every other step stutters. The effect is the hard case: the
effects of a chain are mapped one to one to nonces (`OneActPerNonce`), every nonce
that may act but the latest to the member that paid for it (`EarlierAreCharged`,
and no member pays twice), and so there is one effect fewer than is allowed.

`RunControl_proofs`. `OwnersInv`: types; what a driver reads of the queue is there
(`EntriesFit`); the event lock belongs to the process that is between taking and
giving it back (`LocksFit`); one writer (`OneWriter`); nothing moves the lifecycle
of an admitted resume (`AdmittedFit`). The last needs both locks: stops and pauses
are kept out by the event lock, and the drive loop, which does not take it, by the
busy lock. From it follow `TypeCorrect`, `OneWriterHolds` and `ResumesArePlanned`.
In a run that takes no busy lock `ResumesWhatItPlanned` is false in the model, and
so it says `TakesLock`.

`RunQueue_proofs`. `RunInv` adds what becomes of commands:

- `SeqsFit`, `PostsFit`: a seq is at most its entry's place, a cursor never beyond
  the queue, and a client that stops a run has its entry there.
- `HeardFit`: what a drive has passed was journaled, in the order of the queue, but
  for a stop that was salvaged from behind a retry; with it
  `PassedOverOnlyByAStop` is inductive, which it is not alone: a drive that starts
  from the cursor of a dead one needs to know what that one had done.
- `CountFit`: an entry a drive has not passed was journaled at most once for every
  crash. A drive between an effect and its cursor may repeat it only by dying.
- `KeptFit`: a kept lock is parked, on its way there, or with a resume that gives
  it back.
- `AheadFit`, `NamedFit`: no cursor is past the entry of a stop under way, and a
  named driver that was handed no grant has that stop in front of it or is leaving
  for it. `StopsAreHeeded`
  is the action property that follows.

`Wakes_proofs`. The five properties of `wakes`, from `Inv`: seqs are handed out in
order (`SeqsFit`), the lock names the driver past taking it (`LockFits`), a driver
on its way out has left its status and its claim (`OutFits`), who acts on a wait
does so when it is over (`DueFits`), planned against its lifecycle (`PlanFits`), and
the child a watcher waits for is on its way (`ChildFits`). `WaitIsWatched` is not
inductive without the last: a watcher goes when its minute is over, and the driver
it started has to carry the wait on.

`HostTasks_proofs`. The eight safety properties of `host`, from `Inv`: only a
running run is driven, and the drive's task is there and open (`DriveFits`); at most
one directory counts as open, and none where the drive has no task (`OpenFits`); a
task's clock starts with its record (`TasksFit`) and is the drive's (`ClockFits`);
answers are paired by position (`TalkFits`, `AnswerFits`). `OneOpenTask` needs
`OpenFits` of a run that is over, too, since `Open` reads the run's status.

`Frontier_proofs`. `DriveIsSound`: `Spec => []DriveInv`, for every valid playbook
(`GraphsAreValid`: edges join nodes of the playbook, which has a start), with
loops, races, any pauses and any crashes. Its parts need one another: a head is
invited only if the node it comes from finished, a resume goes past the last node
only because that one has, and a cap holds only if no two records of one step count
the same edge. The argument, from the bottom:

- What sequences are filtered, joined and folded to. A fold over a sequence is
  written in the community modules by recursion over sets of positions; that it
  passes through one state per record (`FoldSteps`) is shown for each prefix, by
  well-founded induction with the states as a set of numbers. Here the walks along
  edges are only names; what they reach comes in the next module.
- What a log does to a state (`FoldFollows`): nodes it does not tell of stay as they
  were, what finished stays finished, and a count grows by one at most where the
  log fits (`Fits`: each bounded edge once, below its cap). A crash keeps a prefix,
  which fits as well, so a step needs no second argument for its crash
  (`WriteIsSound`).
- What routing gives (`Advances`): a log that fits and a frontier with successors of
  the node added, each once. `AdvanceAllIsSound` and `ReofferIsSound` follow it
  through the members of a batch, whose edges are their own and so are counted
  apart, `PipelineIsSound` through a member routed at once.
- One lemma per action. The resume is the longest way round: `run_resumed` changes
  nothing that routes a run (`AlikeDecides`), so a head which made `plan_resume`
  accept the run is there for the drive that follows (`SeedsAreFound`).

`FrontierOrder_proofs` and `FrontierRuns_proofs` prove the other invariants of the run
`frontier` but `RoundsAreWhole`. Those are not of every playbook, as the noted
divergences show, so the theorems name what they need of one. `OneWay`: no loops, no `join: any`, no bounded
edges; any number of nodes and branches, forks within forks, implicit joins and
`join: all` of any depth, `require: all_succeeded`, failure sinks, more branches than
slots. The argument:

- Walks. `Walk` keeps its seed, follows every edge of what it has and holds nothing that
  some closed set around the seed does not (`WalkStaysWithin`, `WalkIsClosed`: a walk of
  as many steps as there are nodes has come to rest, since each one before adds a node).
  So what a node reaches is transitive, and what is live for a join can be compared as heads finish.
- A join is ready just when it is open: each node that leads to it has finished or is not
  live (`ReadyIsOpen`). What is still at work closes all that lies beyond it.
- `Kept`: a node finishes before what lies beyond it (`InOrder`), a journaled hop is one
  the node would take again (`HopsTaken`), work is done once (`DoneOnce`). It holds after
  each record of a step, so a crash keeps it.
- `Quiet`: nothing beyond the heads at work has begun, nor is a head itself. It is the
  heart of the matter: `advance_frontier` only admits what is ready, a batch routes
  members while others run, and a head that comes in late must not lie in front of one
  that has started.
- `Debts`: while no driver has died, each head the journal knows of and that does not
  synchronize is in the driver's memory (`Remembers`).
- Of the nodes that finished ones lead to and that are not finished, one is open
  (`SomethingIsOpen`): take one that no other of them leads to, which a graph without
  loops has (`FirstAndLast`); nothing is left to hold it up. So a run fails for a reason
  only (`DeadEndsHaveReasons`), and a pause has a head to go on with
  (`PausesLeaveAWayOn`).

An interruption can break `Quiet`: the journal alone does not say which of the running
nodes the driver had still to route, and the divergences noted under Routing do repeat
work. The theorems about interrupted runs therefore assume `CleanCut` of each state in
which nobody drives the run: nothing beyond its heads, the interrupted nodes and the
node to go on past has begun, and several nodes are cut off at once only by `--now`. It
speaks of the journal a resume finds, never of what the resume does, and it is what the
code's own planning takes for granted. In the run `frontier` it holds in every state of
`diamond`, `repair` and `sink`, whose pauses come at every step, and of `barrier` and
`strict` but for crashes: inside a batch of two, and in `strict` at the finish, with a
join left behind as in divergence 3. `HeadsOutliveAPause` further asks
that no driver died: a crash inside `ReachFinish` leaves the finish node owed.
`PausesLeaveAWayOn` leaves one way out of `PausesAreResumable`, a node whose outcome leads
nowhere: a batch all of whose members fail without an edge, paused before it is routed,
has nothing to resume with, and the run is at its end anyway.

Three theorems assume nothing of cuts, since they are of runs that were not interrupted
yet. `FirstDriveIsRight`: `DeadEndsAreReal`, `RunsOnce` and `NothingIsForgotten` hold,
and the driver does not let go of the run before its end.
`NothingIsLeftRunning` is of every playbook, loops and races included: the nodes that
run in the journal are those the driver waits for (`OnlyTheDriverRuns`); a log is `Calm`
where it leaves nothing running that was not, and every log but that of a start is.
`BranchesArriveInTime` follows from it and `Quiet`: no running node and no head leads to a
node that has begun. `JoinsWait` says more, since it also counts a join that was delivered
into and left behind; `JoinsWaitForBranches` states it where no join leads to another
(`JoinsApart`), because of divergence 3.

Model-checked only. `RoundsAreWhole`: it is about the loops that `OneWay` leaves out, and
it asks that the forks and joins it looks at run at all. `JoinsWait`,
`NothingIsForgotten`, `DeadEndsAreReal`, `PausesAreResumable` and `RunsOnce` where the
playbook loops, races or has bounded edges, or an interruption is not clean: for those
nothing more general than the checked playbooks is claimed.
Liveness under fairness: `FlightsEnd`, `StopsLand`, `EveryWaitEnds`, `RunsEnd`,
`Served`. Out of the prover's reach altogether: ENABLED, what a recursive definition
computes for every input, and recursive operators.

## Plan

In this order; each comes with its MC module, runs and mutants. The runs are kept
to a dozen and their properties to forty, so that all of them are repeated on every
change; a new module's run takes the place of one that asks least.

1. Done: `SendOnce`, `SendLedger`, `RunControl`, `Wakes`, `Frontier`, `HostTasks`,
   and proofs of their safety properties; of `Frontier`'s, `DriveInv` and
   `OnlyTheDriverRuns` for every playbook and the others for those without loops.
2. `Frontier` with loops: `RoundsAreWhole` and `RunsOnce` per round, for playbooks whose
   loops enclose whole forks, and a weaker `CleanCut` that also admits a crash inside a
   batch that has not grown.
3. `Journal`: appends of several processes with crashes and torn tails, and the
   guards of `event/deferral_guard.rs` and `event/run_guard.rs`; abstract
   specification: a sequence that only grows.
4. `TreeQueue`: the queue for a working tree, the handover of a fresh start, and
   parked locks of several runs; composed with `RunControl`'s use of the lock.
5. `ListItems`: batches, claims and settlement of items; composed with
   `SendLedger`'s item scope.
6. `PublishGate` and `RunBudget`: consent to a digest, crossing and raising;
   `Gate`: approvals that come twice or late.

Hazards known and not listed in `PROJECT.json`, since nothing above decides them: a
reused pid makes a dead driver or sender read as alive (liveness.rs:226), a torn
last line of `control.jsonl` (control.rs:120), and those of the noted divergences
that only a workaround in the models keeps apart from the properties
(`mark_driverless`, the probe of a lease, a bounded edge counted twice for one
passage, a late member of a won race).

## Not modelled, and why

Power loss (written but unsynced data) and reuse of pids: the files would need a
model of the disk and of the process table. Node execution, adapters, sandboxes
and environments: process handling and prompts, with no state of the run beyond
the events above. The decision engine, evaluation, grading and candidates: data
and models. Views, statistics and diagnosis: pure reads. `apb-core`: parsing,
validation and stores. The surfaces (`apb-cli`, `apb-mcp`, `apb-server`,
`src/web`) call the functions modelled here.
