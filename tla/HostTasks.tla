------------------------------ MODULE HostTasks ------------------------------
(***************************************************************************)
(* An agent step that a host session executes: the tasks the drive opens   *)
(* and the replies it waits for (scheduler/host.rs, host_task.rs), the     *)
(* question of a `blocked` reply and its answers (question.rs,             *)
(* scheduler/live.rs), and what ends the wait: the deadline, the question  *)
(* timeout, a supervisor's interrupt, a stop or a `--now` pause (stop.rs,  *)
(* pause/interrupt.rs), or the death of the driver.                        *)
(*                                                                         *)
(* One run with one agent step.  A task is named by the order its          *)
(* directory was made in, a question by its order in questions.jsonl, an   *)
(* answer by its place in answers.jsonl.  There is no clock that runs      *)
(* away: a task and a question carry the time since they were opened, the  *)
(* run active and the run paused, and each stops where it tells no more.   *)
(***************************************************************************)
EXTENDS Integers, Sequences, FiniteSetsExt

CONSTANTS
  Timeout,          \* the node's timeout_seconds
  QuestionTimeout,  \* its question_timeout_seconds
  Attempts          \* attempts its retries and its chain allow

\* Bounds of the model: task directories, submissions at once, questions, and
\* deaths of the driver, pauses, stops and interrupts together.
CONSTANTS MaxTasks, MaxOffers, MaxQuestions, MaxMishaps

ASSUME TimeAssumption == {Timeout, QuestionTimeout, Attempts} \subseteq Nat \ {0}
ASSUME BoundAssumption ==
  {MaxTasks, MaxOffers, MaxQuestions, MaxMishaps} \subseteq Nat

VARIABLES
  status,   \* the run's status, folded from its journal
  control,  \* stops and pauses posted and not applied
  tasks,    \* the task directories, with what the journal says of each
  drive,    \* the drive's memory, gone with its process
  offers,   \* replies that hosts found their task open for, and are about to publish
  talk,     \* questions.jsonl, answers.jsonl and what is journaled of them
  mishaps,  \* how many of those there were
  used      \* history: the question the drive took an answer for last, and from where

vars == <<status, control, tasks, drive, offers, talk, mishaps, used>>

Replies == {"verdict", "blocked"}

NoDrive == [pc |-> "off", attempt |-> 0, task |-> 0, left |-> 0, before |-> 0, seen |-> 0,
            cancel |-> FALSE, graceful |-> FALSE, interrupt |-> FALSE]

Directory == [state |-> "dir", end |-> "none", reply |-> "none", atRest |-> FALSE, active |-> 0, paused |-> 0]

Init ==
  /\ status = "running" /\ control = {}
  /\ tasks = <<>>
  /\ drive = [NoDrive EXCEPT !.pc = "scan"]
  /\ offers = {}
  /\ talk = [posted |-> 0, asked |-> 0, answered |-> 0, answers |-> <<>>, age |-> 0]
  /\ mishaps = 0
  /\ used = [question |-> 0, before |-> 0]

-----------------------------------------------------------------------------
(* What the run's files say *)

Live == drive.pc # "off"

\* open_requests: requested, not closed, of a run that has not ended.
Open == {t \in DOMAIN tasks : tasks[t].state = "open" /\ status # "over"}

Replied == {t \in Open : tasks[t].reply # "none"}

\* shifted_deadline_ms, as a reader sees it from now: the recorded deadline,
\* later by the time the run was paused.
Shown(t) == Timeout + tasks[t].paused - (tasks[t].active + tasks[t].paused)

\* A bug: paused time counts.
LeftOfWall(t) ==
  IF tasks[t].active + tasks[t].paused < Timeout
  THEN Timeout - (tasks[t].active + tasks[t].paused) ELSE 0

\* remaining_timeout: what is left of an adopted task's own clock.
Left(t) == Timeout - tasks[t].active

\* adoptable: the latest task the host has replied to, else the latest one.
Adoptable == IF Replied # {} THEN Max(Replied) ELSE Max(Open)

\* question_active_ms against question_timeout_seconds: a question is open and over its time.
QuestionIsOver ==
  /\ talk.posted > Len(talk.answers)
  /\ talk.asked > 0
  /\ talk.age = QuestionTimeout

\* A bug: an answer queued for the question does not refuse another.
AcceptsAgain(q) == ~(q <= talk.answered /\ talk.asked > talk.answered)

\* check_question_request: not replaced by a later question, not answered.
Accepts(q) ==
  /\ ~(q <= talk.answered /\ talk.asked > talk.answered)
  /\ Len(talk.answers) < q

-----------------------------------------------------------------------------
(* Steps of the drive *)

DriveOnly == UNCHANGED <<offers, mishaps>>

WaitOnly == DriveOnly /\ UNCHANGED <<status, control>>

Goto(at) == drive' = [drive EXCEPT !.pc = at]

\* The attempt waits for its task no more.
Leave(at) == drive' = [drive EXCEPT !.pc = at, !.task = 0, !.left = 0]

\* HostTaskSubmitted, by the drive: the task is closed as `end`.
Close(t, end) ==
  tasks' = [tasks EXCEPT ![t].state = "closed", ![t].end = end, ![t].active = 0, ![t].paused = 0]

\* The control scan at the top of the loop finds nothing.
Scan ==
  /\ drive.pc = "scan"
  /\ control = {}
  /\ drive' = [drive EXCEPT !.pc = "request", !.attempt = 1]
  /\ WaitOnly /\ UNCHANGED <<tasks, talk, used>>

\* A bug: the attempt looks at the deadline before the reply.
BeginAtCheck(t, left) ==
  drive' = [drive EXCEPT !.pc = "check", !.task = t, !.left = left]

\* The attempt waits for the task's reply, until the deadline it reckons with.
Begin(t, left) ==
  drive' = [drive EXCEPT !.pc = "look", !.task = t, !.left = left]

\* A bug: an attempt's first request adopts nothing.
AdoptNone ==
  /\ drive.pc = "request"
  /\ Open # {}
  /\ Len(tasks) < MaxTasks
  /\ tasks' = Append(tasks, Directory)
  /\ drive' = [drive EXCEPT !.pc = "file", !.task = Len(tasks) + 1]
  /\ WaitOnly /\ UNCHANGED <<talk, used>>

\* request(adopt): a task left open goes on under its own id and clock, and
\* the node's other open ones are superseded.
Adopt ==
  /\ drive.pc = "request"
  /\ Open # {}
  /\ tasks' = [t \in DOMAIN tasks |->
       IF t \in Open \ {Adoptable} THEN [tasks[t] EXCEPT !.state = "closed", !.end = "superseded"]
       ELSE tasks[t]]
  /\ Begin(Adoptable, Left(Adoptable))
  /\ WaitOnly /\ UNCHANGED <<talk, used>>

\* request: with nothing to adopt, or for a follow-up, a directory of its own.
Allocate ==
  /\ (drive.pc = "request" /\ Open = {}) \/ drive.pc = "follow"
  /\ Len(tasks) < MaxTasks
  /\ tasks' = Append(tasks, Directory)
  /\ drive' = [drive EXCEPT !.pc = "file", !.task = Len(tasks) + 1]
  /\ WaitOnly /\ UNCHANGED <<talk, used>>

\* Then its files, and host_task_requested.
File ==
  /\ drive.pc = "file"
  /\ tasks' = [tasks EXCEPT ![drive.task].state = "open"]
  /\ Begin(drive.task, Timeout)
  /\ WaitOnly /\ UNCHANGED <<talk, used>>

\* A poll that finds no reply.
Look ==
  /\ drive.pc = "look"
  /\ tasks[drive.task].reply = "none"
  /\ Goto("check")
  /\ WaitOnly /\ UNCHANGED <<tasks, talk, used>>

\* One that does: the reply is journaled, and is the attempt's verdict or a question.
Consume ==
  /\ drive.pc = "look"
  /\ LET t == drive.task  reply == tasks[drive.task].reply IN
       /\ reply # "none"
       /\ tasks' = [tasks EXCEPT ![t].state = "closed", ![t].end = reply,
                                 ![t].active = 0, ![t].paused = 0]
       /\ Leave(IF reply = "blocked" THEN "count" ELSE "ended")
  /\ WaitOnly /\ UNCHANGED <<talk, used>>

\* The kill flag: a `--now` pause leaves the task open.
Cancelled ==
  /\ drive.pc = "check"
  /\ drive.cancel
  /\ IF drive.graceful THEN UNCHANGED tasks ELSE Close(drive.task, "cancelled")
  /\ Leave("killed")
  /\ WaitOnly /\ UNCHANGED <<talk, used>>

Interrupted ==
  /\ drive.pc = "check"
  /\ ~drive.cancel /\ drive.interrupt
  /\ Close(drive.task, "interrupted")
  /\ Leave("ended")
  /\ WaitOnly /\ UNCHANGED <<talk, used>>

Expired ==
  /\ drive.pc = "check"
  /\ ~drive.cancel /\ ~drive.interrupt
  /\ drive.left = 0
  /\ Close(drive.task, "expired")
  /\ Leave("ended")
  /\ WaitOnly /\ UNCHANGED <<talk, used>>

\* A bug: the reply is only looked for once.
WaitOn ==
  /\ drive.pc = "check"
  /\ ~drive.cancel /\ ~drive.interrupt
  /\ drive.left > 0
  /\ UNCHANGED vars

PollAgain ==
  /\ drive.pc = "check"
  /\ ~drive.cancel /\ ~drive.interrupt
  /\ drive.left > 0
  /\ Goto("look")
  /\ WaitOnly /\ UNCHANGED <<tasks, talk, used>>

-----------------------------------------------------------------------------
(* A question *)

\* answers_before.
Count ==
  /\ drive.pc = "count"
  /\ drive' = [drive EXCEPT !.pc = "post", !.before = Len(talk.answers)]
  /\ WaitOnly /\ UNCHANGED <<tasks, talk, used>>

\* post_question.
Post ==
  /\ drive.pc = "post"
  /\ talk.posted < MaxQuestions
  /\ talk' = [talk EXCEPT !.posted = @ + 1]
  /\ Goto("observe")
  /\ WaitOnly /\ UNCHANGED <<tasks, used>>

\* A bug: questions journaled before are journaled again.
ObserveAll ==
  /\ drive.pc = "observe"
  /\ talk' = [talk EXCEPT !.asked = @ + talk.posted, !.answered = Len(talk.answers), !.age = 0]
  /\ Goto("await")
  /\ WaitOnly /\ UNCHANGED <<tasks, used>>

\* observe_live_channels journals the question, and older ones and answers a
\* driver that died did not.
Observe ==
  /\ drive.pc = "observe"
  /\ talk' = [talk EXCEPT !.asked = talk.posted, !.answered = Len(talk.answers), !.age = 0]
  /\ Goto("await")
  /\ WaitOnly /\ UNCHANGED <<tasks, used>>

\* await_answer: the flags end the wait.
AwaitEnds ==
  /\ drive.pc = "await"
  /\ drive.cancel \/ drive.interrupt
  /\ Goto(IF drive.cancel THEN "killed" ELSE "ended")
  /\ WaitOnly /\ UNCHANGED <<tasks, talk, used>>

\* tick_live_observation journals answers; a question over its time gets the
\* default answer or ends the attempt, as the node has one or not.
Enforce ==
  /\ drive.pc = "await"
  /\ ~drive.cancel /\ ~drive.interrupt
  /\ talk' = [talk EXCEPT !.answered = Len(talk.answers)]
  /\ \/ ~QuestionIsOver /\ Goto("take")
     \/ QuestionIsOver /\ Goto("ended")
     \/ QuestionIsOver /\ drive' = [drive EXCEPT !.pc = "answer", !.seen = Len(talk.answers)]
  /\ WaitOnly /\ UNCHANGED <<tasks, used>>

\* A bug: the default answer is posted whatever came in meanwhile.
AnswerUncounted ==
  /\ drive.pc = "answer"
  /\ talk' = [talk EXCEPT !.answers = Append(@, talk.posted)]
  /\ Goto("take")
  /\ WaitOnly /\ UNCHANGED <<tasks, used>>

\* post_answer_if_unanswered counts again under the answers lock.
AnswerByDefault ==
  /\ drive.pc = "answer"
  /\ talk' = IF Len(talk.answers) = drive.seen
             THEN [talk EXCEPT !.answers = Append(@, talk.posted)] ELSE talk
  /\ drive' = [drive EXCEPT !.pc = "take", !.seen = 0]
  /\ WaitOnly /\ UNCHANGED <<tasks, used>>

\* The answer past those counted is the question's.
Take ==
  /\ drive.pc = "take"
  /\ Len(talk.answers) > drive.before
  /\ talk' = [talk EXCEPT !.answered = Len(talk.answers)]
  /\ used' = [question |-> talk.posted, before |-> drive.before]
  /\ drive' = [drive EXCEPT !.pc = "follow", !.before = 0]
  /\ WaitOnly /\ UNCHANGED tasks

TakeNothing ==
  /\ drive.pc = "take"
  /\ Len(talk.answers) <= drive.before
  /\ Goto("await")
  /\ WaitOnly /\ UNCHANGED <<tasks, talk, used>>

-----------------------------------------------------------------------------
(* The end of an attempt, and of the drive *)

\* Another try or chain step, unless the node is killed.
Retry ==
  /\ drive.pc = "ended"
  /\ ~drive.cancel
  /\ drive.attempt < Attempts
  /\ drive' = [drive EXCEPT !.pc = "request", !.attempt = @ + 1, !.interrupt = FALSE]
  /\ WaitOnly /\ UNCHANGED <<tasks, talk, used>>

\* The node is settled; what is left of the run opens no task.
Settle ==
  /\ drive.pc = "ended"
  /\ status' = "over"
  /\ drive' = NoDrive
  /\ DriveOnly /\ UNCHANGED <<control, tasks, talk, used>>

\* A killed attempt, or one more that the flag forbids: the drive goes back to
\* the scan, which applies the stop or the pause.
Halt ==
  /\ \/ drive.pc = "killed"
     \/ drive.pc = "ended" /\ drive.cancel
     \/ drive.pc = "scan" /\ control # {}
  /\ status' = IF "abort" \in control THEN "over" ELSE "paused"
  /\ control' = control \ {"pause"}
  /\ drive' = NoDrive
  /\ DriveOnly /\ UNCHANGED <<tasks, talk, used>>

Drive ==
  \/ Scan \/ Adopt \/ Allocate \/ File
  \/ Look \/ Consume \/ Cancelled \/ Interrupted \/ Expired \/ PollAgain
  \/ Count \/ Post \/ Observe \/ AwaitEnds \/ Enforce \/ AnswerByDefault \/ Take \/ TakeNothing
  \/ Retry \/ Settle \/ Halt

\* The StopWatcher marks the kill flag a `--now` pause is about to latch.
Mark ==
  /\ drive.pc \notin {"off", "scan"}
  /\ control = {"pause"} /\ ~drive.graceful /\ ~drive.cancel
  /\ drive' = [drive EXCEPT !.graceful = TRUE]
  /\ WaitOnly /\ UNCHANGED <<tasks, talk, used>>

\* A bug: the flag is latched before it is marked.
LatchUnmarked ==
  /\ drive.pc \notin {"off", "scan"}
  /\ control # {} /\ ~drive.cancel
  /\ drive' = [drive EXCEPT !.cancel = TRUE]
  /\ WaitOnly /\ UNCHANGED <<tasks, talk, used>>

\* CancelFanout::fire.
Latch ==
  /\ drive.pc \notin {"off", "scan"}
  /\ "abort" \in control \/ drive.graceful
  /\ ~drive.cancel
  /\ drive' = [drive EXCEPT !.cancel = TRUE]
  /\ WaitOnly /\ UNCHANGED <<tasks, talk, used>>

Mishap == mishaps < MaxMishaps /\ mishaps' = mishaps + 1

Crash ==
  /\ Live
  /\ Mishap
  /\ drive' = NoDrive
  /\ UNCHANGED <<status, control, tasks, offers, talk, used>>

\* A paused run, or one whose driver died, gets another driver.
Resume ==
  /\ ~Live /\ status # "over"
  /\ status' = "running"
  /\ drive' = [NoDrive EXCEPT !.pc = "scan"]
  /\ DriveOnly /\ UNCHANGED <<control, tasks, talk, used>>

-----------------------------------------------------------------------------
(* The hosts and the people *)

PeopleOnly == UNCHANGED <<drive, talk, used>>

\* submit reads the journal: the task is open.
CheckOpen(t, reply) ==
  /\ t \in Open
  /\ Cardinality(offers) < MaxOffers
  /\ offers' = offers \cup {[task |-> t, reply |-> reply]}
  /\ PeopleOnly /\ UNCHANGED <<status, control, tasks, mishaps>>

\* A bug: the reply is renamed over one that is there.
PublishOver(offer) ==
  /\ tasks' = [tasks EXCEPT ![offer.task].reply = offer.reply,
                            ![offer.task].atRest = ~Live /\ offer.task \in Open]
  /\ offers' = offers \ {offer}
  /\ PeopleOnly /\ UNCHANGED <<status, control, mishaps>>

\* Later the reply is published, whatever became of the task meanwhile, with a
\* link that leaves one that is there alone.
Publish(offer) ==
  /\ IF tasks[offer.task].reply # "none" THEN UNCHANGED tasks
     ELSE tasks' = [tasks EXCEPT ![offer.task].reply = offer.reply,
                                 ![offer.task].atRest = ~Live /\ offer.task \in Open]
  /\ offers' = offers \ {offer}
  /\ PeopleOnly /\ UNCHANGED <<status, control, mishaps>>

\* post_answer_to, naming the question that was shown.
Answer(q) ==
  /\ q <= talk.asked
  /\ Accepts(q)
  /\ talk' = [talk EXCEPT !.answers = Append(@, q)]
  /\ UNCHANGED <<status, control, tasks, drive, offers, mishaps, used>>

\* `apb pause --now`: a run without a driver is paused at once.
Pause ==
  /\ status = "running"
  /\ Mishap
  /\ IF Live THEN control' = control \cup {"pause"} /\ UNCHANGED status
     ELSE status' = "paused" /\ UNCHANGED control
  /\ PeopleOnly /\ UNCHANGED <<tasks, offers>>

\* `apb stop`: posted, and applied at once when nobody drives.
Stop ==
  /\ status # "over"
  /\ Mishap
  /\ control' = control \cup {"abort"}
  /\ status' = IF Live THEN status ELSE "over"
  /\ PeopleOnly /\ UNCHANGED <<tasks, offers>>

\* A supervisor's interrupt, seen by the attempt in flight where it polls for one.
Interrupt ==
  /\ drive.pc \in {"check", "await"}
  /\ ~drive.interrupt
  /\ Mishap
  /\ drive' = [drive EXCEPT !.interrupt = TRUE]
  /\ UNCHANGED <<status, control, tasks, offers, talk, used>>

\* Time passes: an attempt counts down by the clock, a reader reckons from the
\* journal how long the run was active and paused.
Tick ==
  /\ status # "over"
  /\ drive' = [drive EXCEPT !.left = IF @ > 0 THEN @ - 1 ELSE 0]
  /\ tasks' = [t \in DOMAIN tasks |->
       IF t \notin Open THEN tasks[t]
       ELSE IF status = "paused" THEN [tasks[t] EXCEPT !.paused = Min({@ + 1, Timeout})]
       ELSE [tasks[t] EXCEPT !.active = Min({@ + 1, Timeout})]]
  /\ talk' = [talk EXCEPT !.age = IF status = "paused" \/ talk.asked = 0 THEN @
                                 ELSE Min({@ + 1, QuestionTimeout})]
  /\ UNCHANGED <<status, control, offers, mishaps, used>>

Next ==
  \/ Drive \/ Mark \/ Latch \/ Crash \/ Resume
  \/ \E t \in DOMAIN tasks, reply \in Replies : CheckOpen(t, reply)
  \/ \E offer \in offers : Publish(offer)
  \/ \E q \in 1..MaxQuestions : Answer(q)
  \/ Pause \/ Stop \/ Interrupt \/ Tick

Spec == Init /\ [][Next]_vars

\* A live driver goes on, and a run that waits without one is resumed.
FairSpec == Spec /\ WF_vars(Drive) /\ WF_vars(Resume)

-----------------------------------------------------------------------------
(* Properties *)

Waiting == {"await", "take", "answer"}

Places == Waiting \cup {"off", "scan", "request", "file", "look", "check", "count", "post", "observe",
                       "follow", "ended", "killed"}

Task == [state : {"dir", "open", "closed"},
         end : Replies \cup {"none", "superseded", "cancelled", "interrupted", "expired"},
         reply : Replies \cup {"none"},
         atRest : BOOLEAN, active : 0..Timeout, paused : 0..Timeout]

Memory == [pc : Places, attempt : Nat, task : Nat, left : 0..Timeout, before : Nat, seen : Nat,
           cancel : BOOLEAN, graceful : BOOLEAN, interrupt : BOOLEAN]

Talk == [posted : Nat, asked : Nat, answered : Nat, answers : Seq(Nat), age : 0..QuestionTimeout]

\* Every part of the state has its type, and the journal holds no question and
\* no answer that is not in its file (observe_live_channels skips what is there).
TypeOK ==
  /\ status \in {"running", "paused", "over"} /\ control \subseteq {"pause", "abort"}
  /\ tasks \in Seq(Task)
  /\ drive \in Memory
  /\ offers \subseteq [task : DOMAIN tasks, reply : Replies]
  /\ talk \in Talk
  /\ talk.asked <= talk.posted /\ talk.answered <= Len(talk.answers)
  /\ mishaps \in Nat
  /\ used \in [question : Nat, before : Nat]

\* A host never has two tasks of the node to choose from, and a drive that
\* waits for a reply waits for the task that is listed, however drives died
\* and were resumed in between (adoptable, host_task.rs:725).
OneOpenTask ==
  /\ \A t, u \in Open : t = u
  /\ drive.pc \in {"look", "check"} => drive.task \in Open

\* A reply that was stored while nobody drove the run is applied by the next
\* drive: not its deadline, nor a stop or an interrupt, closes the task first
\* (docs/HOST-INTEGRATION.md:115).
RepliesAtRestAreApplied ==
  \A t \in DOMAIN tasks : tasks[t].atRest /\ tasks[t].state = "closed" => tasks[t].end \in Replies

\* Of the replies to one task the one that is on file is the one the drive
\* journaled, whether the others come before it or after: no host is told that
\* its reply was accepted and another's counts (submit, host_task.rs:608).
OneReplyCounts ==
  \A t \in DOMAIN tasks : tasks[t].end \in Replies => tasks[t].end = tasks[t].reply

\* The drive expires a task when readers see its deadline pass: both clocks
\* leave out the pauses since it opened, across adoptions (remaining_timeout,
\* shifted_deadline_ms).
DeadlineIsTheOneShown == drive.pc \in {"look", "check"} => drive.left = Shown(drive.task)

\* A pause never closes a task: one the kill flag closed was stopped, also when
\* the watcher's latch and the drive's two reads of it interleave (stop.rs:310).
PauseKeepsTasks ==
  \A t \in DOMAIN tasks : tasks[t].end = "cancelled" => "abort" \in control

\* A drive that waits for an answer has one it did not count yet, or there is
\* a question a person can still answer (await_answer counts by position).
WaitCanEnd ==
  drive.pc \in Waiting =>
    Len(talk.answers) > drive.before \/ \E q \in 1..talk.asked : Accepts(q)

\* A question that is asked when every earlier one has been answered gets an
\* answer that was given to it, whatever arrives twice or late and whether or
\* not it times out meanwhile (question.rs:227, 338).
AnswersFit ==
  used.question # 0 /\ used.before = used.question - 1 =>
    talk.answers[used.before + 1] = used.question

\* A reply to an open task is taken up, also across deaths and pauses, unless
\* the task is closed first (the poll of run_cancellable, host.rs:503).
Served == Replied # {} ~> Replied = {}
=============================================================================
