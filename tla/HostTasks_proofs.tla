-------------------------- MODULE HostTasks_proofs --------------------------
(***************************************************************************)
(* Proofs about HostTasks, for every value of its constants.               *)
(***************************************************************************)
EXTENDS HostTasks, TLAPS, SequenceTheorems

-----------------------------------------------------------------------------
(* The invariant *)

\* Where the drive has no open task.
Taskless == Waiting \cup {"file", "count", "post", "observe", "follow", "ended"}

\* Only a running run is driven, and what the drive reads and closes is the task it opened.
DriveFits ==
  /\ Live => status = "running"
  /\ drive.pc \in {"file", "look", "check"} => drive.task \in DOMAIN tasks
  /\ drive.pc = "file" => tasks[drive.task].state = "dir"
  /\ drive.pc \in {"look", "check"} => tasks[drive.task].state = "open"
  /\ drive.pc = "check" => ~tasks[drive.task].atRest
  /\ drive.cancel /\ ~drive.graceful => "abort" \in control

\* At most one directory counts as open, whatever the run's status.
OpenFits ==
  /\ \A t, u \in DOMAIN tasks : tasks[t].state = "open" /\ tasks[u].state = "open" => t = u
  /\ drive.pc \in Taskless => \A t \in DOMAIN tasks : tasks[t].state # "open"

\* A reply is there when a task says how it came, and the clock of a task starts with its record.
TasksFit ==
  \A t \in DOMAIN tasks :
    /\ tasks[t].atRest => tasks[t].reply # "none"
    /\ tasks[t].state = "dir" => tasks[t].active = 0 /\ tasks[t].paused = 0

\* The drive's clock is the task's own.
ClockFits == drive.pc \in {"look", "check"} => drive.left = Timeout - tasks[drive.task].active

\* Questions are answered by position, and none before it is journaled.
TalkFits ==
  /\ Len(talk.answers) <= talk.asked
  /\ drive.pc = "post" => drive.before <= Len(talk.answers)
  /\ drive.pc = "observe" => drive.before < talk.posted /\ talk.asked < talk.posted
  /\ drive.pc \in Waiting => drive.before < talk.posted /\ talk.asked = talk.posted
  /\ drive.pc = "answer" => drive.seen < talk.posted

\* The one answer to the only open question, and the one that was taken.
AnswerFits ==
  /\ drive.pc \in Waiting /\ drive.before = talk.posted - 1 /\ Len(talk.answers) > drive.before =>
       talk.answers[talk.posted] = talk.posted
  /\ used.question # 0 => used.before < Len(talk.answers)
  /\ AnswersFit

Inv ==
  /\ TypeOK /\ DriveFits /\ OpenFits /\ TasksFit /\ ClockFits /\ TalkFits /\ AnswerFits
  /\ RepliesAtRestAreApplied /\ OneReplyCounts /\ PauseKeepsTasks

-----------------------------------------------------------------------------
(* Steps that several actions take *)

LEMMA Times ==
  /\ Timeout \in Nat /\ QuestionTimeout \in Nat
  /\ 0 \in 0..Timeout /\ Timeout \in 0..Timeout /\ 0 \in 0..QuestionTimeout
BY TimeAssumption

LEMMA MaxOfOne == ASSUME NEW t \in Int PROVE Max({t}) = t
BY DEF Max

LEMMA MinIsOne ==
  ASSUME NEW a \in Int, NEW b \in Int
  PROVE  Min({a, b}) = IF a <= b THEN a ELSE b
BY DEF Min

\* The directories are a table by number.
LEMMA Table ==
  ASSUME TypeOK
  PROVE  /\ Len(tasks) \in Nat /\ DOMAIN tasks = 1..Len(tasks)
         /\ tasks \in [DOMAIN tasks -> Task]
BY LenProperties DEF TypeOK

LEMMA TableIsSeq ==
  ASSUME TypeOK, NEW f \in [DOMAIN tasks -> Task]
  PROVE  f \in Seq(Task) /\ DOMAIN f = DOMAIN tasks
BY Table, SeqDef

\* A task that is closed is the only one that changes.
LEMMA CloseFacts ==
  ASSUME TypeOK, NEW t \in DOMAIN tasks,
         NEW end \in Replies \cup {"superseded", "cancelled", "interrupted", "expired"},
         Close(t, end)
  PROVE  /\ tasks' \in Seq(Task) /\ DOMAIN tasks' = DOMAIN tasks
         /\ \A u \in DOMAIN tasks \ {t} : tasks'[u] = tasks[u]
         /\ tasks'[t].state = "closed" /\ tasks'[t].end = end
         /\ tasks'[t].reply = tasks[t].reply /\ tasks'[t].atRest = tasks[t].atRest
<1> DEFINE entry == [tasks[t] EXCEPT !.state = "closed", !.end = end, !.active = 0, !.paused = 0]
<1>1. tasks \in [DOMAIN tasks -> Task]
  BY Table
<1>2. 0 \in 0..Timeout
  BY Times
<1>3. entry \in Task /\ entry.state = "closed" /\ entry.end = end
      /\ entry.reply = tasks[t].reply /\ entry.atRest = tasks[t].atRest
  BY <1>1, <1>2 DEF Task
<1>4. tasks' = [tasks EXCEPT ![t] = entry]
  BY <1>1 DEF Close
<1> HIDE DEF entry
<1>5. tasks' \in [DOMAIN tasks -> Task]
  BY <1>1, <1>3, <1>4
<1> QED BY <1>1, <1>3, <1>4, <1>5, TableIsSeq

\* The parts of the invariant that are about the tasks alone.
LEMMA TasksStay ==
  ASSUME Inv, UNCHANGED tasks, "abort" \in control => "abort" \in control'
  PROVE  TasksFit' /\ RepliesAtRestAreApplied' /\ OneReplyCounts' /\ PauseKeepsTasks'
BY DEF Inv, TasksFit, RepliesAtRestAreApplied, OneReplyCounts, PauseKeepsTasks

\* What becomes of them when a task is closed that was open.
LEMMA TasksClose ==
  ASSUME Inv, NEW t \in DOMAIN tasks, UNCHANGED control,
         NEW end \in Replies \cup {"cancelled", "interrupted", "expired"},
         Close(t, end),
         end \in Replies => end = tasks[t].reply,
         end \notin Replies => ~tasks[t].atRest,
         end = "cancelled" => "abort" \in control
  PROVE  TasksFit' /\ RepliesAtRestAreApplied' /\ OneReplyCounts' /\ PauseKeepsTasks'
BY CloseFacts DEF Inv, TasksFit, RepliesAtRestAreApplied, OneReplyCounts, PauseKeepsTasks

\* Where no question is in hand, the invariant asks nothing of the drive.
LEMMA TalkRests ==
  ASSUME Inv, UNCHANGED <<talk, used>>, drive'.pc \notin Waiting \cup {"post", "observe"}
  PROVE  TalkFits' /\ AnswerFits'
BY DEF Inv, TalkFits, AnswerFits, AnswersFit, Waiting

\* Nor when the drive stays where it is.
LEMMA TalkStays ==
  ASSUME Inv, UNCHANGED <<talk.posted, talk.asked, talk.answers, used>>,
         drive'.pc = drive.pc, drive'.before = drive.before, drive'.seen = drive.seen
  PROVE  TalkFits' /\ AnswerFits'
BY DEF Inv, TalkFits, AnswerFits, AnswersFit, Waiting

\* The drive goes to a place where it waits for nothing, or dies, and the rest
\* says no more of it than that it runs.
LEMMA MoveKeeps ==
  ASSUME Inv, TypeOK', UNCHANGED <<tasks, talk, used>>,
         drive'.pc \in {"off", "scan", "request", "ended", "killed"},
         drive'.pc = "ended" => drive.pc \in Taskless,
         drive'.pc # "off" => status' = "running",
         drive'.cancel /\ ~drive'.graceful => "abort" \in control',
         "abort" \in control => "abort" \in control'
  PROVE  Inv'
<1>1. DriveFits' /\ OpenFits' /\ ClockFits'
  BY DEF Inv, DriveFits, OpenFits, ClockFits, Live, Taskless, Waiting
<1>2. TalkFits' /\ AnswerFits'
  BY TalkRests DEF Waiting
<1> QED BY <1>1, <1>2, TasksStay DEF Inv

-----------------------------------------------------------------------------
(* The steps of the drive *)

LEMMA Start == Init => Inv
<1> SUFFICES ASSUME Init PROVE Inv
  OBVIOUS
<1>1. tasks = <<>> /\ DOMAIN tasks = {} /\ Len(tasks) = 0 /\ tasks \in Seq(Task)
  BY EmptySeq DEF Init
<1>2. talk.answers = <<>> /\ Len(talk.answers) = 0 /\ talk.answers \in Seq(Nat)
  BY EmptySeq DEF Init
<1>3. TypeOK
  <2>1. drive \in Memory
    BY Times DEF Init, NoDrive, Memory, Places
  <2>2. talk \in Talk
    BY <1>2, Times DEF Init, Talk
  <2> QED BY <1>1, <1>2, <2>1, <2>2 DEF TypeOK, Init
<1>4. drive.pc = "scan" /\ ~drive.cancel /\ status = "running"
  BY DEF Init, NoDrive
<1>5. talk.posted = 0 /\ talk.asked = 0 /\ used.question = 0
  BY DEF Init
<1> QED BY <1>1, <1>2, <1>3, <1>4, <1>5
        DEF Inv, DriveFits, OpenFits, TasksFit, ClockFits, TalkFits, AnswerFits, AnswersFit, Live,
            Taskless, Waiting, RepliesAtRestAreApplied, OneReplyCounts, PauseKeepsTasks

\* The drive moves on, with nothing of the journal or the tasks changed.
LEMMA ScanKeeps == ASSUME Inv, Scan PROVE Inv'
<1>1. /\ drive.pc = "scan" /\ drive' = [drive EXCEPT !.pc = "request", !.attempt = 1]
      /\ UNCHANGED <<status, control, tasks, offers, talk, mishaps, used>>
  BY DEF Scan, WaitOnly, DriveOnly
<1>2. TypeOK'
  BY <1>1 DEF Inv, TypeOK, Memory, Places
<1>3. drive'.pc = "request" /\ drive'.cancel = drive.cancel /\ drive'.graceful = drive.graceful
  BY <1>1 DEF Inv, TypeOK, Memory
<1>4. DriveFits' /\ OpenFits' /\ ClockFits'
  BY <1>1, <1>3 DEF Inv, DriveFits, OpenFits, ClockFits, Live, Taskless, Waiting
<1>5. TalkFits' /\ AnswerFits'
  BY <1>1, <1>3, TalkRests DEF Waiting
<1> QED BY <1>1, <1>2, <1>4, <1>5, TasksStay DEF Inv

\* The task it goes on with is the one that is open, and the only one.
LEMMA AdoptedIsTheOpen ==
  ASSUME Inv, drive.pc = "request", Open # {}
  PROVE  Adoptable \in Open /\ Open = {Adoptable} /\ Adoptable \in DOMAIN tasks
<1>1. PICK t \in Open : Open = {t}
  BY DEF Inv, OpenFits, Open
<1>2. t \in DOMAIN tasks /\ t \in Int
  BY <1>1, Table DEF Inv, Open
<1>3. Replied # {} => Replied = {t}
  BY <1>1 DEF Replied
<1>4. Adoptable = t
  BY <1>1, <1>2, <1>3, MaxOfOne DEF Adoptable
<1> QED BY <1>1, <1>2, <1>4

LEMMA AdoptKeeps == ASSUME Inv, Adopt PROVE Inv'
<1> DEFINE t == Adoptable
<1>1. t \in Open /\ Open = {t} /\ t \in DOMAIN tasks
  BY AdoptedIsTheOpen DEF Adopt
<1>2. tasks \in [DOMAIN tasks -> Task] /\ t \in Nat
  BY <1>1, Table DEF Inv
<1>3. tasks' = tasks
  <2>1. \A u \in DOMAIN tasks : u \notin Open \ {t}
    BY <1>1
  <2>2. tasks' = [u \in DOMAIN tasks |-> tasks[u]]
    BY <2>1 DEF Adopt
  <2> QED BY <1>2, <2>2
<1> HIDE DEF t
<1>4. /\ drive.pc = "request"
      /\ drive' = [drive EXCEPT !.pc = "look", !.task = t, !.left = Timeout - tasks[t].active]
      /\ UNCHANGED <<status, control, offers, talk, mishaps, used>>
  BY DEF Adopt, Begin, Left, WaitOnly, DriveOnly, t
<1>5. /\ drive'.pc = "look" /\ drive'.task = t /\ drive'.left = Timeout - tasks[t].active
      /\ drive'.cancel = drive.cancel /\ drive'.graceful = drive.graceful
  BY <1>4 DEF Inv, TypeOK, Memory
<1>6. Timeout - tasks[t].active \in 0..Timeout
  BY <1>1, <1>2, Times DEF Task
<1>7. TypeOK'
  BY <1>2, <1>3, <1>4, <1>6 DEF Inv, TypeOK, Memory, Places
<1>8. DriveFits' /\ OpenFits' /\ ClockFits'
  BY <1>1, <1>3, <1>4, <1>5 DEF Inv, DriveFits, OpenFits, ClockFits, Live, Taskless, Waiting, Open
<1>9. TalkFits' /\ AnswerFits'
  BY <1>4, <1>5, TalkRests DEF Waiting
<1> QED BY <1>3, <1>4, <1>7, <1>8, <1>9, TasksStay DEF Inv

LEMMA AllocateKeeps == ASSUME Inv, Allocate PROVE Inv'
<1> DEFINE n == Len(tasks) + 1
<1>1. /\ drive.pc \in {"request", "follow"}
      /\ drive.pc = "request" => Open = {}
      /\ tasks' = Append(tasks, Directory)
      /\ drive' = [drive EXCEPT !.pc = "file", !.task = n]
      /\ UNCHANGED <<status, control, offers, talk, mishaps, used>>
  BY DEF Allocate, WaitOnly, DriveOnly
<1>2. Len(tasks) \in Nat /\ DOMAIN tasks = 1..Len(tasks) /\ tasks \in Seq(Task)
  BY Table DEF Inv, TypeOK
<1>3. Directory \in Task
  BY Times DEF Directory, Task
<1>4. tasks' \in Seq(Task) /\ DOMAIN tasks' = 1..n /\ n \in Nat
  BY <1>1, <1>2, <1>3
<1>5. \A u \in DOMAIN tasks : tasks'[u] = tasks[u]
  BY <1>1, <1>2
<1>6. tasks'[n] = Directory
  BY <1>1, <1>2
<1>7. \A u \in DOMAIN tasks' : u \in DOMAIN tasks \/ u = n
  BY <1>2, <1>4
<1>8. DOMAIN tasks \subseteq DOMAIN tasks' /\ n \in DOMAIN tasks'
  BY <1>2, <1>4
<1> HIDE DEF n
<1>9. /\ Directory.state = "dir" /\ Directory.end = "none" /\ ~Directory.atRest
      /\ Directory.active = 0 /\ Directory.paused = 0
  BY DEF Directory
<1>10. drive'.pc = "file" /\ drive'.task = n /\ drive'.cancel = drive.cancel /\ drive'.graceful = drive.graceful
  BY <1>1 DEF Inv, TypeOK, Memory
<1>11. TypeOK'
  <2>1. drive' \in Memory
    BY <1>1, <1>4 DEF Inv, TypeOK, Memory, Places
  <2>2. offers' \subseteq [task : DOMAIN tasks', reply : Replies]
    BY <1>1, <1>8 DEF Inv, TypeOK
  <2> QED BY <1>1, <1>4, <2>1, <2>2 DEF Inv, TypeOK
<1>12. \A u \in DOMAIN tasks : tasks[u].state # "open"
  BY <1>1 DEF Inv, OpenFits, DriveFits, Live, Open, Taskless
<1>13. DriveFits' /\ ClockFits'
  BY <1>1, <1>6, <1>8, <1>9, <1>10 DEF Inv, DriveFits, ClockFits, Live
<1>14. OpenFits'
  BY <1>5, <1>6, <1>7, <1>9, <1>12 DEF OpenFits
<1>15. TasksFit' /\ RepliesAtRestAreApplied' /\ OneReplyCounts' /\ PauseKeepsTasks'
  BY <1>1, <1>5, <1>6, <1>7, <1>9
     DEF Inv, TasksFit, RepliesAtRestAreApplied, OneReplyCounts, PauseKeepsTasks, Replies
<1>16. TalkFits' /\ AnswerFits'
  BY <1>1, <1>10, TalkRests DEF Waiting
<1> QED BY <1>11, <1>13, <1>14, <1>15, <1>16 DEF Inv

LEMMA FileKeeps == ASSUME Inv, File PROVE Inv'
<1> DEFINE t == drive.task
           entry == [tasks[t] EXCEPT !.state = "open"]
<1>1. /\ drive.pc = "file"
      /\ tasks' = [tasks EXCEPT ![t] = entry]
      /\ drive' = [drive EXCEPT !.pc = "look", !.task = t, !.left = Timeout]
      /\ UNCHANGED <<status, control, offers, talk, mishaps, used>>
  BY DEF File, Begin, WaitOnly, DriveOnly
<1>2. t \in DOMAIN tasks /\ tasks \in [DOMAIN tasks -> Task] /\ t \in Nat
  BY <1>1, Table DEF Inv, DriveFits
<1>3. tasks[t].state = "dir" /\ tasks[t].active = 0 /\ tasks[t].paused = 0
  BY <1>1, <1>2 DEF Inv, DriveFits, TasksFit
<1>4. /\ entry \in Task /\ entry.state = "open" /\ entry.end = tasks[t].end
      /\ entry.reply = tasks[t].reply /\ entry.atRest = tasks[t].atRest /\ entry.active = 0
  BY <1>2, <1>3 DEF Task
<1> HIDE DEF entry
<1>5. tasks' \in [DOMAIN tasks -> Task]
  BY <1>1, <1>2, <1>4
<1>6. tasks' \in Seq(Task) /\ DOMAIN tasks' = DOMAIN tasks
  BY <1>5, TableIsSeq DEF Inv
<1>7. /\ \A u \in DOMAIN tasks \ {t} : tasks'[u] = tasks[u]
      /\ tasks'[t] = entry
  BY <1>1, <1>2
<1>8. /\ drive'.pc = "look" /\ drive'.task = t /\ drive'.left = Timeout
      /\ drive'.cancel = drive.cancel /\ drive'.graceful = drive.graceful
  BY <1>1 DEF Inv, TypeOK, Memory
<1> HIDE DEF t
<1>9. TypeOK'
  BY <1>1, <1>2, <1>6, Times DEF Inv, TypeOK, Memory, Places
<1>10. \A u \in DOMAIN tasks : tasks[u].state # "open"
  BY <1>1 DEF Inv, OpenFits, Taskless
<1>11. DriveFits'
  BY <1>1, <1>2, <1>4, <1>6, <1>7, <1>8 DEF Inv, DriveFits, Live
<1>12. ClockFits'
  BY <1>4, <1>7, <1>8, Times DEF ClockFits
<1>13. OpenFits'
  BY <1>6, <1>7, <1>8, <1>10 DEF OpenFits, Taskless, Waiting
<1>14. TasksFit' /\ RepliesAtRestAreApplied' /\ OneReplyCounts' /\ PauseKeepsTasks'
  BY <1>1, <1>4, <1>6, <1>7
     DEF Inv, TasksFit, RepliesAtRestAreApplied, OneReplyCounts, PauseKeepsTasks
<1>15. TalkFits' /\ AnswerFits'
  BY <1>1, <1>8, TalkRests DEF Waiting
<1> QED BY <1>9, <1>11, <1>12, <1>13, <1>14, <1>15 DEF Inv

LEMMA LookKeeps == ASSUME Inv, Look PROVE Inv'
<1>1. /\ drive.pc = "look" /\ tasks[drive.task].reply = "none"
      /\ drive' = [drive EXCEPT !.pc = "check"]
      /\ UNCHANGED <<status, control, tasks, offers, talk, mishaps, used>>
  BY DEF Look, Goto, WaitOnly, DriveOnly
<1>2. TypeOK'
  BY <1>1 DEF Inv, TypeOK, Memory, Places
<1>3. /\ drive'.pc = "check" /\ drive'.task = drive.task /\ drive'.left = drive.left
      /\ drive'.cancel = drive.cancel /\ drive'.graceful = drive.graceful
  BY <1>1 DEF Inv, TypeOK, Memory
<1>4. ~tasks[drive.task].atRest
  BY <1>1 DEF Inv, DriveFits, TasksFit
<1>5. DriveFits' /\ OpenFits' /\ ClockFits'
  BY <1>1, <1>3, <1>4 DEF Inv, DriveFits, OpenFits, ClockFits, Live, Taskless, Waiting
<1>6. TalkFits' /\ AnswerFits'
  BY <1>1, <1>3, TalkRests DEF Waiting
<1> QED BY <1>1, <1>2, <1>5, <1>6, TasksStay DEF Inv

\* A task is closed, whatever for, and the drive goes to a place without one.
LEMMA ClosingKeeps ==
  ASSUME Inv, drive.pc \in {"look", "check"},
         NEW end \in Replies \cup {"cancelled", "interrupted", "expired"},
         Close(drive.task, end),
         NEW at \in {"count", "ended", "killed"}, Leave(at),
         WaitOnly, UNCHANGED <<talk, used>>,
         end \in Replies => end = tasks[drive.task].reply,
         end \notin Replies => drive.pc = "check",
         end = "cancelled" => "abort" \in control
  PROVE  Inv'
<1> DEFINE t == drive.task
<1>1. /\ drive' = [drive EXCEPT !.pc = at, !.task = 0, !.left = 0]
      /\ UNCHANGED <<status, control, offers, talk, mishaps, used>>
  BY DEF Leave, WaitOnly, DriveOnly
<1>2. t \in DOMAIN tasks /\ tasks[t].state = "open" /\ status = "running"
  BY DEF Inv, DriveFits, Live
<1>3. /\ tasks' \in Seq(Task) /\ DOMAIN tasks' = DOMAIN tasks
      /\ \A u \in DOMAIN tasks \ {t} : tasks'[u] = tasks[u]
      /\ tasks'[t].state = "closed"
  BY <1>2, CloseFacts DEF Inv
<1>4. drive'.pc = at /\ drive'.cancel = drive.cancel /\ drive'.graceful = drive.graceful
  BY <1>1 DEF Inv, TypeOK, Memory
<1>5. TypeOK'
  <2>1. drive' \in Memory
    BY <1>1, Times DEF Inv, TypeOK, Memory, Places
  <2> QED BY <1>1, <1>3, <2>1 DEF Inv, TypeOK
<1>6. TasksFit' /\ RepliesAtRestAreApplied' /\ OneReplyCounts' /\ PauseKeepsTasks'
  <2>1. end \notin Replies => ~tasks[t].atRest
    BY DEF Inv, DriveFits
  <2> QED BY <1>1, <1>2, <2>1, TasksClose
<1>7. \A u \in DOMAIN tasks' : tasks'[u].state # "open"
  BY <1>2, <1>3 DEF Inv, OpenFits
<1> HIDE DEF t
<1>8. DriveFits' /\ OpenFits' /\ ClockFits'
  BY <1>1, <1>2, <1>4, <1>7 DEF Inv, DriveFits, OpenFits, ClockFits, Live
<1>9. TalkFits' /\ AnswerFits'
  BY <1>1, <1>4, TalkRests DEF Waiting
<1> QED BY <1>5, <1>6, <1>8, <1>9 DEF Inv

LEMMA ConsumeKeeps == ASSUME Inv, Consume PROVE Inv'
<1> DEFINE reply == tasks[drive.task].reply
<1>1. drive.pc = "look" /\ reply # "none"
  BY DEF Consume
<1>2. drive.task \in DOMAIN tasks /\ tasks \in [DOMAIN tasks -> Task]
  BY <1>1, Table DEF Inv, DriveFits
<1>3. reply \in Replies
  BY <1>1, <1>2 DEF Task
<1>4. Close(drive.task, reply) /\ WaitOnly /\ UNCHANGED <<talk, used>>
      /\ Leave(IF reply = "blocked" THEN "count" ELSE "ended")
  BY DEF Consume, Close
<1>5. reply = tasks[drive.task].reply
  OBVIOUS
<1> HIDE DEF reply
<1>6. CASE reply = "blocked"
  <2>1. Leave("count")
    BY <1>4, <1>6
  <2> QED BY <1>1, <1>3, <1>4, <1>5, <2>1, ClosingKeeps DEF Replies
<1>7. CASE reply # "blocked"
  <2>1. Leave("ended")
    BY <1>4, <1>7
  <2> QED BY <1>1, <1>3, <1>4, <1>5, <2>1, ClosingKeeps DEF Replies
<1> QED BY <1>6, <1>7

LEMMA CancelledKeeps == ASSUME Inv, Cancelled PROVE Inv'
<1>1. CASE ~drive.graceful
  <2>1. "abort" \in control
    BY <1>1 DEF Cancelled, Inv, DriveFits
  <2> QED BY <1>1, <2>1, ClosingKeeps DEF Cancelled, Replies
<1>2. CASE drive.graceful
  <2>1. /\ drive.pc = "check" /\ drive' = [drive EXCEPT !.pc = "killed", !.task = 0, !.left = 0]
        /\ UNCHANGED <<status, control, tasks, offers, talk, mishaps, used>>
    BY <1>2 DEF Cancelled, Leave, WaitOnly, DriveOnly
  <2>2. TypeOK'
    BY <2>1, Times DEF Inv, TypeOK, Memory, Places
  <2>3. drive'.pc = "killed" /\ drive'.cancel = drive.cancel /\ drive'.graceful = drive.graceful
    BY <2>1 DEF Inv, TypeOK, Memory
  <2>4. DriveFits' /\ OpenFits' /\ ClockFits'
    BY <2>1, <2>3 DEF Inv, DriveFits, OpenFits, ClockFits, Live, Taskless, Waiting
  <2>5. TalkFits' /\ AnswerFits'
    BY <2>1, <2>3, TalkRests DEF Waiting
  <2> QED BY <2>1, <2>2, <2>4, <2>5, TasksStay DEF Inv
<1> QED BY <1>1, <1>2

LEMMA InterruptedKeeps == ASSUME Inv, Interrupted PROVE Inv'
BY ClosingKeeps DEF Interrupted, Replies

LEMMA ExpiredKeeps == ASSUME Inv, Expired PROVE Inv'
BY ClosingKeeps DEF Expired, Replies

LEMMA PollAgainKeeps == ASSUME Inv, PollAgain PROVE Inv'
<1>1. /\ drive.pc = "check"
      /\ drive' = [drive EXCEPT !.pc = "look"]
      /\ UNCHANGED <<status, control, tasks, offers, talk, mishaps, used>>
  BY DEF PollAgain, Goto, WaitOnly, DriveOnly
<1>2. TypeOK'
  BY <1>1 DEF Inv, TypeOK, Memory, Places
<1>3. /\ drive'.pc = "look" /\ drive'.task = drive.task /\ drive'.left = drive.left
      /\ drive'.cancel = drive.cancel /\ drive'.graceful = drive.graceful
  BY <1>1 DEF Inv, TypeOK, Memory
<1>4. DriveFits' /\ OpenFits' /\ ClockFits'
  BY <1>1, <1>3 DEF Inv, DriveFits, OpenFits, ClockFits, Live, Taskless, Waiting
<1>5. TalkFits' /\ AnswerFits'
  BY <1>1, <1>3, TalkRests DEF Waiting
<1> QED BY <1>1, <1>2, <1>4, <1>5, TasksStay DEF Inv

-----------------------------------------------------------------------------
(* A question *)

\* What talk is made of.
LEMMA TalkTypes ==
  ASSUME TypeOK
  PROVE  /\ talk.posted \in Nat /\ talk.asked \in Nat /\ talk.answered \in Nat
         /\ talk.asked <= talk.posted /\ talk.answered <= Len(talk.answers)
         /\ talk.answers \in Seq(Nat) /\ Len(talk.answers) \in Nat
         /\ talk.age \in 0..QuestionTimeout
         /\ drive.before \in Nat /\ drive.seen \in Nat
BY LenProperties DEF TypeOK, Talk, Memory

\* A drive that has no task goes from one step of a question to the next.
LEMMA AskingKeeps ==
  ASSUME Inv, TypeOK', TalkFits', AnswerFits', UNCHANGED <<status, control, tasks>>,
         drive.pc \in Taskless,
         drive'.pc \in Taskless \ {"file"},
         drive'.cancel = drive.cancel, drive'.graceful = drive.graceful
  PROVE  Inv'
<1>1. DriveFits' /\ OpenFits' /\ ClockFits'
  BY DEF Inv, DriveFits, OpenFits, ClockFits, Live, Taskless, Waiting
<1> QED BY <1>1, TasksStay DEF Inv

LEMMA CountKeeps == ASSUME Inv, Count PROVE Inv'
<1>1. /\ drive.pc = "count"
      /\ drive' = [drive EXCEPT !.pc = "post", !.before = Len(talk.answers)]
      /\ UNCHANGED <<status, control, tasks, offers, talk, mishaps, used>>
  BY DEF Count, WaitOnly, DriveOnly
<1>2. Len(talk.answers) \in Nat
  BY TalkTypes DEF Inv
<1>3. TypeOK'
  BY <1>1, <1>2 DEF Inv, TypeOK, Memory, Places
<1>4. /\ drive'.pc = "post" /\ drive'.before = Len(talk.answers)
      /\ drive'.cancel = drive.cancel /\ drive'.graceful = drive.graceful
  BY <1>1 DEF Inv, TypeOK, Memory
<1>5. TalkFits' /\ AnswerFits'
  BY <1>1, <1>2, <1>4 DEF Inv, TalkFits, AnswerFits, AnswersFit, Waiting
<1> QED BY <1>1, <1>3, <1>4, <1>5, AskingKeeps DEF Taskless

LEMMA PostKeeps == ASSUME Inv, Post PROVE Inv'
<1>1. /\ drive.pc = "post"
      /\ talk' = [talk EXCEPT !.posted = @ + 1]
      /\ drive' = [drive EXCEPT !.pc = "observe"]
      /\ UNCHANGED <<status, control, tasks, offers, mishaps, used>>
  BY DEF Post, Goto, WaitOnly, DriveOnly
<1>2. /\ talk'.posted = talk.posted + 1 /\ talk'.asked = talk.asked
      /\ talk'.answers = talk.answers /\ talk'.answered = talk.answered
      /\ talk' \in Talk
  <2> DEFINE n == talk.posted + 1
  <2>1. n \in Nat /\ talk' = [talk EXCEPT !.posted = n]
    BY <1>1, TalkTypes DEF Inv
  <2>2. n = talk.posted + 1
    OBVIOUS
  <2> HIDE DEF n
  <2> QED BY <2>1, <2>2 DEF Inv, TypeOK, Talk
<1>3. /\ drive'.pc = "observe" /\ drive'.before = drive.before
      /\ drive'.cancel = drive.cancel /\ drive'.graceful = drive.graceful
      /\ drive' \in Memory
  BY <1>1 DEF Inv, TypeOK, Memory, Places
<1>4. TypeOK'
  BY <1>1, <1>2, <1>3, TalkTypes DEF Inv, TypeOK
<1>5. drive.before <= talk.posted
  BY <1>1, TalkTypes DEF Inv, TalkFits
<1>6. TalkFits'
  BY <1>2, <1>3, <1>5, TalkTypes DEF Inv, TalkFits, Waiting
<1>7. AnswerFits'
  BY <1>1, <1>2, <1>3 DEF Inv, AnswerFits, AnswersFit, Waiting
<1> QED BY <1>1, <1>3, <1>4, <1>6, <1>7, AskingKeeps DEF Taskless

LEMMA ObserveKeeps == ASSUME Inv, Observe PROVE Inv'
<1>1. /\ drive.pc = "observe"
      /\ talk' = [talk EXCEPT !.asked = talk.posted, !.answered = Len(talk.answers), !.age = 0]
      /\ drive' = [drive EXCEPT !.pc = "await"]
      /\ UNCHANGED <<status, control, tasks, offers, mishaps, used>>
  BY DEF Observe, Goto, WaitOnly, DriveOnly
<1>2. /\ talk'.posted = talk.posted /\ talk'.asked = talk.posted
      /\ talk'.answers = talk.answers /\ talk'.answered = Len(talk.answers)
      /\ talk' \in Talk
  BY <1>1, TalkTypes, Times DEF Inv, TypeOK, Talk
<1>3. /\ drive'.pc = "await" /\ drive'.before = drive.before
      /\ drive'.cancel = drive.cancel /\ drive'.graceful = drive.graceful
      /\ drive' \in Memory
  BY <1>1 DEF Inv, TypeOK, Memory, Places, Waiting
<1>4. TypeOK'
  BY <1>1, <1>2, <1>3, TalkTypes DEF Inv, TypeOK
<1>5. TalkFits'
  BY <1>1, <1>2, <1>3, TalkTypes DEF Inv, TalkFits, Waiting
<1>6. ~(drive'.before = talk.posted - 1 /\ Len(talk.answers) > drive'.before)
  BY <1>1, <1>3, TalkTypes DEF Inv, TalkFits
<1>7. AnswerFits'
  BY <1>1, <1>2, <1>3, <1>6 DEF Inv, AnswerFits, AnswersFit
<1> QED BY <1>1, <1>3, <1>4, <1>5, <1>7, AskingKeeps DEF Taskless, Waiting

LEMMA AwaitEndsKeeps == ASSUME Inv, AwaitEnds PROVE Inv'
<1>1. /\ drive.pc = "await"
      /\ drive' = [drive EXCEPT !.pc = IF drive.cancel THEN "killed" ELSE "ended"]
      /\ UNCHANGED <<status, control, tasks, offers, talk, mishaps, used>>
  BY DEF AwaitEnds, Goto, WaitOnly, DriveOnly
<1>2. TypeOK'
  BY <1>1 DEF Inv, TypeOK, Memory, Places
<1>3. /\ drive'.pc \in {"killed", "ended"}
      /\ drive'.cancel = drive.cancel /\ drive'.graceful = drive.graceful
  BY <1>1 DEF Inv, TypeOK, Memory
<1>4. status = "running"
  BY <1>1 DEF Inv, DriveFits, Live
<1> QED BY <1>1, <1>2, <1>3, <1>4, MoveKeeps DEF Inv, DriveFits, Taskless, Waiting

LEMMA EnforceKeeps == ASSUME Inv, Enforce PROVE Inv'
<1>1. /\ drive.pc = "await"
      /\ talk' = [talk EXCEPT !.answered = Len(talk.answers)]
      /\ UNCHANGED <<status, control, tasks, offers, mishaps, used>>
  BY DEF Enforce, WaitOnly, DriveOnly
<1>2. /\ talk'.posted = talk.posted /\ talk'.asked = talk.asked
      /\ talk'.answers = talk.answers /\ talk'.answered = Len(talk.answers)
      /\ talk' \in Talk
  BY <1>1, TalkTypes DEF Inv, TypeOK, Talk
<1>3. /\ drive'.pc \in {"take", "ended", "answer"} /\ drive'.before = drive.before
      /\ drive'.pc = "answer" => drive'.seen = Len(talk.answers) /\ QuestionIsOver
      /\ drive'.cancel = drive.cancel /\ drive'.graceful = drive.graceful
      /\ drive' \in Memory
  <2>1. CASE Goto("take")
    BY <2>1 DEF Goto, Inv, TypeOK, Memory, Places, Waiting
  <2>2. CASE Goto("ended")
    BY <2>2 DEF Goto, Inv, TypeOK, Memory, Places
  <2>3. CASE QuestionIsOver /\ drive' = [drive EXCEPT !.pc = "answer", !.seen = Len(talk.answers)]
    BY <2>3, TalkTypes DEF Inv, TypeOK, Memory, Places, Waiting
  <2> QED BY <2>1, <2>2, <2>3 DEF Enforce
<1>4. TypeOK'
  BY <1>1, <1>2, <1>3, TalkTypes DEF Inv, TypeOK
<1>5. TalkFits'
  BY <1>1, <1>2, <1>3, TalkTypes DEF Inv, TalkFits, Waiting, QuestionIsOver
<1>6. AnswerFits'
  BY <1>1, <1>2, <1>3 DEF Inv, AnswerFits, AnswersFit, Waiting
<1> QED BY <1>1, <1>3, <1>4, <1>5, <1>6, AskingKeeps DEF Taskless, Waiting

\* An answer to the question that is open, the last one, is counted as its own.
LEMMA AppendFits ==
  ASSUME Inv, NEW q \in Nat, talk' = [talk EXCEPT !.answers = Append(@, q)],
         q <= talk.asked, Len(talk.answers) < q, UNCHANGED used,
         drive'.pc \in {drive.pc, "take"}, drive'.pc # drive.pc => drive.pc = "answer",
         drive'.before = drive.before, drive'.pc = drive.pc => drive'.seen = drive.seen
  PROVE  TalkFits' /\ AnswerFits'
<1>1. /\ talk.answers \in Seq(Nat) /\ Len(talk.answers) \in Nat /\ talk.asked \in Nat
      /\ talk.posted \in Nat /\ talk.asked <= talk.posted /\ drive.before \in Nat
      /\ drive.seen \in Nat
  BY TalkTypes DEF Inv
<1>2. /\ talk'.posted = talk.posted /\ talk'.asked = talk.asked
      /\ talk'.answers = Append(talk.answers, q)
  BY DEF Inv, TypeOK, Talk
<1>3. /\ Len(talk'.answers) = Len(talk.answers) + 1
      /\ talk'.answers[Len(talk.answers) + 1] = q
      /\ \A i \in 1..Len(talk.answers) : talk'.answers[i] = talk.answers[i]
  BY <1>1, <1>2
<1> HIDE DEF Waiting
<1>4. drive'.pc \in Waiting => drive.pc \in Waiting
  BY DEF Waiting
<1>5. TalkFits'
  BY <1>1, <1>2, <1>3, <1>4 DEF Inv, TalkFits
<1>6. ASSUME drive'.pc \in Waiting, drive.before = talk.posted - 1, Len(talk'.answers) > drive.before
      PROVE  talk'.answers[talk.posted] = talk.posted
  <2>1. talk.asked = talk.posted /\ drive.before < talk.posted
    BY <1>4, <1>6 DEF Inv, TalkFits
  <2>2. Len(talk.answers) < talk.posted
    BY <1>1, <2>1
  <2>3. Len(talk.answers) = drive.before
    BY <1>1, <1>3, <1>6, <2>2
  <2>4. q = talk.posted /\ talk.posted = Len(talk.answers) + 1
    BY <1>1, <1>6, <2>1, <2>3
  <2> QED BY <1>3, <2>4
<1>7. used.question # 0 => used.before < Len(talk'.answers)
  BY <1>1, <1>3 DEF Inv, AnswerFits, TypeOK
<1>8. AnswersFit'
  <2> SUFFICES ASSUME used.question # 0, used.before = used.question - 1
               PROVE  talk'.answers[used.before + 1] = used.question
    BY DEF AnswersFit
  <2>1. used.before \in Nat /\ used.before < Len(talk.answers)
    BY DEF Inv, AnswerFits, TypeOK
  <2>2. used.before + 1 \in 1..Len(talk.answers)
    BY <1>1, <2>1
  <2>3. talk.answers[used.before + 1] = used.question
    BY DEF Inv, AnswerFits, AnswersFit
  <2> QED BY <1>3, <2>2, <2>3
<1> QED BY <1>2, <1>5, <1>6, <1>7, <1>8 DEF AnswerFits

\* And leaves the rest of talk well formed.
LEMMA AppendTypes ==
  ASSUME TypeOK, NEW q \in Nat, talk' = [talk EXCEPT !.answers = Append(@, q)]
  PROVE  talk' \in Talk /\ talk'.asked <= talk'.posted /\ talk'.answered <= Len(talk'.answers)
<1>1. Append(talk.answers, q) \in Seq(Nat) /\ Len(Append(talk.answers, q)) = Len(talk.answers) + 1
  BY TalkTypes
<1>2. /\ talk' \in Talk /\ talk'.asked = talk.asked /\ talk'.posted = talk.posted
      /\ talk'.answered = talk.answered /\ talk'.answers = Append(talk.answers, q)
  BY <1>1 DEF TypeOK, Talk
<1> QED BY <1>1, <1>2, TalkTypes

LEMMA AnswerByDefaultKeeps == ASSUME Inv, AnswerByDefault PROVE Inv'
<1>1. /\ drive.pc = "answer"
      /\ drive' = [drive EXCEPT !.pc = "take", !.seen = 0]
      /\ UNCHANGED <<status, control, tasks, offers, mishaps, used>>
  BY DEF AnswerByDefault, WaitOnly, DriveOnly
<1>2. /\ drive'.pc = "take" /\ drive'.before = drive.before
      /\ drive'.cancel = drive.cancel /\ drive'.graceful = drive.graceful
      /\ drive' \in Memory
  BY <1>1 DEF Inv, TypeOK, Memory, Places, Waiting
<1>3. CASE Len(talk.answers) = drive.seen
  <2>1. talk' = [talk EXCEPT !.answers = Append(@, talk.posted)]
    BY <1>3 DEF AnswerByDefault
  <2>2. talk.posted \in Nat /\ talk.posted <= talk.asked /\ Len(talk.answers) < talk.posted
    BY <1>1, <1>3, TalkTypes DEF Inv, TalkFits, Waiting
  <2>3. TalkFits' /\ AnswerFits'
    BY <1>1, <1>2, <2>1, <2>2, AppendFits
  <2>4. TypeOK'
    BY <1>1, <1>2, <2>1, <2>2, AppendTypes DEF Inv, TypeOK
  <2> QED BY <1>1, <1>2, <2>3, <2>4, AskingKeeps DEF Taskless, Waiting
<1>4. CASE Len(talk.answers) # drive.seen
  <2>1. talk' = talk
    BY <1>4 DEF AnswerByDefault
  <2>2. TypeOK'
    BY <1>1, <1>2, <2>1 DEF Inv, TypeOK
  <2>3. TalkFits' /\ AnswerFits'
    BY <1>1, <1>2, <2>1 DEF Inv, TalkFits, AnswerFits, AnswersFit, Waiting
  <2> QED BY <1>1, <1>2, <2>2, <2>3, AskingKeeps DEF Taskless, Waiting
<1> QED BY <1>3, <1>4

LEMMA TakeKeeps == ASSUME Inv, Take PROVE Inv'
<1>1. /\ drive.pc = "take" /\ Len(talk.answers) > drive.before
      /\ talk' = [talk EXCEPT !.answered = Len(talk.answers)]
      /\ used' = [question |-> talk.posted, before |-> drive.before]
      /\ drive' = [drive EXCEPT !.pc = "follow", !.before = 0]
      /\ UNCHANGED <<status, control, tasks, offers, mishaps>>
  BY DEF Take, WaitOnly, DriveOnly
<1>2. /\ talk'.posted = talk.posted /\ talk'.asked = talk.asked
      /\ talk'.answers = talk.answers /\ talk'.answered = Len(talk.answers)
      /\ talk' \in Talk
  BY <1>1, TalkTypes DEF Inv, TypeOK, Talk
<1>3. /\ drive'.pc = "follow"
      /\ drive'.cancel = drive.cancel /\ drive'.graceful = drive.graceful
      /\ drive' \in Memory
  BY <1>1 DEF Inv, TypeOK, Memory, Places
<1>4. used'.question = talk.posted /\ used'.before = drive.before
      /\ used' \in [question : Nat, before : Nat]
  BY <1>1, TalkTypes DEF Inv
<1>5. TypeOK'
  BY <1>1, <1>2, <1>3, <1>4, TalkTypes DEF Inv, TypeOK
<1>6. TalkFits'
  BY <1>2, <1>3, TalkTypes DEF Inv, TalkFits, Waiting
<1>7. AnswersFit'
  <2> SUFFICES ASSUME drive.before = talk.posted - 1
               PROVE  talk.answers[drive.before + 1] = talk.posted
    BY <1>2, <1>4 DEF AnswersFit
  <2>1. talk.answers[talk.posted] = talk.posted
    BY <1>1 DEF Inv, AnswerFits, Waiting
  <2>2. drive.before + 1 = talk.posted
    BY TalkTypes DEF Inv
  <2> QED BY <2>1, <2>2
<1>8. AnswerFits'
  BY <1>1, <1>2, <1>3, <1>4, <1>7 DEF AnswerFits, Waiting
<1> QED BY <1>1, <1>3, <1>5, <1>6, <1>8, AskingKeeps DEF Taskless, Waiting

LEMMA TakeNothingKeeps == ASSUME Inv, TakeNothing PROVE Inv'
<1>1. /\ drive.pc = "take"
      /\ drive' = [drive EXCEPT !.pc = "await"]
      /\ UNCHANGED <<status, control, tasks, offers, talk, mishaps, used>>
  BY DEF TakeNothing, Goto, WaitOnly, DriveOnly
<1>2. /\ drive'.pc = "await" /\ drive'.before = drive.before
      /\ drive'.cancel = drive.cancel /\ drive'.graceful = drive.graceful
      /\ drive' \in Memory
  BY <1>1 DEF Inv, TypeOK, Memory, Places, Waiting
<1>3. TypeOK'
  BY <1>1, <1>2 DEF Inv, TypeOK
<1>4. TalkFits' /\ AnswerFits'
  BY <1>1, <1>2 DEF Inv, TalkFits, AnswerFits, AnswersFit, Waiting
<1> QED BY <1>1, <1>2, <1>3, <1>4, AskingKeeps DEF Taskless, Waiting

-----------------------------------------------------------------------------
(* The end of an attempt and of the drive, and those around it *)

LEMMA RetryKeeps == ASSUME Inv, Retry PROVE Inv'
<1>1. /\ drive.pc = "ended" /\ drive.attempt < Attempts
      /\ drive' = [drive EXCEPT !.pc = "request", !.attempt = drive.attempt + 1, !.interrupt = FALSE]
      /\ UNCHANGED <<status, control, tasks, offers, talk, mishaps, used>>
  BY DEF Retry, WaitOnly, DriveOnly
<1>2. drive.attempt + 1 \in Nat
  BY DEF Inv, TypeOK, Memory
<1>3. /\ drive'.pc = "request"
      /\ drive'.cancel = drive.cancel /\ drive'.graceful = drive.graceful
      /\ drive' \in Memory
  BY <1>1, <1>2 DEF Inv, TypeOK, Memory, Places
<1>4. TypeOK'
  BY <1>1, <1>3 DEF Inv, TypeOK
<1>5. status = "running"
  BY <1>1 DEF Inv, DriveFits, Live
<1> QED BY <1>1, <1>3, <1>4, <1>5, MoveKeeps DEF Inv, DriveFits

LEMMA NoDriveFacts ==
  /\ NoDrive \in Memory /\ NoDrive.pc = "off" /\ ~NoDrive.cancel
  /\ [NoDrive EXCEPT !.pc = "scan"] \in Memory
  /\ [NoDrive EXCEPT !.pc = "scan"].pc = "scan" /\ ~[NoDrive EXCEPT !.pc = "scan"].cancel
BY Times DEF NoDrive, Memory, Places

LEMMA SettleKeeps == ASSUME Inv, Settle PROVE Inv'
<1>1. /\ drive' = NoDrive /\ status' = "over"
      /\ UNCHANGED <<control, tasks, offers, talk, mishaps, used>>
  BY DEF Settle, DriveOnly
<1>2. TypeOK'
  BY <1>1, NoDriveFacts DEF Inv, TypeOK
<1> QED BY <1>1, <1>2, NoDriveFacts, MoveKeeps

LEMMA HaltKeeps == ASSUME Inv, Halt PROVE Inv'
<1>1. /\ drive' = NoDrive /\ status' \in {"over", "paused"} /\ control' = control \ {"pause"}
      /\ UNCHANGED <<tasks, offers, talk, mishaps, used>>
  BY DEF Halt, DriveOnly
<1>2. TypeOK'
  BY <1>1, NoDriveFacts DEF Inv, TypeOK
<1> QED BY <1>1, <1>2, NoDriveFacts, MoveKeeps

LEMMA CrashKeeps == ASSUME Inv, Crash PROVE Inv'
<1>1. /\ drive' = NoDrive /\ mishaps' = mishaps + 1
      /\ UNCHANGED <<status, control, tasks, offers, talk, used>>
  BY DEF Crash, Mishap
<1>2. TypeOK'
  BY <1>1, NoDriveFacts DEF Inv, TypeOK
<1> QED BY <1>1, <1>2, NoDriveFacts, MoveKeeps

LEMMA ResumeKeeps == ASSUME Inv, Resume PROVE Inv'
<1>1. /\ drive' = [NoDrive EXCEPT !.pc = "scan"] /\ status' = "running"
      /\ UNCHANGED <<control, tasks, offers, talk, mishaps, used>>
  BY DEF Resume, DriveOnly
<1>2. TypeOK'
  BY <1>1, NoDriveFacts DEF Inv, TypeOK
<1> QED BY <1>1, <1>2, NoDriveFacts, MoveKeeps

\* Somebody else acts, or the watcher sets a flag: the drive stays where it is.
LEMMA StayKeeps ==
  ASSUME Inv, TypeOK', UNCHANGED <<tasks, talk, used>>,
         drive'.pc = drive.pc, drive'.task = drive.task, drive'.left = drive.left,
         drive'.before = drive.before, drive'.seen = drive.seen,
         Live => status' = status,
         drive'.cancel /\ ~drive'.graceful => "abort" \in control',
         "abort" \in control => "abort" \in control'
  PROVE  Inv'
<1>1. DriveFits' /\ OpenFits' /\ ClockFits'
  BY DEF Inv, DriveFits, OpenFits, ClockFits, Live
<1>2. TalkFits' /\ AnswerFits'
  BY TalkStays
<1> QED BY <1>1, <1>2, TasksStay DEF Inv

LEMMA MarkKeeps == ASSUME Inv, Mark PROVE Inv'
<1>1. /\ drive' = [drive EXCEPT !.graceful = TRUE]
      /\ UNCHANGED <<status, control, tasks, offers, talk, mishaps, used>>
  BY DEF Mark, WaitOnly, DriveOnly
<1>2. TypeOK'
  BY <1>1 DEF Inv, TypeOK, Memory
<1> QED BY <1>1, <1>2, StayKeeps DEF Inv, TypeOK, Memory

LEMMA LatchKeeps == ASSUME Inv, Latch PROVE Inv'
<1>1. /\ drive' = [drive EXCEPT !.cancel = TRUE] /\ ("abort" \in control \/ drive.graceful)
      /\ UNCHANGED <<status, control, tasks, offers, talk, mishaps, used>>
  BY DEF Latch, WaitOnly, DriveOnly
<1>2. TypeOK'
  BY <1>1 DEF Inv, TypeOK, Memory
<1> QED BY <1>1, <1>2, StayKeeps DEF Inv, TypeOK, Memory

LEMMA InterruptKeeps == ASSUME Inv, Interrupt PROVE Inv'
<1>1. /\ drive' = [drive EXCEPT !.interrupt = TRUE] /\ mishaps' = mishaps + 1
      /\ UNCHANGED <<status, control, tasks, offers, talk, used>>
  BY DEF Interrupt, Mishap
<1>2. TypeOK'
  <2>1. drive' \in Memory
    BY <1>1 DEF Inv, TypeOK, Memory
  <2>2. mishaps' \in Nat
    BY <1>1 DEF Inv, TypeOK
  <2> QED BY <1>1, <2>1, <2>2 DEF Inv, TypeOK
<1> QED BY <1>1, <1>2, StayKeeps DEF Inv, TypeOK, Memory, DriveFits

LEMMA PauseKeeps == ASSUME Inv, Pause PROVE Inv'
<1>1. /\ mishaps' = mishaps + 1 /\ status' \in {status, "paused"} /\ (Live => status' = status)
      /\ control' \in {control, control \cup {"pause"}}
      /\ UNCHANGED <<tasks, offers, drive, talk, used>>
  BY DEF Pause, Mishap, PeopleOnly
<1>2. TypeOK'
  BY <1>1 DEF Inv, TypeOK
<1> QED BY <1>1, <1>2, StayKeeps DEF Inv, DriveFits

LEMMA StopKeeps == ASSUME Inv, Stop PROVE Inv'
<1>1. /\ mishaps' = mishaps + 1 /\ status' \in {status, "over"} /\ (Live => status' = status)
      /\ control' = control \cup {"abort"}
      /\ UNCHANGED <<tasks, offers, drive, talk, used>>
  BY DEF Stop, Mishap, PeopleOnly
<1>2. TypeOK'
  BY <1>1 DEF Inv, TypeOK
<1> QED BY <1>1, <1>2, StayKeeps

LEMMA CheckOpenKeeps ==
  ASSUME Inv, NEW t \in DOMAIN tasks, NEW reply \in Replies, CheckOpen(t, reply)
  PROVE  Inv'
<1>1. /\ offers' = offers \cup {[task |-> t, reply |-> reply]}
      /\ UNCHANGED <<status, control, tasks, drive, talk, mishaps, used>>
  BY DEF CheckOpen, PeopleOnly
<1>2. TypeOK'
  BY <1>1 DEF Inv, TypeOK
<1> QED BY <1>1, <1>2, StayKeeps DEF Inv, DriveFits

LEMMA PublishKeeps ==
  ASSUME Inv, NEW offer \in offers, Publish(offer)
  PROVE  Inv'
<1> DEFINE t == offer.task
           entry == [tasks[t] EXCEPT !.reply = offer.reply, !.atRest = ~Live /\ t \in Open]
<1>1. offers' = offers \ {offer} /\ UNCHANGED <<status, control, drive, talk, mishaps, used>>
  BY DEF Publish, PeopleOnly
<1>2. t \in DOMAIN tasks /\ offer.reply \in Replies /\ tasks \in [DOMAIN tasks -> Task]
  BY Table DEF Inv, TypeOK
<1>3. CASE tasks[t].reply # "none"
  <2>1. UNCHANGED tasks
    BY <1>3 DEF Publish
  <2>2. TypeOK'
    BY <1>1, <2>1 DEF Inv, TypeOK
  <2> QED BY <1>1, <2>1, <2>2, StayKeeps DEF Inv, DriveFits
<1>4. CASE tasks[t].reply = "none"
  <2>1. tasks' = [tasks EXCEPT ![t] = entry]
    BY <1>2, <1>4 DEF Publish
  <2>2. (~Live /\ t \in Open) \in BOOLEAN
    OBVIOUS
  <2>3. /\ entry \in Task /\ entry.reply = offer.reply /\ entry.state = tasks[t].state
        /\ entry.end = tasks[t].end /\ entry.active = tasks[t].active
        /\ entry.paused = tasks[t].paused
        /\ entry.atRest => drive.pc = "off" /\ tasks[t].state = "open"
    BY <1>2, <2>2 DEF Task, Live, Open
  <2> HIDE DEF entry
  <2>4. /\ tasks' \in [DOMAIN tasks -> Task]
        /\ tasks'[t] = entry /\ \A u \in DOMAIN tasks \ {t} : tasks'[u] = tasks[u]
    BY <1>2, <2>1, <2>3
  <2>5. tasks' \in Seq(Task) /\ DOMAIN tasks' = DOMAIN tasks
    BY <2>4, TableIsSeq DEF Inv
  <2>6. TypeOK'
    BY <1>1, <2>5 DEF Inv, TypeOK
  <2>7. \A u \in DOMAIN tasks : /\ tasks'[u].state = tasks[u].state /\ tasks'[u].end = tasks[u].end
                                /\ tasks'[u].active = tasks[u].active
                                /\ tasks'[u].paused = tasks[u].paused
    BY <2>3, <2>4
  <2>8. DriveFits'
    <3>1. drive.pc = "check" => ~tasks'[drive.task].atRest
      BY <2>3, <2>4 DEF Inv, DriveFits
    <3> QED BY <1>1, <2>5, <2>7, <3>1 DEF Inv, DriveFits, Live
  <2>9. OpenFits' /\ ClockFits'
    BY <1>1, <2>5, <2>7 DEF Inv, OpenFits, ClockFits, DriveFits
  <2>10. tasks[t].end \notin Replies
    BY <1>2, <1>4 DEF Inv, OneReplyCounts, Replies
  <2>11. TasksFit' /\ RepliesAtRestAreApplied' /\ OneReplyCounts' /\ PauseKeepsTasks'
    BY <1>1, <1>2, <2>3, <2>4, <2>5, <2>10
       DEF Inv, TasksFit, RepliesAtRestAreApplied, OneReplyCounts, PauseKeepsTasks, Replies
  <2>12. TalkFits' /\ AnswerFits'
    BY <1>1, TalkStays
  <2> QED BY <2>6, <2>8, <2>9, <2>11, <2>12 DEF Inv
<1> QED BY <1>3, <1>4

LEMMA AnswerKeeps ==
  ASSUME Inv, NEW q \in 1..MaxQuestions, Answer(q)
  PROVE  Inv'
<1>1. /\ q \in Nat /\ q <= talk.asked /\ Len(talk.answers) < q
      /\ talk' = [talk EXCEPT !.answers = Append(@, q)]
      /\ UNCHANGED <<status, control, tasks, drive, offers, mishaps, used>>
  BY DEF Answer, Accepts
<1>2. TypeOK'
  BY <1>1, AppendTypes DEF Inv, TypeOK
<1>3. TalkFits' /\ AnswerFits'
  BY <1>1, AppendFits
<1>4. DriveFits' /\ OpenFits' /\ ClockFits'
  BY <1>1 DEF Inv, DriveFits, OpenFits, ClockFits, Live
<1> QED BY <1>1, <1>2, <1>3, <1>4, TasksStay DEF Inv

\* The clock of the task that is waited for and the drive's own go together.
LEMMA TickKeeps == ASSUME Inv, Tick PROVE Inv'
<1> DEFINE aged(t) ==
       IF t \notin Open THEN tasks[t]
       ELSE IF status = "paused" THEN [tasks[t] EXCEPT !.paused = Min({@ + 1, Timeout})]
       ELSE [tasks[t] EXCEPT !.active = Min({@ + 1, Timeout})]
<1>1. /\ drive' = [drive EXCEPT !.left = IF drive.left > 0 THEN drive.left - 1 ELSE 0]
      /\ tasks' = [t \in DOMAIN tasks |-> aged(t)]
      /\ UNCHANGED <<status, control, offers, mishaps, used>>
  BY DEF Tick
<1>2. tasks \in [DOMAIN tasks -> Task] /\ Timeout \in Nat /\ QuestionTimeout \in Nat
  BY Table, Times DEF Inv
<1>3. ASSUME NEW t \in DOMAIN tasks
      PROVE  /\ aged(t) \in Task
             /\ aged(t).state = tasks[t].state /\ aged(t).end = tasks[t].end
             /\ aged(t).reply = tasks[t].reply /\ aged(t).atRest = tasks[t].atRest
             /\ tasks[t].state # "open" =>
                  aged(t).active = tasks[t].active /\ aged(t).paused = tasks[t].paused
             /\ tasks[t].state = "open" /\ status = "running" =>
                  aged(t).active = IF tasks[t].active + 1 <= Timeout
                                   THEN tasks[t].active + 1 ELSE Timeout
  <2>1. tasks[t] \in Task /\ tasks[t].active \in 0..Timeout /\ tasks[t].paused \in 0..Timeout
    BY <1>2 DEF Task
  <2> DEFINE a == Min({tasks[t].active + 1, Timeout})
             p == Min({tasks[t].paused + 1, Timeout})
  <2>2. /\ a = IF tasks[t].active + 1 <= Timeout THEN tasks[t].active + 1 ELSE Timeout
        /\ p = IF tasks[t].paused + 1 <= Timeout THEN tasks[t].paused + 1 ELSE Timeout
    <3>1. tasks[t].active + 1 \in Int /\ tasks[t].paused + 1 \in Int /\ Timeout \in Int
      BY <1>2, <2>1
    <3> QED BY <3>1, MinIsOne
  <2>3. a \in 0..Timeout /\ p \in 0..Timeout
    BY <1>2, <2>1, <2>2
  <2>4. aged(t) \in {tasks[t], [tasks[t] EXCEPT !.paused = p], [tasks[t] EXCEPT !.active = a]}
    OBVIOUS
  <2>5. /\ tasks[t].state # "open" => aged(t) = tasks[t]
        /\ tasks[t].state = "open" /\ status = "running" => aged(t) = [tasks[t] EXCEPT !.active = a]
    BY DEF Open
  <2> HIDE DEF a, p, aged
  <2> QED BY <2>1, <2>2, <2>3, <2>4, <2>5 DEF Task
<1>4. tasks' \in [DOMAIN tasks -> Task] /\ \A t \in DOMAIN tasks : tasks'[t] = aged(t)
  <2> HIDE DEF aged
  <2> QED BY <1>1, <1>3
<1> HIDE DEF aged
<1>5. tasks' \in Seq(Task) /\ DOMAIN tasks' = DOMAIN tasks
  BY <1>4, TableIsSeq DEF Inv
<1>6. /\ drive' \in Memory /\ drive'.pc = drive.pc /\ drive'.task = drive.task
      /\ drive'.before = drive.before /\ drive'.seen = drive.seen
      /\ drive'.cancel = drive.cancel /\ drive'.graceful = drive.graceful
      /\ drive'.left = IF drive.left > 0 THEN drive.left - 1 ELSE 0
  <2> DEFINE l == IF drive.left > 0 THEN drive.left - 1 ELSE 0
  <2>1. l \in 0..Timeout
    BY <1>2 DEF Inv, TypeOK, Memory
  <2>2. drive' = [drive EXCEPT !.left = l] /\ l = IF drive.left > 0 THEN drive.left - 1 ELSE 0
    BY <1>1
  <2> HIDE DEF l
  <2> QED BY <2>1, <2>2 DEF Inv, TypeOK, Memory
<1>7. /\ talk' \in Talk /\ talk'.posted = talk.posted /\ talk'.asked = talk.asked
      /\ talk'.answers = talk.answers /\ talk'.answered = talk.answered
  <2> DEFINE g == IF status = "paused" \/ talk.asked = 0 THEN talk.age
                  ELSE Min({talk.age + 1, QuestionTimeout})
  <2>1. talk.age \in 0..QuestionTimeout
    BY TalkTypes DEF Inv
  <2>2. Min({talk.age + 1, QuestionTimeout}) \in 0..QuestionTimeout
    <3>1. talk.age + 1 \in Int /\ QuestionTimeout \in Int
      BY <1>2, <2>1
    <3>2. Min({talk.age + 1, QuestionTimeout}) =
            IF talk.age + 1 <= QuestionTimeout THEN talk.age + 1 ELSE QuestionTimeout
      BY <3>1, MinIsOne
    <3> QED BY <1>2, <2>1, <3>2
  <2>3. g \in 0..QuestionTimeout /\ talk' = [talk EXCEPT !.age = g]
    BY <2>1, <2>2 DEF Tick
  <2> HIDE DEF g
  <2> QED BY <2>3 DEF Inv, TypeOK, Talk
<1>8. TypeOK'
  BY <1>1, <1>5, <1>6, <1>7 DEF Inv, TypeOK
<1>9. DriveFits' /\ OpenFits'
  BY <1>1, <1>3, <1>4, <1>5, <1>6 DEF Inv, DriveFits, OpenFits, Live
<1>10. TasksFit' /\ RepliesAtRestAreApplied' /\ OneReplyCounts' /\ PauseKeepsTasks'
  BY <1>1, <1>3, <1>4, <1>5
     DEF Inv, TasksFit, RepliesAtRestAreApplied, OneReplyCounts, PauseKeepsTasks
<1>11. ClockFits'
  <2> SUFFICES ASSUME drive.pc \in {"look", "check"}
               PROVE  drive'.left = Timeout - tasks'[drive.task].active
    BY <1>6 DEF ClockFits
  <2>1. drive.task \in DOMAIN tasks /\ tasks[drive.task].state = "open" /\ status = "running"
    BY DEF Inv, DriveFits, Live
  <2>2. tasks[drive.task].active \in 0..Timeout /\ drive.left = Timeout - tasks[drive.task].active
    BY <1>2, <2>1 DEF Task, Inv, ClockFits
  <2>3. tasks'[drive.task].active = IF tasks[drive.task].active + 1 <= Timeout
                                    THEN tasks[drive.task].active + 1 ELSE Timeout
    BY <1>3, <1>4, <2>1
  <2> QED BY <1>2, <1>6, <2>2, <2>3
<1>12. TalkFits' /\ AnswerFits'
  BY <1>1, <1>6, <1>7, TalkStays
<1> QED BY <1>8, <1>9, <1>10, <1>11, <1>12 DEF Inv

-----------------------------------------------------------------------------
(* The theorems *)

LEMMA StepKeeps == Inv /\ [Next]_vars => Inv'
<1> SUFFICES ASSUME Inv, [Next]_vars PROVE Inv'
  OBVIOUS
<1>1. CASE Drive
  BY <1>1, ScanKeeps, AdoptKeeps, AllocateKeeps, FileKeeps, LookKeeps, ConsumeKeeps, CancelledKeeps,
     InterruptedKeeps, ExpiredKeeps, PollAgainKeeps, CountKeeps, PostKeeps, ObserveKeeps,
     AwaitEndsKeeps, EnforceKeeps, AnswerByDefaultKeeps, TakeKeeps, TakeNothingKeeps, RetryKeeps,
     SettleKeeps, HaltKeeps
     DEF Drive
<1>2. CASE Mark \/ Latch \/ Crash \/ Resume
  BY <1>2, MarkKeeps, LatchKeeps, CrashKeeps, ResumeKeeps
<1>3. CASE \E t \in DOMAIN tasks, reply \in Replies : CheckOpen(t, reply)
  BY <1>3, CheckOpenKeeps
<1>4. CASE \E offer \in offers : Publish(offer)
  BY <1>4, PublishKeeps
<1>5. CASE \E q \in 1..MaxQuestions : Answer(q)
  BY <1>5, AnswerKeeps
<1>6. CASE Pause \/ Stop \/ Interrupt \/ Tick
  BY <1>6, PauseKeeps, StopKeeps, InterruptKeeps, TickKeeps
<1>7. CASE UNCHANGED vars
  BY <1>7
     DEF vars, Inv, TypeOK, DriveFits, OpenFits, TasksFit, ClockFits, TalkFits, AnswerFits,
         AnswersFit, RepliesAtRestAreApplied, OneReplyCounts, PauseKeepsTasks, Live
<1> QED BY <1>1, <1>2, <1>3, <1>4, <1>5, <1>6, <1>7 DEF Next

\* The invariant holds, whatever dies, pauses, arrives late or arrives twice.
THEOREM Invariant == Spec => []Inv
BY Start, StepKeeps, PTL DEF Spec

\* Every part of the state keeps its type, and the journal of questions and
\* answers stays within their files (observe_live_channels).
THEOREM TypeCorrect == Spec => []TypeOK
<1>1. Inv => TypeOK
  BY DEF Inv
<1> QED BY <1>1, Invariant, PTL

\* A node never has two open tasks, and the drive waits for the one that is
\* listed (adoptable, request).
THEOREM OnlyOneOpenTask == Spec => []OneOpenTask
<1>1. Inv => OneOpenTask
  BY DEF Inv, OneOpenTask, OpenFits, DriveFits, Open, Live
<1> QED BY <1>1, Invariant, PTL

\* A reply stored while nobody drove the run is what closes its task
\* (run_cancellable reads the reply before the flags and the deadline).
THEOREM RestingRepliesApply == Spec => []RepliesAtRestAreApplied
<1>1. Inv => RepliesAtRestAreApplied
  BY DEF Inv
<1> QED BY <1>1, Invariant, PTL

\* The reply on file is the one that was journaled (submit publishes with a link).
THEOREM TheReplyOnFileCounts == Spec => []OneReplyCounts
<1>1. Inv => OneReplyCounts
  BY DEF Inv
<1> QED BY <1>1, Invariant, PTL

\* The drive's deadline is the one every reader reckons, across pauses and
\* adoptions (remaining_timeout, shifted_deadline_ms).
THEOREM OneDeadline == Spec => []DeadlineIsTheOneShown
<1>1. Inv => DeadlineIsTheOneShown
  <2> SUFFICES ASSUME Inv, drive.pc \in {"look", "check"}
               PROVE  drive.left = Shown(drive.task)
    BY DEF DeadlineIsTheOneShown
  <2>1. tasks[drive.task] \in Task
    BY Table DEF Inv, DriveFits
  <2> QED BY <2>1, Times DEF Inv, ClockFits, Shown, Task
<1> QED BY <1>1, Invariant, PTL

\* Only a stop cancels a task (StopWatcher marks the flag before it latches it).
THEOREM PausesCloseNothing == Spec => []PauseKeepsTasks
<1>1. Inv => PauseKeepsTasks
  BY DEF Inv
<1> QED BY <1>1, Invariant, PTL

\* A wait for an answer has one to take up, or one that can still be given
\* (await_answer, check_question_request).
THEOREM EveryWaitCanEnd == Spec => []WaitCanEnd
<1>1. Inv => WaitCanEnd
  <2> SUFFICES ASSUME Inv, drive.pc \in Waiting, Len(talk.answers) <= drive.before
               PROVE  \E q \in 1..talk.asked : Accepts(q)
    BY TalkTypes DEF WaitCanEnd, Inv
  <2>1. talk.asked = talk.posted /\ drive.before < talk.posted
    BY DEF Inv, TalkFits
  <2>2. talk.asked \in 1..talk.asked /\ Len(talk.answers) < talk.asked
    BY <2>1, TalkTypes DEF Inv
  <2>3. Accepts(talk.asked)
    BY <2>2, TalkTypes DEF Inv, Accepts
  <2> QED BY <2>2, <2>3
<1> QED BY <1>1, Invariant, PTL

\* The answer a question got is one that was given to it, when every question
\* before it has been answered (post_answer_if_unanswered, check_question_request).
THEOREM EveryAnswerFits == Spec => []AnswersFit
<1>1. Inv => AnswersFit
  BY DEF Inv, AnswerFits
<1> QED BY <1>1, Invariant, PTL
=============================================================================
