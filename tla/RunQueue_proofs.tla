----------------------------- MODULE RunQueue_proofs -----------------------------
(***************************************************************************)
(* Proofs about RunControl, for every value of its constants: what becomes *)
(* of the commands of the queue, of a kept lock and of a stop.             *)
(***************************************************************************)
EXTENDS RunControl_proofs, FiniteSetTheorems

-----------------------------------------------------------------------------
(* What the steps do to the queue, the cursors and the events *)

\* The queue grows at its end, by one entry at most.
QueueGrows ==
  /\ Len(queue) \in Nat /\ DOMAIN queue = 1..Len(queue)
  /\ Len(queue') \in Nat /\ DOMAIN queue' = 1..Len(queue')
  /\ Len(queue') \in {Len(queue), Len(queue) + 1}
  /\ \A i \in DOMAIN queue : queue'[i] = queue[i]

\* So the entries that were in the queue are in it still, where they were.
LEMMA QueueStays ==
  ASSUME QueueGrows
  PROVE  /\ DOMAIN queue \subseteq DOMAIN queue'
         /\ \A i \in DOMAIN queue' : i \in Nat /\ (i \in DOMAIN queue <=> i <= Len(queue))
         /\ \A i \in DOMAIN queue : i \in Nat /\ i <= Len(queue) /\ queue'[i] = queue[i]
         /\ \A i \in DOMAIN queue' : i \in DOMAIN queue \/ i = Len(queue) + 1
<1> DEFINE n == Len(queue)
           m == Len(queue')
<1>1. n \in Nat /\ m \in {n, n + 1} /\ DOMAIN queue = 1..n /\ DOMAIN queue' = 1..m
  BY DEF QueueGrows
<1>2. \A i \in 1..n : queue'[i] = queue[i]
  BY <1>1 DEF QueueGrows
<1> HIDE DEF n, m
<1>3. /\ 1..n \subseteq 1..m
      /\ \A i \in 1..m : i \in Nat /\ (i \in 1..n <=> i <= n)
      /\ \A i \in 1..n : i \in Nat /\ i <= n
      /\ \A i \in 1..m : i \in 1..n \/ i = n + 1
  BY <1>1
<1> QED BY <1>1, <1>2, <1>3 DEF n, m

LEMMA QueueMove ==
  ASSUME TypeOK, NEW p \in Processes, Moves(p)
  PROVE  QueueGrows /\ (queue' = queue \/ (p \in Clients /\ Post(p)))
<1>1. queue' = queue \/ (p \in Clients /\ Post(p))
  <2>1. CASE p \in Drivers /\ Loop(p)
    BY <2>1 DEF Loop, Scan, ScanDone, Await, Apply, Answer, AtRetry, Consume, StartNode, Finish,
                EndNode, Leave, Fail, ReadKeep, Park, Exit, DriveOnly
  <2>2. CASE p \in Drivers /\ (Start(p) \/ Watch(p) \/ Crash(p))
    BY <2>2 DEF Start, Clear, Publish, TakeHandoff, PublishLate, Plan, Acquire, Admit, Resume, GiveBack, Claim, Watch, Crash, DriveOnly
  <2>3. CASE p \in Clients /\ Ask(p)
    BY <2>3 DEF Ask, Count, Stop, StopAsk, StopReread, StopFinalize, Pause, PauseAsk,
                PauseSync, PauseJournal
  <2> QED BY <2>1, <2>2, <2>3 DEF Moves
<1>2. queue \in Seq(Entries)
  BY DEF TypeOK, Entries
<1>3. CASE queue' = queue
  BY <1>2, <1>3 DEF QueueGrows
<1>4. CASE p \in Clients /\ Post(p)
  <2>1. PICK e : queue' = Append(queue, e)
    BY <1>4 DEF Post
  <2> QED BY <1>1, <1>2, <2>1 DEF QueueGrows
<1> QED BY <1>1, <1>3, <1>4

\* The cursor is written by a consume, or by a stop of a run that has ended.
LEMMA CursorMove ==
  ASSUME NEW p \in Processes, Moves(p)
  PROVE  \/ cursor' = cursor
         \/ p \in Drivers /\ Consume(p)
         \/ p \in Clients /\ StopReread(p) /\ Terminal /\ cursor' = local[p].read + 1
<1>1. CASE p \in Drivers /\ Loop(p)
  BY <1>1 DEF Loop, Scan, ScanDone, Await, Apply, Answer, AtRetry, StartNode, Finish,
              EndNode, Leave, Fail, ReadKeep, Park, Exit
<1>2. CASE p \in Drivers /\ (Start(p) \/ Watch(p) \/ Crash(p))
  BY <1>2 DEF Start, Clear, Publish, TakeHandoff, PublishLate, Plan, Acquire, Admit, Resume, GiveBack, Claim, Watch, Crash
<1>3. CASE p \in Clients /\ Ask(p)
  BY <1>3 DEF Ask, Count, Post, Stop, StopAsk, StopReread, StopFinalize, Pause, PauseAsk,
              PauseSync, PauseJournal, ClientOnly
<1> QED BY <1>1, <1>2, <1>3 DEF Moves

\* Every step lets the journal grow.
LEMMA MovesGrow ==
  ASSUME TypeOK, EntriesFit, NEW p \in Processes, Moves(p)
  PROVE  Grows
<1>1. CASE p \in Drivers /\ Resume(p)
  <2>1. local[p].read \in Nat
    BY <1>1, DriverFits DEF Memory
  <2>2. Event("resumed", local[p].read, FALSE) \in Events
    BY <2>1, EventIsTyped DEF Kinds, Lifecycle
  <2> QED BY <1>1, <2>2 DEF Resume, Grows
<1>2. CASE NothingResumed
  BY <1>2 DEF NothingResumed, Grows
<1> QED BY <1>1, <1>2, JournalMove DEF Grows

\* The events of an entry and the ends of a run are not taken back.
LEMMA EventsStay ==
  ASSUME TypeOK, EntriesFit, Grows
  PROVE  /\ \A i : EventsOf(i) \subseteq EventsOf(i)'
         /\ \A e \in LifeEvents : e \in LifeEvents' /\ journal'[e].kind = journal[e].kind
<1>1. /\ DOMAIN journal \subseteq DOMAIN journal'
      /\ \A r \in DOMAIN journal : journal'[r] = journal[r]
  BY PastStays
<1> QED BY <1>1 DEF EventsOf, LifeEvents

\* What was passed stays passed, and what is posted later was not.
LEMMA PassedStays ==
  ASSUME TypeOK, EntriesFit, Grows, QueueGrows, NEW x \in Nat, x <= Len(queue), Passed(x)
  PROVE  Passed(x)'
<1> SUFFICES ASSUME NEW i \in DOMAIN queue', queue'[i].seq = i, i <= x
             PROVE  \/ EventsOf(i)' # {}
                    \/ \E j \in DOMAIN queue' :
                         /\ j >= i /\ queue'[j].cmd \in {"pause", "abort"} /\ queue'[j].seq <= x
                         /\ EventsOf(j)' # {} \/ \E e \in LifeEvents' : journal'[e].kind \in Ended
  BY DEF Passed, Whole, IsStop
<1>1. i \in DOMAIN queue /\ queue'[i] = queue[i]
  <2>1. i \in Nat
    BY QueueStays
  <2>2. Len(queue) \in Nat
    BY DEF QueueGrows
  <2>3. i <= Len(queue)
    BY <2>1, <2>2
  <2> QED BY <2>3, QueueStays
<1>2. DOMAIN queue \subseteq DOMAIN queue' /\ \A j \in DOMAIN queue : queue'[j] = queue[j]
  BY QueueStays
<1>3. CASE EventsOf(i) # {}
  BY <1>3, EventsStay
<1>4. CASE \E j \in DOMAIN queue :
             /\ j >= i /\ IsStop(j) /\ queue[j].seq <= x
             /\ EventsOf(j) # {} \/ \E e \in LifeEvents : journal[e].kind \in Ended
  <2>1. PICK j \in DOMAIN queue :
          /\ j >= i /\ IsStop(j) /\ queue[j].seq <= x
          /\ EventsOf(j) # {} \/ \E e \in LifeEvents : journal[e].kind \in Ended
    BY <1>4
  <2>2. EventsOf(j)' # {} \/ \E e \in LifeEvents' : journal'[e].kind \in Ended
    BY <2>1, EventsStay
  <2> QED BY <1>2, <2>1, <2>2 DEF IsStop
<1> QED BY <1>1, <1>3, <1>4 DEF Passed, Whole

-----------------------------------------------------------------------------
(* What a step does to its own process *)

\* Where the process goes, and what it remembers.
LEMMA Went ==
  ASSUME TypeOK, NEW p \in Processes, NEW at, Goto(p, at)
  PROVE  pc'[p] = at
BY DEF TypeOK, Goto

LEMMA Wrote ==
  ASSUME TypeOK, NEW p \in Processes, NEW m, local' = [local EXCEPT ![p] = m]
  PROVE  local'[p] = m
BY DEF TypeOK

\* A parent that names its driver late changes nothing but driver.pid.
LEMMA LateNameStays ==
  ASSUME TypeOK, NEW p \in Drivers, PublishLate(p)
  PROVE  /\ pc' = pc /\ queue' = queue /\ cursor' = cursor /\ journal' = journal
         /\ workdir' = workdir /\ eventLock' = eventLock
         /\ local'[p].mem = local[p].mem /\ local'[p].base = local[p].base
         /\ local'[p].batch = local[p].batch /\ local'[p].taking = local[p].taking
         /\ local'[p].next = local[p].next /\ local'[p].failed = local[p].failed
         /\ local'[p].paused = local[p].paused /\ local'[p].keep = local[p].keep
<1>0. p \in Processes
  BY DEF Processes
<1>1. p \in Processes /\ local[p] \in Memory
  BY <1>0 DEF TypeOK
<1>2. local'[p] = [local[p] EXCEPT !.unnamed = FALSE]
  BY <1>1, Wrote DEF PublishLate
<1>3. /\ pc' = pc /\ queue' = queue /\ cursor' = cursor /\ journal' = journal
      /\ workdir' = workdir /\ eventLock' = eventLock
  BY DEF PublishLate
<1> QED BY <1>1, <1>2, <1>3 DEF Memory

\* The queue is a sequence of entries.
LEMMA QueueIs ==
  ASSUME TypeOK
  PROVE  /\ Len(queue) \in Nat /\ DOMAIN queue = 1..Len(queue)
         /\ \A i \in DOMAIN queue : /\ i \in Nat /\ i <= Len(queue) /\ queue[i] \in Entries
                                    /\ queue[i].seq \in Nat /\ queue[i].cmd \in Commands
                                    /\ queue[i].keep \in BOOLEAN
<1>1. queue \in Seq(Entries) /\ Len(queue) \in Nat /\ DOMAIN queue = 1..Len(queue)
  BY DEF TypeOK, Entries
<1>2. \A i \in 1..Len(queue) : queue[i] \in Entries
  BY <1>1
<1>3. \A i \in DOMAIN queue : i \in Nat /\ i <= Len(queue)
  <2> DEFINE n == Len(queue)
  <2>1. n \in Nat /\ DOMAIN queue = 1..n
    BY <1>1
  <2> HIDE DEF n
  <2>2. \A i \in 1..n : i \in Nat /\ i <= n
    BY <2>1
  <2> QED BY <2>1, <2>2 DEF n
<1> QED BY <1>1, <1>2, <1>3 DEF Entries

\* The journal is a sequence of events.
LEMMA JournalIs ==
  ASSUME TypeOK
  PROVE  /\ Len(journal) \in Nat /\ DOMAIN journal = 1..Len(journal)
         /\ \A e \in DOMAIN journal : e \in Nat /\ e <= Len(journal) /\ journal[e] \in Events
<1>1. journal \in Seq(Events) /\ Len(journal) \in Nat /\ DOMAIN journal = 1..Len(journal)
  BY DEF TypeOK, Events
<1>2. \A i \in 1..Len(journal) : journal[i] \in Events
  BY <1>1
<1>3. \A i \in DOMAIN journal : i \in Nat /\ i <= Len(journal)
  <2> DEFINE n == Len(journal)
  <2>1. n \in Nat /\ DOMAIN journal = 1..n
    BY <1>1
  <2> HIDE DEF n
  <2>2. \A i \in 1..n : i \in Nat /\ i <= n
    BY <2>1
  <2> QED BY <2>1, <2>2 DEF n
<1> QED BY <1>1, <1>2, <1>3

\* One event at the end of the journal.
LEMMA OneEvent ==
  ASSUME TypeOK, NEW e \in Events, Append1(e)
  PROVE  /\ DOMAIN journal' = 1..(Len(journal) + 1)
         /\ journal'[Len(journal) + 1] = e
         /\ \A r \in DOMAIN journal : journal'[r] = journal[r]
<1>1. journal \in Seq(Events) /\ Len(journal) \in Nat
  BY DEF TypeOK, Events
<1> QED BY <1>1 DEF Append1

\* Two of them.
LEMMA TwoEvents ==
  ASSUME TypeOK, NEW e \in Events, NEW f \in Events, journal' = journal \o <<e, f>>
  PROVE  /\ DOMAIN journal' = 1..(Len(journal) + 2)
         /\ journal'[Len(journal) + 1] = e /\ journal'[Len(journal) + 2] = f
         /\ \A r \in DOMAIN journal : journal'[r] = journal[r]
<1>1. journal \in Seq(Events) /\ Len(journal) \in Nat
  BY DEF TypeOK, Events
<1>2. <<e, f>> \in Seq(Events) /\ Len(<<e, f>>) = 2 /\ <<e, f>>[1] = e /\ <<e, f>>[2] = f
  OBVIOUS
<1> QED BY <1>1, <1>2

\* A driver takes the first of its batch and journals what becomes of it.
TakesFirst(p, i, e, at) ==
  /\ pc[p] \in {"scanning", "answering"} /\ pc'[p] = "consuming"
  /\ i \in DOMAIN queue /\ i \in local[p].batch /\ \A b \in local[p].batch : i <= b
  /\ e \in Events /\ e.of = i /\ e.kind # "resumed" /\ Append1(e)
  /\ at \in {"top", "scanning", "answering", "left"}
  /\ local'[p] = [local[p] EXCEPT !.taking = i, !.next = at]
  /\ at = "left" => IsStop(i) /\ e = EventOf(i)
  /\ at # "left" => queue[i].cmd \notin {"pause", "abort"} /\ e.kind \notin Lifecycle
  /\ at = "scanning" => queue[i].cmd = "note"
  /\ at = "top" => queue[i].cmd = "retry"
  /\ at = "answering" => pc[p] = "answering"

LEMMA ApplyTakes ==
  ASSUME TypeOK, EntriesFit, NEW p \in Drivers, Apply(p) \/ Answer(p)
  PROVE  \E i, e, at : TakesFirst(p, i, e, at)
<1> DEFINE M == local[p]
           i == Min(M.batch)
<1>1. p \in Processes /\ M \in Memory
  BY DriverFits
<1>2. M.batch # {} /\ M.batch \subseteq Nat
  BY DriverFits DEF Apply, Answer
<1>3. /\ i \in M.batch /\ i \in DOMAIN queue /\ i \in Nat /\ queue[i] \in Entries
      /\ \A b \in M.batch : i <= b
  BY <1>2, FirstIsThere, MinIsFirst
<1> HIDE DEF i
<1>4. CASE Apply(p)
  <2> DEFINE at == IF queue[i].cmd = "note" THEN pc[p] ELSE "left"
             e == EventOf(i)
  <2>1. /\ queue[i].cmd \in {"note", "pause", "abort"} /\ Append1(e)
        /\ Taking(p, i, at) /\ pc[p] \in {"scanning", "answering"}
    BY <1>3, <1>4 DEF Apply, i, Entries, Commands
  <2>2. e \in Events /\ e.kind # "resumed"
    BY <1>3, <2>1, EventOfIsTyped
  <2>3. e.of = i /\ (queue[i].cmd = "note" => e.kind = "noted")
    BY <2>1 DEF EventOf, Event
  <2>4. pc'[p] = "consuming" /\ local'[p] = [M EXCEPT !.taking = i, !.next = at]
    BY <1>1, <2>1 DEF Taking, Goto, TypeOK
  <2> HIDE DEF e
  <2>5. TakesFirst(p, i, e, at)
    BY <1>3, <2>1, <2>2, <2>3, <2>4 DEF TakesFirst, IsStop, e, Lifecycle, Ended
  <2> QED BY <2>5
<1>5. CASE Answer(p)
  <2>1. PICK kind \in {"retried", "refused"}, at \in {"top", "answering"} :
          Append1(Event(kind, i, FALSE)) /\ Taking(p, i, at)
    BY <1>5 DEF Answer, i
  <2> DEFINE e == Event(kind, i, FALSE)
  <2>2. e \in Events /\ e.kind = kind /\ e.of = i
    BY <1>3, EventIsTyped DEF Kinds, Event
  <2>3. pc'[p] = "consuming" /\ local'[p] = [M EXCEPT !.taking = i, !.next = at]
    BY <1>1, <2>1 DEF Taking, Goto, TypeOK
  <2>4. queue[i].cmd = "retry" /\ pc[p] = "answering" /\ Append1(e)
    BY <1>5, <2>1 DEF Answer, i
  <2> HIDE DEF e
  <2>5. TakesFirst(p, i, e, at)
    BY <1>3, <2>2, <2>3, <2>4 DEF TakesFirst, Lifecycle, Ended
  <2> QED BY <2>5
<1> QED BY <1>4, <1>5

\* A driver gives a retry up for a stop behind it.
Salvages(p, i, j, e, f) ==
  /\ pc[p] = "scanning" /\ pc'[p] = "consuming"
  /\ i \in DOMAIN queue /\ i \in local[p].batch /\ queue[i].cmd = "retry"
  /\ \A b \in local[p].batch : i <= b
  /\ j \in DOMAIN queue /\ j \in local[p].batch /\ IsStop(j)
  /\ \A b \in local[p].batch : IsStop(b) => j <= b
  /\ e \in Events /\ e.kind = "superseded" /\ e.of = i
  /\ f \in Events /\ f.of = j /\ f.kind # "resumed" /\ f = EventOf(j)
  /\ journal' = journal \o <<e, f>>
  /\ local'[p] = [local[p] EXCEPT !.taking = j, !.next = "left"]

LEMMA AtRetryTakes ==
  ASSUME TypeOK, EntriesFit, NEW p \in Drivers, AtRetry(p)
  PROVE  \/ \E i, j, e, f : Salvages(p, i, j, e, f)
         \/ pc[p] = "scanning" /\ pc'[p] = "ready" /\ local' = local /\ journal' = journal
<1> DEFINE M == local[p]
           i == Min(M.batch)
           stops == {j \in M.batch : queue[j].cmd \in {"pause", "abort"}}
           j == Min(stops)
           salvaged == stops # {} /\ (queue[j].cmd = "pause" \/ M.cancel)
           e == Event("superseded", i, FALSE)
           f == EventOf(j)
<1>1. p \in Processes /\ M \in Memory
  BY DriverFits
<1>2. M.batch # {} /\ M.batch \subseteq Nat
  BY DriverFits DEF AtRetry
<1>3. /\ i \in M.batch /\ i \in DOMAIN queue /\ i \in Nat /\ queue[i] \in Entries
      /\ \A b \in M.batch : i <= b
  BY <1>2, FirstIsThere, MinIsFirst
<1>4. CASE salvaged
  <2>1. /\ journal' = journal \o <<e, f>> /\ Taking(p, j, "left")
        /\ pc[p] = "scanning" /\ queue[i].cmd = "retry"
    BY <1>4 DEF AtRetry
  <2>2. j \in DOMAIN queue /\ j \in M.batch /\ queue[j].cmd \in {"pause", "abort"}
    <3>1. stops \subseteq M.batch /\ stops # {}
      BY <1>4
    <3>2. j \in stops /\ j \in DOMAIN queue
      <4> HIDE DEF stops
      <4> QED BY <3>1, FirstIsThere
    <3> QED BY <3>1, <3>2
  <2>7. \A b \in M.batch : IsStop(b) => j <= b
    <3>1. stops \subseteq Nat /\ stops # {} /\ \A b \in M.batch : IsStop(b) => b \in stops
      BY <1>2, <1>4 DEF IsStop
    <3>2. \A b \in stops : j <= b
      <4> HIDE DEF stops
      <4> QED BY <3>1, MinIsFirst
    <3> QED BY <3>1, <3>2
  <2> HIDE DEF i, j
  <2>3. f \in Events /\ f.kind # "resumed" /\ f.of = j
    BY <2>2, EventOfIsTyped DEF EventOf, Event
  <2>4. e \in Events /\ e.kind = "superseded" /\ e.of = i
    BY <1>3, EventIsTyped DEF Kinds, Event
  <2>5. pc'[p] = "consuming" /\ local'[p] = [M EXCEPT !.taking = j, !.next = "left"]
    BY <1>1, <2>1 DEF Taking, Goto, TypeOK
  <2> HIDE DEF e, f
  <2>6. Salvages(p, i, j, e, f)
    BY <1>3, <2>1, <2>2, <2>3, <2>4, <2>5, <2>7 DEF Salvages, IsStop, f
  <2> QED BY <2>6
<1>5. CASE ~salvaged
  <2>1. Goto(p, "ready") /\ UNCHANGED <<journal, local>> /\ pc[p] = "scanning"
    BY <1>5 DEF AtRetry
  <2> QED BY <1>1, <2>1, Went
<1> QED BY <1>4, <1>5

\* An event of no entry: an end, or a pause nobody queued.
Closes(e) ==
  e \in Events /\ e.of = 0 /\ e.kind \in {"paused", "finished", "failed", "aborted"} /\ Append1(e)

\* Who writes what to the journal.
LEMMA WhoWrites ==
  ASSUME TypeOK, EntriesFit, NEW p \in Processes, Moves(p)
  PROVE  \/ journal' = journal
         \/ p \in Drivers /\ \E i, e, at : TakesFirst(p, i, e, at)
         \/ p \in Drivers /\ \E i, j, e, f : Salvages(p, i, j, e, f)
         \/ p \in Drivers /\ Resume(p)
         \/ /\ \/ p \in Drivers /\ (Finish(p) \/ EndNode(p) \/ Fail(p))
               \/ p \in Clients /\ (StopFinalize(p) \/ PauseJournal(p))
            /\ \E e : Closes(e)
<1>1. ASSUME NEW kind \in {"paused", "finished", "failed", "aborted"}, NEW keep \in BOOLEAN,
             Append1(Event(kind, 0, keep))
      PROVE  \E e : Closes(e)
  <2>1. Event(kind, 0, keep) \in Events
    BY EventIsTyped DEF Kinds, Lifecycle, Ended
  <2>2. Event(kind, 0, keep).of = 0 /\ Event(kind, 0, keep).kind = kind
    BY DEF Event
  <2> QED BY <1>1, <2>1, <2>2 DEF Closes
<1>2. CASE p \in Drivers /\ (Apply(p) \/ Answer(p))
  BY <1>2, ApplyTakes
<1>3. CASE p \in Drivers /\ AtRetry(p)
  BY <1>3, AtRetryTakes
<1>4. CASE p \in Drivers /\ (Finish(p) \/ EndNode(p) \/ Fail(p))
  BY <1>1, <1>4 DEF Finish, EndNode, Fail, EndWith
<1>5. CASE p \in Drivers /\ (Scan(p) \/ ScanDone(p) \/ Await(p) \/ Consume(p) \/ StartNode(p)
                             \/ Leave(p) \/ ReadKeep(p) \/ Park(p) \/ Exit(p))
  BY <1>5 DEF Scan, ScanDone, Await, Consume, StartNode, Leave, ReadKeep, Park, Exit
<1>6. CASE p \in Drivers /\ (Start(p) \/ Watch(p) \/ Crash(p))
  BY <1>6 DEF Start, Clear, Publish, TakeHandoff, PublishLate, Plan, Acquire, Admit, GiveBack, Claim, Watch, Crash
<1>7. CASE p \in Clients /\ (StopFinalize(p) \/ PauseJournal(p))
  BY <1>1, <1>7 DEF StopFinalize, PauseJournal
<1>8. CASE p \in Clients /\ Ask(p) /\ ~(StopFinalize(p) \/ PauseJournal(p))
  BY <1>8 DEF Ask, Count, Post, Stop, StopAsk, StopReread, Pause, PauseAsk, PauseSync, ClientOnly
<1> QED BY <1>2, <1>3, <1>4, <1>5, <1>6, <1>7, <1>8 DEF Moves, Loop

-----------------------------------------------------------------------------
(* What the steps keep: seqs, cursors and posts *)

\* The place an event names is one of the queue.
OfsFit ==
  \A e \in DOMAIN journal : journal[e].kind # "resumed" => journal[e].of <= Len(queue)

LEMMA StepKeepsOfs ==
  ASSUME TypeOK, EntriesFit, OfsFit, NEW p \in Processes, Moves(p)
  PROVE  OfsFit'
<1>1. /\ Len(queue) \in Nat /\ Len(queue') \in Nat /\ Len(queue) <= Len(queue')
      /\ \A i \in DOMAIN queue : i \in Nat /\ i <= Len(queue)
  BY QueueMove, QueueIs DEF QueueGrows
<1>2. \A e \in DOMAIN journal : journal[e] \in Events
  BY JournalIs
<1>3. ASSUME NEW r \in DOMAIN journal', journal'[r].kind # "resumed"
      PROVE  journal'[r].of \in Nat /\ journal'[r].of <= Len(queue)
  <2>1. ASSUME r \in DOMAIN journal, journal'[r] = journal[r]
        PROVE  journal'[r].of \in Nat /\ journal'[r].of <= Len(queue)
    BY <1>2, <1>3, <2>1 DEF OfsFit, Events
  <2>2. ASSUME NEW e \in Events, Append1(e), e.kind # "resumed" => e.of \in DOMAIN queue \cup {0}
        PROVE  journal'[r].of \in Nat /\ journal'[r].of <= Len(queue)
    <3>1. (r \in DOMAIN journal /\ journal'[r] = journal[r]) \/ journal'[r] = e
      BY <2>2, OneEvent, JournalIs
    <3> QED BY <1>1, <1>3, <2>1, <2>2, <3>1
  <2>3. CASE journal' = journal
    BY <2>1, <2>3
  <2>4. CASE p \in Drivers /\ \E i, e, at : TakesFirst(p, i, e, at)
    BY <2>2, <2>4 DEF TakesFirst
  <2>5. CASE p \in Drivers /\ \E i, j, e, f : Salvages(p, i, j, e, f)
    <3>1. PICK i, j, e, f : Salvages(p, i, j, e, f)
      BY <2>5
    <3>2. (r \in DOMAIN journal /\ journal'[r] = journal[r]) \/ journal'[r] \in {e, f}
      BY <3>1, TwoEvents, JournalIs DEF Salvages
    <3> QED BY <1>1, <2>1, <3>1, <3>2 DEF Salvages
  <2>6. CASE p \in Drivers /\ Resume(p)
    <3> DEFINE e == Event("resumed", local[p].read, FALSE)
    <3>1. local[p].read \in Nat
      BY <2>6, DriverFits DEF Memory
    <3>2. e \in Events /\ e.kind = "resumed" /\ Append1(e)
      BY <2>6, <3>1, EventIsTyped DEF Resume, Event, Kinds, Lifecycle
    <3> HIDE DEF e
    <3> QED BY <2>2, <3>2
  <2>7. CASE \E e : Closes(e)
    BY <2>2, <2>7 DEF Closes
  <2> QED BY <2>3, <2>4, <2>5, <2>6, <2>7, WhoWrites
<1>4. ASSUME NEW r \in DOMAIN journal', journal'[r].kind # "resumed"
      PROVE  journal'[r].of <= Len(queue')
  BY <1>1, <1>3, <1>4
<1> QED BY <1>4 DEF OfsFit

\* The entry of a stop under way stays where it was.
LEMMA StopStays ==
  ASSUME TypeOK, QueueGrows, NEW c \in Clients, local'[c] = local[c]
  PROVE  StopOf(c) \subseteq StopOf(c)'
BY QueueStays DEF StopOf

LEMMA StepKeepsPosts ==
  ASSUME TypeOK, EntriesFit, PostsFit, NEW p \in Processes, Moves(p)
  PROVE  PostsFit'
<1> SUFFICES ASSUME NEW c \in Clients
             PROVE  /\ pc'[c] = "stopping" => Job[c] = "stop"
                    /\ pc'[c] = "posting" =>
                         /\ local'[c].read <= Len(queue')
                         /\ local'[c].next = "stopping" => Job[c] = "stop"
                    /\ Stopping(c)' => StopOf(c)' # {}
  BY DEF PostsFit
<1>1. /\ c \in Processes /\ c \notin Drivers /\ local[c] \in Memory /\ local[c].read \in Nat
      /\ pc[c] \in Places
  BY ProcessAssumption DEF Processes, TypeOK, Memory, Places
<1>2. QueueGrows /\ Len(queue) \in Nat /\ Len(queue') \in Nat /\ Len(queue) <= Len(queue')
  BY QueueMove DEF QueueGrows
<1>3. /\ pc[c] = "stopping" => Job[c] = "stop"
      /\ pc[c] = "posting" =>
           local[c].read <= Len(queue) /\ (local[c].next = "stopping" => Job[c] = "stop")
      /\ Stopping(c) => StopOf(c) # {}
  BY DEF PostsFit
<1>4. ASSUME pc'[c] = pc[c], local'[c] = local[c]
      PROVE  /\ pc'[c] = "stopping" => Job[c] = "stop"
             /\ pc'[c] = "posting" =>
                  /\ local'[c].read <= Len(queue')
                  /\ local'[c].next = "stopping" => Job[c] = "stop"
             /\ Stopping(c)' => StopOf(c)' # {}
  BY <1>1, <1>2, <1>3, <1>4, StopStays DEF Stopping
<1>5. CASE p # c
  BY <1>1, <1>4, <1>5, OthersStay
<1>6. CASE p = c
  <2>1. Ask(c)
    BY <1>1, <1>6 DEF Moves
  <2>2. CASE Count(c)
    <3>1. pc'[c] = "posting" /\ local'[c] = [local[c] EXCEPT !.read = Len(queue), !.next = pc[c]]
      BY <1>1, <2>2 DEF Count, Goto, TypeOK
    <3>2. local'[c].read = Len(queue) /\ local'[c].next = pc[c]
      BY <1>1, <3>1 DEF Memory
    <3> QED BY <1>2, <1>3, <3>1, <3>2 DEF Stopping
  <2>3. CASE Post(c)
    <3> DEFINE e == [seq |-> local[c].read + 1, cmd |-> CommandOf(Job[c]), keep |-> Job[c] = "pause_keep"]
    <3>1. pc'[c] = (IF local[c].next = "stopping" THEN "asking" ELSE "gone") /\ local' = local
      BY <1>1, <2>3, Went DEF Post
    <3>2. queue' = Append(queue, e)
      BY <2>3 DEF Post
    <3>3. Len(queue') = Len(queue) + 1 /\ queue'[Len(queue) + 1] = e /\ Len(queue) + 1 \in DOMAIN queue'
      <4>1. queue \in Seq(Entries)
        BY DEF TypeOK, Entries
      <4> HIDE DEF e
      <4> QED BY <4>1, <3>2
    <3>4. CASE local[c].next = "stopping"
      <4>1. Job[c] = "stop" /\ local[c].read <= Len(queue)
        BY <1>3, <2>3, <3>4 DEF Post
      <4>2. e.seq = local[c].read + 1 /\ e.cmd = "abort"
        BY <4>1 DEF CommandOf
      <4> HIDE DEF e
      <4>3. Len(queue) + 1 \in StopOf(c)'
        BY <1>1, <1>2, <3>1, <3>3, <4>1, <4>2 DEF StopOf
      <4> QED BY <3>1, <3>4, <4>3 DEF Stopping
    <3>5. CASE local[c].next # "stopping"
      BY <3>1, <3>5 DEF Stopping
    <3> QED BY <3>4, <3>5
  <2>4. CASE Stop(c)
    <3>1. Job[c] = "stop" /\ pc'[c] \in {"gone", "stopping"}
      BY <1>1, <2>4, Went DEF Stop
    <3> QED BY <3>1 DEF Stopping
  <2>5. CASE StopAsk(c) \/ StopReread(c)
    <3>1. Stopping(c) /\ local' = local /\ pc'[c] \in {"gone", "rereading", "finalizing"}
      BY <1>1, <2>5, Went DEF StopAsk, StopReread, Stopping
    <3> QED BY <1>2, <1>3, <3>1, StopStays
  <2>6. CASE StopFinalize(c) \/ Pause(c) \/ PauseAsk(c) \/ PauseSync(c) \/ PauseJournal(c)
    <3>1. pc'[c] \in {"gone", "syncing", "looking", "pausing", "journaling"}
      BY <1>1, <2>6, Went DEF StopFinalize, Pause, PauseAsk, PauseSync, PauseJournal
    <3> QED BY <3>1 DEF Stopping
  <2> QED BY <2>1, <2>2, <2>3, <2>4, <2>5, <2>6 DEF Ask
<1> QED BY <1>5, <1>6

\* The cursor a driver remembers is written as it claims and as it consumes.
LEMMA MemMove ==
  ASSUME TypeOK, EntriesFit, NEW p \in Processes, Moves(p), NEW q \in Drivers
  PROVE  \/ local'[q].mem = local[q].mem /\ local'[q].base = local[q].base
         \/ p = q /\ Claim(q) /\ local'[q].mem = cursor /\ local'[q].base = cursor
         \/ p = q /\ Consume(q) /\ local'[q].mem = queue[local[q].taking].seq /\ local'[q].base = local[q].base
<1>1. q \in Processes /\ local[q] \in Memory /\ q \notin Clients
  BY ProcessAssumption, DriverFits
<1>2. CASE p # q
  BY <1>1, <1>2, OthersStay
<1>3. CASE p = q
  <2>1. CASE Claim(q)
    <3>1. local'[q] = [local[q] EXCEPT !.mem = cursor, !.base = cursor]
      BY <1>1, <2>1 DEF Claim, TypeOK
    <3> QED BY <1>1, <1>3, <2>1, <3>1 DEF Memory
  <2>2. CASE Consume(q)
    <3> DEFINE i == local[q].taking
               rest == IF queue[i].cmd = "retry" THEN {} ELSE local[q].batch \ 1..i
    <3>1. local'[q] = [local[q] EXCEPT !.mem = queue[i].seq, !.batch = rest, !.paused = (queue[i].cmd = "pause")]
      BY <1>1, <2>2 DEF Consume, TypeOK
    <3> HIDE DEF rest
    <3> QED BY <1>1, <1>3, <2>2, <3>1 DEF Memory
  <2>3. CASE ~Claim(q) /\ ~Consume(q)
    <3>1. CASE Loop(q)
      <4>1. CASE Scan(q) \/ Await(q)
        <5>1. local'[q] = [local[q] EXCEPT !.batch = Unread(local[q].mem)]
          BY <1>1, <4>1 DEF Scan, Await, TypeOK
        <5> QED BY <1>1, <5>1 DEF Memory
      <4>2. CASE Apply(q) \/ Answer(q)
        <5>1. PICK i, e, at : TakesFirst(q, i, e, at)
          BY <4>2, ApplyTakes
        <5> QED BY <1>1, <5>1 DEF TakesFirst, Memory
      <4>3. CASE AtRetry(q)
        BY <1>1, <4>3, AtRetryTakes DEF Salvages, Memory
      <4>4. CASE Finish(q) \/ EndNode(q)
        <5>1. \/ local' = local
              \/ \E b \in BOOLEAN : local' = [local EXCEPT ![q].paused = b]
              \/ local' = [local EXCEPT ![q].hopped = TRUE]
              \/ local' = [local EXCEPT ![q].batch = {}]
              \/ local' = [local EXCEPT ![q].failed = TRUE]
          BY <4>4 DEF Finish, EndNode, EndWith
        <5> QED BY <1>1, <5>1 DEF Memory, TypeOK
      <4>5. CASE ReadKeep(q)
        <5>1. \E k : local'[q] = [local[q] EXCEPT !.keep = k]
          BY <1>1, <4>5 DEF ReadKeep, TypeOK
        <5> QED BY <1>1, <5>1 DEF Memory
      <4>6. CASE ScanDone(q) \/ StartNode(q) \/ Leave(q) \/ Fail(q) \/ Park(q) \/ Exit(q)
        BY <4>6 DEF ScanDone, StartNode, Leave, Fail, Park, Exit
      <4> QED BY <2>3, <3>1, <4>1, <4>2, <4>3, <4>4, <4>5, <4>6 DEF Loop
    <3>2. CASE Start(q) /\ ~Plan(q) /\ ~TakeHandoff(q) /\ ~PublishLate(q)
      BY <2>3, <3>2 DEF Start, Clear, Publish, Acquire, Admit, Resume, GiveBack
    <3>3. CASE Plan(q)
      <4>1. local'[q] = [local[q] EXCEPT !.read = LatestLife]
        BY <1>1, <3>3 DEF Plan, TypeOK
      <4> QED BY <1>1, <4>1 DEF Memory
    <3>4. CASE Watch(q)
      <4>1. local'[q] = [local[q] EXCEPT !.cancel = TRUE]
        BY <1>1, <3>4 DEF Watch, TypeOK
      <4> QED BY <1>1, <4>1 DEF Memory
    <3>5. CASE Crash(q)
      BY <3>5 DEF Crash
    <3>6. CASE TakeHandoff(q)
      <4>1. local'[q] = [local[q] EXCEPT !.unnamed = TRUE]
        BY <1>1, <3>6, Wrote DEF TakeHandoff
      <4> QED BY <1>1, <4>1 DEF Memory
    <3>7. CASE PublishLate(q)
      BY <3>7, LateNameStays
    <3> QED BY <1>1, <1>3, <3>1, <3>2, <3>3, <3>4, <3>5, <3>6, <3>7 DEF Moves
  <2> QED BY <2>1, <2>2, <2>3
<1> QED BY <1>2, <1>3

LEMMA StepKeepsSeqs ==
  ASSUME TypeOK, EntriesFit, SeqsFit, PostsFit, NEW p \in Processes, Moves(p)
  PROVE  SeqsFit'
<1>1. /\ Len(queue) \in Nat /\ Len(queue') \in Nat /\ Len(queue) <= Len(queue')
      /\ DOMAIN queue = 1..Len(queue) /\ DOMAIN queue' = 1..Len(queue') /\ QueueGrows
  BY QueueMove DEF QueueGrows
<1>2. \A i \in DOMAIN queue : queue[i].seq \in 1..i /\ i <= Len(queue) /\ i \in Nat
  BY QueueIs DEF SeqsFit
<1>3. \A i \in DOMAIN queue : queue[i].seq \in Nat /\ queue[i].seq <= Len(queue)
  BY <1>1, <1>2
<1>4. ASSUME NEW i \in DOMAIN queue'
      PROVE  queue'[i].seq \in 1..i
  <2>1. CASE i \in DOMAIN queue
    BY <1>1, <1>2, <2>1, QueueStays
  <2>2. CASE i \notin DOMAIN queue
    <3>1. p \in Clients /\ Post(p) /\ i = Len(queue) + 1
      BY <1>1, <2>2, QueueMove, QueueStays
    <3>2. queue'[i].seq = local[p].read + 1
      <4>1. queue \in Seq(Entries)
        BY DEF TypeOK, Entries
      <4> QED BY <3>1, <4>1 DEF Post
    <3>3. local[p].read \in Nat /\ local[p].read <= Len(queue)
      BY <3>1 DEF PostsFit, Post, TypeOK, Memory
    <3> QED BY <1>1, <3>1, <3>2, <3>3
  <2> QED BY <2>1, <2>2
<1>5. cursor' <= Len(queue')
  <2>1. CASE cursor' = cursor
    BY <1>1, <2>1 DEF SeqsFit, TypeOK
  <2>2. CASE p \in Drivers /\ Consume(p)
    <3>1. cursor' = queue[local[p].taking].seq /\ local[p].taking \in DOMAIN queue
      BY <2>2 DEF Consume, EntriesFit
    <3>2. cursor' \in Nat /\ cursor' <= Len(queue)
      BY <1>3, <3>1
    <3> QED BY <1>1, <3>2
  <2>3. CASE p \in Clients /\ StopReread(p) /\ Terminal /\ cursor' = local[p].read + 1
    <3>1. PICK j \in DOMAIN queue : j > local[p].read /\ local[p].read \in Nat
      BY <2>3 DEF PostsFit, Stopping, StopReread, StopOf, TypeOK, Memory
    <3>2. j \in Nat /\ j <= Len(queue)
      BY <1>2, <3>1
    <3> QED BY <1>1, <2>3, <3>1, <3>2
  <2> QED BY <2>1, <2>2, <2>3, CursorMove
<1>6. ASSUME NEW q \in Drivers PROVE local'[q].mem <= Len(queue')
  <2>1. local[q].mem \in Nat /\ local[q].mem <= Len(queue)
    BY DriverFits DEF SeqsFit, Memory
  <2>2. CASE local'[q].mem = local[q].mem
    BY <1>1, <2>1, <2>2
  <2>3. CASE local'[q].mem = cursor
    BY <1>1, <2>3 DEF SeqsFit, TypeOK
  <2>4. CASE Consume(q) /\ local'[q].mem = queue[local[q].taking].seq
    <3>1. local[q].taking \in DOMAIN queue
      BY <2>4 DEF Consume, EntriesFit
    <3>2. local'[q].mem \in Nat /\ local'[q].mem <= Len(queue)
      BY <1>3, <2>4, <3>1
    <3> QED BY <1>1, <3>2
  <2> QED BY <2>2, <2>3, <2>4, MemMove
<1>7. OfsFit'
  BY StepKeepsOfs DEF OfsFit, SeqsFit
<1> QED BY <1>4, <1>5, <1>6, <1>7 DEF SeqsFit, OfsFit

-----------------------------------------------------------------------------
(* What the steps keep: what a drive has heard *)

\* The places of a driver before its drive.
Before == {"idle", "cleared", "launched", "planned", "holding", "admitted", "entering"}

\* What a drive has dealt with behind its cursor was journaled.
LEMMA BehindIsHeard ==
  ASSUME TypeOK, EntriesFit, NEW p \in Drivers, Heard(p), InLoop(p),
         NEW i \in DOMAIN queue, Whole(i), i > local[p].base, i <= local[p].mem
  PROVE  i \notin local[p].batch /\ EventsOf(i) # {}
<1>1. i \in Nat /\ local[p].mem \in Nat /\ \A b \in local[p].batch : b \in Nat
  BY QueueIs, DriverFits DEF Memory
<1>2. \A b \in local[p].batch : b > local[p].mem
  BY DEF Heard
<1>3. i \notin local[p].batch
  BY <1>1, <1>2
<1> QED BY <1>3 DEF Heard

\* What a driver heard it has heard whatever the others do.
LEMMA HeardStays ==
  ASSUME TypeOK, EntriesFit, SeqsFit, Grows, QueueGrows, NEW p \in Drivers, Heard(p),
         pc'[p] = pc[p], local'[p].batch = local[p].batch, local'[p].failed = local[p].failed,
         local'[p].mem = local[p].mem, local'[p].base = local[p].base,
         local'[p].taking = local[p].taking, local'[p].next = local[p].next
  PROVE  Heard(p)'
<1> DEFINE m == local[p]
<1>1. /\ m.mem \in Nat /\ m.base \in Nat /\ m.batch \subseteq DOMAIN queue /\ m.mem <= Len(queue)
      /\ Len(queue) \in Nat /\ (pc[p] = "consuming" => m.taking \in DOMAIN queue)
  BY DriverFits, QueueIs DEF Memory, SeqsFit, EntriesFit
<1>2. /\ DOMAIN queue \subseteq DOMAIN queue'
      /\ \A i \in DOMAIN queue' : i \in Nat /\ (i \in DOMAIN queue <=> i <= Len(queue))
      /\ \A i \in DOMAIN queue : i \in Nat /\ i <= Len(queue) /\ queue'[i] = queue[i]
  BY QueueStays
<1>3. \A i : EventsOf(i) \subseteq EventsOf(i)'
  BY EventsStay
<1>4. CASE pc[p] \in Before
  BY <1>4 DEF Heard, Before, InLoop
<1>5. CASE InLoop(p)
  <2>1. ~m.failed /\ Passed(m.base) /\ m.base <= m.mem /\ \A b \in m.batch : b > m.mem /\ queue[b].seq > m.base
    BY <1>5 DEF Heard
  <2>2. Passed(m.base)'
    <3>1. m.base <= Len(queue)
      BY <1>1, <2>1
    <3>2. ASSUME NEW x, x = m.base PROVE Passed(x)'
      BY <1>1, <2>1, <3>1, <3>2, PassedStays
    <3>3. \A x : x = m.base => Passed(x)'
      BY <3>2
    <3>4. Passed(local[p].base) /\ local'[p].base = m.base
      BY <2>1
    <3> QED BY <3>3, <3>4 DEF Passed
  <2>3. ASSUME NEW i \in DOMAIN queue' \ m.batch, queue'[i].seq = i, i > m.base,
               i <= m.mem \/ \E b \in m.batch : i <= b
        PROVE  EventsOf(i)' # {}
    <3>1. i \in DOMAIN queue
      BY <1>1, <1>2, <2>3
    <3>2. EventsOf(i) # {}
      BY <1>2, <1>5, <2>3, <3>1 DEF Heard, Whole
    <3> QED BY <1>3, <3>2
  <2>4. pc[p] = "consuming" =>
          /\ m.taking \in m.batch /\ EventsOf(m.taking)' # {}
          /\ \/ \A b \in m.batch : m.taking <= b
             \/ IsStop(m.taking)' /\ m.next = "left"
    BY <1>1, <1>2, <1>3, <1>5 DEF Heard, IsStop
  <2>5. pc[p] \notin Before
    BY <1>5 DEF InLoop, Before
  <2>6. \A b \in m.batch : b > m.mem /\ queue'[b].seq > m.base
    BY <1>1, <1>2, <2>1
  <2> QED BY <1>5, <2>1, <2>2, <2>3, <2>4, <2>5, <2>6 DEF Heard, Whole, InLoop, Before
<1>6. CASE pc[p] \notin Before /\ ~InLoop(p)
  BY <1>6 DEF Heard, InLoop, Before
<1> QED BY <1>4, <1>5, <1>6

\* A scan that reads the queue, or forgets what it read, has heard no less.
LEMMA HeardKept ==
  ASSUME TypeOK, EntriesFit, SeqsFit, Grows, queue' = queue, NEW p \in Drivers, Heard(p),
         InLoop(p), InLoop(p)', pc'[p] # "consuming", local'[p].failed = local[p].failed,
         local'[p].batch \in {local[p].batch, {}, Unread(local[p].mem)},
         local'[p].mem = local[p].mem, local'[p].base = local[p].base
  PROVE  Heard(p)'
<1> DEFINE m == local[p]
           batch == local'[p].batch
<1>1. /\ m.mem \in Nat /\ m.base \in Nat /\ m.batch \subseteq DOMAIN queue /\ m.mem <= Len(queue)
      /\ Len(queue) \in Nat /\ QueueGrows
  BY DriverFits, QueueIs DEF Memory, SeqsFit, QueueGrows
<1>2. \A i \in DOMAIN queue : i \in Nat /\ queue[i].seq \in Nat /\ queue[i].seq <= i
  BY QueueIs DEF SeqsFit
<1>3. \A i : EventsOf(i) \subseteq EventsOf(i)'
  BY EventsStay
<1>4. ~m.failed /\ Passed(m.base) /\ m.base <= m.mem /\ \A b \in m.batch : b > m.mem /\ queue[b].seq > m.base
  BY DEF Heard
<1>5. Passed(m.base)'
  <2>1. m.base <= Len(queue)
    BY <1>1, <1>4
  <2>2. ASSUME NEW x, x = m.base PROVE Passed(x)'
    BY <1>1, <1>4, <2>1, <2>2, PassedStays
  <2>3. \A x : x = m.base => Passed(x)'
    BY <2>2
  <2>4. Passed(local[p].base) /\ local'[p].base = m.base
    BY <1>4
  <2> QED BY <2>3, <2>4 DEF Passed
<1>6. \A b \in Unread(m.mem) : b \in DOMAIN queue /\ b > m.mem /\ queue[b].seq > m.base
  BY <1>1, <1>2, <1>4 DEF Unread
<1>7. ASSUME NEW i \in DOMAIN queue \ batch, queue[i].seq = i, i > m.base,
             i <= m.mem \/ \E b \in batch : i <= b
      PROVE  EventsOf(i)' # {}
  <2>1. CASE i <= m.mem
    BY <1>3, <1>7, <2>1, BehindIsHeard DEF Whole
  <2>2. CASE batch = m.batch
    BY <1>3, <1>7, <2>2 DEF Heard, Whole
  <2>3. CASE ~(i <= m.mem) /\ batch # m.batch
    <3>1. batch = Unread(m.mem)
      BY <1>7, <2>3
    <3>2. i > m.mem
      BY <1>1, <1>2, <2>3
    <3> QED BY <1>7, <3>1, <3>2 DEF Unread
  <2> QED BY <2>1, <2>2, <2>3
<1>8. \A b \in batch : b > m.mem /\ queue[b].seq > m.base
  BY <1>4, <1>6
<1>9. pc'[p] \notin Before
  BY DEF InLoop, Before
<1> QED BY <1>4, <1>5, <1>7, <1>8, <1>9 DEF Heard, Whole, InLoop, Before

\* A new event is an event of its entry.
LEMMA NewEventCounts ==
  ASSUME TypeOK, NEW i \in Nat
  PROVE  /\ \A e \in Events : Append1(e) /\ e.of = i /\ e.kind # "resumed" => EventsOf(i)' # {}
         /\ \A e, f \in Events :
              journal' = journal \o <<e, f>> /\ f.of = i /\ f.kind # "resumed" => EventsOf(i)' # {}
<1>1. Len(journal) \in Nat
  BY JournalIs
<1>2. ASSUME NEW e \in Events, Append1(e), e.of = i, e.kind # "resumed"
      PROVE  EventsOf(i)' # {}
  <2>1. Len(journal) + 1 \in DOMAIN journal' /\ journal'[Len(journal) + 1] = e
    BY <1>1, <1>2, OneEvent
  <2> QED BY <1>2, <2>1 DEF EventsOf
<1>3. ASSUME NEW e \in Events, NEW f \in Events, journal' = journal \o <<e, f>>,
             f.of = i, f.kind # "resumed"
      PROVE  EventsOf(i)' # {}
  <2>1. Len(journal) + 2 \in DOMAIN journal' /\ journal'[Len(journal) + 2] = f
    BY <1>1, <1>3, TwoEvents
  <2> QED BY <1>3, <2>1 DEF EventsOf
<1> QED BY <1>2, <1>3

\* A driver that takes an entry has journaled it.
LEMMA HeardTaking ==
  ASSUME TypeOK, EntriesFit, SeqsFit, Grows, queue' = queue, NEW p \in Drivers, Heard(p), InLoop(p),
         pc'[p] = "consuming", NEW i \in local[p].batch, NEW at,
         local'[p] = [local[p] EXCEPT !.taking = i, !.next = at],
         EventsOf(i)' # {},
         (\A b \in local[p].batch : i <= b) \/ (IsStop(i) /\ at = "left")
  PROVE  Heard(p)'
<1> DEFINE m == local[p]
<1>1. m \in Memory /\ m.batch \subseteq DOMAIN queue
  BY DriverFits
<1>2. /\ local'[p].batch = m.batch /\ local'[p].mem = m.mem /\ local'[p].base = m.base
      /\ local'[p].failed = m.failed /\ local'[p].taking = i /\ local'[p].next = at
  BY <1>1 DEF Memory
<1>3. ~m.failed /\ Passed(m.base) /\ m.base <= m.mem /\ \A b \in m.batch : b > m.mem /\ queue[b].seq > m.base
  BY DEF Heard
<1>4. Passed(local[p].base)'
  <2>1. m.base \in Nat /\ m.base <= Len(queue) /\ QueueGrows
    BY <1>1, <1>3, DriverFits, QueueIs DEF Memory, SeqsFit, QueueGrows
  <2>2. ASSUME NEW x, x = m.base PROVE Passed(x)'
    BY <1>3, <2>1, <2>2, PassedStays
  <2>3. \A x : x = m.base => Passed(x)'
    BY <2>2
  <2> QED BY <1>2, <2>3 DEF Passed
<1>5. \A j : EventsOf(j) \subseteq EventsOf(j)'
  BY EventsStay
<1>6. EventsOf(local[p].taking)' # {} /\ (IsStop(i) => IsStop(local[p].taking)')
  BY <1>2 DEF EventsOf, IsStop
<1>7. ASSUME NEW j \in DOMAIN queue \ m.batch, queue[j].seq = j, j > m.base,
             j <= m.mem \/ \E b \in m.batch : j <= b
      PROVE  EventsOf(j)' # {}
  BY <1>5, <1>7 DEF Heard, Whole
<1> QED BY <1>2, <1>3, <1>4, <1>6, <1>7 DEF Heard, Whole, InLoop

\* A driver that moves its cursor has dealt with what it passes.
LEMMA HeardConsume ==
  ASSUME TypeOK, EntriesFit, SeqsFit, NEW p \in Drivers, Heard(p), Consume(p)
  PROVE  Heard(p)'
<1> DEFINE m == local[p]
           i == m.taking
           rest == IF queue[i].cmd = "retry" THEN {} ELSE m.batch \ 1..i
<1>1. m \in Memory /\ m.batch \subseteq DOMAIN queue /\ p \in Processes
  BY DriverFits
<1>2. pc[p] = "consuming" /\ queue' = queue /\ journal' = journal /\ Goto(p, m.next)
  BY DEF Consume, DriveOnly
<1>3. pc'[p] = m.next /\ m.next \in {"top", "scanning", "answering", "left"}
      /\ local'[p] = [m EXCEPT !.mem = queue[i].seq, !.batch = rest, !.paused = (queue[i].cmd = "pause")]
  BY <1>1, <1>2 DEF Consume, EntriesFit, Goto, TypeOK
<1>4. local'[p].mem = queue[i].seq /\ local'[p].batch = rest /\ local'[p].base = m.base
      /\ local'[p].failed = m.failed
  <2> HIDE DEF rest
  <2> QED BY <1>1, <1>3 DEF Memory
<1>5. CASE m.next = "left"
  BY <1>3, <1>5 DEF Heard, InLoop
<1>6. CASE m.next # "left"
  <2>1. /\ ~m.failed /\ Passed(m.base) /\ m.base <= m.mem
        /\ i \in m.batch /\ EventsOf(i) # {} /\ queue[i].seq > m.base
        /\ \A b \in m.batch : i <= b
        /\ \A b \in m.batch : b > m.mem /\ queue[b].seq > m.base
    BY <1>2, <1>6 DEF Heard, InLoop
  <2>2. \A j \in DOMAIN queue : j \in Nat /\ queue[j].seq \in Nat /\ queue[j].seq <= j
    BY QueueIs DEF SeqsFit
  <2>3. i \in DOMAIN queue /\ i \in Nat /\ queue[i].seq \in Nat /\ queue[i].seq <= i /\ m.base \in Nat
    BY <1>1, <2>1, <2>2 DEF Memory
  <2>4. rest \subseteq m.batch /\ \A b \in rest : b > i
    <3>1. rest \subseteq m.batch
      OBVIOUS
    <3>2. ASSUME NEW b \in rest PROVE b > i
      <4>1. b \in m.batch /\ b \notin 1..i
        OBVIOUS
      <4>2. b \in Nat /\ i \in Nat /\ b >= i /\ ~(1 <= b /\ b <= i)
        BY <1>1, <2>1, <2>2, <2>3, <4>1
      <4>3. b > 0
        BY <1>1, <2>1, <2>2, <4>1 DEF Memory
      <4> QED BY <4>2, <4>3
    <3> QED BY <3>1, <3>2
  <2>5. \A b \in rest : b > queue[i].seq /\ queue[b].seq > m.base
    BY <1>1, <2>1, <2>2, <2>3, <2>4
  <2>6. ASSUME NEW j \in DOMAIN queue \ rest, queue[j].seq = j, j > m.base,
               j <= queue[i].seq \/ \E b \in rest : j <= b
        PROVE  EventsOf(j) # {}
    <3>1. CASE j \in m.batch
      <4>1. j <= i
        <5>1. CASE j <= queue[i].seq
          BY <2>2, <2>3, <5>1
        <5>2. CASE \E b \in rest : j <= b
          <6>1. queue[i].cmd # "retry" /\ j \in 1..i
            BY <2>6, <3>1, <5>2
          <6> QED BY <2>3, <6>1
        <5> QED BY <2>6, <5>1, <5>2
      <4>2. j = i
        BY <2>1, <2>2, <2>3, <3>1, <4>1
      <4> QED BY <2>1, <4>2
    <3>2. CASE j \notin m.batch
      <4>1. \E b \in m.batch : j <= b
        <5>1. CASE j <= queue[i].seq
          BY <2>1, <2>2, <2>3, <5>1
        <5>2. CASE \E b \in rest : j <= b
          BY <2>4, <5>2
        <5> QED BY <2>6, <5>1, <5>2
      <4> QED BY <1>2, <2>6, <3>2, <4>1 DEF Heard, InLoop, Whole
    <3> QED BY <3>1, <3>2
  <2>7. Passed(local[p].base)'
    BY <1>2, <1>4, <2>1 DEF Passed, Whole, IsStop, EventsOf, LifeEvents
  <2>8. \A j : EventsOf(j)' = EventsOf(j)
    BY <1>2 DEF EventsOf
  <2> HIDE DEF rest
  <2>9. pc'[p] \notin Before \cup {"consuming"} /\ m.base <= queue[i].seq
    BY <1>3, <2>1, <2>3 DEF Before
  <2> QED BY <1>2, <1>4, <2>1, <2>5, <2>6, <2>7, <2>8, <2>9 DEF Heard, Whole, Before
<1> QED BY <1>5, <1>6

\* A driver before its drive has heard nothing.
LEMMA HeardBefore ==
  ASSUME NEW p \in Drivers, pc[p] \in Before, Heard(p), pc'[p] \notin {"top", "scanning", "answering", "consuming", "ready", "working"},
         local'[p].batch = local[p].batch, local'[p].failed = local[p].failed
  PROVE  Heard(p)'
BY DEF Heard, Before, InLoop

\* A drive hears what it takes, whatever step of its own it makes.
LEMMA LoopKeepsHeard ==
  ASSUME TypeOK, EntriesFit, SeqsFit, NEW p \in Drivers, Heard(p), Loop(p)
  PROVE  Heard(p)'
<1> DEFINE m == local[p]
<1>1. m \in Memory /\ p \in Processes /\ m.batch \subseteq DOMAIN queue /\ DOMAIN queue \subseteq Nat
  BY DriverFits
<1>2. Grows /\ queue' = queue
  <2>1. Moves(p)
    BY DEF Moves
  <2>2. queue' = queue
    BY DEF Loop, Scan, ScanDone, Await, Apply, Answer, AtRetry, Consume, StartNode, Finish,
                EndNode, Leave, Fail, ReadKeep, Park, Exit, DriveOnly
  <2> QED BY <1>1, <2>1, <2>2, MovesGrow
<1>3. CASE Scan(p)
  <2>1. pc[p] = "top" /\ pc'[p] = "scanning" /\ local'[p] = [m EXCEPT !.batch = Unread(m.mem)]
    BY <1>1, <1>3, Went DEF Scan, TypeOK
  <2>2. local'[p].batch = Unread(m.mem) /\ local'[p].mem = m.mem /\ local'[p].base = m.base
        /\ local'[p].failed = m.failed
    BY <1>1, <2>1 DEF Memory
  <2> QED BY <1>2, <2>1, <2>2, HeardKept DEF InLoop
<1>4. CASE ScanDone(p) \/ StartNode(p)
  <2>1. pc[p] \in {"scanning", "ready"} /\ pc'[p] \in {"ready", "working"} /\ local' = local
    BY <1>1, <1>4, Went DEF ScanDone, StartNode
  <2> QED BY <1>2, <2>1, HeardKept DEF InLoop
<1>5. CASE Await(p)
  <2>1. pc[p] = "answering" /\ pc' = pc /\ local'[p] = [m EXCEPT !.batch = Unread(m.mem)]
    BY <1>1, <1>5 DEF Await, TypeOK
  <2>2. local'[p].batch = Unread(m.mem) /\ local'[p].mem = m.mem /\ local'[p].base = m.base
        /\ local'[p].failed = m.failed
    BY <1>1, <2>1 DEF Memory
  <2> QED BY <1>2, <2>1, <2>2, HeardKept DEF InLoop
<1>6. CASE Apply(p) \/ Answer(p)
  <2>1. PICK i, e, at : TakesFirst(p, i, e, at)
    BY <1>6, ApplyTakes
  <2>2. EventsOf(i)' # {}
    BY <1>1, <2>1, NewEventCounts DEF TakesFirst
  <2> QED BY <1>2, <2>1, <2>2, HeardTaking DEF TakesFirst, InLoop
<1>7. CASE AtRetry(p)
  <2>1. CASE \E i, j, e, f : Salvages(p, i, j, e, f)
    <3>1. PICK i, j, e, f : Salvages(p, i, j, e, f)
      BY <2>1
    <3>2. EventsOf(j)' # {}
      BY <1>1, <3>1, NewEventCounts DEF Salvages
    <3> QED BY <1>2, <3>1, <3>2, HeardTaking DEF Salvages, InLoop
  <2>2. CASE pc[p] = "scanning" /\ pc'[p] = "ready" /\ local' = local
    BY <1>2, <2>2, HeardKept DEF InLoop
  <2> QED BY <1>7, <2>1, <2>2, AtRetryTakes
<1>8. CASE Consume(p)
  BY <1>8, HeardConsume
<1>9. CASE EndNode(p)
  <2>1. pc[p] = "working"
    BY <1>9 DEF EndNode
  <2>2. CASE pc'[p] = "left"
    BY <2>2 DEF Heard, InLoop
  <2>3. CASE pc'[p] # "left"
    <3>1. /\ pc'[p] \in {"top", "answering"}
          /\ \/ local' = local
             \/ local'[p] = [m EXCEPT !.hopped = TRUE]
             \/ local'[p] = [m EXCEPT !.batch = {}]
      BY <1>1, <1>9, <2>3 DEF EndNode, EndWith, Goto, TypeOK
    <3>2. /\ local'[p].batch \in {m.batch, {}} /\ local'[p].mem = m.mem /\ local'[p].base = m.base
          /\ local'[p].failed = m.failed
      BY <1>1, <3>1 DEF Memory
    <3> QED BY <1>2, <2>1, <3>1, <3>2, HeardKept DEF InLoop
  <2> QED BY <2>2, <2>3
<1>10. CASE Finish(p) \/ Leave(p) \/ Fail(p) \/ ReadKeep(p) \/ Park(p) \/ Exit(p)
  <2>1. pc'[p] \in {"left", "failing", "leaving", "parking", "gone"}
    BY <1>1, <1>10, Went DEF Finish, EndWith, Leave, Fail, ReadKeep, Park, Exit
  <2> QED BY <2>1 DEF Heard, InLoop
<1> QED BY <1>3, <1>4, <1>5, <1>6, <1>7, <1>8, <1>9, <1>10 DEF Loop

\* A resume has heard nothing before it claims the run.
LEMMA StartKeepsHeard ==
  ASSUME TypeOK, EntriesFit, SeqsFit, PassedOverOnlyByAStop, NEW p \in Drivers, Heard(p),
         Start(p) \/ Watch(p) \/ Crash(p)
  PROVE  Heard(p)'
<1> DEFINE m == local[p]
<1>1. m \in Memory /\ p \in Processes /\ m.batch \subseteq DOMAIN queue
  BY DriverFits
<1>2. CASE Clear(p) \/ Publish(p) \/ Acquire(p) \/ Admit(p) \/ Resume(p)
  <2>1. /\ pc[p] \in Before /\ local' = local
        /\ pc'[p] \in {"cleared", "launched", "gone", "holding", "admitted", "refused", "entering"}
    BY <1>1, <1>2, Went DEF Clear, Publish, Acquire, Admit, Resume, Before
  <2> QED BY <2>1, HeardBefore
<1>3. CASE Plan(p)
  <2>1. pc[p] \in Before /\ pc'[p] = "planned" /\ local'[p] = [m EXCEPT !.read = LatestLife]
    BY <1>1, <1>3, Went, Wrote DEF Plan, Before
  <2>2. local'[p].batch = m.batch /\ local'[p].failed = m.failed
    BY <1>1, <2>1 DEF Memory
  <2> QED BY <2>1, <2>2, HeardBefore
<1>4. CASE GiveBack(p) \/ Crash(p)
  <2>1. pc'[p] \in {"gone", "dead"}
    BY <1>1, <1>4, Went DEF GiveBack, Crash
  <2> QED BY <2>1 DEF Heard, InLoop
<1>5. CASE Claim(p)
  <2>1. /\ pc[p] = "entering" /\ pc'[p] = "top" /\ queue' = queue /\ journal' = journal
        /\ local'[p] = [m EXCEPT !.mem = cursor, !.base = cursor]
    BY <1>1, <1>5, Went DEF Claim, TypeOK
  <2>2. m.batch = {} /\ ~m.failed
    BY <2>1 DEF Heard
  <2>3. local'[p].batch = {} /\ ~local'[p].failed /\ local'[p].mem = cursor /\ local'[p].base = cursor
    BY <1>1, <2>1, <2>2 DEF Memory
  <2>4. cursor \in Nat /\ \A i \in DOMAIN queue : i \in Nat
    BY DriverFits
  <2>5. Passed(local[p].base)'
    BY <2>1, <2>3 DEF PassedOverOnlyByAStop, Passed, Whole, IsStop, EventsOf, LifeEvents
  <2>6. \A i \in DOMAIN queue : ~(i > cursor /\ i <= cursor)
    BY <2>4
  <2> QED BY <2>1, <2>3, <2>4, <2>5, <2>6 DEF Heard, InLoop
<1>6. CASE Watch(p)
  <2>1. pc' = pc /\ queue' = queue /\ journal' = journal /\ local'[p] = [m EXCEPT !.cancel = TRUE]
    BY <1>1, <1>6, Wrote DEF Watch, DriveOnly
  <2>2. Grows /\ QueueGrows
    BY <2>1, QueueIs DEF Grows, QueueGrows
  <2>3. /\ local'[p].batch = m.batch /\ local'[p].failed = m.failed
        /\ local'[p].mem = m.mem /\ local'[p].base = m.base
        /\ local'[p].taking = m.taking /\ local'[p].next = m.next
    BY <1>1, <2>1 DEF Memory
  <2> QED BY <2>1, <2>2, <2>3, HeardStays
<1>7. CASE TakeHandoff(p)
  <2>1. pc[p] \in Before /\ pc'[p] = "launched" /\ local'[p] = [m EXCEPT !.unnamed = TRUE]
    BY <1>1, <1>7, Went, Wrote DEF TakeHandoff, Before
  <2>2. local'[p].batch = m.batch /\ local'[p].failed = m.failed
    BY <1>1, <2>1 DEF Memory
  <2> QED BY <2>1, <2>2, HeardBefore
<1>8. CASE PublishLate(p)
  <2>1. Grows /\ QueueGrows
    BY <1>8, LateNameStays, QueueIs DEF Grows, QueueGrows
  <2> QED BY <1>8, <2>1, LateNameStays, HeardStays
<1> QED BY <1>2, <1>3, <1>4, <1>5, <1>6, <1>7, <1>8 DEF Start

LEMMA StepKeepsHeard ==
  ASSUME TypeOK, EntriesFit, SeqsFit, PassedOverOnlyByAStop, HeardFit, NEW p \in Processes, Moves(p)
  PROVE  HeardFit'
<1> SUFFICES ASSUME NEW q \in Drivers PROVE Heard(q)'
  BY DEF HeardFit
<1>1. q \in Processes /\ q \notin Clients /\ Heard(q)
  BY ProcessAssumption DEF Processes, HeardFit
<1>2. Grows /\ QueueGrows
  BY MovesGrow, QueueMove
<1>3. CASE q = p
  BY <1>1, <1>3, LoopKeepsHeard, StartKeepsHeard DEF Moves
<1>4. CASE q # p
  <2>1. pc'[q] = pc[q] /\ local'[q] = local[q]
    BY <1>1, <1>4, OthersStay
  <2> QED BY <1>1, <1>2, <2>1, HeardStays
<1> QED BY <1>3, <1>4

\* What the cursor passes was heard, or passed on to a stop.
LEMMA StepKeepsPassed ==
  ASSUME TypeOK, EntriesFit, SeqsFit, PostsFit, HeardFit, PassedOverOnlyByAStop,
         NEW p \in Processes, Moves(p)
  PROVE  PassedOverOnlyByAStop'
<1>1. Grows /\ QueueGrows
  BY MovesGrow, QueueMove
<1>2. \A i \in DOMAIN queue : i \in Nat /\ queue[i].seq \in Nat /\ queue[i].seq <= i
  BY QueueIs DEF SeqsFit
<1>3. CASE cursor' = cursor
  <2>1. cursor \in Nat /\ cursor <= Len(queue)
    BY DEF TypeOK, SeqsFit
  <2>2. ASSUME NEW x, x = cursor PROVE Passed(x)'
    BY <1>1, <2>1, <2>2, PassedStays DEF PassedOverOnlyByAStop
  <2>3. \A x : x = cursor => Passed(x)'
    BY <2>2
  <2> QED BY <1>3, <2>3 DEF PassedOverOnlyByAStop, Passed
<1>4. CASE p \in Drivers /\ Consume(p)
  <2> DEFINE m == local[p]
             i == m.taking
             s == queue[i].seq
  <2>1. /\ cursor' = s /\ queue' = queue /\ journal' = journal /\ Heard(p)
        /\ pc[p] = "consuming" /\ InLoop(p) /\ i \in DOMAIN queue
    BY <1>4 DEF Consume, DriveOnly, InLoop, HeardFit, EntriesFit
  <2>2. /\ Passed(m.base) /\ i \in m.batch /\ EventsOf(i) # {} /\ s > m.base
        /\ (\A b \in m.batch : i <= b) \/ IsStop(i)
    BY <2>1 DEF Heard
  <2>3. s \in Nat /\ s <= i /\ i \in Nat /\ m.base \in Nat
    BY <1>2, <1>4, <2>1, DriverFits DEF Memory
  <2>4. ASSUME NEW j \in DOMAIN queue, Whole(j), j <= s
        PROVE  \/ EventsOf(j) # {}
               \/ \E k \in DOMAIN queue :
                    /\ k >= j /\ IsStop(k) /\ queue[k].seq <= s
                    /\ EventsOf(k) # {} \/ \E e \in LifeEvents : journal[e].kind \in Ended
    <3>1. j \in Nat /\ j <= i
      BY <1>2, <2>3, <2>4
    <3>2. CASE j <= m.base
      <4>1. \/ EventsOf(j) # {}
            \/ \E k \in DOMAIN queue :
                 /\ k >= j /\ IsStop(k) /\ queue[k].seq <= m.base
                 /\ EventsOf(k) # {} \/ \E e \in LifeEvents : journal[e].kind \in Ended
        BY <2>2, <2>4, <3>2 DEF Passed
      <4>2. \A k \in DOMAIN queue : queue[k].seq <= m.base => queue[k].seq <= s
        BY <1>2, <2>2, <2>3
      <4> QED BY <4>1, <4>2
    <3>3. CASE j > m.base /\ j \notin m.batch
      BY <2>1, <2>2, <2>4, <3>1, <3>3 DEF Heard
    <3>4. CASE j \in m.batch
      <4>1. CASE IsStop(i)
        BY <2>1, <2>2, <2>3, <3>1, <4>1
      <4>2. CASE \A b \in m.batch : i <= b
        <5>1. j = i
          BY <2>3, <3>1, <3>4, <4>2
        <5> QED BY <2>2, <5>1
      <4> QED BY <2>2, <4>1, <4>2
    <3> QED BY <2>3, <3>1, <3>2, <3>3, <3>4
  <2>5. Passed(s)
    BY <2>4 DEF Passed
  <2> HIDE DEF s
  <2> QED BY <2>1, <2>5 DEF PassedOverOnlyByAStop, Passed, Whole, IsStop, EventsOf, LifeEvents
<1>5. CASE p \in Clients /\ StopReread(p) /\ Terminal /\ cursor' = local[p].read + 1
  <2> DEFINE s == local[p].read + 1
  <2>1. /\ queue' = queue /\ journal' = journal /\ Stopping(p)
        /\ local[p].read \in Nat
    BY <1>5 DEF StopReread, Stopping, TypeOK, Memory
  <2>2. PICK k \in StopOf(p) : TRUE
    BY <1>5, <2>1 DEF PostsFit
  <2>3. k \in DOMAIN queue /\ k >= s /\ queue[k].seq = s /\ IsStop(k)
    BY <1>2, <2>1, <2>2 DEF StopOf, IsStop
  <2>4. \E e \in LifeEvents : journal[e].kind \in Ended
    BY <1>5, LatestIsThere DEF Terminal, Status
  <2>5. Passed(s)
    <3>1. \A j \in DOMAIN queue : j <= s => k >= j
      BY <1>2, <2>1, <2>3
    <3>2. queue[k].seq <= s
      BY <1>2, <2>3
    <3> HIDE DEF s
    <3> QED BY <2>3, <2>4, <3>1, <3>2 DEF Passed
  <2> HIDE DEF s
  <2>6. cursor' = s
    BY <1>5 DEF s
  <2> QED BY <2>1, <2>5, <2>6 DEF PassedOverOnlyByAStop, Passed, Whole, IsStop, EventsOf, LifeEvents
<1> QED BY <1>3, <1>4, <1>5, CursorMove

-----------------------------------------------------------------------------
(* What a step of a drive may be, in the terms of its cursor *)

\* It takes an entry of its batch.
Takes(p) == LET m == local[p] IN
  /\ pc[p] \in {"scanning", "answering"} /\ pc'[p] = "consuming"
  /\ local'[p].batch = m.batch /\ local'[p].mem = m.mem
  /\ local'[p].taking \in m.batch
  /\ \/ \A b \in m.batch : local'[p].taking <= b
     \/ \A b \in m.batch : IsStop(b) => local'[p].taking <= b
  /\ local'[p].next \in {"top", "scanning", "answering", "left"}
  /\ local'[p].next # "left" => ~IsStop(local'[p].taking)
  /\ local'[p].next = "left" => IsStop(local'[p].taking)
  /\ local'[p].next = "top" => queue[local'[p].taking].cmd = "retry"
  /\ local'[p].next = "answering" => pc[p] = "answering"

\* It consumes the entry it took.
Consumes(p) == LET m == local[p] IN
  /\ Consume(p) /\ pc[p] = "consuming" /\ pc'[p] = m.next
  /\ m.next \in {"top", "scanning", "answering", "left"}
  /\ local'[p].mem = queue[m.taking].seq /\ cursor' = queue[m.taking].seq
  /\ local'[p].batch = IF queue[m.taking].cmd = "retry" THEN {} ELSE m.batch \ 1..m.taking

\* It goes on where its cursor is.
GoesOn(p) == LET m == local[p] IN
  /\ InLoop(p) /\ InLoop(p)' /\ local'[p].mem = m.mem /\ cursor' = cursor
  /\ \/ pc[p] # "consuming" /\ pc'[p] # "consuming" /\ local'[p].batch \in {m.batch, {}, Unread(m.mem)}
     \/ /\ pc'[p] = pc[p] /\ local'[p].batch = m.batch
        /\ local'[p].taking = m.taking /\ local'[p].next = m.next

\* It begins from the persisted cursor.
Begins(p) == LET m == local[p] IN
  /\ pc[p] = "entering" /\ pc'[p] = "top" /\ cursor' = cursor
  /\ local'[p].mem = cursor /\ local'[p].batch = m.batch

LEMMA LoopMove ==
  ASSUME TypeOK, EntriesFit, NEW p \in Drivers, Moves(p), InLoop(p)'
  PROVE  Takes(p) \/ Consumes(p) \/ GoesOn(p) \/ Begins(p)
<1> DEFINE m == local[p]
<1>1. m \in Memory /\ p \in Processes /\ p \notin Clients /\ m.batch \subseteq DOMAIN queue
  BY ProcessAssumption, DriverFits
<1>2. CASE Scan(p)
  <2>1. /\ pc[p] = "top" /\ pc'[p] = "scanning" /\ cursor' = cursor
        /\ local'[p] = [m EXCEPT !.batch = Unread(m.mem)]
    BY <1>1, <1>2, Went, Wrote DEF Scan
  <2> QED BY <1>1, <2>1 DEF GoesOn, InLoop, Memory
<1>3. CASE ScanDone(p) \/ StartNode(p)
  <2>1. /\ pc[p] \in {"scanning", "ready"} /\ pc'[p] \in {"ready", "working"} /\ local' = local
        /\ cursor' = cursor
    BY <1>1, <1>3, Went DEF ScanDone, StartNode
  <2> QED BY <2>1 DEF GoesOn, InLoop
<1>4. CASE Await(p)
  <2>1. /\ pc[p] = "answering" /\ pc' = pc /\ cursor' = cursor
        /\ local'[p] = [m EXCEPT !.batch = Unread(m.mem)]
    BY <1>1, <1>4, Wrote DEF Await
  <2> QED BY <1>1, <2>1 DEF GoesOn, InLoop, Memory
<1>5. CASE Apply(p) \/ Answer(p)
  <2>1. PICK i, e, at : TakesFirst(p, i, e, at)
    BY <1>5, ApplyTakes
  <2>2. /\ local'[p].batch = m.batch /\ local'[p].mem = m.mem
        /\ local'[p].taking = i /\ local'[p].next = at
    BY <1>1, <2>1 DEF TakesFirst, Memory
  <2> QED BY <2>1, <2>2 DEF Takes, TakesFirst, IsStop
<1>6. CASE AtRetry(p)
  <2>1. CASE \E i, j, e, f : Salvages(p, i, j, e, f)
    <3>1. PICK i, j, e, f : Salvages(p, i, j, e, f)
      BY <2>1
    <3>2. /\ local'[p].batch = m.batch /\ local'[p].mem = m.mem
          /\ local'[p].taking = j /\ local'[p].next = "left"
      BY <1>1, <3>1 DEF Salvages, Memory
    <3> QED BY <3>1, <3>2 DEF Takes, Salvages
  <2>2. CASE pc[p] = "scanning" /\ pc'[p] = "ready" /\ local' = local
    BY <1>6, <2>2 DEF GoesOn, InLoop, AtRetry
  <2> QED BY <1>6, <2>1, <2>2, AtRetryTakes
<1>7. CASE Consume(p)
  <2> DEFINE i == m.taking
             rest == IF queue[i].cmd = "retry" THEN {} ELSE m.batch \ 1..i
  <2>1. local'[p] = [m EXCEPT !.mem = queue[i].seq, !.batch = rest, !.paused = (queue[i].cmd = "pause")]
    BY <1>1, <1>7 DEF Consume, TypeOK
  <2>2. local'[p].mem = queue[i].seq /\ local'[p].batch = rest
    <3> HIDE DEF rest
    <3> QED BY <1>1, <2>1 DEF Memory
  <2>3. pc[p] = "consuming" /\ pc'[p] = m.next /\ cursor' = queue[i].seq
        /\ m.next \in {"top", "scanning", "answering", "left"}
    BY <1>1, <1>7, Went DEF Consume, EntriesFit
  <2> QED BY <1>7, <2>2, <2>3 DEF Consumes
<1>8. CASE EndNode(p)
  <2>1. /\ pc[p] = "working" /\ cursor' = cursor
        /\ pc'[p] \in {"top", "answering", "left"}
        /\ \/ local' = local \/ pc'[p] = "left"
           \/ local'[p] = [m EXCEPT !.hopped = TRUE]
           \/ local'[p] = [m EXCEPT !.batch = {}]
    BY <1>1, <1>8 DEF EndNode, EndWith, Goto, TypeOK
  <2> QED BY <1>1, <2>1 DEF GoesOn, InLoop, Memory
<1>9. CASE Finish(p) \/ Leave(p) \/ Fail(p) \/ ReadKeep(p) \/ Park(p) \/ Exit(p)
  <2>1. pc'[p] \in {"left", "failing", "leaving", "parking", "gone"}
    BY <1>1, <1>9, Went DEF Finish, EndWith, Leave, Fail, ReadKeep, Park, Exit
  <2> QED BY <2>1 DEF InLoop
<1>10. CASE \/ Clear(p) \/ Publish(p) \/ TakeHandoff(p) \/ Plan(p) \/ Acquire(p) \/ Admit(p) \/ Resume(p)
            \/ GiveBack(p) \/ Crash(p)
  <2>1. pc'[p] \in {"cleared", "launched", "planned", "holding", "gone", "admitted", "refused", "entering", "dead"}
    BY <1>1, <1>10, Went DEF Clear, Publish, TakeHandoff, Plan, Acquire, Admit, Resume, GiveBack, Crash
  <2> QED BY <2>1 DEF InLoop
<1>11. CASE Claim(p)
  <2>1. /\ pc[p] = "entering" /\ pc'[p] = "top" /\ cursor' = cursor
        /\ local'[p] = [m EXCEPT !.mem = cursor, !.base = cursor]
    BY <1>1, <1>11, Went DEF Claim, TypeOK
  <2> QED BY <1>1, <2>1 DEF Begins, Memory
<1>12. CASE Watch(p)
  <2>1. pc' = pc /\ cursor' = cursor /\ InLoop(p) /\ local'[p] = [m EXCEPT !.cancel = TRUE]
    BY <1>1, <1>12, Wrote DEF Watch
  <2> QED BY <1>1, <2>1 DEF GoesOn, InLoop, Memory
<1>13. CASE PublishLate(p)
  BY <1>13, LateNameStays DEF GoesOn, InLoop
<1> QED BY <1>1, <1>2, <1>3, <1>4, <1>5, <1>6, <1>7, <1>8, <1>9, <1>10, <1>11, <1>12, <1>13 DEF Moves, Loop, Start

-----------------------------------------------------------------------------
(* What the steps keep: how often an entry was journaled *)

\* A driver that dies was alive, and nobody comes back.
LEMMA CrashedMove ==
  ASSUME TypeOK, EntriesFit, NEW p \in Processes, Moves(p), IsFiniteSet(Crashed)
  PROVE  /\ IsFiniteSet(Crashed') /\ Cardinality(Crashed) \in Nat /\ Cardinality(Crashed') \in Nat
         /\ \/ Crashed' = Crashed
            \/ /\ p \in Drivers /\ Crash(p) /\ p \notin Crashed /\ Crashed' = Crashed \cup {p}
               /\ Cardinality(Crashed') = Cardinality(Crashed) + 1
<1>1. \A q \in Drivers : q \in Processes
  BY DEF Processes
<1>2. CASE p \in Drivers /\ Crash(p)
  <2>1. pc'[p] = "dead" /\ pc[p] # "dead"
    BY <1>2, ProcessAssumption, Went DEF Crash, Alive, Processes
  <2>2. Crashed' = Crashed \cup {p} /\ p \notin Crashed
    <3>1. \A q \in Drivers : q # p => pc'[q] = pc[q]
      BY <1>1, OthersStay
    <3> QED BY <1>2, <2>1, <3>1 DEF Crashed
  <2> QED BY <1>2, <2>2, FS_AddElement, FS_CardinalityType
<1>3. CASE ~(p \in Drivers /\ Crash(p))
  <2>1. p \in Drivers => (pc'[p] = "dead" <=> pc[p] = "dead")
    <3>1. CASE p \in Drivers /\ InLoop(p)'
      <4>1. pc[p] # "dead" /\ pc'[p] # "dead"
        BY <3>1, LoopMove DEF Takes, Consumes, GoesOn, Begins, InLoop
      <4> QED BY <4>1
    <3>2. CASE p \in Drivers /\ ~InLoop(p)' /\ ~PublishLate(p)
      <4> SUFFICES ASSUME pc'[p] = "dead" \/ pc[p] = "dead" PROVE FALSE
        OBVIOUS
      <4>1. CASE Loop(p) /\ ~Consume(p)
        BY <3>2, <4>1, Went DEF Loop, Scan, ScanDone, Await, Apply, Answer, AtRetry, StartNode, Finish,
                EndNode, Leave, Fail, ReadKeep, Park, Exit, Taking, EndWith, InLoop
      <4>2. CASE Consume(p)
        <5>1. pc[p] = "consuming" /\ pc'[p] = local[p].next
          BY <4>2, Went DEF Consume
        <5> QED BY <3>2, <5>1 DEF EntriesFit
      <4>3. CASE Start(p) \/ Watch(p)
        <5>1. CASE Start(p)
          <6>1. pc[p] # "dead"
            BY <3>2, <5>1 DEF Start, Clear, Publish, TakeHandoff, Plan, Acquire, Admit, Resume, GiveBack, Claim
          <6>2. pc'[p] # "dead"
            BY <3>2, <5>1, Went DEF Start, Clear, Publish, TakeHandoff, Plan, Acquire, Admit, Resume, GiveBack, Claim
          <6> QED BY <6>1, <6>2
        <5>2. CASE Watch(p)
          BY <3>2, <5>2 DEF Watch, InLoop
        <5> QED BY <4>3, <5>1, <5>2
      <4> QED BY <1>3, <3>2, <4>1, <4>2, <4>3, ProcessAssumption DEF Moves
    <3>3. CASE p \in Drivers /\ PublishLate(p)
      BY <3>3, LateNameStays
    <3> QED BY <3>1, <3>2, <3>3
  <2>2. \A q \in Drivers : q # p => pc'[q] = pc[q]
    BY <1>1, OthersStay
  <2>3. Crashed' = Crashed
    BY <2>1, <2>2 DEF Crashed
  <2> QED BY <2>3, FS_CardinalityType
<1> QED BY <1>2, <1>3

\* The events of an entry are finitely many.
LEMMA TimesIs ==
  ASSUME TypeOK, NEW i
  PROVE  IsFiniteSet(EventsOf(i)) /\ Times(i) \in Nat
<1>1. EventsOf(i) \subseteq 1..Len(journal) /\ Len(journal) \in Nat
  BY JournalIs DEF EventsOf
<1>2. IsFiniteSet(1..Len(journal))
  BY <1>1, FS_Interval
<1> QED BY <1>1, <1>2, FS_Subset, FS_CardinalityType DEF Times

\* A step journals an entry once more, if at all: one it takes, or a retry
\* ahead of it.
LEMMA TimesMove ==
  ASSUME TypeOK, EntriesFit, NEW p \in Processes, Moves(p), NEW k \in DOMAIN queue
  PROVE  \/ EventsOf(k)' = EventsOf(k)
         \/ /\ p \in Drivers /\ Takes(p) /\ k \in local[p].batch /\ k <= local'[p].taking
            /\ \E r : r \notin EventsOf(k) /\ EventsOf(k)' = EventsOf(k) \cup {r}
<1>1. /\ k \in Nat /\ k # 0
      /\ Len(journal) \in Nat /\ DOMAIN journal = 1..Len(journal)
      /\ Len(journal) + 1 \notin DOMAIN journal /\ Len(journal) + 2 \notin DOMAIN journal
      /\ DOMAIN journal \cup {Len(journal) + 1} = 1..(Len(journal) + 1)
      /\ DOMAIN journal \cup {Len(journal) + 1, Len(journal) + 2} = 1..(Len(journal) + 2)
  <2>1. k \in 1..Len(queue) /\ Len(queue) \in Nat
    BY QueueIs
  <2>2. Len(journal) \in Nat /\ DOMAIN journal = 1..Len(journal)
    BY JournalIs
  <2> DEFINE n == Len(journal)
  <2>3. n \in Nat
    BY <2>2
  <2> HIDE DEF n
  <2>4. /\ n + 1 \notin 1..n /\ n + 2 \notin 1..n
        /\ 1..n \cup {n + 1} = 1..(n + 1) /\ 1..n \cup {n + 1, n + 2} = 1..(n + 2)
    BY <2>3
  <2> QED BY <2>1, <2>2, <2>4 DEF n
<1>2. CASE journal' = journal
  BY <1>2 DEF EventsOf
<1>3. ASSUME NEW e \in Events, Append1(e), e.of # k \/ e.kind = "resumed"
      PROVE  EventsOf(k)' = EventsOf(k)
  BY <1>1, <1>3, OneEvent DEF EventsOf
<1>4. CASE p \in Drivers /\ \E i, e, at : TakesFirst(p, i, e, at)
  <2>1. PICK i, e, at : TakesFirst(p, i, e, at)
    BY <1>4
  <2>2. /\ i \in local[p].batch /\ pc'[p] = "consuming"
        /\ e \in Events /\ e.of = i /\ e.kind # "resumed" /\ Append1(e)
        /\ local'[p] = [local[p] EXCEPT !.taking = i, !.next = at]
    BY <2>1 DEF TakesFirst
  <2>3. CASE k # i
    BY <1>3, <2>2, <2>3
  <2>4. CASE k = i
    <3>1. EventsOf(k)' = EventsOf(k) \cup {Len(journal) + 1} /\ Len(journal) + 1 \notin EventsOf(k)
      BY <1>1, <2>2, <2>4, OneEvent DEF EventsOf
    <3>2. /\ local'[p].taking = i /\ local'[p].batch = local[p].batch
          /\ local'[p].mem = local[p].mem /\ local'[p].next = at
      BY <1>4, <2>2, DriverFits DEF Memory
    <3>3. Takes(p)
      BY <2>1, <3>2 DEF Takes, TakesFirst, IsStop
    <3> QED BY <1>1, <1>4, <2>2, <2>4, <3>1, <3>2, <3>3
  <2> QED BY <2>3, <2>4
<1>5. CASE p \in Drivers /\ \E i, j, e, f : Salvages(p, i, j, e, f)
  <2>1. PICK i, j, e, f : Salvages(p, i, j, e, f)
    BY <1>5
  <2>2. /\ i \in local[p].batch /\ j \in local[p].batch /\ i <= j /\ i # j
        /\ e \in Events /\ e.of = i /\ e.kind # "resumed"
        /\ f \in Events /\ f.of = j /\ f.kind # "resumed"
        /\ journal' = journal \o <<e, f>>
        /\ local'[p] = [local[p] EXCEPT !.taking = j, !.next = "left"]
    BY <2>1 DEF Salvages, IsStop
  <2>3. /\ local'[p].taking = j /\ local'[p].batch = local[p].batch
        /\ local'[p].mem = local[p].mem /\ local'[p].next = "left"
    BY <1>5, <2>2, DriverFits DEF Memory
  <2>4. Takes(p)
    BY <2>1, <2>3 DEF Takes, Salvages
  <2>5. /\ DOMAIN journal' = 1..(Len(journal) + 2)
        /\ journal'[Len(journal) + 1] = e /\ journal'[Len(journal) + 2] = f
        /\ \A r \in DOMAIN journal : journal'[r] = journal[r]
    BY <2>2, TwoEvents
  <2>6. CASE k \notin {i, j}
    BY <1>1, <2>2, <2>5, <2>6 DEF EventsOf
  <2>7. CASE k = i
    <3>1. EventsOf(k)' = EventsOf(k) \cup {Len(journal) + 1} /\ Len(journal) + 1 \notin EventsOf(k)
      BY <1>1, <2>2, <2>5, <2>7 DEF EventsOf
    <3> QED BY <1>5, <2>2, <2>3, <2>4, <2>7, <3>1
  <2>8. CASE k = j
    <3>1. EventsOf(k)' = EventsOf(k) \cup {Len(journal) + 2} /\ Len(journal) + 2 \notin EventsOf(k)
      BY <1>1, <2>2, <2>5, <2>8 DEF EventsOf
    <3> QED BY <1>1, <1>5, <2>2, <2>3, <2>4, <2>8, <3>1
  <2> QED BY <2>6, <2>7, <2>8
<1>6. CASE p \in Drivers /\ Resume(p)
  <2> DEFINE e == Event("resumed", local[p].read, FALSE)
  <2>1. local[p].read \in Nat
    BY <1>6, DriverFits DEF Memory
  <2>2. e \in Events /\ e.kind = "resumed" /\ Append1(e)
    BY <1>6, <2>1, EventIsTyped DEF Resume, Event, Kinds, Lifecycle
  <2> HIDE DEF e
  <2> QED BY <1>3, <2>2
<1>7. CASE \E e : Closes(e)
  BY <1>1, <1>3, <1>7 DEF Closes
<1> QED BY <1>2, <1>4, <1>5, <1>6, <1>7, WhoWrites

\* In numbers.
LEMMA TimesGrow ==
  ASSUME TypeOK, EntriesFit, NEW p \in Processes, Moves(p), NEW k \in DOMAIN queue
  PROVE  /\ Times(k) \in Nat
         /\ \/ Times(k)' = Times(k)
            \/ /\ Times(k)' = Times(k) + 1
               /\ p \in Drivers /\ Takes(p) /\ k \in local[p].batch /\ k <= local'[p].taking
<1>1. IsFiniteSet(EventsOf(k)) /\ Times(k) \in Nat
  BY TimesIs
<1>2. CASE EventsOf(k)' = EventsOf(k)
  BY <1>1, <1>2 DEF Times
<1>3. CASE /\ p \in Drivers /\ Takes(p) /\ k \in local[p].batch /\ k <= local'[p].taking
           /\ \E r : r \notin EventsOf(k) /\ EventsOf(k)' = EventsOf(k) \cup {r}
  <2>1. PICK r : r \notin EventsOf(k) /\ EventsOf(k)' = EventsOf(k) \cup {r}
    BY <1>3
  <2>2. Times(k)' = Times(k) + 1
    BY <1>1, <2>1, FS_AddElement DEF Times
  <2> QED BY <1>1, <1>3, <2>2
<1> QED BY <1>2, <1>3, TimesMove

\* An entry that is just posted has no event.
LEMMA NewIsUncounted ==
  ASSUME TypeOK, EntriesFit, OfsFit, NEW p \in Processes, Moves(p),
         NEW k \in DOMAIN queue', k \notin DOMAIN queue
  PROVE  k = Len(queue) + 1 /\ Times(k)' = 0 /\ EventsOf(k)' = {} /\ p \in Clients /\ Post(p)
<1>1. QueueGrows /\ p \in Clients /\ Post(p)
  BY QueueMove
<1>2. k = Len(queue) + 1 /\ k \in Nat /\ Len(queue) \in Nat
  BY <1>1, QueueStays, QueueIs
<1>3. journal' = journal
  BY <1>1 DEF Post, ClientOnly
<1>4. EventsOf(k) = {}
  <2> SUFFICES ASSUME NEW e \in EventsOf(k) PROVE FALSE
    OBVIOUS
  <2>1. journal[e].of = k /\ journal[e].of <= Len(queue)
    BY DEF EventsOf, OfsFit
  <2> QED BY <1>2, <2>1
<1>5. EventsOf(k)' = {}
  BY <1>3, <1>4 DEF EventsOf
<1> QED BY <1>1, <1>2, <1>5, FS_EmptySet DEF Times

\* If no post counted the same entries in the end, none did before.
LEMMA WholeBefore ==
  ASSUME QueueGrows, AllWhole'
  PROVE  AllWhole /\ \A i \in DOMAIN queue : queue[i].seq = i /\ queue'[i] = queue[i]
BY QueueStays DEF AllWhole, Whole

\* Two drivers of a run that takes the lock are not at work at once.
LEMMA AloneInTheLoop ==
  ASSUME OneWriter, TakesLock, NEW p \in Drivers, NEW q \in Drivers, p # q,
         InLoop(q) \/ pc[q] = "entering"
  PROVE  ~Holding(p) /\ ~InLoop(p) /\ pc[p] # "entering"
<1>1. Holding(q) /\ (InLoop(p) \/ pc[p] = "entering" => Holding(p))
  BY DEF Holding, InLoop, DriverPlaces
<1> QED BY <1>1 DEF OneWriter

\* A stop moves the cursor forward only, and no other step but a consume moves it.
LEMMA CursorForward ==
  ASSUME TypeOK, AheadFit, TakesLock, AllWhole, NEW p \in Processes, Moves(p), ~(p \in Drivers /\ Consume(p))
  PROVE  cursor \in Nat /\ cursor' \in Nat /\ cursor <= cursor'
<1>1. CASE cursor' = cursor
  BY <1>1 DEF TypeOK
<1>2. CASE p \in Clients /\ StopReread(p) /\ Terminal /\ cursor' = local[p].read + 1
  BY <1>2 DEF AheadFit, Stopping, StopReread, TypeOK, Memory
<1> QED BY <1>1, <1>2, CursorMove

LEMMA StepKeepsCount ==
  ASSUME TypeOK, EntriesFit, OneWriter, SeqsFit, HeardFit, CountFit, AheadFit,
         NEW p \in Processes, Moves(p)
  PROVE  CountFit'
<1> DEFINE Cr == Cardinality(Crashed)
<1>1. /\ IsFiniteSet(Crashed') /\ Cr \in Nat /\ Cr' \in Nat
      /\ \/ Crashed' = Crashed /\ Cr' = Cr
         \/ p \in Drivers /\ Crash(p) /\ Cr' = Cr + 1
  BY CrashedMove DEF CountFit
<1> SUFFICES ASSUME TakesLock, AllWhole'
             PROVE  /\ \A q \in Drivers : Counted(q)'
                    /\ (\A q \in Drivers : pc'[q] # "consuming") =>
                         \A i \in DOMAIN queue' : i > cursor' => Times(i)' <= Cr'
                    /\ \A i \in DOMAIN queue' : Times(i)' <= 1 + Cr'
  BY <1>1 DEF CountFit
<1>2. QueueGrows /\ AllWhole /\ \A i \in DOMAIN queue : queue[i].seq = i /\ queue'[i] = queue[i]
  BY QueueMove, WholeBefore
<1>3. /\ \A q \in Drivers : Counted(q) /\ Heard(q)
      /\ (\A q \in Drivers : pc[q] # "consuming") => \A i \in DOMAIN queue : i > cursor => Times(i) <= Cr
      /\ \A i \in DOMAIN queue : Times(i) <= 1 + Cr
  BY <1>2 DEF CountFit, HeardFit
<1>4. /\ \A i \in DOMAIN queue' : i \in Nat /\ (i \in DOMAIN queue <=> i <= Len(queue))
      /\ \A i \in DOMAIN queue : i \in Nat /\ i <= Len(queue) /\ i \in DOMAIN queue'
      /\ Len(queue) \in Nat
  BY <1>2, QueueStays, QueueIs
<1>5. \A i \in DOMAIN queue' : i \notin DOMAIN queue => Times(i)' = 0
  BY NewIsUncounted DEF SeqsFit, OfsFit
<1>6. \A i \in DOMAIN queue :
        /\ Times(i) \in Nat
        /\ \/ Times(i)' = Times(i)
           \/ /\ Times(i)' = Times(i) + 1
              /\ p \in Drivers /\ Takes(p) /\ i \in local[p].batch /\ i <= local'[p].taking
  BY TimesGrow
<1>7. Takes(p) => Crashed' = Crashed /\ Cr' = Cr
  BY <1>1, Went DEF Takes, Crash
<1>8. ASSUME p \in Drivers, Takes(p), NEW i \in local[p].batch
      PROVE  i \in DOMAIN queue /\ i > local[p].mem /\ Times(i) <= Cr
  <2>1. InLoop(p) /\ pc[p] # "consuming"
    BY <1>8 DEF Takes, InLoop
  <2>2. i \in DOMAIN queue /\ i > local[p].mem
    BY <1>3, <1>8, <2>1, DriverFits DEF Heard
  <2> QED BY <1>3, <1>8, <2>1, <2>2 DEF Counted
<1>9. ASSUME NEW i \in DOMAIN queue' PROVE Times(i)' <= 1 + Cr'
  <2>1. CASE i \notin DOMAIN queue
    BY <1>1, <1>5, <1>9, <2>1
  <2>2. CASE i \in DOMAIN queue /\ Times(i)' = Times(i)
    <3>1. Times(i) <= 1 + Cr /\ Times(i) \in Nat /\ (Cr' = Cr \/ Cr' = Cr + 1)
      BY <1>1, <1>3, <1>6, <2>2
    <3> QED BY <1>1, <2>2, <3>1
  <2>3. CASE i \in DOMAIN queue /\ Times(i)' = Times(i) + 1 /\ p \in Drivers /\ Takes(p) /\ i \in local[p].batch
    <3>1. Times(i) <= Cr /\ Times(i) \in Nat /\ Cr' = Cr
      BY <1>6, <1>7, <1>8, <2>3
    <3> QED BY <1>1, <2>3, <3>1
  <2> QED BY <1>6, <2>1, <2>2, <2>3
<1>10. ASSUME \A q \in Drivers : pc'[q] # "consuming",
              NEW i \in DOMAIN queue', i > cursor'
       PROVE  Times(i)' <= Cr'
  <2>1. CASE i \notin DOMAIN queue
    BY <1>1, <1>5, <2>1
  <2>2. CASE i \in DOMAIN queue /\ p \in Drivers /\ Crash(p)
    <3>1. Times(i)' = Times(i)
      <4>1. ~Takes(p)
        BY <1>10, <2>2 DEF Takes
      <4> QED BY <1>6, <2>2, <4>1
    <3>2. Cr' = Cr + 1 \/ Crashed' = Crashed
      BY <1>1
    <3>3. Crashed' # Crashed
      <4>1. pc'[p] = "dead" /\ pc[p] # "dead"
        BY <2>2, ProcessAssumption, Went DEF Crash, Alive, Processes
      <4> QED BY <2>2, <4>1 DEF Crashed
    <3>4. Times(i) <= 1 + Cr /\ Times(i) \in Nat /\ Cr' = Cr + 1
      BY <1>3, <1>6, <2>2, <3>2, <3>3
    <3> QED BY <1>1, <3>1, <3>4
  <2>3. CASE i \in DOMAIN queue /\ ~(p \in Drivers /\ Crash(p))
    <3>1. Times(i)' = Times(i) /\ Cr' = Cr
      <4>1. ~(p \in Drivers /\ Takes(p))
        BY <1>10 DEF Takes
      <4> QED BY <1>1, <1>6, <2>3, <4>1
    <3>2. CASE \A q \in Drivers : pc[q] # "consuming"
      <4>1. ~(p \in Drivers /\ Consume(p))
        BY <3>2 DEF Consume
      <4>2. cursor \in Nat /\ cursor' \in Nat /\ cursor <= cursor'
        BY <1>2, <4>1, CursorForward
      <4>3. i > cursor
        BY <1>4, <1>10, <4>2
      <4> QED BY <1>3, <2>3, <3>1, <3>2, <4>3
    <3>3. CASE \E q \in Drivers : pc[q] = "consuming"
      <4>1. PICK q \in Drivers : pc[q] = "consuming"
        BY <3>3
      <4>2. q = p
        BY <1>10, <4>1, OthersStay DEF Processes
      <4>3. Consume(p)
        <5>1. pc[p] = "consuming" /\ pc'[p] # "consuming"
          BY <1>10, <4>1, <4>2
        <5>2. p \in Drivers /\ p \notin Clients
          BY <4>1, <4>2, ProcessAssumption
        <5>3. ~Start(p)
          BY <5>1 DEF Start, Clear, Publish, TakeHandoff, PublishLate, Plan, Acquire, Admit, Resume, GiveBack, Claim
        <5>4. ~Watch(p)
          BY <5>1 DEF Watch
        <5>5. Loop(p) => Consume(p)
          BY <5>1 DEF Loop, Scan, ScanDone, Await, Apply, Answer, AtRetry, StartNode, Finish,
                      EndNode, Leave, Fail, ReadKeep, Park, Exit
        <5> QED BY <2>3, <5>2, <5>3, <5>4, <5>5 DEF Moves
      <4>4. cursor' = local[p].taking /\ local[p].taking \in DOMAIN queue
        BY <1>2, <4>1, <4>2, <4>3 DEF Consume, EntriesFit
      <4>5. Counted(p) /\ InLoop(p)
        BY <1>3, <4>1, <4>2 DEF InLoop
      <4> QED BY <1>10, <2>3, <3>1, <4>1, <4>2, <4>4, <4>5 DEF Counted
    <3> QED BY <3>2, <3>3
  <2> QED BY <2>1, <2>2, <2>3
<1>11. ASSUME NEW q \in Drivers, q # p, InLoop(q)'
       PROVE  Counted(q)'
  <2>1. q \in Processes /\ pc'[q] = pc[q] /\ local'[q] = local[q] /\ InLoop(q)
    <3>1. q \in Processes
      BY DEF Processes
    <3> QED BY <1>11, <3>1, OthersStay DEF InLoop
  <2>2. ~(p \in Drivers /\ (Consume(p) \/ Takes(p)))
    <3>1. ~(p \in Drivers /\ InLoop(p))
      BY <1>11, <2>1, AloneInTheLoop
    <3> QED BY <3>1 DEF Consume, Takes, InLoop
  <2>3. cursor \in Nat /\ cursor' \in Nat /\ cursor <= cursor'
    BY <1>2, <2>2, CursorForward
  <2> DEFINE m == local[q]
             bound == IF pc[q] = "consuming" THEN m.taking ELSE m.mem
  <2>4. /\ m.mem <= cursor
        /\ \A b \in m.batch, i \in DOMAIN queue : m.mem < i /\ i < b => i \in m.batch
        /\ \A i \in DOMAIN queue : i > bound => Times(i) <= Cr
    BY <1>3, <2>1 DEF Counted
  <2>5. m.mem \in Nat /\ m.batch \subseteq DOMAIN queue
    BY DriverFits DEF Memory
  <2>6. m.mem <= cursor'
    BY <2>3, <2>4, <2>5
  <2>7. ASSUME NEW b \in m.batch, NEW i \in DOMAIN queue', m.mem < i, i < b
        PROVE  i \in m.batch
    <3>1. i \in DOMAIN queue
      BY <1>4, <2>5, <2>7
    <3> QED BY <2>4, <2>7, <3>1
  <2>8. ASSUME NEW i \in DOMAIN queue', i > bound
        PROVE  Times(i)' <= Cr'
    <3>1. CASE i \notin DOMAIN queue
      BY <1>1, <1>5, <3>1
    <3>2. CASE i \in DOMAIN queue
      <4>1. Times(i)' = Times(i) /\ Times(i) <= Cr /\ Times(i) \in Nat
        BY <1>6, <2>2, <2>4, <2>8, <3>2
      <4>2. Cr <= Cr'
        BY <1>1
      <4> QED BY <1>1, <4>1, <4>2
    <3> QED BY <3>1, <3>2
  <2> HIDE DEF Cr
  <2> QED BY <2>1, <2>6, <2>7, <2>8 DEF Counted, InLoop, Cr
<1> HIDE DEF Cr
<1>12. ASSUME p \in Drivers, InLoop(p)'
       PROVE  Counted(p)'
  <2> DEFINE m == local[p]
  <2>1. Takes(p) \/ Consumes(p) \/ GoesOn(p) \/ Begins(p)
    BY <1>12, LoopMove
  <2>2. /\ m.mem \in Nat /\ m.batch \subseteq DOMAIN queue /\ cursor \in Nat /\ Counted(p) /\ Heard(p)
        /\ queue' = queue
    <3>1. queue' = queue
      BY <1>12, QueueMove, ProcessAssumption
    <3> QED BY <1>3, <1>12, <3>1, DriverFits DEF Memory
  <2>3. Crashed' = Crashed /\ Cr' = Cr
    <3>1. ~Crash(p)
      BY <1>12, Went DEF Crash, InLoop
    <3> QED BY <1>1, <3>1 DEF Cr
  <2>4. CASE Takes(p)
    <3>1. /\ m.mem <= cursor
          /\ \A b \in m.batch, i \in DOMAIN queue : m.mem < i /\ i < b => i \in m.batch
          /\ \A i \in DOMAIN queue : i > m.mem => Times(i) <= Cr
      BY <2>2, <2>4 DEF Counted, Takes, InLoop, Cr
    <3>2. /\ pc'[p] = "consuming" /\ local'[p].batch = m.batch /\ local'[p].mem = m.mem
          /\ local'[p].taking \in m.batch
      BY <2>4 DEF Takes
    <3>3. cursor' = cursor
      BY <1>12, <2>4, CursorMove, ProcessAssumption DEF Takes, Consume
    <3>4. ASSUME NEW i \in DOMAIN queue, i > local'[p].taking
          PROVE  Times(i)' <= Cr'
      <4>1. local'[p].taking > m.mem /\ local'[p].taking \in Nat
        BY <1>4, <1>8, <1>12, <2>4, <3>2
      <4>2. i \in Nat /\ i > m.mem /\ ~(i <= local'[p].taking)
        BY <1>4, <2>2, <3>4, <4>1
      <4>3. Times(i)' = Times(i)
        BY <1>6, <4>2
      <4> QED BY <2>3, <3>1, <4>2, <4>3
    <3> QED BY <2>2, <3>1, <3>2, <3>3, <3>4 DEF Counted, Cr
  <2>5. CASE ~Takes(p)
    <3>1. \A i \in DOMAIN queue : Times(i)' = Times(i)
      BY <1>6, <2>5
    <3>2. CASE Consumes(p)
      <4> DEFINE t == m.taking
      <4>1. /\ pc[p] = "consuming" /\ InLoop(p) /\ pc'[p] # "consuming"
            /\ local'[p].mem = queue[t].seq /\ cursor' = queue[t].seq
            /\ local'[p].batch = IF queue[t].cmd = "retry" THEN {} ELSE m.batch \ 1..t
        BY <3>2 DEF Consumes, InLoop
      <4>2. t \in m.batch /\ t \in DOMAIN queue /\ t > m.mem /\ t \in Nat /\ queue[t].seq = t
        BY <1>2, <1>4, <2>2, <4>1 DEF Heard
      <4>3. /\ \A b \in m.batch, i \in DOMAIN queue : m.mem < i /\ i < b => i \in m.batch
            /\ \A i \in DOMAIN queue : i > t => Times(i) <= Cr
        BY <2>2, <4>1 DEF Counted, Cr
      <4>4. ASSUME NEW b \in local'[p].batch, NEW i \in DOMAIN queue, t < i, i < b
            PROVE  i \in local'[p].batch
        <5>1. queue[t].cmd # "retry" /\ local'[p].batch = m.batch \ 1..t /\ b \in m.batch
          BY <4>1, <4>4
        <5>2. i \in Nat /\ m.mem < i /\ i \notin 1..t
          BY <1>4, <2>2, <4>2, <4>4
        <5>3. i \in m.batch
          BY <4>3, <4>4, <5>1, <5>2
        <5> QED BY <5>1, <5>2, <5>3
      <4>5. \A i \in DOMAIN queue : i > t => Times(i)' <= Cr'
        BY <2>3, <3>1, <4>3
      <4>6. local'[p].mem = t /\ cursor' = t /\ t <= t
        BY <4>1, <4>2
      <4> HIDE DEF t
      <4> QED BY <2>2, <4>1, <4>4, <4>5, <4>6 DEF Counted, Cr
    <3>3. CASE GoesOn(p)
      <4>1. InLoop(p) /\ local'[p].mem = m.mem /\ cursor' = cursor /\ m.mem <= cursor
        BY <2>2, <3>3 DEF GoesOn, Counted
      <4>2. \A b \in m.batch, i \in DOMAIN queue : m.mem < i /\ i < b => i \in m.batch
        BY <2>2, <4>1 DEF Counted
      <4>3. \A i \in DOMAIN queue : i > m.mem => i \in Unread(m.mem)
        BY <1>2 DEF Unread
      <4>4. local'[p].batch \in {m.batch, {}, Unread(m.mem)}
        BY <3>3 DEF GoesOn
      <4>5. \A b \in local'[p].batch, i \in DOMAIN queue : m.mem < i /\ i < b => i \in local'[p].batch
        <5>1. CASE local'[p].batch = m.batch
          BY <4>2, <5>1
        <5>2. CASE local'[p].batch = {}
          BY <5>2
        <5>3. CASE local'[p].batch = Unread(m.mem)
          <6>1. \A i \in DOMAIN queue : m.mem < i => i > m.mem
            BY <1>4, <2>2
          <6> QED BY <4>3, <5>3, <6>1
        <5> QED BY <4>4, <5>1, <5>2, <5>3
      <4>6. /\ (IF pc'[p] = "consuming" THEN local'[p].taking ELSE local'[p].mem)
                = (IF pc[p] = "consuming" THEN m.taking ELSE m.mem)
        BY <3>3 DEF GoesOn
      <4>7. \A i \in DOMAIN queue :
              i > (IF pc[p] = "consuming" THEN m.taking ELSE m.mem) => Times(i)' <= Cr'
        BY <2>2, <2>3, <3>1, <4>1 DEF Counted, Cr
      <4> QED BY <2>2, <4>1, <4>5, <4>6, <4>7 DEF Counted, Cr
    <3>4. CASE Begins(p)
      <4>1. pc[p] = "entering" /\ pc'[p] = "top" /\ cursor' = cursor /\ local'[p].mem = cursor
            /\ local'[p].batch = {}
        BY <2>2, <3>4 DEF Begins, Heard
      <4>2. \A q \in Drivers : pc[q] # "consuming"
        BY <1>12, <4>1, AloneInTheLoop DEF InLoop
      <4>3. \A i \in DOMAIN queue : i > cursor => Times(i)' <= Cr'
        BY <1>3, <2>3, <3>1, <4>2 DEF Cr
      <4> QED BY <2>2, <4>1, <4>3 DEF Counted, Cr
    <3> QED BY <2>1, <2>5, <3>2, <3>3, <3>4
  <2> QED BY <2>4, <2>5
<1>13. ASSUME NEW q \in Drivers PROVE Counted(q)'
  <2>1. CASE ~InLoop(q)'
    BY <2>1 DEF Counted, InLoop
  <2>2. CASE InLoop(q)' /\ q = p
    BY <1>12, <2>2
  <2>3. CASE InLoop(q)' /\ q # p
    BY <1>11, <2>3
  <2> QED BY <2>1, <2>2, <2>3
<1> QED BY <1>9, <1>10, <1>13 DEF Cr

-----------------------------------------------------------------------------
(* What the steps keep: no cursor is past a stop under way *)

\* With no two entries of one seq, the entry of a stop is where its seq says.
LEMMA StopIsWhere ==
  ASSUME TypeOK, AllWhole, PostsFit, NEW c \in Clients, Stopping(c)
  PROVE  /\ local[c].read + 1 \in DOMAIN queue /\ queue[local[c].read + 1].cmd = "abort"
         /\ local[c].read \in Nat
<1>1. PICK j \in StopOf(c) : TRUE
  BY DEF PostsFit
<1>2. j = local[c].read + 1 /\ j \in DOMAIN queue /\ queue[j].cmd = "abort"
  BY <1>1 DEF StopOf, AllWhole, Whole
<1>3. c \in Processes
  BY DEF Processes
<1> QED BY <1>2, <1>3 DEF TypeOK, Memory

\* The driver's own steps: it takes the stop before anything behind it.
LEMMA LoopStaysAhead ==
  ASSUME TypeOK, EntriesFit, AllWhole, queue' = queue, NEW p \in Drivers, Moves(p),
         InLoop(p)', Heard(p), Counted(p), NEW stop \in DOMAIN queue, queue[stop].cmd = "abort",
         IsAhead(p, stop)
  PROVE  IsAhead(p, stop)'
<1> DEFINE m == local[p]
<1>1. /\ stop \in Nat /\ m.mem \in Nat /\ m.batch \subseteq DOMAIN queue /\ DOMAIN queue \subseteq Nat
      /\ pc'[p] # "entering" /\ \A i \in DOMAIN queue : queue[i].seq = i
  BY DriverFits DEF Memory, InLoop, AllWhole, Whole
<1>2. CASE Takes(p)
  <2>1. /\ InLoop(p) /\ m.mem < stop /\ local'[p].mem = m.mem /\ local'[p].taking \in m.batch
        /\ local'[p].taking \in Nat /\ IsStop(stop)
    BY <1>1, <1>2 DEF Takes, InLoop, IsAhead, IsStop
  <2>2. stop \in m.batch \/ local'[p].taking <= stop
    BY <1>1, <2>1 DEF Counted
  <2>3. local'[p].taking <= stop
    BY <1>2, <2>1, <2>2 DEF Takes
  <2>4. local'[p].taking = stop => local'[p].next = "left"
    BY <1>2, <2>1 DEF Takes
  <2> QED BY <1>1, <2>1, <2>3, <2>4 DEF IsAhead
<1>3. CASE Consumes(p)
  <2>1. /\ pc[p] = "consuming" /\ InLoop(p) /\ pc'[p] = m.next /\ local'[p].mem = queue[m.taking].seq
        /\ m.taking \in DOMAIN queue /\ pc'[p] # "consuming"
    BY <1>3 DEF Consumes, InLoop, EntriesFit
  <2>2. m.taking <= stop /\ m.taking # stop
    BY <2>1 DEF IsAhead, InLoop
  <2>3. m.taking < stop
    BY <1>1, <2>1, <2>2
  <2> QED BY <1>1, <2>1, <2>3 DEF IsAhead
<1>4. CASE GoesOn(p)
  BY <1>1, <1>4 DEF GoesOn, IsAhead
<1>5. CASE Begins(p)
  BY <1>1, <1>5 DEF Begins, IsAhead
<1> QED BY <1>2, <1>3, <1>4, <1>5, LoopMove

LEMMA StepKeepsAhead ==
  ASSUME TypeOK, EntriesFit, LocksFit, OneWriter, SeqsFit, PostsFit, HeardFit, CountFit, AheadFit,
         NEW p \in Processes, Moves(p)
  PROVE  AheadFit'
<1> SUFFICES ASSUME TakesLock, AllWhole', NEW c \in Clients, Stopping(c)'
             PROVE  /\ cursor' <= local'[c].read + 1
                    /\ \A q \in Drivers : IsAhead(q, local[c].read + 1)'
  BY DEF AheadFit
<1>1. c \in Processes /\ c \notin Drivers /\ local[c].read \in Nat
  BY ProcessAssumption DEF Processes, TypeOK, Memory
<1>2. QueueGrows /\ AllWhole /\ \A i \in DOMAIN queue : queue[i].seq = i
  BY QueueMove, WholeBefore
<1>3. \A q \in Drivers : q \in Processes /\ Counted(q) /\ Heard(q)
  BY <1>2 DEF CountFit, HeardFit, Processes
<1>4. CASE ~Stopping(c)
  <2>1. p = c
    BY <1>1, <1>4, OthersStay DEF Stopping
  <2>2. Post(c) /\ local[c].next = "stopping" /\ local' = local
    <3>1. Ask(c)
      BY <1>1, <2>1 DEF Moves
    <3>2. CASE Count(c) \/ Stop(c) \/ Pause(c) \/ PauseAsk(c) \/ PauseSync(c) \/ PauseJournal(c)
      BY <1>1, <3>2, Went DEF Count, Stop, Pause, PauseAsk, PauseSync, PauseJournal, Stopping
    <3>3. CASE StopAsk(c) \/ StopReread(c) \/ StopFinalize(c)
      BY <1>4, <3>3 DEF StopAsk, StopReread, StopFinalize, Stopping
    <3>4. CASE Post(c)
      BY <1>1, <3>4, Went DEF Post, Stopping
    <3> QED BY <3>1, <3>2, <3>3, <3>4 DEF Ask
  <2> DEFINE n == Len(queue)
  <2>3. n \in Nat /\ local[c].read = n
    <3>1. local[c].read <= n /\ n \in Nat
      BY <1>2, <2>2 DEF PostsFit, Post, QueueGrows
    <3>2. queue'[n + 1].seq = local[c].read + 1 /\ n + 1 \in DOMAIN queue'
      <4>1. queue \in Seq(Entries)
        BY DEF TypeOK, Entries
      <4> QED BY <2>2, <4>1 DEF Post
    <3>3. queue'[n + 1].seq = n + 1
      BY <3>2 DEF AllWhole, Whole
    <3> QED BY <1>1, <3>1, <3>2, <3>3
  <2>4. cursor' = cursor /\ cursor \in Nat /\ cursor <= n /\ pc' = [pc EXCEPT ![c] = "asking"]
    BY <2>2 DEF Post, ClientOnly, SeqsFit, TypeOK, Goto
  <2>5. ASSUME NEW q \in Drivers
        PROVE  IsAhead(q, local[c].read + 1)'
    <3>1. pc'[q] = pc[q] /\ local'[q] = local[q]
      BY <1>1, <1>3, <2>1, OthersStay
    <3>2. local[q].mem \in Nat /\ local[q].mem <= n
      BY DriverFits DEF SeqsFit, Memory
    <3>3. pc[q] = "consuming" => local[q].taking \in Nat /\ local[q].taking <= n
      BY QueueIs DEF EntriesFit
    <3> HIDE DEF n
    <3> QED BY <2>2, <2>3, <2>4, <3>1, <3>2, <3>3 DEF IsAhead, InLoop
  <2> HIDE DEF n
  <2> QED BY <2>2, <2>3, <2>4, <2>5
<1>5. CASE Stopping(c)
  <2> DEFINE stop == local[c].read + 1
  <2>1. eventLock = c /\ stop \in DOMAIN queue /\ queue[stop].cmd = "abort"
    BY <1>2, <1>5, StopIsWhere DEF LocksFit, UnderLock, Stopping, ClientPlaces
  <2>2. cursor <= stop /\ \A q \in Drivers : IsAhead(q, stop)
    BY <1>2, <1>5 DEF AheadFit
  <2>3. local'[c].read = local[c].read
    <3>1. CASE p # c
      BY <1>1, <3>1, OthersStay
    <3>2. CASE p = c
      BY <1>1, <1>5, <3>2 DEF Moves, Ask, Count, Post, Stop, StopAsk, StopReread, StopFinalize, Pause,
                             PauseAsk, PauseSync, PauseJournal, Stopping
    <3> QED BY <3>1, <3>2
  <2>4. CASE p \in Clients
    <3>1. cursor' = cursor
      <4>1. ASSUME StopReread(p), Terminal PROVE FALSE
        <5>1. Stopping(p)
          BY <4>1 DEF StopReread, Stopping
        <5>2. eventLock = p
          BY <2>4, <5>1 DEF LocksFit, UnderLock, Stopping, ClientPlaces
        <5>3. pc'[c] = "gone"
          BY <1>1, <2>1, <4>1, <5>2, Went DEF StopReread
        <5> QED BY <5>3 DEF Stopping
      <4> QED BY <2>4, <4>1, CursorMove, ProcessAssumption
    <3>2. \A q \in Drivers : pc'[q] = pc[q] /\ local'[q] = local[q]
      BY <1>3, <2>4, OthersStay, ProcessAssumption
    <3>3. ASSUME NEW q \in Drivers PROVE IsAhead(q, local[c].read + 1)'
      BY <2>2, <2>3, <3>1, <3>2 DEF IsAhead, InLoop
    <3> QED BY <2>2, <2>3, <3>1, <3>3
  <2>5. CASE p \in Drivers
    <3>1. queue' = queue /\ p \notin Clients
      BY <2>5, QueueMove, ProcessAssumption
    <3>2. cursor' <= stop
      <4>1. CASE cursor' = cursor
        BY <2>2, <4>1
      <4>2. CASE Consume(p)
        <5>1. pc[p] = "consuming" /\ cursor' = queue[local[p].taking].seq /\ local[p].taking \in DOMAIN queue
          BY <2>5, <4>2 DEF Consume, EntriesFit
        <5> QED BY <1>2, <2>2, <2>5, <5>1 DEF IsAhead
      <4> QED BY <3>1, <4>1, <4>2, CursorMove
    <3>3. ASSUME NEW q \in Drivers PROVE IsAhead(q, local[c].read + 1)'
      <4>1. CASE q # p
        <5>1. pc'[q] = pc[q] /\ local'[q] = local[q]
          BY <1>3, <4>1, OthersStay
        <5>2. CASE InLoop(q) \/ pc[q] = "entering"
          <6>1. ~InLoop(p)
            BY <2>5, <4>1, <5>2, AloneInTheLoop
          <6>2. cursor' = cursor
            BY <3>1, <6>1, CursorMove DEF Consume, InLoop
          <6> QED BY <2>2, <2>3, <5>1, <6>2 DEF IsAhead, InLoop
        <5>3. CASE ~(InLoop(q) \/ pc[q] = "entering")
          BY <5>1, <5>3 DEF IsAhead, InLoop
        <5> QED BY <5>2, <5>3
      <4>2. CASE q = p /\ InLoop(p)'
        <5>1. IsAhead(p, stop)'
          <6>1. ASSUME NEW x, x = stop PROVE IsAhead(p, x)'
            BY <1>2, <1>3, <2>1, <2>2, <2>5, <3>1, <4>2, <6>1, LoopStaysAhead
          <6>2. \A x : x = stop => IsAhead(p, x)'
            BY <6>1
          <6> QED BY <2>3, <6>2 DEF IsAhead
        <5> QED BY <4>2, <5>1
      <4>3. CASE q = p /\ PublishLate(p)
        BY <2>2, <2>3, <2>5, <4>3, LateNameStays DEF IsAhead, InLoop
      <4>4. CASE q = p /\ ~InLoop(p)' /\ ~PublishLate(p)
        <5>1. pc'[p] # "entering"
          <6> SUFFICES ASSUME pc'[p] = "entering" PROVE FALSE
            OBVIOUS
          <6>1. ~Resume(p)
            BY <1>1, <2>1, <2>5 DEF Resume, LocksFit
          <6>2. p \in Processes
            OBVIOUS
          <6>3. CASE Loop(p)
            <7>1. CASE Consume(p)
              BY <2>5, <7>1, Went DEF Consume, EntriesFit
            <7>2. CASE ~Consume(p)
              BY <4>4, <6>3, <7>2, Went DEF Loop, Scan, ScanDone, Await, Apply, Answer, AtRetry, StartNode, Finish,
                EndNode, Leave, Fail, ReadKeep, Park, Exit, Taking, EndWith, InLoop
            <7> QED BY <7>1, <7>2
          <6>4. CASE Start(p)
            BY <4>4, <6>1, <6>4, Went DEF Start, Clear, Publish, TakeHandoff, Plan, Acquire, Admit, GiveBack, Claim
          <6>5. CASE Watch(p)
            BY <6>5 DEF Watch, InLoop
          <6>6. CASE Crash(p)
            BY <6>6, Went DEF Crash
          <6> QED BY <3>1, <6>3, <6>4, <6>5, <6>6 DEF Moves
        <5> QED BY <4>4, <5>1 DEF IsAhead, InLoop
      <4> QED BY <4>1, <4>2, <4>3, <4>4
    <3> QED BY <2>3, <3>2, <3>3
  <2> QED BY <2>4, <2>5 DEF Processes
<1> QED BY <1>4, <1>5

-----------------------------------------------------------------------------
(* The latest events of a journal that grows *)

\* The last of some positions is the latest.
LEMMA MaxIs ==
  ASSUME NEW n \in Nat, NEW S, S \subseteq 1..n, NEW x \in S, \A y \in S : y <= x
  PROVE  Max(S) = x
<1>1. Max(S) \in S /\ x <= Max(S)
  BY MaxIsLast
<1>2. Max(S) <= x /\ Max(S) \in 1..n /\ x \in 1..n
  BY <1>1
<1> QED BY <1>1, <1>2

\* What the latest events of the next journal are, if e is the last that counts.
LEMMA LatestIs ==
  ASSUME TypeOK, EntriesFit, Grows, NEW x \in DOMAIN journal', NEW e \in Events, journal'[x] = e,
         \A r \in DOMAIN journal' : r > x => journal'[r].kind \notin Lifecycle
  PROVE  /\ e.kind \in Lifecycle => LatestLife' = x /\ Status' = e.kind
         /\ e.kind = "paused" => LatestKeep' = e.keep
<1>1. Len(journal') \in Nat /\ DOMAIN journal' = 1..Len(journal')
  BY PastStays
<1>2. \A r \in DOMAIN journal' : r \in Nat
  <2> DEFINE n == Len(journal')
  <2>1. n \in Nat
    BY <1>1
  <2> HIDE DEF n
  <2>2. \A r \in 1..n : r \in Nat
    BY <2>1
  <2> QED BY <1>1, <2>2 DEF n
<1>3. ASSUME NEW S, S \subseteq DOMAIN journal', x \in S, \A r \in S : journal'[r].kind \in Lifecycle
      PROVE  Max(S) = x
  <2>1. \A y \in S : y <= x
    <3> SUFFICES ASSUME NEW y \in S PROVE y <= x
      OBVIOUS
    <3>1. ~(y > x) /\ y \in Nat /\ x \in Nat
      BY <1>2, <1>3
    <3> QED BY <3>1
  <2> QED BY <1>1, <1>3, <2>1, MaxIs
<1>4. ASSUME e.kind \in Lifecycle
      PROVE  LatestLife' = x /\ Status' = e.kind
  <2>1. /\ LifeEvents' \subseteq DOMAIN journal' /\ x \in LifeEvents'
        /\ \A r \in LifeEvents' : journal'[r].kind \in Lifecycle
    BY <1>4 DEF LifeEvents
  <2>2. LatestLife' = x
    BY <1>3, <2>1 DEF LatestLife
  <2> QED BY <2>2 DEF Status
<1>5. ASSUME e.kind = "paused"
      PROVE  LatestKeep' = e.keep
  <2> DEFINE pauses == {i \in DOMAIN journal' : journal'[i].kind = "paused"}
  <2>1. /\ pauses \subseteq DOMAIN journal' /\ x \in pauses
        /\ \A r \in pauses : journal'[r].kind \in Lifecycle
    BY <1>5 DEF Lifecycle
  <2>2. Max(pauses) = x
    <3> HIDE DEF pauses
    <3> QED BY <1>3, <2>1
  <2>3. pauses # {} /\ journal'[Max(pauses)].keep = e.keep /\ e.keep \in BOOLEAN
    <3> HIDE DEF pauses
    <3> QED BY <2>1, <2>2 DEF Events
  <2> QED BY <2>3 DEF LatestKeep
<1> QED BY <1>4, <1>5

\* New events that are no lifecycle change leave the latest ones what they were.
LEMMA LatestSame ==
  ASSUME TypeOK, EntriesFit, Grows,
         \A r \in DOMAIN journal' : r \notin DOMAIN journal => journal'[r].kind \notin Lifecycle
  PROVE  LatestLife' = LatestLife /\ Status' = Status /\ LatestKeep' = LatestKeep
<1>1. /\ DOMAIN journal \subseteq DOMAIN journal'
      /\ \A r \in DOMAIN journal : journal'[r] = journal[r]
  BY PastStays
<1>2. LifeEvents' = LifeEvents
  BY <1>1 DEF LifeEvents
<1>3. LatestLife \in DOMAIN journal
  BY LatestIsThere DEF LifeEvents
<1> DEFINE pauses == {i \in DOMAIN journal : journal[i].kind = "paused"}
<1>4. {i \in DOMAIN journal' : journal'[i].kind = "paused"} = pauses
  BY <1>1 DEF Lifecycle
<1>5. pauses # {} => Max(pauses) \in DOMAIN journal
  <2>1. pauses \subseteq 1..Len(journal) /\ Len(journal) \in Nat /\ DOMAIN journal = 1..Len(journal)
    BY JournalIs
  <2>2. pauses # {} => Max(pauses) \in pauses
    <3> HIDE DEF pauses
    <3> QED BY <2>1, MaxIsLast
  <2> QED BY <2>2
<1>6. LatestKeep' = LatestKeep
  BY <1>1, <1>4, <1>5 DEF LatestKeep
<1> QED BY <1>1, <1>2, <1>3, <1>6 DEF LatestLife, Status

\* One event more, and what the latest ones are then.
LEMMA LatestAfter ==
  ASSUME TypeOK, EntriesFit, NEW e \in Events, Append1(e)
  PROVE  /\ Status' = IF e.kind \in Lifecycle THEN e.kind ELSE Status
         /\ LatestKeep' = IF e.kind = "paused" THEN e.keep ELSE LatestKeep
         /\ e.kind \in Ended => \E i \in LifeEvents' : journal'[i].kind \in Ended
<1>1. /\ DOMAIN journal' = 1..(Len(journal) + 1) /\ journal'[Len(journal) + 1] = e
      /\ Len(journal) \in Nat /\ DOMAIN journal = 1..Len(journal) /\ Grows
      /\ \A r \in DOMAIN journal : journal'[r] = journal[r]
  BY OneEvent, JournalIs DEF Grows
<1> DEFINE n == Len(journal)
<1>2. /\ n + 1 \in DOMAIN journal' /\ \A r \in DOMAIN journal' : ~(r > n + 1)
      /\ \A r \in DOMAIN journal' : r \notin DOMAIN journal => r = n + 1
  <2>1. n \in Nat /\ DOMAIN journal = 1..n /\ DOMAIN journal' = 1..(n + 1)
    BY <1>1
  <2> HIDE DEF n
  <2>2. n + 1 \in 1..(n + 1) /\ (\A r \in 1..(n + 1) : ~(r > n + 1)) /\ \A r \in 1..(n + 1) : r \notin 1..n => r = n + 1
    BY <2>1
  <2> QED BY <2>1, <2>2
<1>3. CASE e.kind \notin Lifecycle
  <2>1. Status' = Status /\ LatestKeep' = LatestKeep
    BY <1>1, <1>2, <1>3, LatestSame
  <2> QED BY <1>3, <2>1 DEF Lifecycle
<1>4. CASE e.kind \in Lifecycle
  <2>1. Status' = e.kind /\ (e.kind = "paused" => LatestKeep' = e.keep)
    BY <1>1, <1>2, <1>4, LatestIs
  <2>2. e.kind # "paused" => LatestKeep' = LatestKeep
    <3> SUFFICES ASSUME e.kind # "paused" PROVE LatestKeep' = LatestKeep
      OBVIOUS
    <3> DEFINE pauses == {i \in DOMAIN journal : journal[i].kind = "paused"}
    <3>1. {i \in DOMAIN journal' : journal'[i].kind = "paused"} = pauses
      <4>1. DOMAIN journal \subseteq DOMAIN journal'
        BY <1>1, PastStays
      <4> QED BY <1>1, <1>2, <4>1
    <3>2. pauses # {} => Max(pauses) \in DOMAIN journal
      <4>1. pauses \subseteq 1..Len(journal) /\ Len(journal) \in Nat
        BY <1>1
      <4>2. pauses # {} => Max(pauses) \in pauses
        <5> HIDE DEF pauses
        <5> QED BY <4>1, MaxIsLast
      <4> QED BY <4>2
    <3> QED BY <1>1, <3>1, <3>2 DEF LatestKeep
  <2>3. e.kind \in Ended => \E i \in LifeEvents' : journal'[i].kind \in Ended
    BY <1>1, <1>2, <1>4 DEF LifeEvents
  <2> QED BY <1>4, <2>1, <2>2, <2>3
<1> QED BY <1>3, <1>4

\* A run that was never over is not over now.
NeverEnded == \A i \in LifeEvents : journal[i].kind \notin Ended

\* What a driver takes changes the lifecycle by the stop it takes only.
LEMMA LatestOfTaken ==
  ASSUME TypeOK, EntriesFit, NEW p \in Drivers, NEW i, NEW e, NEW at, TakesFirst(p, i, e, at)
  PROVE  \/ Status' = Status /\ LatestKeep' = LatestKeep
         \/ at = "left" /\ queue[i].cmd = "pause" /\ Status' = "paused" /\ LatestKeep' = queue[i].keep
         \/ at = "left" /\ queue[i].cmd = "abort" /\ Status' = "aborted" /\ ~NeverEnded'
<1>1. e \in Events /\ Append1(e)
  BY DEF TakesFirst
<1>2. CASE at # "left"
  <2>1. e.kind \notin Lifecycle
    BY <1>2 DEF TakesFirst
  <2> QED BY <1>1, <2>1, LatestAfter DEF Lifecycle
<1>3. CASE at = "left"
  <2>1. e = EventOf(i) /\ queue[i].cmd \in {"pause", "abort"}
    BY <1>3 DEF TakesFirst, IsStop
  <2>2. CASE queue[i].cmd = "pause"
    <3>1. e.kind = "paused" /\ e.keep = queue[i].keep
      BY <2>1, <2>2 DEF EventOf, Event
    <3> QED BY <1>1, <1>3, <2>2, <3>1, LatestAfter DEF Lifecycle
  <2>3. CASE queue[i].cmd = "abort"
    <3>1. e.kind = "aborted"
      BY <2>1, <2>3 DEF EventOf, Event
    <3> QED BY <1>1, <1>3, <2>3, <3>1, LatestAfter DEF Lifecycle, Ended, NeverEnded
  <2> QED BY <2>1, <2>2, <2>3
<1> QED BY <1>2, <1>3

LEMMA LatestOfSalvaged ==
  ASSUME TypeOK, EntriesFit, NEW p \in Drivers, NEW i, NEW j, NEW e, NEW f, Salvages(p, i, j, e, f)
  PROVE  \/ queue[j].cmd = "pause" /\ Status' = "paused" /\ LatestKeep' = queue[j].keep
         \/ queue[j].cmd = "abort" /\ Status' = "aborted" /\ ~NeverEnded'
<1>1. /\ e \in Events /\ f \in Events /\ journal' = journal \o <<e, f>>
      /\ f = EventOf(j) /\ queue[j].cmd \in {"pause", "abort"}
  BY DEF Salvages, IsStop
<1>2. /\ DOMAIN journal' = 1..(Len(journal) + 2) /\ journal'[Len(journal) + 2] = f
      /\ Len(journal) \in Nat /\ Grows
  BY <1>1, TwoEvents, JournalIs DEF Grows
<1> DEFINE n == Len(journal)
<1>3. n + 2 \in DOMAIN journal' /\ \A r \in DOMAIN journal' : ~(r > n + 2)
  <2>1. n \in Nat /\ DOMAIN journal' = 1..(n + 2)
    BY <1>2
  <2> HIDE DEF n
  <2> QED BY <2>1
<1>4. /\ f.kind \in Lifecycle => Status' = f.kind
      /\ f.kind = "paused" => LatestKeep' = f.keep
  BY <1>1, <1>2, <1>3, LatestIs
<1>5. CASE queue[j].cmd = "pause"
  <2>1. f.kind = "paused" /\ f.keep = queue[j].keep
    BY <1>1, <1>5 DEF EventOf, Event
  <2> QED BY <1>4, <1>5, <2>1 DEF Lifecycle
<1>6. CASE queue[j].cmd = "abort"
  <2>1. f.kind = "aborted"
    BY <1>1, <1>6 DEF EventOf, Event
  <2>2. n + 2 \in LifeEvents' /\ journal'[n + 2].kind \in Ended
    BY <1>2, <1>3, <2>1 DEF LifeEvents, Lifecycle, Ended
  <2> QED BY <1>4, <1>6, <2>1, <2>2 DEF Lifecycle, Ended, NeverEnded
<1> QED BY <1>1, <1>5, <1>6

-----------------------------------------------------------------------------
(* What the steps keep: a kept lock *)

\* Who writes the busy lock.
LEMMA WorkdirMove ==
  ASSUME TypeOK, NEW p \in Processes, Moves(p), TakesLock
  PROVE  \/ workdir' = workdir
         \/ p \in Drivers /\ Acquire(p) /\ ~BusyForUs /\ workdir' = p /\ pc'[p] = "holding"
         \/ p \in Drivers /\ Holding(p) /\ (Park(p) \/ Exit(p) \/ GiveBack(p))
         \/ p \in Clients /\ StopFinalize(p)
         \/ p \in Clients /\ PauseSync(p)
<1>1. CASE p \in Drivers /\ Loop(p) /\ ~(Park(p) \/ Exit(p))
  BY <1>1 DEF Loop, Scan, ScanDone, Await, Apply, Answer, AtRetry, Consume, StartNode, Finish,
              EndNode, Leave, Fail, ReadKeep, DriveOnly
<1>2. CASE p \in Drivers /\ (Park(p) \/ Exit(p) \/ GiveBack(p))
  BY <1>2 DEF Park, Exit, GiveBack, Holding, DriverPlaces
<1>3. CASE p \in Drivers /\ Acquire(p)
  <2>1. CASE BusyForUs
    BY <1>3, <2>1 DEF Acquire
  <2>2. CASE ~BusyForUs
    <3>1. workdir' = p /\ Goto(p, "holding")
      BY <1>3, <2>2 DEF Acquire
    <3> QED BY <1>3, <2>2, <3>1, Went
  <2> QED BY <2>1, <2>2
<1>4. CASE p \in Drivers /\ (Start(p) \/ Watch(p) \/ Crash(p)) /\ ~(Acquire(p) \/ GiveBack(p))
  BY <1>4 DEF Start, Clear, Publish, TakeHandoff, PublishLate, Plan, Admit, Resume, Claim, Watch, Crash, DriveOnly
<1>5. CASE p \in Clients /\ Ask(p) /\ ~(StopFinalize(p) \/ PauseSync(p))
  BY <1>5 DEF Ask, Count, Post, Stop, StopAsk, StopReread, Pause, PauseAsk, PauseJournal, ClientOnly
<1> QED BY <1>1, <1>2, <1>3, <1>4, <1>5 DEF Moves

\* A driver that holds the lock of the paused run, or is about to park it.
Keeps(p) == pc[p] \in {"holding", "admitted", "refused"} \/ WillPark(p)

LEMMA KeeperHolds ==
  ASSUME NEW p \in Drivers, Keeps(p)
  PROVE  Holding(p)
BY DEF Keeps, WillPark, Holding, DriverPlaces

\* What a driver that keeps the lock does next.
LEMMA KeeperMove ==
  ASSUME TypeOK, EntriesFit, TakesLock, NEW p \in Drivers, Moves(p), ~Crash(p), ~Resume(p), Keeps(p),
         workdir = p, Status = "paused", LatestKeep
  PROVE  workdir' = "parked" \/ (workdir' = p /\ Keeps(p)')
<1>0. CASE PublishLate(p)
  BY <1>0, LateNameStays DEF Keeps, WillPark
<1> SUFFICES ASSUME ~PublishLate(p) PROVE workdir' = "parked" \/ (workdir' = p /\ Keeps(p)')
  BY <1>0
<1> DEFINE m == local[p]
<1>1. m \in Memory /\ p \in Processes /\ p \notin Clients
  BY ProcessAssumption, DriverFits
<1>2. CASE pc[p] = "holding"
  <2>1. Admit(p)
    BY <1>1, <1>2 DEF Moves, Loop, Scan, ScanDone, Await, Apply, Answer, AtRetry, Consume, StartNode, Finish,
              EndNode, Leave, Fail, ReadKeep, Park, Exit, Start, Clear, Publish, TakeHandoff, Plan, Acquire, Resume,
              GiveBack, Claim, Watch, InLoop
  <2>2. pc'[p] \in {"admitted", "refused"} /\ workdir' = workdir
    BY <1>1, <2>1, Went DEF Admit
  <2> QED BY <2>2 DEF Keeps
<1>3. CASE pc[p] = "admitted"
  BY <1>1, <1>3 DEF Moves, Loop, Scan, ScanDone, Await, Apply, Answer, AtRetry, Consume, StartNode, Finish,
              EndNode, Leave, Fail, ReadKeep, Park, Exit, Start, Clear, Publish, TakeHandoff, Plan, Acquire, Admit,
              GiveBack, Claim, Watch, InLoop
<1>4. CASE pc[p] = "refused"
  <2>1. GiveBack(p)
    BY <1>1, <1>4 DEF Moves, Loop, Scan, ScanDone, Await, Apply, Answer, AtRetry, Consume, StartNode, Finish,
              EndNode, Leave, Fail, ReadKeep, Park, Exit, Start, Clear, Publish, TakeHandoff, Plan, Acquire, Admit,
              Claim, Watch, InLoop
  <2> QED BY <2>1 DEF GiveBack
<1>5. CASE pc[p] = "consuming"
  <2>1. /\ m.next = "left" /\ queue[m.taking].cmd = "pause" /\ ~m.failed
    BY <1>5 DEF Keeps, WillPark
  <2>2. Consume(p) \/ Watch(p)
    BY <1>1, <1>5 DEF Moves, Loop, Scan, ScanDone, Await, Apply, Answer, AtRetry, StartNode, Finish,
              EndNode, Leave, Fail, ReadKeep, Park, Exit, Start, Clear, Publish, TakeHandoff, Plan, Acquire, Admit,
              Claim, GiveBack
  <2>3. CASE Consume(p)
    <3> DEFINE rest == IF queue[m.taking].cmd = "retry" THEN {} ELSE m.batch \ 1..m.taking
    <3>1. /\ pc'[p] = "left" /\ workdir' = workdir
          /\ local'[p] = [m EXCEPT !.mem = queue[m.taking].seq, !.batch = rest,
                                   !.paused = (queue[m.taking].cmd = "pause")]
      BY <1>1, <2>1, <2>3, Went DEF Consume, DriveOnly, TypeOK
    <3>2. local'[p].paused /\ ~local'[p].failed
      <4> HIDE DEF rest
      <4> QED BY <1>1, <2>1, <3>1 DEF Memory
    <3> QED BY <3>1, <3>2 DEF Keeps, WillPark
  <2>4. CASE Watch(p)
    <3>1. pc' = pc /\ workdir' = workdir /\ queue' = queue /\ local'[p] = [m EXCEPT !.cancel = TRUE]
      BY <1>1, <2>4, Wrote DEF Watch, DriveOnly
    <3>2. local'[p].next = m.next /\ local'[p].taking = m.taking /\ local'[p].failed = m.failed
      BY <1>1, <3>1 DEF Memory
    <3> QED BY <1>5, <2>1, <3>1, <3>2 DEF Keeps, WillPark
  <2> QED BY <2>2, <2>3, <2>4
<1>6. CASE pc[p] = "left"
  <2>1. m.paused /\ ~m.failed
    BY <1>6 DEF Keeps, WillPark
  <2>2. Leave(p)
    BY <1>1, <1>6 DEF Moves, Loop, Scan, ScanDone, Await, Apply, Answer, AtRetry, Consume, StartNode, Finish,
              EndNode, Fail, ReadKeep, Park, Exit, Start, Clear, Publish, TakeHandoff, Plan, Acquire, Admit,
              Claim, GiveBack, Watch, InLoop
  <2>3. pc'[p] = "leaving" /\ local' = local /\ workdir' = workdir
    BY <1>1, <2>1, <2>2, Went DEF Leave
  <2> QED BY <2>1, <2>3 DEF Keeps, WillPark
<1>7. CASE pc[p] = "leaving"
  <2>1. m.paused
    BY <1>7 DEF Keeps, WillPark
  <2>2. ReadKeep(p)
    BY <1>1, <1>7, <2>1 DEF Moves, Loop, Scan, ScanDone, Await, Apply, Answer, AtRetry, Consume, StartNode, Finish,
              EndNode, Fail, Leave, Park, Exit, Start, Clear, Publish, TakeHandoff, Plan, Acquire, Admit,
              Claim, GiveBack, Watch, InLoop
  <2>3. pc'[p] = "parking" /\ local'[p] = [m EXCEPT !.keep = LatestKeep] /\ workdir' = workdir
    BY <1>1, <2>2, Went, Wrote DEF ReadKeep
  <2>4. local'[p].keep
    BY <1>1, <2>3 DEF Memory
  <2> QED BY <2>3, <2>4 DEF Keeps, WillPark
<1>8. CASE pc[p] = "parking"
  <2>1. m.keep
    BY <1>8 DEF Keeps, WillPark
  <2>2. Park(p)
    BY <1>1, <1>8 DEF Moves, Loop, Scan, ScanDone, Await, Apply, Answer, AtRetry, Consume, StartNode, Finish,
              EndNode, Fail, Leave, ReadKeep, Exit, Start, Clear, Publish, TakeHandoff, Plan, Acquire, Admit,
              Claim, GiveBack, Watch, InLoop
  <2> QED BY <2>1, <2>2 DEF Park
<1> QED BY <1>2, <1>3, <1>4, <1>5, <1>6, <1>7, <1>8 DEF Keeps, WillPark

\* KeptFit in the terms above.
Premise == TakesLock /\ Crashed = {} /\ NeverEnded

LosesNoLock == \A c \in Clients : pc[c] = "journaling" => Job[c] = "pause_keep"

Kept == workdir = "parked" \/ \E p \in Drivers : workdir = p /\ Keeps(p)

AboutToKeep(c) == pc[c] = "journaling" /\ Job[c] = "pause_keep"

LEMMA KeptFitIs ==
  KeptFit <=> (Premise =>
    /\ \A c \in Clients : AboutToKeep(c) => workdir = "parked" \/ \E p \in Drivers : workdir = p /\ pc[p] = "holding"
    /\ Status = "paused" /\ LatestKeep /\ LosesNoLock => Kept)
BY DEF KeptFit, Premise, NeverEnded, LosesNoLock, Kept, Keeps, AboutToKeep

\* The other run does not take a kept lock, and has none to leave.
LEMMA OtherKeepsKept ==
  ASSUME TypeOK, EntriesFit, KeptFit, OtherTakes \/ OtherLeaves
  PROVE  KeptFit'
<1>1. /\ pc' = pc /\ local' = local /\ queue' = queue /\ journal' = journal
      /\ OtherTakes => workdir # OtherRun /\ ~BusyForOther
      /\ OtherLeaves => workdir = OtherRun
  BY DEF OtherTakes, OtherLeaves
<1>2. Premise' = Premise /\ LosesNoLock' = LosesNoLock /\ Status' = Status /\ LatestKeep' = LatestKeep
  BY <1>1 DEF Premise, Crashed, NeverEnded, LifeEvents, LosesNoLock, Status, LatestLife, LatestKeep
<1>3. Premise => ~Terminal
  BY LatestIsThere DEF Premise, NeverEnded, Terminal, Status
<1>4. ASSUME Premise, workdir = "parked" \/ \E p \in Drivers : workdir = p /\ (pc[p] = "holding" \/ Keeps(p))
      PROVE  FALSE
  <2>1. workdir # OtherRun
    BY <1>4, ProcessAssumption DEF Processes
  <2>2. OtherTakes
    BY <1>1, <2>1
  <2>3. BusyForOther
    <3>1. CASE workdir = "parked"
      BY <1>3, <1>4, <3>1 DEF BusyForOther
    <3>2. CASE \E p \in Drivers : workdir = p /\ (pc[p] = "holding" \/ Keeps(p))
      <4>1. PICK p \in Drivers : workdir = p /\ Keeps(p)
        BY <3>2 DEF Keeps
      <4>2. Alive(p) /\ p \notin {Nobody, "parked"}
        BY <4>1, KeeperHolds, ProcessAssumption DEF Alive, Holding, Processes
      <4> QED BY <4>1, <4>2 DEF BusyForOther
    <3> QED BY <1>4, <3>1, <3>2
  <2> QED BY <1>1, <2>2, <2>3
<1>5. Premise => /\ \A c \in Clients : ~AboutToKeep(c)
                 /\ ~(Status = "paused" /\ LatestKeep /\ LosesNoLock)
  BY <1>4, KeptFitIs DEF Kept
<1>6. \A c \in Clients : AboutToKeep(c)' = AboutToKeep(c)
  BY <1>1 DEF AboutToKeep
<1>7. Premise' => /\ \A c \in Clients : ~AboutToKeep(c)'
                  /\ ~(Status' = "paused" /\ LatestKeep' /\ LosesNoLock')
  BY <1>2, <1>5, <1>6
<1> QED BY <1>7 DEF KeptFit, Premise, NeverEnded, LosesNoLock, AboutToKeep

\* A lock that is parked, or with its keeper, is so after the step of a process.
LEMMA KeptStays ==
  ASSUME TypeOK, EntriesFit, OneWriter, Kept, Status = "paused", LatestKeep, LosesNoLock',
         NEW p \in Processes, Moves(p), TakesLock, Crashed' = {}, NeverEnded',
         ~(p \in Drivers /\ Resume(p)), queue' = queue \/ p \in Clients
  PROVE  Kept'
<1>1. QueueGrows /\ (p \in Drivers => p \notin Clients)
  BY QueueMove, ProcessAssumption
<1>2. ~(p \in Drivers /\ Crash(p))
  <2> SUFFICES ASSUME p \in Drivers, Crash(p) PROVE FALSE
    OBVIOUS
  <2>1. pc'[p] = "dead"
    BY Went DEF Crash
  <2> QED BY <2>1 DEF Crashed
<1>3. ~(p \in Clients /\ StopFinalize(p))
  <2> SUFFICES ASSUME p \in Clients, StopFinalize(p) PROVE FALSE
    OBVIOUS
  <2> DEFINE e == Event("aborted", 0, FALSE)
  <2>1. e \in Events /\ e.kind \in Ended /\ Append1(e)
    BY EventIsTyped DEF StopFinalize, Event, Kinds, Lifecycle, Ended
  <2> HIDE DEF e
  <2> QED BY <2>1, LatestAfter DEF NeverEnded
<1>4. CASE workdir = "parked"
  <2>1. CASE workdir' = workdir
    BY <1>4, <2>1 DEF Kept
  <2>2. CASE p \in Drivers /\ Acquire(p) /\ workdir' = p /\ pc'[p] = "holding"
    BY <2>2 DEF Kept, Keeps
  <2>3. CASE p \in Drivers /\ Holding(p)
    BY <1>4, <2>3, ProcessAssumption DEF OneWriter, Processes
  <2>4. CASE p \in Clients /\ PauseSync(p)
    <3>1. CASE Job[p] = "pause_keep"
      BY <1>4, <2>4, <3>1 DEF PauseSync, BusyForUs, Kept
    <3>2. CASE Job[p] # "pause_keep"
      <4>1. Goto(p, "journaling")
        BY <2>4, <3>2 DEF PauseSync
      <4> QED BY <2>4, <3>2, <4>1, Went DEF LosesNoLock
    <3> QED BY <3>1, <3>2
  <2> QED BY <1>3, <2>1, <2>2, <2>3, <2>4, WorkdirMove
<1>5. CASE \E q \in Drivers : workdir = q /\ Keeps(q)
  <2>1. PICK q \in Drivers : workdir = q /\ Keeps(q)
    BY <1>5
  <2>2. q \in Processes /\ q \notin {Nobody, OtherRun, "parked"} /\ BusyForUs
    BY <2>1, KeeperHolds, ProcessAssumption DEF Alive, Holding, Processes, BusyForUs
  <2>3. CASE p = q
    BY <1>1, <1>2, <2>1, <2>3, KeeperMove DEF Kept
  <2>4. CASE p # q
    <3>1. workdir' = workdir
      <4>1. ~(p \in Drivers /\ Holding(p))
        BY <2>1, <2>4 DEF OneWriter
      <4>2. ASSUME p \in Clients, PauseSync(p) PROVE workdir' = workdir
        BY <2>1, <2>2, <4>2 DEF PauseSync
      <4> QED BY <1>3, <2>2, <4>1, <4>2, WorkdirMove
    <3>2. pc'[q] = pc[q] /\ local'[q] = local[q]
      BY <2>2, <2>4, OthersStay
    <3>3. pc[q] = "consuming" => queue'[local[q].taking] = queue[local[q].taking]
      BY <1>1, QueueStays DEF EntriesFit
    <3>4. Keeps(q)'
      BY <2>1, <3>2, <3>3 DEF Keeps, WillPark
    <3> QED BY <2>1, <3>1, <3>4 DEF Kept
  <2> QED BY <2>3, <2>4
<1> QED BY <1>4, <1>5 DEF Kept

\* A pause that is about to be journaled finds the lock where it left it.
LEMMA AboutStays ==
  ASSUME TypeOK, EntriesFit, LocksFit, OneWriter, TakesLock, NEW p \in Processes, Moves(p),
         Crashed' = {}, NeverEnded', NEW c \in Clients, AboutToKeep(c), AboutToKeep(c)',
         workdir = "parked" \/ \E q \in Drivers : workdir = q /\ pc[q] = "holding"
  PROVE  workdir' = "parked" \/ \E q \in Drivers : workdir' = q /\ pc'[q] = "holding"
<1>1. eventLock = c /\ c \in Processes /\ c # Nobody /\ c \notin Drivers
  BY ProcessAssumption DEF LocksFit, UnderLock, AboutToKeep, ClientPlaces, Processes
<1>2. p # c
  BY <1>1 DEF AboutToKeep, Moves, Ask, Count, Post, Stop, StopAsk, StopReread, StopFinalize, Pause,
              PauseAsk, PauseSync, PauseJournal, Goto, TypeOK
<1>3. ~(p \in Clients /\ (StopFinalize(p) \/ PauseSync(p)))
  BY <1>1, <1>2 DEF LocksFit, UnderLock, StopFinalize, PauseSync, ClientPlaces
<1>4. CASE workdir = "parked"
  <2>1. ~(p \in Drivers /\ Holding(p))
    BY <1>4, ProcessAssumption DEF OneWriter, Processes
  <2> QED BY <1>3, <1>4, <2>1, WorkdirMove
<1>5. CASE \E q \in Drivers : workdir = q /\ pc[q] = "holding"
  <2>1. PICK q \in Drivers : workdir = q /\ pc[q] = "holding"
    BY <1>5
  <2>2. q \in Processes /\ Holding(q) /\ BusyForUs
    BY <2>1, ProcessAssumption DEF Holding, DriverPlaces, BusyForUs, Alive, Processes
  <2>3. CASE p = q
    <3>1. Admit(p) \/ Crash(p) \/ PublishLate(p)
      BY <2>1, <2>3, ProcessAssumption DEF Moves, Loop, Scan, ScanDone, Await, Apply, Answer, AtRetry, Consume, StartNode, Finish,
              EndNode, Leave, Fail, ReadKeep, Park, Exit, Start, Clear, Publish, TakeHandoff, Plan, Acquire, Resume,
              GiveBack, Claim, Watch, InLoop
    <3>2. CASE Admit(p)
      BY <1>1, <3>2 DEF Admit
    <3>3. CASE Crash(p)
      <4>1. pc'[p] = "dead"
        BY <3>3, Went DEF Crash
      <4> QED BY <2>1, <2>3, <4>1 DEF Crashed
    <3>4. CASE PublishLate(p)
      BY <2>1, <2>3, <3>4, LateNameStays
    <3> QED BY <3>1, <3>2, <3>3, <3>4
  <2>4. CASE p # q
    <3>1. ~(p \in Drivers /\ Holding(p))
      BY <2>1, <2>4 DEF OneWriter
    <3>2. workdir' = workdir
      BY <1>3, <2>2, <3>1, WorkdirMove
    <3>3. pc'[q] = pc[q]
      BY <2>2, <2>4, OthersStay
    <3> QED BY <2>1, <3>2, <3>3
  <2> QED BY <2>3, <2>4
<1> QED BY <1>4, <1>5

LEMMA StepKeepsKept ==
  ASSUME TypeOK, EntriesFit, LocksFit, OneWriter, HeardFit, KeptFit, NEW p \in Processes, Moves(p)
  PROVE  KeptFit'
<1> SUFFICES ASSUME Premise'
             PROVE  /\ \A c \in Clients : AboutToKeep(c)' =>
                         workdir' = "parked" \/ \E q \in Drivers : workdir' = q /\ pc'[q] = "holding"
                    /\ Status' = "paused" /\ LatestKeep' /\ LosesNoLock' => Kept'
  BY DEF KeptFit, Premise, NeverEnded, LosesNoLock, Kept, Keeps, AboutToKeep
<1>1. Grows /\ QueueGrows
  BY MovesGrow, QueueMove
<1>2. TakesLock /\ Crashed' = {} /\ NeverEnded' /\ NeverEnded
  BY <1>1, EventsStay DEF Premise, NeverEnded
<1>3. ~(p \in Drivers /\ Crash(p)) /\ Crashed = {}
  <2>1. \A q \in Drivers : q \in Processes /\ pc'[q] # "dead"
    BY <1>2 DEF Crashed, Processes
  <2>2. \A q \in Drivers : q # p => pc[q] # "dead"
    BY <2>1, OthersStay
  <2>3. ~(p \in Drivers /\ Crash(p))
    BY <2>1, Went DEF Crash
  <2>4. CASE p \in Drivers /\ PublishLate(p)
    BY <2>1, <2>2, <2>3, <2>4, LateNameStays DEF Crashed
  <2>5. p \in Drivers /\ ~PublishLate(p) => pc[p] # "dead"
    BY <2>3, ProcessAssumption DEF Moves, Loop, Scan, ScanDone, Await, Apply, Answer, AtRetry, Consume, StartNode, Finish,
              EndNode, Leave, Fail, ReadKeep, Park, Exit, Start, Clear, Publish, TakeHandoff, Plan, Acquire, Admit, Resume,
              GiveBack, Claim, Watch, InLoop
  <2> QED BY <2>2, <2>3, <2>4, <2>5 DEF Crashed
<1>4. Premise
  BY <1>2, <1>3 DEF Premise
<1>5. /\ \A c \in Clients : AboutToKeep(c) => workdir = "parked" \/ \E q \in Drivers : workdir = q /\ pc[q] = "holding"
      /\ Status = "paused" /\ LatestKeep /\ LosesNoLock => Kept
  BY <1>4, KeptFitIs
<1>6. ASSUME NEW c \in Clients, AboutToKeep(c)'
      PROVE  workdir' = "parked" \/ \E q \in Drivers : workdir' = q /\ pc'[q] = "holding"
  <2>1. CASE AboutToKeep(c)
    BY <1>2, <1>5, <1>6, <2>1, AboutStays
  <2>2. CASE ~AboutToKeep(c)
    <3>1. p = c
      BY <1>6, <2>2, OthersStay DEF AboutToKeep, Processes
    <3>2. Ask(c)
      BY <3>1, ProcessAssumption DEF Moves
    <3>3. PauseSync(c)
      <4>1. pc'[c] = "journaling"
        BY <1>6 DEF AboutToKeep
      <4> QED BY <3>1, <3>2, <4>1, Went DEF Ask, Count, Post, Stop, StopAsk, StopReread, StopFinalize, Pause,
                                         PauseAsk, PauseJournal
    <3>4. workdir' = "parked"
      <4>1. pc'[c] # "gone" /\ Job[c] = "pause_keep"
        BY <1>6 DEF AboutToKeep
      <4> QED BY <1>2, <3>1, <3>3, <4>1, Went DEF PauseSync
    <3> QED BY <3>4
  <2> QED BY <2>1, <2>2
<1>7. ASSUME Status' = "paused", LatestKeep', LosesNoLock'
      PROVE  Kept'
  <2>1. ~(p \in Drivers /\ Resume(p))
    <3> SUFFICES ASSUME p \in Drivers, Resume(p) PROVE FALSE
      OBVIOUS
    <3> DEFINE e == Event("resumed", local[p].read, FALSE)
    <3>1. local[p].read \in Nat
      BY DriverFits DEF Memory
    <3>2. e \in Events /\ e.kind = "resumed" /\ Append1(e)
      BY <3>1, EventIsTyped DEF Resume, Event, Kinds, Lifecycle
    <3> HIDE DEF e
    <3> QED BY <1>7, <3>2, LatestAfter DEF Lifecycle
  <2>2. queue' = queue \/ p \in Clients
    BY QueueMove
  <2>3. ASSUME Status = "paused", LatestKeep, LosesNoLock
        PROVE  Kept'
    BY <1>2, <1>5, <1>7, <2>1, <2>2, <2>3, KeptStays
  <2>4. ASSUME NEW c \in Clients, p = c, PauseJournal(c)
        PROVE  Kept'
    <3> DEFINE e == Event("paused", 0, Job[c] = "pause_keep")
    <3>1. e \in Events /\ e.kind = "paused" /\ e.keep = (Job[c] = "pause_keep") /\ Append1(e)
      BY <2>4, EventIsTyped DEF PauseJournal, Event, Kinds, Lifecycle
    <3> HIDE DEF e
    <3>2. Job[c] = "pause_keep"
      BY <1>7, <3>1, LatestAfter
    <3>3. workdir = "parked" \/ \E q \in Drivers : workdir = q /\ pc[q] = "holding"
      BY <1>5, <2>4, <3>2 DEF AboutToKeep, PauseJournal
    <3>4. workdir' = workdir /\ \A q \in Drivers : pc'[q] = pc[q]
      <4>1. \A q \in Drivers : q \in Processes /\ q # c
        BY ProcessAssumption DEF Processes
      <4> QED BY <2>4, <4>1, OthersStay DEF PauseJournal
    <3> QED BY <3>3, <3>4 DEF Kept, Keeps
  <2>5. CASE ~LosesNoLock
    <3>1. PICK c \in Clients : pc[c] = "journaling" /\ Job[c] # "pause_keep"
      BY <2>5 DEF LosesNoLock
    <3>2. pc'[c] # "journaling"
      BY <1>7, <3>1 DEF LosesNoLock
    <3>3. p = c /\ Ask(c)
      <4>1. p = c
        BY <3>1, <3>2, OthersStay DEF Processes
      <4> QED BY <4>1, ProcessAssumption DEF Moves
    <3>4. PauseJournal(c)
      BY <3>1, <3>3 DEF Ask, Count, Post, Stop, StopAsk, StopReread, StopFinalize, Pause, PauseAsk, PauseSync
    <3> QED BY <2>4, <3>3, <3>4
  <2>6. CASE ~(Status = "paused" /\ LatestKeep)
    <3>1. CASE journal' = journal
      BY <1>7, <2>6, <3>1 DEF Status, LatestLife, LifeEvents, LatestKeep
    <3>2. ASSUME p \in Drivers, NEW i, InLoop(p), pc'[p] = "consuming", queue[i].cmd = "pause",
                 local'[p] = [local[p] EXCEPT !.taking = i, !.next = "left"]
          PROVE  Kept'
      <4>1. local[p] \in Memory /\ queue' = queue
        BY <3>2, DriverFits, QueueMove, ProcessAssumption
      <4>2. local'[p].taking = i /\ local'[p].next = "left" /\ local'[p].failed = local[p].failed
        BY <3>2, <4>1 DEF Memory
      <4>3. ~local[p].failed
        BY <3>2 DEF HeardFit, Heard
      <4>4. Keeps(p)'
        BY <3>2, <4>1, <4>2, <4>3 DEF Keeps, WillPark
      <4>5. workdir' = p
        <5>1. Holding(p)'
          BY <3>2 DEF Holding, DriverPlaces
        <5> QED BY <1>2, <3>2, <5>1, TreeMove
      <4> QED BY <3>2, <4>4, <4>5 DEF Kept
    <3>3. CASE p \in Drivers /\ \E i, e, at : TakesFirst(p, i, e, at)
      <4>1. PICK i, e, at : TakesFirst(p, i, e, at)
        BY <3>3
      <4>2. at = "left" /\ queue[i].cmd = "pause"
        BY <1>7, <2>6, <3>3, <4>1, LatestOfTaken
      <4>3. /\ InLoop(p) /\ pc'[p] = "consuming"
            /\ local'[p] = [local[p] EXCEPT !.taking = i, !.next = "left"]
        BY <4>1, <4>2 DEF TakesFirst, InLoop
      <4> QED BY <3>2, <3>3, <4>2, <4>3
    <3>4. CASE p \in Drivers /\ \E i, j, e, f : Salvages(p, i, j, e, f)
      <4>1. PICK i, j, e, f : Salvages(p, i, j, e, f)
        BY <3>4
      <4>2. queue[j].cmd = "pause"
        BY <1>7, <3>4, <4>1, LatestOfSalvaged
      <4>3. /\ InLoop(p) /\ pc'[p] = "consuming"
            /\ local'[p] = [local[p] EXCEPT !.taking = j, !.next = "left"]
        BY <4>1 DEF Salvages, InLoop
      <4> QED BY <3>2, <3>4, <4>2, <4>3
    <3>5. CASE p \in Drivers /\ (Finish(p) \/ EndNode(p) \/ Fail(p)) /\ journal' # journal
      <4>1. PICK kind \in {"paused", "finished", "failed"} : Append1(Event(kind, 0, FALSE))
        BY <3>5 DEF Finish, EndNode, Fail, EndWith
      <4> DEFINE e == Event(kind, 0, FALSE)
      <4>2. e \in Events /\ e.kind = kind /\ e.keep = FALSE /\ Append1(e)
        BY <4>1, EventIsTyped DEF Event, Kinds, Lifecycle, Ended
      <4> HIDE DEF e
      <4> QED BY <1>7, <4>2, LatestAfter DEF Lifecycle, Ended
    <3>6. CASE p \in Clients /\ PauseJournal(p)
      BY <2>4, <3>6
    <3>7. CASE p \in Clients /\ StopFinalize(p)
      <4> DEFINE e == Event("aborted", 0, FALSE)
      <4>1. e \in Events /\ e.kind = "aborted" /\ Append1(e)
        BY <3>7, EventIsTyped DEF StopFinalize, Event, Kinds, Lifecycle, Ended
      <4> HIDE DEF e
      <4> QED BY <1>7, <4>1, LatestAfter DEF Lifecycle, Ended
    <3> QED BY <2>1, <3>1, <3>3, <3>4, <3>5, <3>6, <3>7, WhoWrites
  <2> QED BY <2>3, <2>5, <2>6
<1> QED BY <1>6, <1>7

-----------------------------------------------------------------------------
(* What the steps keep: a named driver obeys a stop *)

\* Who ends a run: a drive that leaves its loop or is about to, or a stop.
LEMMA WhoEnds ==
  ASSUME TypeOK, EntriesFit, NEW p \in Processes, Moves(p), ~Terminal, Terminal'
  PROVE  \/ p \in Drivers /\ InLoop(p) /\ pc'[p] = "consuming" /\ local'[p].next = "left"
         \/ p \in Drivers /\ pc[p] \in {"ready", "working", "failing"} /\ pc'[p] \in {"left", "leaving"}
         \/ p \in Clients /\ StopFinalize(p)
<1>1. Status \notin Ended /\ Status' \in Ended
  BY DEF Terminal
<1>2. CASE journal' = journal
  BY <1>1, <1>2 DEF Status, LatestLife, LifeEvents
<1>3. CASE p \in Drivers /\ \E i, e, at : TakesFirst(p, i, e, at)
  <2>1. PICK i, e, at : TakesFirst(p, i, e, at)
    BY <1>3
  <2>2. at = "left"
    BY <1>1, <1>3, <2>1, LatestOfTaken
  <2>3. local[p] \in Memory
    BY <1>3, DriverFits
  <2>4. local'[p].next = at
    BY <2>1, <2>3 DEF TakesFirst, Memory
  <2> QED BY <1>3, <2>1, <2>2, <2>4 DEF TakesFirst, InLoop
<1>4. CASE p \in Drivers /\ \E i, j, e, f : Salvages(p, i, j, e, f)
  <2>1. PICK i, j, e, f : Salvages(p, i, j, e, f)
    BY <1>4
  <2>2. local[p] \in Memory
    BY <1>4, DriverFits
  <2>3. local'[p].next = "left"
    BY <2>1, <2>2 DEF Salvages, Memory
  <2> QED BY <1>4, <2>1, <2>3 DEF Salvages, InLoop
<1>5. CASE p \in Drivers /\ Resume(p)
  <2> DEFINE e == Event("resumed", local[p].read, FALSE)
  <2>1. e \in Events /\ e.kind = "resumed" /\ Append1(e)
    BY <1>5, EventIsTyped, DriverFits DEF Resume, Event, Kinds, Lifecycle, Memory
  <2> HIDE DEF e
  <2>2. Status' = "resumed"
    BY <2>1, LatestAfter DEF Lifecycle
  <2> QED BY <1>1, <2>2 DEF Ended
<1>6. CASE p \in Drivers /\ (Finish(p) \/ EndNode(p) \/ Fail(p)) /\ journal' # journal
  <2>1. pc[p] \in {"ready", "working", "failing"} /\ pc'[p] \in {"left", "leaving"}
    BY <1>6, Went DEF Finish, EndNode, Fail, EndWith
  <2> QED BY <1>6, <2>1
<1>7. CASE p \in Clients /\ PauseJournal(p)
  <2> DEFINE e == Event("paused", 0, Job[p] = "pause_keep")
  <2>1. e \in Events /\ e.kind = "paused" /\ Append1(e)
    BY <1>7, EventIsTyped DEF PauseJournal, Event, Kinds, Lifecycle
  <2> HIDE DEF e
  <2>2. Status' = "paused"
    BY <2>1, LatestAfter DEF Lifecycle
  <2> QED BY <1>1, <2>2 DEF Ended
<1> QED BY <1>2, <1>3, <1>4, <1>5, <1>6, <1>7, WhoWrites

\* A driver enters the loop by its claim, and claims what it resumed.
LEMMA HowItEnters ==
  ASSUME TypeOK, EntriesFit, NEW p \in Processes, Moves(p), NEW q \in Drivers \ Granted
  PROVE  /\ pc'[q] = "entering" => (pc[q] = "entering" /\ p # q) \/ (p = q /\ Resume(q))
         /\ InLoop(q)' => InLoop(q) \/ (p = q /\ Claim(q))
         /\ driverPid' = q => driverPid = q \/ (p = q /\ (Claim(q) \/ Publish(q)))
<1>1. q \in Processes /\ q \notin Clients /\ q # Nobody
  BY ProcessAssumption DEF Processes
<1>2. CASE p # q
  <2>1. pc'[q] = pc[q]
    BY <1>1, <1>2, OthersStay
  <2>2. driverPid' = q => driverPid = q
    <3>1. CASE p \in Drivers
      <4>1. p \notin Clients
        BY <3>1, ProcessAssumption
      <4> QED BY <1>1, <1>2, <4>1 DEF Moves, Loop, Start, Scan, ScanDone, Await, Apply, Answer, AtRetry, Consume,
            StartNode, Finish, EndNode, Leave, Fail, ReadKeep, Park, Exit, Clear, Publish, TakeHandoff, PublishLate, Plan, Acquire,
            Admit, Resume, GiveBack, Claim, Watch, Crash, DriveOnly
    <3>2. CASE p \in Clients
      BY <3>2, ProcessAssumption DEF Moves, Ask, Count, Post, Stop, StopAsk, StopReread, StopFinalize,
            Pause, PauseAsk, PauseSync, PauseJournal, ClientOnly
    <3> QED BY <3>1, <3>2 DEF Processes
  <2> QED BY <1>2, <2>1, <2>2 DEF InLoop
<1>3. CASE p = q
  <2>1. CASE Loop(q) \/ Watch(q)
    <3>1. driverPid' = driverPid \/ driverPid' = Nobody
      BY <2>1 DEF Loop, Scan, ScanDone, Await, Apply, Answer, AtRetry, Consume, StartNode, Finish,
           EndNode, Leave, Fail, ReadKeep, Park, Exit, Watch, DriveOnly
    <3>2. pc'[q] # "entering"
      <4>1. CASE Consume(q)
        BY <1>1, <4>1, Went DEF Consume, EntriesFit
      <4>2. CASE Loop(q) /\ ~Consume(q)
        BY <1>1, <4>2, Went DEF Loop, Scan, ScanDone, Await, Apply, Answer, AtRetry, StartNode, Finish,
           EndNode, Leave, Fail, ReadKeep, Park, Exit, Taking, EndWith
      <4>3. CASE Watch(q)
        BY <4>3 DEF Watch, InLoop
      <4> QED BY <2>1, <4>1, <4>2, <4>3
    <3>3. InLoop(q)' => InLoop(q)
      <4>1. CASE Leave(q) \/ Fail(q) \/ ReadKeep(q) \/ Park(q) \/ Exit(q)
        BY <1>1, <4>1, Went DEF Leave, Fail, ReadKeep, Park, Exit, InLoop
      <4> QED BY <2>1, <4>1 DEF Loop, Scan, ScanDone, Await, Apply, Answer, AtRetry, Consume, StartNode,
           Finish, EndNode, Watch, InLoop
    <3> QED BY <1>1, <3>1, <3>2, <3>3
  <2>2. CASE Start(q) \/ Crash(q)
    <3>1. CASE Claim(q) \/ Resume(q)
      BY <1>1, <1>3, <3>1, Went DEF Claim, Resume, InLoop
    <3>2. CASE Clear(q) \/ Publish(q) \/ Plan(q) \/ Acquire(q) \/ Admit(q) \/ GiveBack(q) \/ Crash(q)
      <4>1. pc'[q] \in {"cleared", "launched", "planned", "holding", "gone", "admitted", "refused", "dead"}
        BY <1>1, <3>2, Went DEF Clear, Publish, Plan, Acquire, Admit, GiveBack, Crash
      <4>2. Publish(q) \/ driverPid' = driverPid
        BY <3>2 DEF Clear, Plan, Acquire, Admit, GiveBack, Crash
      <4> QED BY <1>3, <4>1, <4>2 DEF InLoop
    <3> QED BY <2>2, <3>1, <3>2 DEF Start, TakeHandoff, PublishLate
  <2> QED BY <1>1, <1>3, <2>1, <2>2 DEF Moves
<1> QED BY <1>2, <1>3

\* A driver with a stop before its scan comes to the stop or leaves its loop.
LEMMA LoopObeys ==
  ASSUME TypeOK, EntriesFit, AllWhole, NoRetry, queue' = queue, NEW p \in Drivers \ Granted, Moves(p),
         InLoop(p), InLoop(p)', Obeying(p)
  PROVE  Obeying(p)'
<1> DEFINE m == local[p]
<1>1. /\ m.mem \in Nat /\ m.batch \subseteq DOMAIN queue /\ DOMAIN queue \subseteq Nat /\ m \in Memory
      /\ p \in Processes /\ \A i \in DOMAIN queue : queue[i].seq = i /\ queue[i].cmd # "retry"
  BY DriverFits DEF Memory, AllWhole, Whole, NoRetry
<1>2. CASE pc[p] = "consuming" /\ m.next = "left"
  <2>1. CASE Consumes(p)
    BY <1>2, <2>1 DEF Consumes, InLoop
  <2>2. CASE GoesOn(p)
    BY <1>2, <2>2 DEF GoesOn, Obeying
  <2> QED BY <1>2, <2>1, <2>2, LoopMove DEF Takes, Begins
<1>3. ASSUME NEW stop \in DOMAIN queue, queue[stop].cmd = "abort", stop > m.mem, pc[p] = "top"
      PROVE  Obeying(p)'
  <2>1. Scan(p) \/ Watch(p)
    <3>1. p \notin Clients /\ ~Crash(p)
      BY <1>1, ProcessAssumption, Went DEF Crash, InLoop
    <3> QED BY <1>3, <3>1 DEF Moves, Loop, Start, ScanDone, Await, Apply, Answer, AtRetry, Consume, StartNode,
          Finish, EndNode, Leave, Fail, ReadKeep, Park, Exit, Clear, Publish, TakeHandoff, PublishLate, Plan, Acquire, Admit,
          Resume, GiveBack, Claim
  <2>2. CASE Scan(p)
    <3>1. pc'[p] = "scanning" /\ local'[p] = [m EXCEPT !.batch = Unread(m.mem)]
      BY <1>1, <2>2, Went, Wrote DEF Scan
    <3>2. local'[p].batch = Unread(m.mem) /\ local'[p].mem = m.mem
      BY <1>1, <3>1 DEF Memory
    <3>3. stop \in Unread(m.mem)
      BY <1>1, <1>3 DEF Unread
    <3> QED BY <1>3, <3>1, <3>2, <3>3 DEF Obeying
  <2>3. CASE Watch(p)
    <3>1. pc' = pc /\ local'[p] = [m EXCEPT !.cancel = TRUE]
      BY <1>1, <2>3, Wrote DEF Watch
    <3>2. local'[p].mem = m.mem
      BY <1>1, <3>1 DEF Memory
    <3> QED BY <1>3, <3>1, <3>2 DEF Obeying
  <2> QED BY <2>1, <2>2, <2>3
<1>4. ASSUME NEW stop \in DOMAIN queue, queue[stop].cmd = "abort", stop > m.mem,
             pc[p] = "scanning", stop \in m.batch
      PROVE  Obeying(p)'
  <2>1. CASE Takes(p)
    <3> DEFINE i == local'[p].taking
    <3>1. /\ pc'[p] = "consuming" /\ local'[p].batch = m.batch /\ local'[p].mem = m.mem
          /\ i \in DOMAIN queue /\ local'[p].next \in {"scanning", "left"}
      BY <1>1, <1>4, <2>1 DEF Takes
    <3>2. CASE local'[p].next = "left"
      BY <3>1, <3>2 DEF Obeying
    <3>3. CASE local'[p].next = "scanning"
      <4>1. i <= stop /\ i # stop
        BY <1>4, <2>1, <3>3 DEF Takes, IsStop
      <4>2. i < stop
        BY <1>1, <3>1, <4>1
      <4> QED BY <1>4, <3>1, <3>3, <4>2 DEF Obeying
    <3> QED BY <3>1, <3>2, <3>3
  <2>2. CASE ScanDone(p) \/ AtRetry(p)
    <3>1. ~ScanDone(p)
      BY <1>4 DEF ScanDone
    <3>2. ~AtRetry(p)
      <4>1. m.batch \subseteq Nat /\ m.batch # {}
        BY <1>1, <1>4
      <4>2. Min(m.batch) \in DOMAIN queue
        BY <1>1, <4>1, MinIsFirst
      <4> QED BY <1>1, <4>2 DEF AtRetry
    <3> QED BY <2>2, <3>1, <3>2
  <2>3. CASE Watch(p)
    <3>1. pc' = pc /\ local'[p] = [m EXCEPT !.cancel = TRUE]
      BY <1>1, <2>3, Wrote DEF Watch
    <3>2. local'[p].mem = m.mem /\ local'[p].batch = m.batch
      BY <1>1, <3>1 DEF Memory
    <3> QED BY <1>4, <3>1, <3>2 DEF Obeying
  <2>4. CASE Apply(p) \/ Answer(p)
    <3>1. pc'[p] = "consuming"
      BY <1>1, <2>4, ApplyTakes DEF TakesFirst
    <3>2. Takes(p)
      BY <1>4, <3>1, LoopMove DEF Consumes, GoesOn, Begins
    <3> QED BY <2>1, <3>2
  <2>5. ScanDone(p) \/ AtRetry(p) \/ Watch(p) \/ Apply(p) \/ Answer(p)
    <3>1. p \notin Clients /\ ~Crash(p)
      BY <1>1, ProcessAssumption, Went DEF Crash, InLoop
    <3> QED BY <1>4, <3>1 DEF Moves, Loop, Start, Scan, Await, Consume, StartNode,
          Finish, EndNode, Leave, Fail, ReadKeep, Park, Exit, Clear, Publish, TakeHandoff, PublishLate, Plan, Acquire, Admit,
          Resume, GiveBack, Claim
  <2> QED BY <2>2, <2>3, <2>4, <2>5
<1>5. ASSUME NEW stop \in DOMAIN queue, queue[stop].cmd = "abort", stop > m.mem,
             pc[p] = "consuming", m.next = "scanning", stop \in m.batch, stop > m.taking
      PROVE  Obeying(p)'
  <2>1. m.taking \in DOMAIN queue
    BY <1>5 DEF EntriesFit
  <2>2. CASE Consumes(p)
    <3>1. /\ pc'[p] = "scanning" /\ local'[p].mem = m.taking
          /\ local'[p].batch = m.batch \ 1..m.taking
      BY <1>1, <1>5, <2>1, <2>2 DEF Consumes
    <3>2. stop \notin 1..m.taking
      BY <1>1, <1>5, <2>1
    <3> QED BY <1>5, <3>1, <3>2 DEF Obeying
  <2>3. CASE GoesOn(p)
    BY <1>5, <2>3 DEF GoesOn, Obeying
  <2> QED BY <1>5, <2>2, <2>3, LoopMove DEF Takes, Begins
<1> QED BY <1>2, <1>3, <1>4, <1>5 DEF Obeying

LEMMA StepKeepsNamed ==
  ASSUME TypeOK, EntriesFit, LocksFit, OneWriter, PostsFit, AheadFit, NamedFit,
         NEW p \in Processes, Moves(p)
  PROVE  NamedFit'
<1> SUFFICES ASSUME TakesLock, AllWhole', NoRetry', NEW q \in Drivers \ Granted PROVE Named(q)'
  BY DEF NamedFit
<1>1. QueueGrows /\ q \in Processes /\ q \notin Clients /\ \A c \in Clients : c \in Processes
  BY QueueMove, ProcessAssumption DEF Processes
<1>2. /\ \A i \in DOMAIN queue : i \in DOMAIN queue' /\ queue'[i] = queue[i]
      /\ AllWhole
  BY <1>1, QueueStays, WholeBefore
<1>3. NoRetry
  BY <1>2 DEF NoRetry
<1>4. \A r \in Drivers \ Granted : Named(r)
  BY <1>2, <1>3 DEF NamedFit
<1>5. p # q => pc'[q] = pc[q] /\ local'[q] = local[q]
  BY <1>1, OthersStay
<1>6. p \in Clients \/ queue' = queue
  BY QueueMove, ProcessAssumption DEF Processes
<1>7. ASSUME NEW c \in Clients, pc[c] \in {"rereading", "finalizing"}
      PROVE  \E stop \in DOMAIN queue : queue[stop].cmd = "abort" /\ IsAhead(q, stop)
  <2>1. Stopping(c)
    BY <1>7 DEF Stopping
  <2> QED BY <1>2, <2>1, StopIsWhere DEF AheadFit
<1>8. ASSUME InLoop(q)', driverPid' = q,
             Terminal' \/ \E c \in Clients : pc'[c] \in {"rereading", "finalizing"}
      PROVE  Obeying(q)'
  <2>1. CASE p = q /\ Claim(q)
    <3>1. /\ pc[q] = "entering" /\ pc'[q] = "top" /\ journal' = journal /\ queue' = queue
          /\ local'[q] = [local[q] EXCEPT !.mem = cursor, !.base = cursor]
      BY <1>1, <2>1, Went DEF Claim, TypeOK
    <3>2. local'[q].mem = cursor
      BY <3>1, DriverFits DEF Memory
    <3>3. \E stop \in DOMAIN queue : queue[stop].cmd = "abort" /\ stop > cursor
      <4>1. CASE Terminal
        BY <1>4, <3>1, <4>1 DEF Named
      <4>2. CASE ~Terminal
        <5>1. ~Terminal'
          BY <3>1, <4>2 DEF Terminal, Status, LatestLife, LifeEvents
        <5>2. PICK c \in Clients : pc'[c] \in {"rereading", "finalizing"}
          BY <1>8, <5>1
        <5>3. pc[c] = pc'[c]
          BY <1>1, <2>1, OthersStay
        <5>4. PICK stop \in DOMAIN queue : queue[stop].cmd = "abort" /\ IsAhead(q, stop)
          BY <1>7, <5>2, <5>3
        <5> QED BY <3>1, <5>4 DEF IsAhead, TypeOK
      <4> QED BY <4>1, <4>2
    <3> QED BY <3>1, <3>2, <3>3 DEF Obeying
  <2>2. CASE ~(p = q /\ Claim(q))
    <3>1. InLoop(q) /\ driverPid = q
      <4>1. InLoop(q)
        BY <1>8, <2>2, HowItEnters
      <4>2. p = q => ~Publish(q)
        BY <4>1 DEF Publish, InLoop
      <4> QED BY <1>8, <2>2, <4>1, <4>2, HowItEnters
    <3>2. CASE Obeying(q)
      <4>1. CASE p = q
        BY <1>2, <1>3, <1>6, <1>8, <1>1, <3>1, <3>2, <4>1, LoopObeys
      <4>2. CASE p # q
        BY <1>2, <1>5, <3>2, <4>2 DEF Obeying
      <4> QED BY <4>1, <4>2
    <3>3. CASE ~Obeying(q)
      <4>1. ~Terminal /\ \A c \in Clients : pc[c] \notin {"rereading", "finalizing"}
        BY <1>4, <3>1, <3>3 DEF Named
      <4>2. CASE Terminal'
        <5>1. CASE p \in Drivers /\ InLoop(p) /\ pc'[p] = "consuming" /\ local'[p].next = "left"
          <6>1. p = q
            BY <3>1, <5>1, AloneInTheLoop
          <6> QED BY <5>1, <6>1 DEF Obeying
        <5>2. CASE p \in Drivers /\ pc[p] \in {"ready", "working", "failing"} /\ pc'[p] \in {"left", "leaving"}
          <6>1. p # q
            BY <1>8, <5>2 DEF InLoop
          <6>2. ~Holding(p)
            BY <3>1, <5>2, <6>1, AloneInTheLoop
          <6> QED BY <5>2, <6>2 DEF Holding, DriverPlaces
        <5>3. CASE p \in Clients /\ StopFinalize(p)
          BY <4>1, <5>3 DEF StopFinalize
        <5> QED BY <4>1, <4>2, <5>1, <5>2, <5>3, WhoEnds
      <4>3. CASE \E c \in Clients : pc'[c] \in {"rereading", "finalizing"}
        <5>1. PICK c \in Clients : pc'[c] \in {"rereading", "finalizing"}
          BY <4>3
        <5>2. p = c
          BY <1>1, <4>1, <5>1, OthersStay
        <5>3. StopAsk(c) /\ ~DriverAlive
          <6>1. Ask(c) /\ c \notin Drivers
            BY <5>2, ProcessAssumption DEF Moves
          <6> QED BY <1>1, <4>1, <5>1, <6>1, Went DEF Ask, Count, Post, Stop, StopAsk, StopReread, StopFinalize,
                Pause, PauseAsk, PauseSync, PauseJournal
        <5> QED BY <1>1, <3>1, <5>3, ProcessAssumption DEF DriverAlive, Alive, InLoop
      <4> QED BY <1>8, <4>2, <4>3
    <3> QED BY <3>2, <3>3
  <2> QED BY <2>1, <2>2
<1>9. ASSUME pc'[q] = "entering", Terminal'
      PROVE  /\ \E stop \in DOMAIN queue' : queue'[stop].cmd = "abort" /\ stop > cursor'
             /\ \A c \in Clients : ~OnStop(c)'
  <2>1. pc[q] = "entering" /\ p # q
    <3>1. ~Resume(q)
      <4> SUFFICES ASSUME Resume(q) PROVE FALSE
        OBVIOUS
      <4> DEFINE e == Event("resumed", local[q].read, FALSE)
      <4>1. e \in Events /\ e.kind = "resumed" /\ Append1(e)
        BY EventIsTyped, DriverFits DEF Resume, Event, Kinds, Lifecycle, Memory
      <4> HIDE DEF e
      <4>2. Status' = "resumed"
        BY <4>1, LatestAfter DEF Lifecycle
      <4> QED BY <1>9, <4>2 DEF Terminal, Ended
    <3> QED BY <1>9, <3>1, HowItEnters
  <2>2. p \in Drivers => ~Holding(p) /\ ~InLoop(p)
    BY <2>1, AloneInTheLoop
  <2>3. p \in Drivers => ~Consume(p)
    BY <2>2 DEF Consume, InLoop
  <2>4. CASE Terminal
    <3>1. /\ \E stop \in DOMAIN queue : queue[stop].cmd = "abort" /\ stop > cursor
          /\ \A c \in Clients : ~OnStop(c)
      BY <1>4, <2>1, <2>4 DEF Named
    <3>2. cursor' = cursor
      <4>1. ~(p \in Clients /\ StopReread(p))
        BY <3>1 DEF OnStop, Stopping, StopReread
      <4> QED BY <2>3, <4>1, CursorMove
    <3>3. ASSUME NEW c \in Clients PROVE ~OnStop(c)'
      <4>1. CASE p # c
        <5>1. pc'[c] = pc[c] /\ local'[c] = local[c]
          BY <1>1, <4>1, OthersStay
        <5> QED BY <3>1, <5>1 DEF OnStop, Stopping
      <4>2. CASE p = c
        <5>1. Ask(c) /\ local[c] \in Memory /\ c \in Processes
          BY <1>1, <4>2, ProcessAssumption DEF Moves, TypeOK
        <5>2. ~OnStop(c)
          BY <3>1
        <5>3. CASE Count(c)
          <6>1. pc'[c] = "posting" /\ local'[c].next = pc[c] /\ pc[c] # "stopping"
            BY <5>1, <5>2, <5>3, Went, Wrote DEF Count, OnStop, Memory, TypeOK
          <6> QED BY <6>1 DEF OnStop, Stopping
        <5>4. CASE Stop(c)
          BY <2>4, <5>1, <5>4, Went DEF Stop, OnStop, Stopping
        <5>5. CASE Post(c)
          BY <5>1, <5>2, <5>5, Went DEF Post, OnStop, Stopping
        <5>6. CASE StopAsk(c) \/ StopReread(c) \/ StopFinalize(c)
          BY <5>2, <5>6 DEF StopAsk, StopReread, StopFinalize, OnStop, Stopping
        <5>7. CASE Pause(c) \/ PauseAsk(c) \/ PauseSync(c) \/ PauseJournal(c)
          <6>1. pc'[c] \in {"gone", "syncing", "looking", "pausing", "journaling"}
            BY <5>1, <5>7, Went DEF Pause, PauseAsk, PauseSync, PauseJournal
          <6> QED BY <6>1 DEF OnStop, Stopping
        <5> QED BY <5>1, <5>3, <5>4, <5>5, <5>6, <5>7 DEF Ask
      <4> QED BY <4>1, <4>2
    <3> QED BY <1>2, <3>1, <3>2, <3>3
  <2>5. CASE ~Terminal
    <3>1. p \in Clients /\ StopFinalize(p)
      BY <1>9, <2>2, <2>5, WhoEnds DEF Holding, DriverPlaces
    <3>2. Stopping(p) /\ UnderLock(p) /\ cursor' = cursor /\ queue' = queue /\ pc'[p] = "gone"
      BY <3>1, Went DEF StopFinalize, Stopping, UnderLock, ClientPlaces
    <3>3. PICK stop \in DOMAIN queue : queue[stop].cmd = "abort" /\ IsAhead(q, stop)
      BY <1>7, <3>1 DEF StopFinalize
    <3>4. stop > cursor
      BY <2>1, <3>3 DEF IsAhead, TypeOK
    <3>5. ASSUME NEW c \in Clients PROVE ~OnStop(c)'
      <4>1. CASE c = p
        BY <3>2, <4>1 DEF OnStop, Stopping
      <4>2. CASE c # p
        <5>1. pc'[c] = pc[c] /\ local'[c] = local[c]
          BY <1>1, <4>2, OthersStay
        <5>2. ~UnderLock(c)
          BY <3>1, <3>2, <4>2 DEF LocksFit
        <5> QED BY <5>1, <5>2 DEF OnStop, Stopping, UnderLock, ClientPlaces
      <4> QED BY <4>1, <4>2
    <3> QED BY <3>2, <3>3, <3>4, <3>5
  <2> QED BY <2>4, <2>5
<1> QED BY <1>8, <1>9 DEF Named

-----------------------------------------------------------------------------
(* The theorems *)

\* The invariant holds when the run starts: nothing is queued, nobody has died.
LEMMA InitIsRunInv == Init => RunInv
<1> SUFFICES ASSUME Init PROVE RunInv
  OBVIOUS
<1>1. OwnersInv /\ TypeOK /\ EntriesFit
  BY InitIsOwnersInv DEF OwnersInv
<1>2. /\ DOMAIN queue = {} /\ Len(queue) = 0 /\ cursor = 0
      /\ DOMAIN journal = {1} /\ journal[1].kind = "started" /\ journal[1].of = 0
  BY DEF Init, Event
<1>3. /\ \A p \in Drivers : pc[p] \in {"top", "idle"} /\ local[p] = Fresh
      /\ \A c \in Clients : pc[c] = "idle"
  BY DriverAssumption, ProcessAssumption DEF Init, Processes
<1>4. /\ Fresh.mem = 0 /\ Fresh.base = 0 /\ Fresh.batch = {} /\ ~Fresh.failed
  BY DEF Fresh
<1>5. Crashed = {} /\ IsFiniteSet(Crashed)
  BY <1>3, FS_EmptySet DEF Crashed
<1>6. Status = "started"
  BY <1>1, <1>2, LatestIsThere DEF Status, LifeEvents
<1>7. ~Terminal
  BY <1>6 DEF Terminal, Ended
<1>8. SeqsFit /\ PostsFit
  BY <1>2, <1>3, <1>4 DEF SeqsFit, PostsFit, Stopping
<1>9. HeardFit /\ PassedOverOnlyByAStop
  BY <1>2, <1>3, <1>4 DEF HeardFit, Heard, PassedOverOnlyByAStop, Passed, InLoop
<1>10. KeptFit
  BY <1>3, <1>6 DEF KeptFit
<1>11. CountFit
  BY <1>2, <1>3, <1>4, <1>5 DEF CountFit, Counted, InLoop
<1>12. AheadFit
  BY <1>3 DEF AheadFit, Stopping
<1>13. NamedFit
  BY <1>3, <1>7 DEF NamedFit, Named
<1> QED BY <1>1, <1>8, <1>9, <1>10, <1>11, <1>12, <1>13 DEF RunInv

\* Steps of the other run touch the busy lock only.
LEMMA QueueUntouched ==
  ASSUME SeqsFit, PostsFit, HeardFit, PassedOverOnlyByAStop, CountFit, AheadFit, NamedFit,
         UNCHANGED <<queue, cursor, journal, driverPid, pc, local>>
  PROVE  /\ SeqsFit' /\ PostsFit' /\ HeardFit' /\ PassedOverOnlyByAStop'
         /\ CountFit' /\ AheadFit' /\ NamedFit'
<1>1. SeqsFit' /\ PostsFit'
  BY DEF SeqsFit, PostsFit, Stopping, StopOf
<1>2. HeardFit' /\ PassedOverOnlyByAStop'
  BY DEF HeardFit, Heard, PassedOverOnlyByAStop, Passed, Whole, IsStop, EventsOf, LifeEvents, InLoop
<1>3. CountFit'
  BY DEF CountFit, Counted, Crashed, AllWhole, Whole, Times, EventsOf, InLoop
<1>4. AheadFit' /\ NamedFit'
  BY DEF AheadFit, IsAhead, AllWhole, Whole, Stopping, InLoop, NamedFit, Named, NoRetry, Obeying, OnStop,
         Terminal, Status, LatestLife, LifeEvents
<1> QED BY <1>1, <1>2, <1>3, <1>4

\* Every step keeps the invariant.
LEMMA StepKeepsRunInv ==
  ASSUME RunInv, [Next]_vars
  PROVE  RunInv'
<1>1. /\ TypeOK /\ EntriesFit /\ LocksFit /\ OneWriter
      /\ SeqsFit /\ PostsFit /\ HeardFit /\ PassedOverOnlyByAStop /\ KeptFit
      /\ CountFit /\ AheadFit /\ NamedFit
  BY DEF RunInv, OwnersInv
<1>2. OwnersInv'
  BY StepKeepsTypes, StepKeepsLocks, StepKeepsOneWriter, StepKeepsPlan DEF RunInv, OwnersInv
<1>3. ASSUME NEW p \in Processes, Moves(p)
      PROVE  RunInv'
  <2>1. SeqsFit' /\ PostsFit' /\ HeardFit'
    BY <1>1, <1>3, StepKeepsSeqs, StepKeepsPosts, StepKeepsHeard
  <2>2. PassedOverOnlyByAStop' /\ KeptFit'
    BY <1>1, <1>3, StepKeepsPassed, StepKeepsKept
  <2>3. CountFit' /\ AheadFit' /\ NamedFit'
    BY <1>1, <1>3, StepKeepsCount, StepKeepsAhead, StepKeepsNamed
  <2> QED BY <1>2, <2>1, <2>2, <2>3 DEF RunInv
<1>4. CASE OtherTakes \/ OtherLeaves
  <2>1. KeptFit'
    BY <1>1, <1>4, OtherKeepsKept
  <2>2. UNCHANGED <<queue, cursor, journal, driverPid, pc, local>>
    BY <1>4 DEF OtherTakes, OtherLeaves
  <2> QED BY <1>1, <1>2, <2>1, <2>2, QueueUntouched DEF RunInv
<1>5. CASE UNCHANGED vars
  <2>1. UNCHANGED <<queue, cursor, journal, driverPid, pc, local>> /\ workdir' = workdir
    BY <1>5 DEF vars
  <2>2. KeptFit'
    BY <1>1, <2>1 DEF KeptFit, Crashed, LifeEvents, Status, LatestLife, LatestKeep, WillPark
  <2> QED BY <1>1, <1>2, <2>1, <2>2, QueueUntouched DEF RunInv
<1> QED BY <1>3, <1>4, <1>5, NextIsOneMove

\* RunInv is inductive, and so holds in every state the run reaches.
THEOREM RunInvariant == Spec => []RunInv
BY InitIsRunInv, StepKeepsRunInv, PTL DEF Spec

\* scan_control: whatever the posts, drives, stops and crashes, a command that
\* control.cursor passes was journaled, or a stop or a pause that was, or came
\* to a run that had ended, is what passed it over.
THEOREM NothingIsPassedOver == Spec => []PassedOverOnlyByAStop
<1>1. RunInv => PassedOverOnlyByAStop
  BY DEF RunInv
<1> QED BY RunInvariant, <1>1, PTL

\* control.cursor: for any number of resumes and crashes, no entry of the queue
\* of a run that takes the busy lock is journaled more often than once and once
\* more for every crash.
THEOREM AppliedAtMostOnce == Spec => []AppliedOnce
<1>1. RunInv => AppliedOnce
  BY DEF RunInv, CountFit, AppliedOnce
<1> QED BY RunInvariant, <1>1, PTL

\* --keep-lock: the lock of a run whose pause keeps it is parked, on its way to
\* be, or with a resume that gives it back, and so never the other run's.
THEOREM KeptLocksHold == Spec => []KeptLockHolds
<1>1. RunInv => KeptLockHolds
  <2> SUFFICES ASSUME RunInv, Status = "paused", LatestKeep, TakesLock, Crashed = {},
                      \A i \in LifeEvents : journal[i].kind \notin Ended,
                      \A c \in Clients : pc[c] = "journaling" => Job[c] = "pause_keep"
               PROVE  workdir # OtherRun
    BY DEF KeptLockHolds
  <2>1. workdir = "parked" \/ \E p \in Drivers : workdir = p
    BY DEF RunInv, KeptFit
  <2> QED BY <2>1, ProcessAssumption
<1> QED BY RunInvariant, <1>1, PTL

\* stop_run, StopWatcher: a driver that driver.pid names starts no node of a
\* run a stop has ended, whether the drive applied the stop, the stop finalized
\* the run itself, or a resume claimed it in between.
THEOREM StopsAreHeeded == Spec => NamedDriverHeedsStops
<1> DEFINE Heeds == TakesLock /\ AllWhole /\ NoRetry =>
                      \A p \in Drivers \ Granted :
                        pc[p] = "ready" /\ pc'[p] = "working" /\ driverPid = p => ~Terminal
<1>1. RunInv => Heeds
  <2> SUFFICES ASSUME RunInv, TakesLock, AllWhole, NoRetry, NEW p \in Drivers \ Granted,
                      pc[p] = "ready", driverPid = p, Terminal
               PROVE  FALSE
    OBVIOUS
  <2>1. Named(p) /\ InLoop(p)
    BY DEF RunInv, NamedFit, InLoop
  <2> QED BY <2>1 DEF Named, Obeying
<1>2. Spec => [][Heeds]_vars
  BY RunInvariant, <1>1, PTL DEF Spec
<1> QED BY <1>2 DEF NamedDriverHeedsStops

=============================================================================
