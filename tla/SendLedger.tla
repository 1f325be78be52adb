----------------------------- MODULE SendLedger -----------------------------
(***************************************************************************)
(* The send-intent ledger (connector/intent) and the send-once gate around *)
(* a connector call (connector/call/send_once.rs): the intent of a send is *)
(* recorded in the run journal under the journal lock before its request   *)
(* leaves, and settled after it.  A repeat of the send is decided from the *)
(* ledger.                                                                 *)
(*                                                                         *)
(* The model covers one execution key: a plain node, or one item of a list *)
(* node.  The callers are the processes that call the connector (an agent  *)
(* starts several, a dead attempt leaves some behind); each holds its pid  *)
(* for good.  ledger is what Ledger::fold makes of the journal: an intent  *)
(* is identified by its position, and a settlement updates its record in   *)
(* place, as the fold does.  The service, the network and the clock are    *)
(* the environment.                                                        *)
(***************************************************************************)
EXTENDS Naturals, Sequences, FiniteSetsExt

CONSTANTS
  Callers,     \* processes that may call
  Keys,        \* intent keys of the one execution modelled
  NoKey,       \* the key of a process that calls nothing
  Mode,        \* the function's idempotency mode, by key
  OnUnknown,   \* the binding's on_unknown, by key
  ListItem,    \* whether the execution is an item of a list node (a push never is)
  Timeout,     \* timeout_sec of the function
  Grace,       \* DEADLINE_GRACE_MS
  Window,      \* window_sec of a key-mode function
  MaxCalls,    \* max_calls of the grant
  Timely       \* whether the clock waits for senders and service (see Tick)

\* Bounds of the model, not of the program.
CONSTANTS MaxIntents, MaxAttempts, MaxTime

ASSUME KeyAssumption == NoKey \notin Keys
ASSUME ModeAssumption ==
  Mode \in [Keys -> {"key", "marker", "ref", "none"}]
ASSUME PolicyAssumption == OnUnknown \in [Keys -> {"refuse", "resend"}]
ASSUME FlagAssumption == ListItem \in BOOLEAN /\ Timely \in BOOLEAN
ASSUME TimeAssumption == Timeout \in Nat /\ Grace \in Nat /\ Window \in Nat
ASSUME BoundAssumption ==
  MaxCalls \in Nat /\ MaxIntents \in Nat /\ MaxAttempts \in Nat /\ MaxTime \in Nat

VARIABLES
  ledger,    \* the intent records, in journal order
  passed,    \* the first position after the execution's last success, or 0
  attempt,   \* the number of the latest attempt
  open,      \* whether that attempt has not finished
  calls,     \* connector_call events journaled since that attempt started
  caller,    \* where each calling process is
  request,   \* what became of each intent's request on its way to the service
  acts,      \* the effects the service made: which intent's request, and when
  now,       \* the clock
  trail      \* history only: who allowed a repeat, who vouched, who was told

vars == <<ledger, passed, attempt, open, calls, caller, request, acts, now, trail>>

Ids == 1..Len(ledger)

-----------------------------------------------------------------------------
(* The ledger: connector/intent/ledger/mod.rs *)

Alive(c) == caller[c].pc # "dead"

\* A bug that reads a pushed ref like any other send: its sender's death ends it.
OrphanedAtDeath(i) ==
  /\ ledger[i].state = "pending"
  /\ now > ledger[i].deadline \/ ~Alive(ledger[i].pid)

\* A bug that trusts the deadline alone and never looks at the sender.
OrphanedAtDeadline(i) ==
  /\ ledger[i].state = "pending"
  /\ now > ledger[i].deadline /\ ~Alive(ledger[i].pid)

Orphaned(i) ==
  /\ ledger[i].state = "pending"
  /\ \/ now > ledger[i].deadline
     \/ Mode[ledger[i].key] # "ref" /\ ~Alive(ledger[i].pid)

EffectiveState(i) == IF Orphaned(i) THEN "unknown" ELSE ledger[i].state

\* root stands for the walk back along replay_of and resend_of.
ChainOf(i) == {j \in Ids : ledger[j].root = ledger[i].root}

SendOf(i) == {j \in ChainOf(i) : ledger[j].nonce = ledger[i].nonce}

Reading(members, state) == {i \in members : EffectiveState(i) = state}

VerdictState(members) ==
  IF Reading(members, "confirmed") # {} THEN "confirmed"
  ELSE IF Reading(members, "pending") # {} THEN "pending"
  ELSE IF Reading(members, "unknown") # {} THEN "unknown"
  ELSE "not_sent"

\* The latest member that says so.
VerdictMember(members) == Max(Reading(members, VerdictState(members)))

\* A push is its drive's own act: of a plain node and of no attempt, always
\* open, never replayed or resent.
IsPush(k) == Mode[k] = "ref"

IsItem(k) == ListItem /\ ~IsPush(k)

\* The sends an item left open before its last passed settlement.
OpenSends ==
  {i \in Ids : /\ i < passed /\ IsItem(ledger[i].key)
               /\ VerdictState(SendOf(i)) \in {"unknown", "pending"}}

\* A bug that starts an item's scope at its last success like a plain node's.
SuccessFloor(k) == passed

Floor(k) == IF IsItem(k) THEN Min(OpenSends \cup {passed}) ELSE passed

InScope(k) == {i \in Ids : i >= Floor(k) /\ ledger[i].key = k}

Tip(k) == Max(InScope(k))

TipChain(k) == ChainOf(Tip(k))

\* A bug that forgets that the replay must be answered inside the window.
WindowStillOpen(k) == now <= ledger[VerdictMember(TipChain(k))].nonce_ts + Window

CanReplay(k) == now + Timeout <= ledger[VerdictMember(TipChain(k))].nonce_ts + Window

DecideUnknown(k) ==
  CASE Mode[k] \in {"marker", "ref"} -> "reconcile"
    [] Mode[k] = "key" /\ CanReplay(k) -> "replay"
    [] \/ Mode[k] = "none"
       \/ Mode[k] = "key" /\ ~CanReplay(k)
         -> IF OnUnknown[k] = "resend" THEN "resend_unknown" ELSE "refuse_unknown"

\* A bug that sends again whatever the earlier send says.
BlindAdmission(k) ==
  IF InScope(k) = {} THEN "new" ELSE "resend"

Admission(k) ==
  IF InScope(k) = {} THEN "new"
  ELSE LET v == VerdictState(TipChain(k)) IN
       CASE v = "confirmed" -> "already_sent"
         [] v = "pending" -> "in_flight"
         [] v = "unknown" -> DecideUnknown(k)
         [] v = "not_sent" -> "resend"

-----------------------------------------------------------------------------
(* Settling and recording *)

\* settle(): confirmed is final, except for a person.
Settled(r, outcome, person) ==
  IF r.state = "confirmed" /\ ~person THEN r ELSE [r EXCEPT !.state = outcome]

Settle(i, outcome, person) ==
  ledger' = [ledger EXCEPT ![i] = Settled(@, outcome, person)]

\* A settlement the journal could not take leaves the record as it was.
TrySettle(i, outcome) == Settle(i, outcome, FALSE) \/ UNCHANGED ledger

\* A record and its links: replay_of repeats with the same nonce, resend_of
\* with a fresh one (named by the record's own position).
Draft(c, replay, resend) ==
  LET prev == IF replay # 0 THEN replay ELSE resend
      id == Len(ledger) + 1
      nonce == IF replay # 0 THEN ledger[VerdictMember(ChainOf(replay))].nonce ELSE id
  IN [key |-> caller[c].key, pid |-> c, state |-> "pending",
      deadline |-> now + Timeout + Grace,
      replay_of |-> replay, resend_of |-> resend, superseded_by |-> 0,
      root |-> IF prev = 0 THEN id ELSE ledger[prev].root,
      nonce |-> nonce,
      nonce_ts |-> IF replay # 0 THEN ledger[nonce].nonce_ts ELSE now]

Record(r) ==
  ledger' = Append(
    [i \in Ids |-> IF i \in {r.replay_of, r.resend_of}
                   THEN [ledger[i] EXCEPT !.superseded_by = Len(ledger) + 1]
                   ELSE ledger[i]], r)

-----------------------------------------------------------------------------
(* A call: connector/call/send_once.rs, and publish/intent.rs for a push *)

Idle == [pc |-> "idle", key |-> NoKey, claim |-> 0, intent |-> 0, got |-> "none"]

\* A call over its budget is refused with nothing recorded; a push has none.
InBudget(k) == IsPush(k) \/ calls < MaxCalls

\* The call proves it belongs to the node's current attempt (a push
\* belongs to none).
MaySend(c) ==
  \/ IsPush(caller[c].key)
  \/ open /\ caller[c].claim = attempt

Return(c) == caller' = [caller EXCEPT ![c] = Idle]

\* A process of the current attempt calls (for a push: the drive does).
Begin(c, k) ==
  /\ caller[c].pc = "idle"
  /\ open
  /\ caller' = [caller EXCEPT ![c] =
       [Idle EXCEPT !.pc = "calling", !.key = k, !.claim = attempt]]
  /\ UNCHANGED <<ledger, passed, attempt, open, calls, request, acts, now, trail>>

Sends == {"new", "resend", "resend_unknown", "replay"}

\* decide() under the journal lock: the call is admitted to send.
MayRecord(c) ==
  /\ caller[c].pc = "calling"
  /\ MaySend(c)
  /\ Admission(caller[c].key) \in Sends
  /\ InBudget(caller[c].key)
  /\ Len(ledger) < MaxIntents /\ now + Timeout + Grace < MaxTime

\* A bug that links a repeat to the member that decided, not to the chain's tip.
RecordOfMember(c) ==
  LET k == caller[c].key
      member == VerdictMember(TipChain(k)) IN
  CASE Admission(k) = "new" -> Draft(c, 0, 0)
    [] Admission(k) = "replay" -> Draft(c, member, 0)
    [] Admission(k) \in {"resend", "resend_unknown"} -> Draft(c, 0, member)

AdmittedRecord(c) ==
  LET k == caller[c].key IN
  CASE Admission(k) = "new" -> Draft(c, 0, 0)
    [] Admission(k) = "replay" -> Draft(c, Tip(k), 0)
    [] Admission(k) \in {"resend", "resend_unknown"} -> Draft(c, 0, Tip(k))

\* History: the on_unknown policy allowed this repeat.
NotePolicy(c) ==
  trail' = IF Admission(caller[c].key) = "resend_unknown"
           THEN [trail EXCEPT !.policy = @ \cup {Len(ledger) + 1}] ELSE trail

\* The intent is in the journal and synced: the request may be built.
Admit(c) ==
  /\ MayRecord(c)
  /\ Record(AdmittedRecord(c))
  /\ request' = Append(request, "unsent")
  /\ caller' = [caller EXCEPT ![c].pc = "admitted", ![c].intent = Len(ledger) + 1]
  /\ NotePolicy(c)
  /\ UNCHANGED <<passed, attempt, open, calls, acts, now>>

\* The line is in the journal but its sync failed, or the write broke off
\* with the line readable: nothing is sent.  The call path settles a whole
\* line as not sent when the journal takes it; a push settles nothing.
AdmitUnsynced(c) ==
  /\ MayRecord(c)
  /\ \E state \in (IF IsPush(caller[c].key) THEN {"pending"}
                   ELSE {"pending", "not_sent"}) :
       Record([AdmittedRecord(c) EXCEPT !.state = state])
  /\ request' = Append(request, "over")
  /\ Return(c)
  /\ NotePolicy(c)
  /\ UNCHANGED <<passed, attempt, open, calls, acts, now>>

\* The journal could not be locked, read or written: nothing is recorded.
JournalRefuses(c) ==
  /\ caller[c].pc = "calling"
  /\ Return(c)
  /\ UNCHANGED <<ledger, passed, attempt, open, calls, request, acts, now, trail>>

\* attempt_closed, in_flight, unknown_effect, or the budget is spent.
Refuse(c) ==
  LET k == caller[c].key IN
  /\ caller[c].pc = "calling"
  /\ \/ ~MaySend(c)
     \/ Admission(k) \in {"in_flight", "refuse_unknown"}
     \/ Admission(k) \in Sends /\ ~InBudget(k)
  /\ Return(c)
  /\ UNCHANGED <<ledger, passed, attempt, open, calls, request, acts, now, trail>>

NoteTold(i) == trail' = [trail EXCEPT !.told = @ \cup {ledger[i].root}]

AnswerAlreadySent(c) ==
  LET k == caller[c].key IN
  /\ caller[c].pc = "calling"
  /\ MaySend(c)
  /\ Admission(k) = "already_sent"
  /\ NoteTold(VerdictMember(TipChain(k)))
  /\ Return(c)
  /\ UNCHANGED <<ledger, passed, attempt, open, calls, request, acts, now>>

\* The lookup runs after the lock is released; it holds the record it read.
StartLookup(c) ==
  LET k == caller[c].key IN
  /\ caller[c].pc = "calling"
  /\ MaySend(c)
  /\ Admission(k) = "reconcile"
  /\ caller' = [caller EXCEPT ![c].pc = "looking",
                              ![c].intent = VerdictMember(TipChain(k))]
  /\ UNCHANGED <<ledger, passed, attempt, open, calls, request, acts, now, trail>>

\* The item carrying the marker, or the pushed commit on the remote, is there.
LookupFinds(c) ==
  LET i == caller[c].intent IN
  /\ caller[c].pc = "looking"
  /\ \E a \in acts : a.intent = i
  /\ TrySettle(i, "confirmed")
  /\ NoteTold(i)
  /\ Return(c)
  /\ UNCHANGED <<passed, attempt, open, calls, request, acts, now>>

\* A bug that takes a listing without the item for proof that it was not sent.
LookupDenies(c) ==
  LET i == caller[c].intent IN
  /\ caller[c].pc = "looking"
  /\ TrySettle(i, "not_sent")
  /\ Return(c)
  /\ UNCHANGED <<passed, attempt, open, calls, request, acts, now, trail>>

\* Not found, not readable, or more pages: a marker lookup journals unknown
\* and refuses the repeat; a push read back journals nothing.
LookupFails(c) ==
  LET i == caller[c].intent IN
  /\ caller[c].pc = "looking"
  /\ IF Mode[caller[c].key] = "marker" THEN TrySettle(i, "unknown")
                                       ELSE UNCHANGED ledger
  /\ Return(c)
  /\ UNCHANGED <<passed, attempt, open, calls, request, acts, now, trail>>

-----------------------------------------------------------------------------
(* The request, its answer and its settlement: connector/call/mod.rs *)

Leave(c) ==
  /\ caller[c].pc = "admitted"
  /\ request' = [request EXCEPT ![caller[c].intent] = "flying"]
  /\ caller' = [caller EXCEPT ![c].pc = "sent"]
  /\ UNCHANGED <<ledger, passed, attempt, open, calls, acts, now, trail>>

\* The request could not be rendered: it is settled as not sent.
BuildFails(c) ==
  /\ caller[c].pc = "admitted"
  /\ request' = [request EXCEPT ![caller[c].intent] = "over"]
  /\ TrySettle(caller[c].intent, "not_sent")
  /\ Return(c)
  /\ UNCHANGED <<passed, attempt, open, calls, acts, now, trail>>

\* A push that runs out of time is killed before it is called unknown.
KilledPush(c) == IsPush(caller[c].key) /\ request[caller[c].intent] = "flying"

\* A bug that takes a refusal for a duplicate of what was sent before (a 409).
HearConflict(c, got) ==
  LET i == caller[c].intent IN
  /\ caller[c].pc = "sent"
  /\ \/ got = "confirmed" /\ request[i] = "ok" /\ UNCHANGED request
     \/ got = "confirmed" /\ request[i] = "flying" /\ request' = [request EXCEPT ![i] = "over"]
  /\ caller' = [caller EXCEPT ![c].pc = "heard", ![c].got = got]
  /\ calls' = IF IsPush(caller[c].key) THEN calls ELSE calls + 1
  /\ UNCHANGED <<ledger, passed, attempt, open, acts, now, trail>>

\* What the caller makes of the answer, or of none: a timeout, a cut
\* connection, a 5xx and a key-mode 409 all leave it unknown; a refusal
\* means the service never acts on the request.  The call is journaled before
\* the settlement; a push journals none.
Hear(c, got) ==
  LET i == caller[c].intent IN
  /\ caller[c].pc = "sent"
  /\ \/ got = "confirmed" /\ request[i] = "ok" /\ UNCHANGED request
     \/ got = "not_sent" /\ request[i] = "flying" /\ request' = [request EXCEPT ![i] = "over"]
     \/ /\ got = "unknown"
        /\ request' = IF KilledPush(c) THEN [request EXCEPT ![i] = "over"] ELSE request
  /\ caller' = [caller EXCEPT ![c].pc = "heard", ![c].got = got]
  /\ calls' = IF IsPush(caller[c].key) THEN calls ELSE calls + 1
  /\ UNCHANGED <<ledger, passed, attempt, open, acts, now, trail>>

\* A bug that settles before the answer is heard.
FinishUnheard(c) ==
  /\ caller[c].pc = "sent"
  /\ TrySettle(caller[c].intent, caller[c].got)
  /\ Return(c)
  /\ UNCHANGED <<passed, attempt, open, calls, request, acts, now, trail>>

Finish(c) ==
  /\ caller[c].pc = "heard"
  /\ TrySettle(caller[c].intent, caller[c].got)
  /\ Return(c)
  /\ UNCHANGED <<passed, attempt, open, calls, request, acts, now, trail>>

\* The process ends wherever it is, and a request it sent flies on.  Only the
\* death of a process with an unsettled intent can be told from its silence.
Die(c) ==
  /\ Alive(c)
  /\ \E i \in Ids : ledger[i].pid = c /\ ledger[i].state = "pending"
  /\ request' = IF caller[c].pc = "admitted"
                THEN [request EXCEPT ![caller[c].intent] = "over"] ELSE request
  /\ caller' = [caller EXCEPT ![c] = [Idle EXCEPT !.pc = "dead"]]
  /\ UNCHANGED <<ledger, passed, attempt, open, calls, acts, now, trail>>

-----------------------------------------------------------------------------
(* The drive and a person *)

\* attempt_started: the budget counts from here.
StartAttempt ==
  /\ ~open /\ attempt < MaxAttempts
  /\ open' = TRUE /\ attempt' = attempt + 1 /\ calls' = 0
  /\ UNCHANGED <<ledger, passed, caller, request, acts, now, trail>>

\* The attempt ends; after a success the effect scope starts afresh.
EndAttempt(succeeded) ==
  /\ open
  /\ open' = FALSE
  /\ passed' = IF succeeded THEN Len(ledger) + 1 ELSE passed
  /\ UNCHANGED <<ledger, attempt, calls, caller, request, acts, now, trail>>

\* resolve_by_person: only the member that holds its send open.
Resolve(i, sent) ==
  /\ VerdictState(SendOf(i)) = "unknown"
  /\ VerdictMember(SendOf(i)) = i
  /\ Settle(i, IF sent THEN "confirmed" ELSE "not_sent", TRUE)
  /\ trail' = IF sent THEN [trail EXCEPT !.vouched = @ \cup {i}]
                      ELSE [trail EXCEPT !.released = @ \cup {i}]
  /\ UNCHANGED <<passed, attempt, open, calls, caller, request, acts, now>>

-----------------------------------------------------------------------------
(* The service, the network and the clock: outside the code *)

\* A key-mode service acts once on a key within the window.
Deduplicated(i) ==
  /\ Mode[ledger[i].key] = "key"
  /\ \E a \in acts : ledger[a.intent].nonce = ledger[i].nonce /\ now <= a.at + Window

ServiceAccepts(i) ==
  /\ request[i] = "flying"
  /\ request' = [request EXCEPT ![i] = "ok"]
  /\ acts' = IF Deduplicated(i) THEN acts ELSE acts \cup {[intent |-> i, at |-> now]}
  /\ UNCHANGED <<ledger, passed, attempt, open, calls, caller, now, trail>>

\* The request is lost, or refused with no one to hear it: it never acts.
Drop(i) ==
  /\ request[i] = "flying"
  /\ request' = [request EXCEPT ![i] = "over"]
  /\ UNCHANGED <<ledger, passed, attempt, open, calls, caller, acts, now, trail>>

\* The timing a key window and a push deadline rely on: an admitted request
\* leaves at once, the service acts within the call's timeout or not at all,
\* and a sender that lives settles by its deadline.
OnTime ==
  /\ \A c \in Callers : caller[c].pc # "admitted"
  /\ \A i \in Ids : request[i] = "flying" => now + Grace < ledger[i].deadline
  /\ \A c \in Callers : caller[c].pc \in {"sent", "heard"} =>
       now < ledger[caller[c].intent].deadline

Tick ==
  /\ now < MaxTime
  /\ Timely => OnTime
  /\ now' = now + 1
  /\ UNCHANGED <<ledger, passed, attempt, open, calls, caller, request, acts, trail>>

-----------------------------------------------------------------------------
Init ==
  /\ ledger = <<>> /\ request = <<>>
  /\ passed = 0 /\ attempt = 0 /\ open = FALSE /\ calls = 0
  /\ caller = [c \in Callers |-> Idle]
  /\ acts = {} /\ now = 0
  /\ trail = [policy |-> {}, released |-> {}, vouched |-> {}, told |-> {}]

Call(c) ==
  \/ \E k \in Keys : Begin(c, k)
  \/ Admit(c) \/ AdmitUnsynced(c) \/ JournalRefuses(c)
  \/ Refuse(c) \/ AnswerAlreadySent(c)
  \/ StartLookup(c) \/ LookupFinds(c) \/ LookupFails(c)
  \/ Leave(c) \/ BuildFails(c)
  \/ (\E got \in {"confirmed", "not_sent", "unknown"} : Hear(c, got))
  \/ Finish(c)

Next ==
  \/ \E c \in Callers : Call(c) \/ Die(c)
  \/ StartAttempt
  \/ \E succeeded \in BOOLEAN : EndAttempt(succeeded)
  \/ \E i \in Ids, sent \in BOOLEAN : Resolve(i, sent)
  \/ \E i \in Ids : ServiceAccepts(i) \/ Drop(i)
  \/ Tick

Spec == Init /\ [][Next]_vars

-----------------------------------------------------------------------------
(* Properties *)

Outcomes == {"confirmed", "not_sent", "unknown"}

IntentRecord ==
  [key : Keys, pid : Callers, state : Outcomes \cup {"pending"},
   deadline : Nat, replay_of : Nat, resend_of : Nat, superseded_by : Nat,
   root : Nat, nonce : Nat, nonce_ts : Nat]

Calling ==
  [pc : {"idle", "calling", "looking", "admitted", "sent", "heard", "dead"},
   key : Keys \cup {NoKey}, claim : Nat, intent : Nat,
   got : Outcomes \cup {"none"}]

\* The type of the state.
TypeOK ==
  /\ ledger \in Seq(IntentRecord)
  /\ request \in Seq({"unsent", "flying", "ok", "over"})
  /\ Len(request) = Len(ledger)
  /\ passed \in Nat /\ attempt \in Nat /\ calls \in Nat /\ now \in Nat
  /\ open \in BOOLEAN
  /\ caller \in [Callers -> Calling]
  /\ acts \subseteq [intent : Ids, at : Nat]
  /\ trail \in [policy : SUBSET Ids, released : SUBSET Ids,
                vouched : SUBSET Ids, told : SUBSET Ids]

\* The chain of an intent is a line: each repeat links to an earlier intent of
\* the same key and is the one intent that supersedes it, so the walks of
\* chain_of visit exactly the intents with the same root.
ChainIsALine ==
  \A i \in Ids :
    LET r == ledger[i]
        prev == IF r.replay_of # 0 THEN r.replay_of ELSE r.resend_of IN
    /\ r.replay_of = 0 \/ r.resend_of = 0
    /\ prev = 0 => r.root = i /\ r.nonce = i
    /\ prev # 0 => /\ prev \in 1..(i - 1)
                   /\ ledger[prev].superseded_by = i
                   /\ ledger[prev].key = r.key /\ ledger[prev].root = r.root
    /\ r.superseded_by # 0 =>
         /\ r.superseded_by \in (i + 1)..Len(ledger)
         /\ i \in {ledger[r.superseded_by].replay_of, ledger[r.superseded_by].resend_of}

\* Somebody allowed a second effect of the chain of i and j: the binding's
\* on_unknown: resend, or a person who said a send of it did not go out.
Excused(i) == \E m \in ChainOf(i) : m \in trail.policy \cup trail.released

\* No send acts twice: two effects of one chain of intents are never made
\* unless a person or the resend policy allowed a repeat ("never a blind
\* second send").
AtMostOnce ==
  \A a, b \in acts :
    a # b /\ ledger[a.intent].root = ledger[b.intent].root => Excused(a.intent)

\* A settlement that the processes journal is true: not_sent means no effect
\* exists and none will come, and confirmed means the send acted, unless a
\* person said so.  A retry relies on both.
SettlementsAreTrue ==
  \A i \in Ids :
    /\ ledger[i].state = "not_sent" /\ i \notin trail.released =>
         /\ request[i] = "over"
         /\ \A a \in acts : a.intent # i
    /\ ledger[i].state = "confirmed" /\ i \notin trail.vouched =>
         \E a \in acts : ledger[a.intent].nonce = ledger[i].nonce

\* While a process is still sending an intent before its deadline, no other
\* process sends an intent of the same chain.
OneSenderPerChain ==
  \A c, d \in Callers :
    /\ c # d
    /\ caller[c].pc \in {"admitted", "sent"} /\ caller[d].pc \in {"admitted", "sent"}
    /\ ledger[caller[c].intent].root = ledger[caller[d].intent].root
    => \E e \in {c, d} : now > ledger[caller[e].intent].deadline

\* A read back of a pushed ref never runs while the push may still move it.
LookupIsQuiet ==
  \A c \in Callers :
    caller[c].pc = "looking" /\ Mode[caller[c].key] = "ref" =>
      request[caller[c].intent] \notin {"unsent", "flying"}

\* A list item never starts a send afresh while an earlier send of the same
\* key is still open: what an earlier visit may have sent stays in scope.
NoFreshSendOverAnOpenOne ==
  [][\A k \in Keys :
       IsItem(k) /\ Len(ledger') > Len(ledger) /\ ledger'[Len(ledger')].key = k
         /\ ledger'[Len(ledger')].root = Len(ledger')
       => \A i \in Ids : ledger[i].key = k =>
            VerdictState(SendOf(i)) \notin {"unknown", "pending"}]_vars

\* The ledger keeps the promise of SendOnce.
Promise == INSTANCE SendOnce WITH
  Purposes <- 1..MaxIntents,
  allowed <- [p \in 1..MaxIntents |->
                IF p \in Ids /\ ledger[p].root = p
                THEN 1 + Cardinality(ChainOf(p) \cap trail.policy)
                       + Cardinality(ChainOf(p) \cap trail.released) ELSE 0],
  acted <- [p \in 1..MaxIntents |->
              Cardinality({a \in acts : ledger[a.intent].root = p})],
  vouched <- {ledger[i].root : i \in trail.vouched},
  told <- trail.told

KeepsPromise == Promise!Spec

-----------------------------------------------------------------------------
(* Why it holds: the inductive invariant, in named parts *)

\* The request of i never acts, now or later.
Harmless(i) == request[i] = "over" /\ \A a \in acts : a.intent # i

\* A nonce is named by the first intent that carries it; only a replay, in
\* key mode, carries an earlier one.
LinksOK ==
  \A i \in Ids : LET r == ledger[i] IN
    /\ r.root \in 1..i /\ r.nonce \in 1..i
    /\ ledger[r.root].key = r.key
    /\ ledger[r.nonce].root = r.root /\ ledger[r.nonce].nonce = r.nonce
    /\ ledger[r.nonce].nonce_ts = r.nonce_ts
    /\ r.nonce # i => Mode[r.key] = "key"

\* A replay is answered inside the window; in time, so is every request.
TimesOK ==
  \A i \in Ids : LET r == ledger[i] IN
    /\ r.nonce_ts <= now
    /\ r.nonce_ts + Timeout + Grace <= r.deadline
    /\ r.nonce = i => r.deadline = r.nonce_ts + Timeout + Grace
    /\ r.nonce # i => r.deadline <= r.nonce_ts + Window + Grace
    /\ Timely /\ request[i] = "unsent" => r.deadline = now + Timeout + Grace
    /\ Timely /\ request[i] = "flying" => now + Grace <= r.deadline

\* Where a process is agrees with what its request has done.
CallerFits(c) ==
  LET x == caller[c] IN
  /\ x.pc \in {"looking", "admitted", "sent", "heard"} => x.intent \in Ids
  /\ x.pc \in {"calling", "looking"} => x.key \in Keys
  /\ x.pc = "admitted" => request[x.intent] = "unsent"
  /\ x.pc \in {"admitted", "sent", "heard"} => ledger[x.intent].pid = c
  /\ x.pc = "heard" =>
       /\ x.got \in Outcomes
       /\ x.got = "not_sent" => Harmless(x.intent)
       /\ x.got = "confirmed" => request[x.intent] = "ok"

CallersOK ==
  /\ \A c \in Callers : CallerFits(c)
  /\ \A i \in Ids : request[i] = "unsent" =>
       \E c \in Callers : caller[c].pc = "admitted" /\ caller[c].intent = i

\* Every effect has its accepted request, and every accepted request its effect.
ActsOK ==
  /\ \A a \in acts : /\ request[a.intent] = "ok"
                     /\ ledger[a.intent].nonce_ts <= a.at /\ a.at <= now
  /\ \A i \in Ids : request[i] = "ok" =>
       \E a \in acts : ledger[a.intent].nonce = ledger[i].nonce

\* No nonce acts twice: the service deduplicates every replay.
OneActPerNonce ==
  \A a, b \in acts : ledger[a.intent].nonce = ledger[b.intent].nonce => a = b

\* Once a chain has moved on to a fresh nonce, the earlier ones are harmless,
\* unless a second effect was allowed.
EarlierAreHarmless ==
  \A i, j \in Ids :
    /\ i < j /\ ledger[i].root = ledger[j].root /\ ledger[i].nonce # ledger[j].nonce
    /\ ~Excused(i)
    => Harmless(i)

EffectsInv ==
  /\ TypeOK /\ LinksOK /\ TimesOK /\ CallersOK /\ ActsOK
  /\ SettlementsAreTrue /\ OneActPerNonce /\ EarlierAreHarmless

\* A second effect of the nonce of i was allowed: a person said a send of it did
\* not go out, or the policy repeated the last of its sends with a fresh nonce.
Charged(i) ==
  \E m \in ChainOf(i) :
    \/ m \in trail.released /\ ledger[m].nonce = ledger[i].nonce
    \/ /\ m \in trail.policy /\ ledger[m].resend_of \in Ids
       /\ ledger[ledger[m].resend_of].nonce = ledger[i].nonce

\* So every nonce of a chain that may still act, but for the latest, was paid
\* for on its own account.
EarlierAreCharged ==
  \A i, j \in Ids :
    /\ i < j /\ ledger[i].root = ledger[j].root /\ ledger[i].nonce # ledger[j].nonce
    => Harmless(i) \/ Charged(i)

Sending(c) == caller[c].pc \in {"admitted", "sent"}

\* Nobody settles an intent, or looks it up, while its sender is still sending
\* it before its deadline.
SendersFit ==
  \A c \in Callers : LET x == caller[c] IN
    /\ x.pc \in {"looking", "admitted", "sent", "heard"} => ledger[x.intent].key = x.key
    /\ Sending(c) => ledger[x.intent].state = "pending" \/ now > ledger[x.intent].deadline
    /\ x.pc = "looking" =>
         \A d \in Callers : Sending(d) /\ caller[d].intent = x.intent =>
           now > ledger[x.intent].deadline

\* In time, a push that is settled or read back is over.
ReadBacksFit ==
  Timely =>
    /\ \A i \in Ids : Mode[ledger[i].key] = "ref" /\ ledger[i].state # "pending" =>
         request[i] \in {"ok", "over"}
    /\ \A c \in Callers :
         caller[c].pc = "heard" /\ Mode[caller[c].key] = "ref" =>
           request[caller[c].intent] \in {"ok", "over"}
    /\ LookupIsQuiet

SendInv ==
  /\ EffectsInv /\ EarlierAreCharged /\ ChainIsALine
  /\ SendersFit /\ OneSenderPerChain /\ ReadBacksFit
  /\ Len(ledger) <= MaxIntents

\* The clock moves: all the fairness the ledger needs.
FairSpec == Spec /\ WF_vars(Tick)

\* A send in flight is settled or reads as unknown in the end, also when its
\* sender hangs: a repeat is not refused as in flight for ever.
FlightsEnd ==
  \A i \in 1..MaxIntents :
    (i \in Ids /\ ledger[i].state = "pending") ~> (i \in Ids /\ EffectiveState(i) # "pending")
=============================================================================
