------------------------- MODULE SendLedger_proofs -------------------------
(***************************************************************************)
(* Proofs about SendLedger, for every value of its constants: the effects  *)
(* of its calls, the chains of intents, who is sending and what is read    *)
(* back, and that the ledger implements SendOnce: the effects of a chain   *)
(* are counted by the nonces that may act, and each of those but the       *)
(* latest was paid for.                                                    *)
(***************************************************************************)
EXTENDS SendLedger, TLAPS, WellFoundedInduction, FiniteSetTheorems

-----------------------------------------------------------------------------
(* The latest member of a set of positions *)

\* Max picks the latest of a nonempty set of ledger positions, as the code's
\* reverse searches for a tip and for a verdict's member do.
LEMMA MaxIsLatest ==
  ASSUME NEW n \in Nat, NEW S, S \subseteq 1..n, S # {}
  PROVE  Max(S) \in S /\ \A y \in S : y <= Max(S)
<1> DEFINE Below == {n - i : i \in S}
           Less == {ss \in Nat \X Nat : ss[1] < ss[2]}
<1>1. IsWellFoundedOn(Less, Nat)
  BY NatLessThanWellFounded DEF OpToRel
<1>2. Below \subseteq Nat /\ Below # {}
  <2>1. \A i \in S : i \in 1..n
    OBVIOUS
  <2>2. \A i \in S : n - i \in Nat
    BY <2>1
  <2> QED BY <2>2
<1>3. \E x \in Below : \A y \in Below : <<y, x>> \notin Less
  <2> HIDE DEF Below, Less
  <2> QED BY <1>1, <1>2, WFMin
<1>4. PICK x \in Below : \A y \in Below : <<y, x>> \notin Less
  BY <1>3
<1>5. PICK i \in S : x = n - i
  BY <1>4
<1>6. \A j \in S : j <= i
  <2> SUFFICES ASSUME NEW j \in S, ~(j <= i) PROVE FALSE
    OBVIOUS
  <2>1. i \in 1..n /\ j \in 1..n
    OBVIOUS
  <2>2. n - j \in Nat /\ n - i \in Nat /\ n - j < n - i
    BY <2>1
  <2>3. <<n - j, n - i>> \in Less
    BY <2>2
  <2> QED BY <2>3, <1>4, <1>5
<1>7. \E m \in S : \A y \in S : m >= y
  BY <1>6
<1> QED BY <1>7 DEF Max

-----------------------------------------------------------------------------
(* What the ledger's readings return *)

\* Every position holds an intent record.
LEMMA RecordsAreTyped ==
  ASSUME TypeOK, NEW i \in Ids
  PROVE  /\ ledger[i] \in IntentRecord
         /\ ledger[i].state \in {"confirmed", "pending", "unknown", "not_sent"}
         /\ ledger[i].key \in Keys /\ ledger[i].pid \in Callers
         /\ ledger[i].deadline \in Nat /\ ledger[i].root \in Nat
         /\ ledger[i].nonce \in Nat /\ ledger[i].nonce_ts \in Nat
<1>1. ledger[i] \in IntentRecord
  BY DEF TypeOK, Ids
<1> QED BY <1>1 DEF IntentRecord, Outcomes

\* A verdict is held by a member of the set, the latest that reads so; an
\* unknown verdict has no member confirmed or in flight, and under a verdict
\* of not sent every member was settled so.
LEMMA VerdictIsHeld ==
  ASSUME TypeOK, NEW S, S \subseteq Ids, S # {}
  PROVE  /\ VerdictMember(S) \in S
         /\ VerdictState(S) = "unknown" =>
              \A j \in S : j <= VerdictMember(S) \/ ledger[j].state = "not_sent"
         /\ VerdictState(S) = "not_sent" => \A j \in S : ledger[j].state = "not_sent"
         /\ VerdictState(S) \in {"confirmed", "pending", "unknown", "not_sent"}
<1>1. \A j \in S : /\ EffectiveState(j) \in {"confirmed", "pending", "unknown", "not_sent"}
                   /\ EffectiveState(j) = "not_sent" => ledger[j].state = "not_sent"
  <2> SUFFICES ASSUME NEW j \in S
               PROVE  /\ EffectiveState(j) \in {"confirmed", "pending", "unknown", "not_sent"}
                      /\ EffectiveState(j) = "not_sent" => ledger[j].state = "not_sent"
    OBVIOUS
  <2>1. ledger[j].state \in {"confirmed", "pending", "unknown", "not_sent"}
    BY RecordsAreTyped
  <2> QED BY <2>1 DEF EffectiveState
<1>2. Reading(S, VerdictState(S)) # {}
  BY <1>1 DEF VerdictState, Reading
<1>3. Len(ledger) \in Nat /\ S \subseteq 1..Len(ledger)
  BY DEF TypeOK, Ids
<1>4. Reading(S, VerdictState(S)) \subseteq S
  BY DEF Reading
<1>5. /\ VerdictMember(S) \in Reading(S, VerdictState(S))
      /\ \A j \in Reading(S, VerdictState(S)) : j <= VerdictMember(S)
  BY <1>2, <1>3, <1>4, MaxIsLatest DEF VerdictMember
<1>6. VerdictState(S) = "unknown" =>
        Reading(S, "confirmed") = {} /\ Reading(S, "pending") = {}
  BY DEF VerdictState
<1>7. VerdictState(S) = "not_sent" =>
        \A state \in {"confirmed", "pending", "unknown"} : Reading(S, state) = {}
  BY DEF VerdictState
<1>8. VerdictState(S) = "unknown" =>
        \A j \in S : j <= VerdictMember(S) \/ ledger[j].state = "not_sent"
  BY <1>1, <1>5, <1>6 DEF Reading
<1>9. VerdictState(S) = "not_sent" => \A j \in S : ledger[j].state = "not_sent"
  BY <1>1, <1>7 DEF Reading
<1>10. VerdictState(S) \in {"confirmed", "pending", "unknown", "not_sent"}
  BY DEF VerdictState
<1> QED BY <1>4, <1>5, <1>8, <1>9, <1>10

\* The tip of a key's sends in scope is one of them, and its chain holds it.
LEMMA TipIsInScope ==
  ASSUME TypeOK, NEW k \in Keys, InScope(k) # {}
  PROVE  /\ Tip(k) \in Ids /\ ledger[Tip(k)].key = k
         /\ TipChain(k) \subseteq Ids /\ Tip(k) \in TipChain(k)
<1>1. Len(ledger) \in Nat /\ InScope(k) \subseteq 1..Len(ledger)
  BY DEF TypeOK, Ids, InScope
<1>2. Tip(k) \in InScope(k)
  BY <1>1, MaxIsLatest DEF Tip
<1> QED BY <1>2 DEF InScope, TipChain, ChainOf

\* The root of a record and the first record of its nonce are in the ledger.
LEMMA LinkFacts ==
  ASSUME TypeOK, LinksOK, NEW i \in Ids
  PROVE  /\ ledger[i].root \in Ids /\ ledger[ledger[i].root].key = ledger[i].key
         /\ ledger[i].nonce \in Ids
         /\ ledger[ledger[i].nonce].root = ledger[i].root
         /\ ledger[ledger[i].nonce].nonce = ledger[i].nonce
         /\ ledger[ledger[i].nonce].nonce_ts = ledger[i].nonce_ts
<1>1. Ids = 1..Len(ledger) /\ Len(ledger) \in Nat /\ i \in 1..Len(ledger)
  BY DEF TypeOK, Ids
<1>2. ledger[i].root \in 1..i /\ ledger[i].nonce \in 1..i
  BY DEF LinksOK
<1>3. ledger[i].root \in Ids /\ ledger[i].nonce \in Ids
  BY <1>1, <1>2
<1> QED BY <1>3 DEF LinksOK

-----------------------------------------------------------------------------
(* What the two ways of changing the ledger leave alone *)

\* The links, the sender and the times of a record never change.
SameIntent(r, s) ==
  /\ r.key = s.key /\ r.pid = s.pid /\ r.deadline = s.deadline
  /\ r.root = s.root /\ r.nonce = s.nonce /\ r.nonce_ts = s.nonce_ts
  /\ r.replay_of = s.replay_of /\ r.resend_of = s.resend_of

\* The ledger gained the record r.
Gained(r) ==
  /\ ledger' \in Seq(IntentRecord)
  /\ Len(ledger') = Len(ledger) + 1
  /\ ledger'[Len(ledger) + 1] = r
  /\ \A j \in Ids : /\ SameIntent(ledger'[j], ledger[j])
                    /\ ledger'[j].state = ledger[j].state
                    /\ ledger'[j].superseded_by =
                         IF j \in {r.replay_of, r.resend_of} THEN Len(ledger) + 1
                         ELSE ledger[j].superseded_by

\* The ledger's intent i may have been settled with the outcome.
SettledAs(i, outcome) ==
  /\ ledger' \in Seq(IntentRecord)
  /\ Len(ledger') = Len(ledger)
  /\ \A j \in Ids : /\ SameIntent(ledger'[j], ledger[j])
                    /\ ledger'[j].superseded_by = ledger[j].superseded_by
                    /\ \/ ledger'[j].state = ledger[j].state
                       \/ j = i /\ ledger'[j].state = outcome

\* Recording an intent appends it and changes no state.
LEMMA RecordGains ==
  ASSUME TypeOK, NEW r \in IntentRecord, Record(r)
  PROVE  Gained(r)
<1> DEFINE n == Len(ledger)
           linked == [i \in Ids |-> IF i \in {r.replay_of, r.resend_of}
                        THEN [ledger[i] EXCEPT !.superseded_by = n + 1] ELSE ledger[i]]
<1>1. n \in Nat /\ Ids = 1..n
  BY DEF TypeOK, Ids
<1>2. \A i \in Ids : /\ linked[i] \in IntentRecord
                     /\ SameIntent(linked[i], ledger[i])
                     /\ linked[i].state = ledger[i].state
                     /\ linked[i].superseded_by =
                          IF i \in {r.replay_of, r.resend_of} THEN n + 1
                          ELSE ledger[i].superseded_by
  <2> SUFFICES ASSUME NEW i \in Ids
               PROVE  /\ linked[i] \in IntentRecord
                      /\ SameIntent(linked[i], ledger[i])
                      /\ linked[i].state = ledger[i].state
                      /\ linked[i].superseded_by =
                           IF i \in {r.replay_of, r.resend_of} THEN n + 1
                           ELSE ledger[i].superseded_by
    OBVIOUS
  <2>1. ledger[i] \in IntentRecord /\ n + 1 \in Nat
    BY <1>1, RecordsAreTyped
  <2>2. CASE i \in {r.replay_of, r.resend_of}
    <3>1. linked[i] = [ledger[i] EXCEPT !.superseded_by = n + 1]
      BY <2>2
    <3> QED BY <2>1, <3>1 DEF IntentRecord, SameIntent
  <2>3. CASE i \notin {r.replay_of, r.resend_of}
    BY <2>1, <2>3 DEF SameIntent
  <2> QED BY <2>2, <2>3
<1>3. linked \in Seq(IntentRecord) /\ Len(linked) = n
  <2>1. linked \in [1..n -> IntentRecord]
    BY <1>1, <1>2
  <2> QED BY <1>1, <2>1
<1>4. ledger' = Append(linked, r)
  BY DEF Record
<1>5. \A i \in Ids : ledger'[i] = linked[i]
  BY <1>1, <1>3, <1>4
<1> HIDE DEF linked
<1> QED BY <1>1, <1>2, <1>3, <1>4, <1>5 DEF Gained

\* A settlement changes one record's state, and only to its outcome.
LEMMA SettleSettles ==
  ASSUME TypeOK, NEW i \in Ids, NEW outcome \in Outcomes, NEW person \in BOOLEAN,
         Settle(i, outcome, person) \/ UNCHANGED ledger
  PROVE  SettledAs(i, outcome)
<1>1. Len(ledger) \in Nat /\ Ids = 1..Len(ledger)
  BY DEF TypeOK, Ids
<1>2. CASE UNCHANGED ledger
  BY <1>2 DEF TypeOK, SettledAs, SameIntent
<1>3. CASE Settle(i, outcome, person)
  <2>1. ledger[i] \in IntentRecord
    BY RecordsAreTyped
  <2>2. /\ Settled(ledger[i], outcome, person) \in IntentRecord
        /\ SameIntent(Settled(ledger[i], outcome, person), ledger[i])
        /\ Settled(ledger[i], outcome, person).superseded_by = ledger[i].superseded_by
        /\ Settled(ledger[i], outcome, person).state \in {ledger[i].state, outcome}
    BY <2>1 DEF Settled, IntentRecord, SameIntent
  <2>3. ledger' = [ledger EXCEPT ![i] = Settled(ledger[i], outcome, person)]
    BY <1>3 DEF Settle
  <2>4. ledger' \in Seq(IntentRecord) /\ Len(ledger') = Len(ledger)
    BY <1>1, <2>2, <2>3 DEF TypeOK
  <2>5. \A j \in Ids : /\ j # i => ledger'[j] = ledger[j]
                       /\ j = i => ledger'[j] = Settled(ledger[i], outcome, person)
    BY <1>1, <2>3 DEF TypeOK
  <2> QED BY <2>2, <2>4, <2>5 DEF SettledAs, SameIntent
<1> QED BY <1>2, <1>3

-----------------------------------------------------------------------------
(* What an admission may record *)

\* A first send.
FirstSend(r) ==
  r.root = Len(ledger) + 1 /\ r.nonce = Len(ledger) + 1 /\ r.nonce_ts = now

\* A repeat with a fresh nonce: the policy allows it, or the whole chain was
\* settled as not sent.
FreshRepeat(c, r) ==
  /\ r.nonce = Len(ledger) + 1 /\ r.nonce_ts = now
  /\ \E t \in Ids :
       /\ r.root = ledger[t].root /\ ledger[t].key = r.key
       /\ \/ Admission(caller[c].key) = "resend_unknown"
          \/ \A j \in ChainOf(t) : ledger[j].state = "not_sent"

\* A replay of the latest open send, whose window it can be answered in; what
\* came after that send was settled as not sent.
ReplayOf(r) ==
  \E t, m \in Ids :
    /\ r.root = ledger[t].root /\ ledger[t].key = r.key /\ ledger[m].root = ledger[t].root
    /\ r.nonce = ledger[m].nonce /\ r.nonce_ts = ledger[m].nonce_ts
    /\ Mode[r.key] = "key" /\ now + Timeout <= r.nonce_ts + Window
    /\ \A j \in ChainOf(t) : j <= m \/ ledger[j].state = "not_sent"

Admissible(c, r) ==
  /\ r \in IntentRecord
  /\ r.key = caller[c].key /\ r.pid = c
  /\ r.deadline = now + Timeout + Grace
  /\ FirstSend(r) \/ FreshRepeat(c, r) \/ ReplayOf(r)

LEMMA FirstIsAdmissible ==
  ASSUME TypeOK, NEW c \in Callers, caller[c].key \in Keys
  PROVE  Admissible(c, Draft(c, 0, 0)) /\ Draft(c, 0, 0).state = "pending"
<1>1. Len(ledger) + 1 \in Nat /\ now \in Nat /\ now + Timeout + Grace \in Nat
  BY TimeAssumption DEF TypeOK
<1> QED BY <1>1 DEF Draft, Admissible, FirstSend, IntentRecord, Outcomes

LEMMA ResendIsAdmissible ==
  ASSUME TypeOK, NEW c \in Callers, NEW t \in Ids, caller[c].key = ledger[t].key,
         \/ Admission(caller[c].key) = "resend_unknown"
         \/ \A j \in ChainOf(t) : ledger[j].state = "not_sent"
  PROVE  Admissible(c, Draft(c, 0, t)) /\ Draft(c, 0, t).state = "pending"
<1>1. /\ Len(ledger) + 1 \in Nat /\ now \in Nat /\ now + Timeout + Grace \in Nat
      /\ t \in Nat /\ t # 0 /\ ledger[t].root \in Nat /\ ledger[t].key \in Keys
  BY TimeAssumption, RecordsAreTyped DEF TypeOK, Ids
<1>2. Draft(c, 0, t) =
        [key |-> caller[c].key, pid |-> c, state |-> "pending",
         deadline |-> now + Timeout + Grace,
         replay_of |-> 0, resend_of |-> t, superseded_by |-> 0,
         root |-> ledger[t].root, nonce |-> Len(ledger) + 1, nonce_ts |-> now]
  BY <1>1 DEF Draft
<1>3. Draft(c, 0, t) \in IntentRecord
  BY <1>1, <1>2 DEF IntentRecord, Outcomes
<1>4. FreshRepeat(c, Draft(c, 0, t))
  BY <1>2 DEF FreshRepeat
<1> QED BY <1>2, <1>3, <1>4 DEF Admissible

LEMMA ReplayIsAdmissible ==
  ASSUME TypeOK, LinksOK, NEW c \in Callers, NEW t \in Ids, NEW m \in Ids,
         caller[c].key = ledger[t].key, m = VerdictMember(ChainOf(t)),
         ledger[m].root = ledger[t].root, Mode[ledger[t].key] = "key",
         now + Timeout <= ledger[m].nonce_ts + Window,
         \A j \in ChainOf(t) : j <= m \/ ledger[j].state = "not_sent"
  PROVE  Admissible(c, Draft(c, t, 0)) /\ Draft(c, t, 0).state = "pending"
<1>1. /\ now \in Nat /\ now + Timeout + Grace \in Nat
      /\ t \in Nat /\ t # 0 /\ ledger[t].root \in Nat /\ ledger[t].key \in Keys
      /\ ledger[m].nonce \in Nat /\ ledger[m].nonce_ts \in Nat
  <2>1. now \in Nat /\ now + Timeout + Grace \in Nat /\ t \in Nat /\ t # 0
    BY TimeAssumption DEF TypeOK, Ids
  <2> QED BY <2>1, RecordsAreTyped
<1>2. ledger[ledger[m].nonce].nonce_ts = ledger[m].nonce_ts
  BY DEF LinksOK
<1>3. Draft(c, t, 0) =
        [key |-> caller[c].key, pid |-> c, state |-> "pending",
         deadline |-> now + Timeout + Grace,
         replay_of |-> t, resend_of |-> 0, superseded_by |-> 0,
         root |-> ledger[t].root, nonce |-> ledger[m].nonce,
         nonce_ts |-> ledger[m].nonce_ts]
  BY <1>1, <1>2 DEF Draft
<1>4. Draft(c, t, 0) \in IntentRecord
  BY <1>1, <1>3 DEF IntentRecord, Outcomes
<1>5. ReplayOf(Draft(c, t, 0))
  BY <1>3 DEF ReplayOf
<1> QED BY <1>3, <1>4, <1>5 DEF Admissible

\* What the gate records for an admitted call.
LEMMA AdmittedIsAdmissible ==
  ASSUME TypeOK, LinksOK, NEW c \in Callers, caller[c].key \in Keys, MayRecord(c)
  PROVE  Admissible(c, AdmittedRecord(c)) /\ AdmittedRecord(c).state = "pending"
<1> DEFINE k == caller[c].key
           t == Tip(k)
           m == VerdictMember(ChainOf(t))
           v == VerdictState(TipChain(k))
<1>1. Admission(k) \in {"new", "resend", "resend_unknown", "replay"}
  BY DEF MayRecord, Sends
<1>2. CASE Admission(k) = "new"
  BY <1>2, FirstIsAdmissible DEF AdmittedRecord
<1>3. CASE Admission(k) # "new"
  <2>1. InScope(k) # {}
    BY <1>3 DEF Admission
  <2>2. /\ t \in Ids /\ ledger[t].key = k
        /\ TipChain(k) \subseteq Ids /\ t \in TipChain(k) /\ TipChain(k) = ChainOf(t)
    BY <2>1, TipIsInScope DEF TipChain
  <2>3. /\ m \in ChainOf(t)
        /\ v = "unknown" =>
             \A j \in ChainOf(t) : j <= m \/ ledger[j].state = "not_sent"
        /\ v = "not_sent" => \A j \in ChainOf(t) : ledger[j].state = "not_sent"
        /\ v \in {"confirmed", "pending", "unknown", "not_sent"}
    <3> HIDE DEF k, t
    <3> QED BY <2>2, VerdictIsHeld
  <2>4. Admission(k) = CASE v = "confirmed" -> "already_sent"
                         [] v = "pending" -> "in_flight"
                         [] v = "unknown" -> DecideUnknown(k)
                         [] v = "not_sent" -> "resend"
    BY <2>1 DEF Admission
  <2>5. m \in Ids /\ ledger[m].root = ledger[t].root
    BY <2>3 DEF ChainOf
  <2>6. CASE Admission(k) = "replay"
    <3>1. v = "unknown" /\ DecideUnknown(k) = "replay"
      <4> HIDE DEF v, k
      <4> QED BY <2>3, <2>4, <2>6
    <3>2. Mode[k] = "key" /\ CanReplay(k)
      <4>1. Mode[k] \in {"key", "marker", "ref", "none"}
        BY ModeAssumption
      <4> HIDE DEF k
      <4> QED BY <3>1, <4>1 DEF DecideUnknown
    <3>3. now + Timeout <= ledger[m].nonce_ts + Window
      BY <3>2, <2>2 DEF CanReplay
    <3>4. AdmittedRecord(c) = Draft(c, t, 0)
      BY <2>6 DEF AdmittedRecord
    <3> HIDE DEF t, m, v
    <3> QED BY <2>2, <2>3, <2>5, <3>1, <3>2, <3>3, <3>4, ReplayIsAdmissible DEF m
  <2>7. CASE Admission(k) \in {"resend", "resend_unknown"}
    <3>1. \/ Admission(k) = "resend_unknown"
          \/ \A j \in ChainOf(t) : ledger[j].state = "not_sent"
      <4>1. DecideUnknown(k) # "resend"
        <5>1. Mode[k] \in {"key", "marker", "ref", "none"}
          BY ModeAssumption
        <5> HIDE DEF k
        <5> QED BY <5>1 DEF DecideUnknown
      <4> HIDE DEF v, k, t, m
      <4> QED BY <2>3, <2>4, <2>7, <4>1
    <3>2. AdmittedRecord(c) = Draft(c, 0, t)
      BY <2>7 DEF AdmittedRecord
    <3> HIDE DEF t
    <3> QED BY <2>2, <3>1, <3>2, ResendIsAdmissible
  <2> QED BY <1>1, <1>3, <2>6, <2>7
<1> QED BY <1>2, <1>3

-----------------------------------------------------------------------------
(* The frame most steps share *)

\* No intent is recorded.
SameLedger == Len(ledger') = Len(ledger) /\ \A j \in Ids : SameIntent(ledger'[j], ledger[j])

\* A request leaves or ends; none is accepted.
RequestsAdvance ==
  /\ Len(request') = Len(request)
  /\ \A i \in Ids : \/ request'[i] = request[i]
                    \/ request[i] = "unsent" /\ request'[i] \in {"flying", "over"}
                    \/ request[i] = "flying" /\ request'[i] = "over"

\* A step that records nothing, has no effect at the service and takes no time.
Calm ==
  /\ SameLedger /\ RequestsAdvance
  /\ UNCHANGED <<acts, now>>
  /\ trail.policy \subseteq trail'.policy /\ trail.released \subseteq trail'.released
  /\ trail.vouched \subseteq trail'.vouched

\* What every step is proved to preserve, the one part that needs timing apart.
CoreInv ==
  /\ TypeOK /\ LinksOK /\ TimesOK /\ CallersOK /\ ActsOK
  /\ SettlementsAreTrue /\ EarlierAreHarmless

LEMMA CalmKeepsLinks ==
  ASSUME TypeOK, LinksOK, SameLedger
  PROVE  LinksOK'
<1>1. Ids' = Ids /\ Ids = 1..Len(ledger) /\ Len(ledger) \in Nat
  BY DEF SameLedger, Ids, TypeOK
<1> SUFFICES ASSUME NEW i \in Ids
             PROVE  LET r == ledger'[i] IN
                    /\ r.root \in 1..i /\ r.nonce \in 1..i
                    /\ ledger'[r.root].key = r.key
                    /\ ledger'[r.nonce].root = r.root /\ ledger'[r.nonce].nonce = r.nonce
                    /\ ledger'[r.nonce].nonce_ts = r.nonce_ts
                    /\ r.nonce # i => Mode[r.key] = "key"
  BY <1>1 DEF LinksOK
<1>2. ledger[i].root \in 1..i /\ ledger[i].nonce \in 1..i
  BY DEF LinksOK
<1>3. ledger[i].root \in Ids /\ ledger[i].nonce \in Ids
  BY <1>1, <1>2
<1>4. /\ SameIntent(ledger'[i], ledger[i])
      /\ SameIntent(ledger'[ledger[i].root], ledger[ledger[i].root])
      /\ SameIntent(ledger'[ledger[i].nonce], ledger[ledger[i].nonce])
  BY <1>3 DEF SameLedger
<1> QED BY <1>2, <1>4 DEF LinksOK, SameIntent

LEMMA CalmKeepsTimes ==
  ASSUME TypeOK, TimesOK, Calm
  PROVE  TimesOK'
<1>1. Ids' = Ids /\ now' = now
  BY DEF Calm, SameLedger, Ids
<1> SUFFICES ASSUME NEW i \in Ids
             PROVE  LET r == ledger'[i] IN
                    /\ r.nonce_ts <= now
                    /\ r.nonce_ts + Timeout + Grace <= r.deadline
                    /\ r.nonce = i => r.deadline = r.nonce_ts + Timeout + Grace
                    /\ r.nonce # i => r.deadline <= r.nonce_ts + Window + Grace
                    /\ Timely /\ request'[i] = "unsent" => r.deadline = now + Timeout + Grace
                    /\ Timely /\ request'[i] = "flying" => now + Grace <= r.deadline
  BY <1>1 DEF TimesOK
<1>2. now \in Nat /\ Timeout \in Nat /\ Grace \in Nat
  BY TimeAssumption DEF TypeOK
<1>3. SameIntent(ledger'[i], ledger[i])
  BY DEF Calm, SameLedger
<1>4. /\ request'[i] = "unsent" => request[i] = "unsent"
      /\ request'[i] = "flying" => request[i] \in {"unsent", "flying"}
  BY DEF Calm, RequestsAdvance
<1> QED BY <1>2, <1>3, <1>4 DEF TimesOK, SameIntent

LEMMA CalmKeepsActs ==
  ASSUME TypeOK, LinksOK, ActsOK, Calm
  PROVE  ActsOK'
<1>1. Ids' = Ids /\ now' = now /\ acts' = acts
  BY DEF Calm, SameLedger, Ids
<1>2. \A a \in acts : a.intent \in Ids
  BY DEF TypeOK
<1>3. \A i \in Ids : SameIntent(ledger'[i], ledger[i])
  BY DEF Calm, SameLedger
<1>4. \A i \in Ids : request'[i] = "ok" <=> request[i] = "ok"
  BY DEF Calm, RequestsAdvance
<1> QED BY <1>1, <1>2, <1>3, <1>4 DEF ActsOK, SameIntent

LEMMA CalmKeepsHarmless ==
  ASSUME TypeOK, Calm, NEW i \in Ids, Harmless(i)
  PROVE  Harmless(i)'
BY DEF Harmless, Calm, RequestsAdvance

LEMMA CalmKeepsEarlier ==
  ASSUME TypeOK, EarlierAreHarmless, Calm
  PROVE  EarlierAreHarmless'
<1>1. Ids' = Ids
  BY DEF Calm, SameLedger, Ids
<1>2. \A i \in Ids : SameIntent(ledger'[i], ledger[i])
  BY DEF Calm, SameLedger
<1>3. \A i \in Ids : Excused(i) => Excused(i)'
  BY <1>1, <1>2 DEF Excused, ChainOf, SameIntent, Calm
<1> SUFFICES ASSUME NEW i \in Ids, NEW j \in Ids, i < j,
                    ledger'[i].root = ledger'[j].root, ledger'[i].nonce # ledger'[j].nonce,
                    ~Excused(i)'
             PROVE  Harmless(i)'
  BY <1>1 DEF EarlierAreHarmless
<1>4. Harmless(i)
  BY <1>2, <1>3 DEF EarlierAreHarmless, SameIntent
<1> QED BY <1>4, CalmKeepsHarmless

\* A step that settles an intent keeps the settlements true when its own is.
LEMMA CalmKeepsSettlements ==
  ASSUME TypeOK, SettlementsAreTrue, Calm,
         \A i \in Ids :
           \/ ledger'[i].state = ledger[i].state
           \/ ledger'[i].state \in {"pending", "unknown"}
           \/ /\ ledger'[i].state = "not_sent"
              /\ Harmless(i)' \/ i \in trail'.released
           \/ /\ ledger'[i].state = "confirmed"
              /\ \/ i \in trail'.vouched
                 \/ \E a \in acts : ledger[a.intent].nonce = ledger[i].nonce
  PROVE  SettlementsAreTrue'
<1>1. Ids' = Ids /\ acts' = acts
  BY DEF Calm, SameLedger, Ids
<1>2. \A a \in acts : a.intent \in Ids
  BY DEF TypeOK
<1>3. \A i \in Ids : ledger'[i].nonce = ledger[i].nonce
  BY DEF Calm, SameLedger, SameIntent
<1> SUFFICES ASSUME NEW i \in Ids
             PROVE  /\ ledger'[i].state = "not_sent" /\ i \notin trail'.released =>
                         Harmless(i)'
                    /\ ledger'[i].state = "confirmed" /\ i \notin trail'.vouched =>
                         \E a \in acts : ledger'[a.intent].nonce = ledger'[i].nonce
  BY <1>1 DEF SettlementsAreTrue, Harmless
<1>4. /\ i \notin trail'.released => i \notin trail.released
      /\ i \notin trail'.vouched => i \notin trail.vouched
  BY DEF Calm
<1>5. ASSUME ledger'[i].state = "not_sent", i \notin trail'.released
      PROVE  Harmless(i)'
  <2>1. Harmless(i) \/ Harmless(i)'
    BY <1>4, <1>5 DEF SettlementsAreTrue, Harmless
  <2> QED BY <2>1, CalmKeepsHarmless
<1>6. ASSUME ledger'[i].state = "confirmed", i \notin trail'.vouched
      PROVE  \E a \in acts : ledger'[a.intent].nonce = ledger'[i].nonce
  BY <1>2, <1>3, <1>4, <1>6 DEF SettlementsAreTrue
<1> QED BY <1>5, <1>6

\* A process that stays where it is still fits, whatever happens to the others.
LEMMA StayingFits ==
  ASSUME TypeOK, CallersOK, Calm, NEW d \in Callers, caller'[d] = caller[d],
         caller[d].pc = "admitted" => request'[caller[d].intent] = "unsent"
  PROVE  CallerFits(d)'
<1> DEFINE x == caller[d]
<1>1. Ids' = Ids
  BY DEF Calm, SameLedger, Ids
<1>2. CallerFits(d)
  BY DEF CallersOK
<1>3. x.pc \in {"looking", "admitted", "sent", "heard"} =>
        x.intent \in Ids /\ ledger'[x.intent].pid = ledger[x.intent].pid
  BY <1>2 DEF CallerFits, Calm, SameLedger, SameIntent
<1>4. \A i \in Ids : Harmless(i) => request'[i] = "over" /\ \A a \in acts' : a.intent # i
  BY DEF Harmless, Calm, RequestsAdvance
<1>5. \A i \in Ids : request[i] = "ok" => request'[i] = "ok"
  BY DEF Calm, RequestsAdvance
<1> QED BY <1>1, <1>2, <1>3, <1>4, <1>5 DEF CallerFits, Harmless

\* One process moves on; the requests that end are its own or were flying.
LEMMA CalmKeepsCallers ==
  ASSUME TypeOK, CallersOK, Calm, NEW c \in Callers,
         caller' = [caller EXCEPT ![c] = caller'[c]],
         CallerFits(c)',
         \A i \in Ids :
           \/ request'[i] = request[i]
           \/ request[i] = "flying"
           \/ caller[c].pc = "admitted" /\ i = caller[c].intent,
         caller[c].pc = "admitted" => request'[caller[c].intent] # "unsent"
  PROVE  CallersOK'
<1>1. Ids' = Ids
  BY DEF Calm, SameLedger, Ids
<1>2. \A d \in Callers : d # c => caller'[d] = caller[d]
  BY DEF TypeOK
<1>3. \A d \in Callers : caller[d].pc = "admitted" =>
        /\ caller[d].intent \in Ids /\ ledger[caller[d].intent].pid = d
        /\ request[caller[d].intent] = "unsent"
  BY DEF CallersOK, CallerFits
<1>4. ASSUME NEW d \in Callers PROVE CallerFits(d)'
  <2>1. CASE d # c
    <3>1. caller[d].pc = "admitted" => request'[caller[d].intent] = "unsent"
      BY <1>3, <2>1
    <3> QED BY <1>2, <2>1, <3>1, StayingFits
  <2> QED BY <2>1
<1>5. ASSUME NEW i \in Ids, request'[i] = "unsent"
      PROVE  \E d \in Callers : caller'[d].pc = "admitted" /\ caller'[d].intent = i
  <2>1. request[i] = "unsent"
    BY <1>5 DEF Calm, RequestsAdvance
  <2>2. PICK d \in Callers : caller[d].pc = "admitted" /\ caller[d].intent = i
    BY <2>1 DEF CallersOK
  <2>3. caller'[d] = caller[d]
    BY <1>2, <1>5, <2>2
  <2> QED BY <2>2, <2>3
<1> QED BY <1>1, <1>4, <1>5 DEF CallersOK

\* No process moves; the requests that end were flying.
LEMMA CalmKeepsAllCallers ==
  ASSUME TypeOK, CallersOK, Calm, UNCHANGED caller,
         \A i \in Ids : request'[i] = request[i] \/ request[i] = "flying"
  PROVE  CallersOK'
<1>1. Ids' = Ids
  BY DEF Calm, SameLedger, Ids
<1>2. \A d \in Callers : caller[d].pc = "admitted" =>
        caller[d].intent \in Ids /\ request[caller[d].intent] = "unsent"
  BY DEF CallersOK, CallerFits
<1>3. ASSUME NEW d \in Callers PROVE CallerFits(d)'
  <2>1. caller[d].pc = "admitted" => request'[caller[d].intent] = "unsent"
    BY <1>2
  <2> QED BY <2>1, StayingFits
<1>4. \A i \in Ids : request'[i] = "unsent" => request[i] = "unsent"
  BY DEF Calm, RequestsAdvance
<1> QED BY <1>1, <1>3, <1>4 DEF CallersOK

LEMMA CalmKeepsCore ==
  ASSUME CoreInv, TypeOK', CallersOK', Calm,
         \A i \in Ids :
           \/ ledger'[i].state = ledger[i].state
           \/ ledger'[i].state \in {"pending", "unknown"}
           \/ /\ ledger'[i].state = "not_sent"
              /\ Harmless(i)' \/ i \in trail'.released
           \/ /\ ledger'[i].state = "confirmed"
              /\ \/ i \in trail'.vouched
                 \/ \E a \in acts : ledger[a.intent].nonce = ledger[i].nonce
  PROVE  CoreInv'
<1>1. LinksOK'
  BY CalmKeepsLinks DEF CoreInv, Calm
<1>2. TimesOK' /\ ActsOK' /\ EarlierAreHarmless'
  BY CalmKeepsTimes, CalmKeepsActs, CalmKeepsEarlier DEF CoreInv
<1>3. SettlementsAreTrue'
  BY CalmKeepsSettlements DEF CoreInv
<1> QED BY <1>1, <1>2, <1>3 DEF CoreInv

-----------------------------------------------------------------------------
(* The steps of a call that leave ledger and requests alone *)

\* A process moves on between two places where it sends nothing.
LEMMA QuietMove ==
  ASSUME CoreInv, NEW c \in Callers, NEW x \in Calling,
         x.pc \in {"idle", "calling", "looking"},
         x.pc # "idle" => x.key \in Keys,
         x.pc = "looking" => x.intent \in Ids,
         caller[c].pc # "admitted",
         caller' = [caller EXCEPT ![c] = x],
         UNCHANGED <<ledger, passed, attempt, open, calls, request, acts, now>>,
         trail' \in [policy : SUBSET Ids, released : SUBSET Ids,
                     vouched : SUBSET Ids, told : SUBSET Ids],
         UNCHANGED <<trail.policy, trail.released, trail.vouched>>
  PROVE  CoreInv'
<1>1. TypeOK'
  BY DEF CoreInv, TypeOK, Ids
<1>2. Calm
  BY DEF Calm, SameLedger, SameIntent, RequestsAdvance
<1>3. caller'[c] = x
  BY DEF CoreInv, TypeOK
<1>4. CallerFits(c)'
  BY <1>3 DEF CallerFits, Ids
<1>5. CallersOK'
  BY <1>2, <1>3, <1>4, CalmKeepsCallers DEF CoreInv
<1> QED BY <1>1, <1>2, <1>5, CalmKeepsCore

LEMMA IdleIsCalling == Idle \in Calling
BY DEF Idle, Calling

LEMMA BeginKeepsCore ==
  ASSUME CoreInv, NEW c \in Callers, NEW k \in Keys, Begin(c, k)
  PROVE  CoreInv'
<1> DEFINE x == [Idle EXCEPT !.pc = "calling", !.key = k, !.claim = attempt]
<1>1. attempt \in Nat /\ TypeOK
  BY DEF CoreInv, TypeOK
<1>2. x \in Calling /\ x.pc = "calling" /\ x.key = k
  BY <1>1 DEF Idle, Calling
<1>3. /\ caller[c].pc = "idle" /\ caller' = [caller EXCEPT ![c] = x]
      /\ UNCHANGED <<ledger, passed, attempt, open, calls, request, acts, now, trail>>
  BY DEF Begin
<1> HIDE DEF x
<1> QED BY <1>1, <1>2, <1>3, QuietMove DEF TypeOK

\* A process that returns without having sent.
LEMMA ReturnKeepsCore ==
  ASSUME CoreInv, NEW c \in Callers, caller[c].pc # "admitted", Return(c),
         UNCHANGED <<ledger, passed, attempt, open, calls, request, acts, now, trail>>
  PROVE  CoreInv'
<1>1. caller' = [caller EXCEPT ![c] = Idle] /\ Idle.pc = "idle"
  BY DEF Return, Idle
<1>2. trail \in [policy : SUBSET Ids, released : SUBSET Ids,
                 vouched : SUBSET Ids, told : SUBSET Ids]
  BY DEF CoreInv, TypeOK
<1> QED BY <1>1, <1>2, IdleIsCalling, QuietMove

\* The chain a repeat's verdict is read from is one of the ledger's.
LEMMA DecidingMember ==
  ASSUME CoreInv, NEW k \in Keys, Admission(k) # "new"
  PROVE  VerdictMember(TipChain(k)) \in Ids
<1>1. InScope(k) # {}
  BY DEF Admission
<1>2. TypeOK /\ TipChain(k) \subseteq Ids /\ TipChain(k) # {}
  BY <1>1, TipIsInScope DEF CoreInv
<1> QED BY <1>2, VerdictIsHeld

LEMMA AnswerKeepsCore ==
  ASSUME CoreInv, NEW c \in Callers, AnswerAlreadySent(c)
  PROVE  CoreInv'
<1> DEFINE i == VerdictMember(TipChain(caller[c].key))
<1>1. TypeOK /\ caller[c].pc = "calling" /\ caller[c].key \in Keys
  BY DEF CoreInv, CallersOK, CallerFits, AnswerAlreadySent
<1>2. i \in Ids
  BY <1>1, DecidingMember DEF AnswerAlreadySent
<1>3. ledger[i].root \in 1..i /\ Ids = 1..Len(ledger)
  BY <1>2 DEF CoreInv, LinksOK, Ids
<1>4. ledger[i].root \in Ids
  BY <1>1, <1>2, <1>3 DEF TypeOK
<1>5. trail' = [trail EXCEPT !.told = @ \cup {ledger[i].root}]
  BY DEF AnswerAlreadySent, NoteTold
<1> HIDE DEF i
<1>6. /\ trail' \in [policy : SUBSET Ids, released : SUBSET Ids,
                     vouched : SUBSET Ids, told : SUBSET Ids]
      /\ UNCHANGED <<trail.policy, trail.released, trail.vouched>>
  BY <1>1, <1>4, <1>5 DEF TypeOK
<1>7. caller' = [caller EXCEPT ![c] = Idle] /\ Idle.pc = "idle"
  BY DEF AnswerAlreadySent, Return, Idle
<1> QED BY <1>1, <1>6, <1>7, IdleIsCalling, QuietMove DEF AnswerAlreadySent

LEMMA StartLookupKeepsCore ==
  ASSUME CoreInv, NEW c \in Callers, StartLookup(c)
  PROVE  CoreInv'
<1> DEFINE i == VerdictMember(TipChain(caller[c].key))
           x == [caller[c] EXCEPT !.pc = "looking", !.intent = i]
<1>1. /\ TypeOK /\ caller[c].pc = "calling" /\ caller[c].key \in Keys
      /\ caller[c] \in Calling
  BY DEF CoreInv, TypeOK, CallersOK, CallerFits, StartLookup
<1>2. i \in Ids /\ i \in Nat
  BY <1>1, DecidingMember DEF StartLookup, Ids
<1>3. caller' = [caller EXCEPT ![c] = x]
  BY <1>1 DEF StartLookup, TypeOK
<1>4. x \in Calling /\ x.pc = "looking" /\ x.key \in Keys /\ x.intent = i
  <2> HIDE DEF i
  <2> QED BY <1>1, <1>2 DEF Calling
<1>5. trail \in [policy : SUBSET Ids, released : SUBSET Ids,
                 vouched : SUBSET Ids, told : SUBSET Ids]
  BY <1>1 DEF TypeOK
<1>6. UNCHANGED <<ledger, passed, attempt, open, calls, request, acts, now, trail>>
  BY DEF StartLookup
<1> HIDE DEF x, i
<1> QED BY <1>1, <1>2, <1>3, <1>4, <1>5, <1>6, QuietMove

-----------------------------------------------------------------------------
(* The steps of a call that settle an intent or move its request *)

Requests == {"unsent", "flying", "ok", "over"}

Trails == [policy : SUBSET Ids, released : SUBSET Ids, vouched : SUBSET Ids, told : SUBSET Ids]

\* A step keeps its types when each thing it writes has its type and no intent
\* is recorded.
LEMMA TypesKept ==
  ASSUME TypeOK, ledger' \in Seq(IntentRecord), Len(ledger') = Len(ledger),
         request' \in Seq(Requests), Len(request') = Len(request),
         passed' \in Nat, attempt' \in Nat, calls' \in Nat, now' \in Nat,
         open' \in BOOLEAN, caller' \in [Callers -> Calling],
         acts' \subseteq [intent : Ids, at : Nat], trail' \in Trails
  PROVE  TypeOK'
<1>1. Ids' = Ids
  BY DEF Ids
<1> QED BY <1>1 DEF TypeOK, Requests, Trails

LEMMA StateIsTyped ==
  ASSUME TypeOK
  PROVE  /\ ledger \in Seq(IntentRecord) /\ Len(ledger) \in Nat
         /\ request \in Seq(Requests) /\ Len(request) = Len(ledger)
         /\ passed \in Nat /\ attempt \in Nat /\ calls \in Nat /\ now \in Nat
         /\ open \in BOOLEAN /\ caller \in [Callers -> Calling]
         /\ acts \subseteq [intent : Ids, at : Nat] /\ trail \in Trails
         /\ Ids = 1..Len(ledger)
BY DEF TypeOK, Requests, Trails, Ids

\* What becomes of one request.
LEMMA RequestMoves ==
  ASSUME TypeOK, NEW i \in Ids, NEW to \in Requests,
         request' = [request EXCEPT ![i] = to]
  PROVE  /\ request' \in Seq(Requests) /\ Len(request') = Len(request)
         /\ request'[i] = to /\ \A j \in Ids : j # i => request'[j] = request[j]
BY StateIsTyped

\* A process settles an intent, or fails to, and returns; a request it had
\* not sent ends with it.
LEMMA SettleAndReturn ==
  ASSUME CoreInv, NEW c \in Callers, NEW i \in Ids, NEW outcome \in Outcomes,
         Return(c), TrySettle(i, outcome),
         UNCHANGED <<passed, attempt, open, calls, acts, now>>,
         \/ caller[c].pc # "admitted" /\ UNCHANGED request
         \/ /\ caller[c].pc = "admitted" /\ i = caller[c].intent
            /\ request' = [request EXCEPT ![i] = "over"],
         trail' \in Trails,
         UNCHANGED <<trail.policy, trail.released, trail.vouched>>,
         outcome = "not_sent" => Harmless(i) \/ caller[c].pc = "admitted",
         outcome = "confirmed" => \E a \in acts : ledger[a.intent].nonce = ledger[i].nonce
  PROVE  CoreInv'
<1>1. TypeOK /\ (caller[c].pc = "admitted" => request[caller[c].intent] = "unsent")
  BY DEF CoreInv, CallersOK, CallerFits
<1>2. SettledAs(i, outcome)
  BY <1>1, SettleSettles DEF TrySettle
<1>3. /\ caller' = [caller EXCEPT ![c] = Idle] /\ Idle.pc = "idle"
      /\ caller' \in [Callers -> Calling] /\ caller'[c] = Idle
  BY <1>1, IdleIsCalling, StateIsTyped DEF Return, Idle
<1>4. /\ request' \in Seq(Requests) /\ Len(request') = Len(request)
      /\ \A j \in Ids : \/ request'[j] = request[j]
                        \/ /\ j = i /\ request[j] = "unsent" /\ request'[j] = "over"
                           /\ caller[c].pc = "admitted" /\ i = caller[c].intent
  <2>1. CASE caller[c].pc # "admitted"
    BY <1>1, <2>1, StateIsTyped
  <2>2. CASE caller[c].pc = "admitted"
    BY <1>1, <2>2, RequestMoves DEF Requests
  <2> QED BY <2>1, <2>2
<1>5. TypeOK'
  BY <1>1, <1>2, <1>3, <1>4, StateIsTyped, TypesKept DEF SettledAs
<1>6. Calm
  <2>1. RequestsAdvance
    BY <1>1, <1>4, StateIsTyped DEF RequestsAdvance
  <2> QED BY <1>2, <2>1 DEF Calm, SameLedger, SettledAs
<1>7. CallersOK'
  <2>1. CallerFits(c)'
    BY <1>3 DEF CallerFits
  <2>2. caller[c].pc = "admitted" => request'[caller[c].intent] # "unsent"
    BY <1>1, RequestMoves DEF Requests
  <2> QED BY <1>1, <1>3, <1>4, <1>6, <2>1, <2>2, CalmKeepsCallers DEF CoreInv
<1>8. outcome = "not_sent" => Harmless(i)'
  <2>1. CASE Harmless(i)
    BY <1>1, <1>6, <2>1, CalmKeepsHarmless
  <2>2. CASE caller[c].pc = "admitted"
    <3>1. request[i] = "unsent" /\ request'[i] = "over"
      BY <1>1, <2>2, RequestMoves DEF Requests
    <3> QED BY <3>1 DEF Harmless, CoreInv, ActsOK
  <2> QED BY <2>1, <2>2
<1>9. \A j \in Ids : \/ ledger'[j].state = ledger[j].state
                     \/ j = i /\ ledger'[j].state = outcome
  BY <1>2 DEF SettledAs
<1>10. outcome \in {"confirmed", "not_sent", "unknown"}
  BY DEF Outcomes
<1> QED BY <1>5, <1>6, <1>7, <1>8, <1>9, <1>10, CalmKeepsCore

LEMMA LookupFindsKeepsCore ==
  ASSUME CoreInv, NEW c \in Callers, LookupFinds(c)
  PROVE  CoreInv'
<1> DEFINE i == caller[c].intent
<1>1. TypeOK /\ caller[c].pc = "looking" /\ i \in Ids
  BY DEF CoreInv, CallersOK, CallerFits, LookupFinds
<1>2. ledger[i].root \in Ids
  BY <1>1, StateIsTyped DEF CoreInv, LinksOK
<1>3. trail' = [trail EXCEPT !.told = @ \cup {ledger[i].root}]
  BY DEF LookupFinds, NoteTold
<1>4. \E a \in acts : ledger[a.intent].nonce = ledger[i].nonce
  BY DEF LookupFinds
<1>5. /\ TrySettle(i, "confirmed") /\ Return(c)
      /\ UNCHANGED <<passed, attempt, open, calls, request, acts, now>>
  BY DEF LookupFinds
<1> HIDE DEF i
<1>6. trail' \in Trails /\ UNCHANGED <<trail.policy, trail.released, trail.vouched>>
  BY <1>1, <1>2, <1>3, StateIsTyped DEF Trails
<1> QED BY <1>1, <1>4, <1>5, <1>6, SettleAndReturn DEF Outcomes

LEMMA LookupFailsKeepsCore ==
  ASSUME CoreInv, NEW c \in Callers, LookupFails(c)
  PROVE  CoreInv'
<1>1. TypeOK /\ caller[c].pc = "looking" /\ caller[c].intent \in Ids
  BY DEF CoreInv, CallersOK, CallerFits, LookupFails
<1>2. /\ TrySettle(caller[c].intent, "unknown") /\ Return(c)
      /\ UNCHANGED <<passed, attempt, open, calls, request, acts, now, trail>>
  BY DEF LookupFails, TrySettle
<1> QED BY <1>1, <1>2, StateIsTyped, SettleAndReturn DEF Outcomes

LEMMA BuildFailsKeepsCore ==
  ASSUME CoreInv, NEW c \in Callers, BuildFails(c)
  PROVE  CoreInv'
<1>1. TypeOK /\ caller[c].pc = "admitted" /\ caller[c].intent \in Ids
  BY DEF CoreInv, CallersOK, CallerFits, BuildFails
<1>2. /\ TrySettle(caller[c].intent, "not_sent") /\ Return(c)
      /\ request' = [request EXCEPT ![caller[c].intent] = "over"]
      /\ UNCHANGED <<passed, attempt, open, calls, acts, now, trail>>
  BY DEF BuildFails
<1> QED BY <1>1, <1>2, StateIsTyped, SettleAndReturn DEF Outcomes

LEMMA FinishKeepsCore ==
  ASSUME CoreInv, NEW c \in Callers, Finish(c)
  PROVE  CoreInv'
<1> DEFINE i == caller[c].intent
           outcome == caller[c].got
<1>1. /\ TypeOK /\ caller[c].pc = "heard" /\ i \in Ids /\ outcome \in Outcomes
      /\ outcome = "not_sent" => Harmless(i)
      /\ outcome = "confirmed" => request[i] = "ok"
  BY DEF CoreInv, CallersOK, CallerFits, Finish
<1>2. outcome = "confirmed" => \E a \in acts : ledger[a.intent].nonce = ledger[i].nonce
  BY <1>1 DEF CoreInv, ActsOK
<1>3. /\ TrySettle(i, outcome) /\ Return(c)
      /\ UNCHANGED <<passed, attempt, open, calls, request, acts, now, trail>>
  BY DEF Finish
<1> HIDE DEF i, outcome
<1> QED BY <1>1, <1>2, <1>3, StateIsTyped, SettleAndReturn

\* A process and the request of its intent move on together.
LEMMA SendMove ==
  ASSUME CoreInv, NEW c \in Callers, NEW x \in Calling,
         caller' = [caller EXCEPT ![c] = x],
         UNCHANGED <<ledger, passed, attempt, open, acts, now, trail>>, calls' \in Nat,
         request' \in Seq(Requests), RequestsAdvance,
         \A i \in Ids :
           \/ request'[i] = request[i]
           \/ request[i] = "flying"
           \/ caller[c].pc = "admitted" /\ i = caller[c].intent,
         caller[c].pc = "admitted" => request'[caller[c].intent] # "unsent",
         x.pc \in {"sent", "heard", "dead"},
         x.pc # "dead" => x.intent \in Ids /\ ledger[x.intent].pid = c,
         x.pc = "heard" => /\ x.got \in Outcomes
                           /\ x.got = "not_sent" =>
                                /\ request'[x.intent] = "over"
                                /\ \A a \in acts : a.intent # x.intent
                           /\ x.got = "confirmed" => request'[x.intent] = "ok"
  PROVE  CoreInv'
<1>1. TypeOK /\ caller' \in [Callers -> Calling] /\ caller'[c] = x
  BY StateIsTyped DEF CoreInv
<1>2. Calm
  BY DEF Calm, SameLedger, SameIntent
<1>3. TypeOK'
  BY <1>1, StateIsTyped, TypesKept DEF RequestsAdvance
<1>4. CallersOK'
  <2>1. Ids' = Ids
    BY DEF Ids
  <2>2. CallerFits(c)'
    BY <1>1, <2>1 DEF CallerFits, Harmless
  <2> QED BY <1>1, <1>2, <2>2, CalmKeepsCallers DEF CoreInv
<1> QED BY <1>2, <1>3, <1>4, CalmKeepsCore

LEMMA LeaveKeepsCore ==
  ASSUME CoreInv, NEW c \in Callers, Leave(c)
  PROVE  CoreInv'
<1> DEFINE i == caller[c].intent
           x == [caller[c] EXCEPT !.pc = "sent"]
<1>1. /\ TypeOK /\ caller[c].pc = "admitted" /\ i \in Ids
      /\ request[i] = "unsent" /\ ledger[i].pid = c
      /\ caller[c] \in Calling
  BY DEF CoreInv, CallersOK, CallerFits, Leave, TypeOK
<1>2. x \in Calling /\ x.pc = "sent" /\ x.intent = i
  BY <1>1 DEF Calling
<1>3. caller' = [caller EXCEPT ![c] = x]
  BY <1>1, StateIsTyped DEF Leave
<1>4. /\ request' = [request EXCEPT ![i] = "flying"] /\ calls' = calls
      /\ UNCHANGED <<ledger, passed, attempt, open, acts, now, trail>>
  BY DEF Leave
<1> HIDE DEF x
<1>5. /\ request' \in Seq(Requests) /\ Len(request') = Len(request)
      /\ request'[i] = "flying" /\ \A j \in Ids : j # i => request'[j] = request[j]
  <2> HIDE DEF i
  <2> QED BY <1>1, <1>4, RequestMoves DEF Requests
<1>6. RequestsAdvance
  BY <1>1, <1>5, StateIsTyped DEF RequestsAdvance
<1> QED BY <1>1, <1>2, <1>3, <1>4, <1>5, <1>6, StateIsTyped, SendMove

LEMMA HearKeepsCore ==
  ASSUME CoreInv, NEW c \in Callers, NEW got \in Outcomes, Hear(c, got)
  PROVE  CoreInv'
<1> DEFINE i == caller[c].intent
           x == [caller[c] EXCEPT !.pc = "heard", !.got = got]
<1>1. /\ TypeOK /\ caller[c].pc = "sent" /\ i \in Ids /\ ledger[i].pid = c
      /\ caller[c] \in Calling
  BY DEF CoreInv, CallersOK, CallerFits, Hear, TypeOK
<1>2. x \in Calling /\ x.pc = "heard" /\ x.intent = i /\ x.got = got
  BY <1>1 DEF Calling, Outcomes
<1>3. caller' = [caller EXCEPT ![c] = x]
  BY <1>1, StateIsTyped DEF Hear
<1>4. calls' \in Nat /\ UNCHANGED <<ledger, passed, attempt, open, acts, now, trail>>
  BY <1>1, StateIsTyped DEF Hear
<1>5. /\ request' \in Seq(Requests) /\ Len(request') = Len(request)
      /\ \A j \in Ids : \/ request'[j] = request[j]
                        \/ j = i /\ request[j] = "flying" /\ request'[j] = "over"
      /\ got = "confirmed" => request'[i] = "ok"
      /\ got = "not_sent" => request[i] = "flying" /\ request'[i] = "over"
  <2>1. \/ UNCHANGED request
        \/ request[i] = "flying" /\ request' = [request EXCEPT ![i] = "over"]
    BY DEF Hear, KilledPush
  <2>2. /\ request' \in Seq(Requests) /\ Len(request') = Len(request)
        /\ \A j \in Ids : \/ request'[j] = request[j]
                          \/ j = i /\ request[j] = "flying" /\ request'[j] = "over"
    <3> HIDE DEF i
    <3> QED BY <1>1, <2>1, RequestMoves, StateIsTyped DEF Requests
  <2>3. got = "confirmed" => request'[i] = "ok"
    BY DEF Hear
  <2>4. got = "not_sent" => request[i] = "flying" /\ request'[i] = "over"
    <3>1. got = "not_sent" =>
            request[i] = "flying" /\ request' = [request EXCEPT ![i] = "over"]
      BY DEF Hear
    <3> HIDE DEF i
    <3> QED BY <1>1, <3>1, RequestMoves DEF Requests
  <2> QED BY <2>2, <2>3, <2>4
<1>6. RequestsAdvance
  BY <1>1, <1>5, StateIsTyped DEF RequestsAdvance
<1>7. got = "not_sent" => \A a \in acts : a.intent # i
  BY <1>5 DEF CoreInv, ActsOK
<1> HIDE DEF x
<1> QED BY <1>1, <1>2, <1>3, <1>4, <1>5, <1>6, <1>7, SendMove

LEMMA DieKeepsCore ==
  ASSUME CoreInv, NEW c \in Callers, Die(c)
  PROVE  CoreInv'
<1> DEFINE i == caller[c].intent
           x == [Idle EXCEPT !.pc = "dead"]
<1>1. TypeOK /\ x \in Calling /\ x.pc = "dead"
  BY DEF CoreInv, Idle, Calling
<1>2. caller[c].pc = "admitted" => i \in Ids /\ request[i] = "unsent"
  BY DEF CoreInv, CallersOK, CallerFits
<1>3. /\ caller' = [caller EXCEPT ![c] = x]
      /\ UNCHANGED <<ledger, passed, attempt, open, calls, acts, now, trail>>
      /\ request' = IF caller[c].pc = "admitted"
                    THEN [request EXCEPT ![i] = "over"] ELSE request
  BY DEF Die
<1>4. /\ request' \in Seq(Requests) /\ Len(request') = Len(request)
      /\ \A j \in Ids : \/ request'[j] = request[j]
                        \/ /\ caller[c].pc = "admitted" /\ j = i
                           /\ request[j] = "unsent" /\ request'[j] = "over"
      /\ caller[c].pc = "admitted" => request'[i] = "over"
  <2> HIDE DEF i
  <2>1. CASE caller[c].pc = "admitted"
    BY <1>1, <1>2, <1>3, <2>1, RequestMoves DEF Requests
  <2>2. CASE caller[c].pc # "admitted"
    BY <1>1, <1>3, <2>2, StateIsTyped
  <2> QED BY <2>1, <2>2
<1>5. RequestsAdvance
  BY <1>1, <1>4, StateIsTyped DEF RequestsAdvance
<1> HIDE DEF x
<1> QED BY <1>1, <1>3, <1>4, <1>5, StateIsTyped, SendMove

-----------------------------------------------------------------------------
(* The drive, a person and a lost request *)

LEMMA StartAttemptKeepsCore ==
  ASSUME CoreInv, StartAttempt
  PROVE  CoreInv'
<1>1. Calm
  BY DEF StartAttempt, Calm, SameLedger, SameIntent, RequestsAdvance
<1>2. TypeOK'
  BY StateIsTyped, TypesKept DEF CoreInv, StartAttempt
<1>3. CallersOK'
  BY <1>1, CalmKeepsAllCallers DEF CoreInv, StartAttempt
<1> QED BY <1>1, <1>2, <1>3, CalmKeepsCore DEF StartAttempt

LEMMA EndAttemptKeepsCore ==
  ASSUME CoreInv, NEW succeeded \in BOOLEAN, EndAttempt(succeeded)
  PROVE  CoreInv'
<1>1. Calm
  BY DEF EndAttempt, Calm, SameLedger, SameIntent, RequestsAdvance
<1>2. TypeOK'
  <2>1. TypeOK /\ passed' = IF succeeded THEN Len(ledger) + 1 ELSE passed
    BY DEF CoreInv, EndAttempt
  <2>2. passed' \in Nat
    BY <2>1, StateIsTyped
  <2>3. open' \in BOOLEAN
    BY DEF EndAttempt
  <2> QED BY <2>1, <2>2, <2>3, StateIsTyped, TypesKept DEF EndAttempt
<1>3. CallersOK'
  BY <1>1, CalmKeepsAllCallers DEF CoreInv, EndAttempt
<1> QED BY <1>1, <1>2, <1>3, CalmKeepsCore DEF EndAttempt

LEMMA ResolveKeepsCore ==
  ASSUME CoreInv, NEW i \in Ids, NEW sent \in BOOLEAN, Resolve(i, sent)
  PROVE  CoreInv'
<1> DEFINE outcome == IF sent THEN "confirmed" ELSE "not_sent"
<1>1. TypeOK /\ SettledAs(i, outcome)
  BY SettleSettles DEF CoreInv, Resolve, Outcomes
<1>2. UNCHANGED <<passed, attempt, open, calls, caller, request, acts, now>>
  BY DEF Resolve
<1>3. trail' = IF sent THEN [trail EXCEPT !.vouched = @ \cup {i}]
                       ELSE [trail EXCEPT !.released = @ \cup {i}]
  BY DEF Resolve
<1>4. /\ trail' \in Trails
      /\ trail.policy \subseteq trail'.policy /\ trail.released \subseteq trail'.released
      /\ trail.vouched \subseteq trail'.vouched
      /\ outcome = "confirmed" => i \in trail'.vouched
      /\ outcome = "not_sent" => i \in trail'.released
  BY <1>1, <1>3, StateIsTyped DEF Trails
<1>5. Calm
  BY <1>1, <1>2, <1>4 DEF Calm, SameLedger, SettledAs, RequestsAdvance
<1>6. TypeOK'
  BY <1>1, <1>2, <1>4, StateIsTyped, TypesKept DEF SettledAs
<1>7. CallersOK'
  BY <1>2, <1>5, CalmKeepsAllCallers DEF CoreInv
<1>8. outcome \in {"confirmed", "not_sent"}
  OBVIOUS
<1>9. \A j \in Ids : \/ ledger'[j].state = ledger[j].state
                     \/ j = i /\ ledger'[j].state = outcome
  BY <1>1 DEF SettledAs
<1> HIDE DEF outcome
<1> QED BY <1>4, <1>5, <1>6, <1>7, <1>8, <1>9, CalmKeepsCore

LEMMA DropKeepsCore ==
  ASSUME CoreInv, NEW i \in Ids, Drop(i)
  PROVE  CoreInv'
<1>1. TypeOK /\ request[i] = "flying" /\ request' = [request EXCEPT ![i] = "over"]
  BY DEF CoreInv, Drop
<1>2. /\ request' \in Seq(Requests) /\ Len(request') = Len(request)
      /\ request'[i] = "over" /\ \A j \in Ids : j # i => request'[j] = request[j]
  BY <1>1, RequestMoves DEF Requests
<1>3. UNCHANGED <<ledger, passed, attempt, open, calls, caller, acts, now, trail>>
  BY DEF Drop
<1>4. Calm
  BY <1>1, <1>2, <1>3, StateIsTyped DEF Calm, SameLedger, SameIntent, RequestsAdvance
<1>5. TypeOK'
  BY <1>1, <1>2, <1>3, StateIsTyped, TypesKept
<1>6. CallersOK'
  BY <1>1, <1>2, <1>3, <1>4, CalmKeepsAllCallers DEF CoreInv
<1> QED BY <1>3, <1>4, <1>5, <1>6, CalmKeepsCore

-----------------------------------------------------------------------------
(* The clock and the service *)

LEMMA TickKeepsCore ==
  ASSUME CoreInv, Tick
  PROVE  CoreInv'
<1>1. /\ now' = now + 1 /\ now' \in Nat /\ now \in Nat /\ (Timely => OnTime)
      /\ UNCHANGED <<ledger, passed, attempt, open, calls, caller, request, acts, trail>>
  BY StateIsTyped DEF CoreInv, Tick
<1>2. Ids' = Ids
  BY <1>1 DEF Ids
<1>3. TypeOK'
  BY <1>1, StateIsTyped, TypesKept DEF CoreInv
<1>4. LinksOK' /\ SettlementsAreTrue'
  BY <1>1, <1>2 DEF CoreInv, LinksOK, SettlementsAreTrue
<1>5. CallersOK' /\ EarlierAreHarmless'
  BY <1>1, <1>2 DEF CoreInv, CallersOK, CallerFits, EarlierAreHarmless, Harmless, Excused, ChainOf
<1>6. ActsOK'
  <2>1. \A a \in acts : a.at \in Nat
    BY DEF CoreInv, TypeOK
  <2> QED BY <1>1, <1>2, <2>1 DEF CoreInv, ActsOK
<1>7. TimesOK'
  <2> SUFFICES ASSUME NEW i \in Ids
               PROVE  LET r == ledger[i] IN
                      /\ r.nonce_ts <= now'
                      /\ r.nonce_ts + Timeout + Grace <= r.deadline
                      /\ r.nonce = i => r.deadline = r.nonce_ts + Timeout + Grace
                      /\ r.nonce # i => r.deadline <= r.nonce_ts + Window + Grace
                      /\ Timely /\ request[i] = "unsent" => r.deadline = now' + Timeout + Grace
                      /\ Timely /\ request[i] = "flying" => now' + Grace <= r.deadline
    BY <1>1, <1>2 DEF TimesOK
  <2>1. Timely => request[i] # "unsent"
    BY <1>1 DEF OnTime, CoreInv, CallersOK
  <2>2. Timely /\ request[i] = "flying" => now + Grace < ledger[i].deadline
    BY <1>1 DEF OnTime
  <2>3. ledger[i].deadline \in Nat /\ ledger[i].nonce_ts \in Nat /\ Grace \in Nat
    BY RecordsAreTyped, TimeAssumption DEF CoreInv
  <2>4. CoreInv => TimesOK
    BY DEF CoreInv
  <2> QED BY <1>1, <2>1, <2>2, <2>3, <2>4 DEF TimesOK
<1> QED BY <1>3, <1>4, <1>5, <1>6, <1>7 DEF CoreInv

LEMMA AcceptKeepsCore ==
  ASSUME CoreInv, NEW i \in Ids, ServiceAccepts(i)
  PROVE  CoreInv'
<1> DEFINE new == [intent |-> i, at |-> now]
<1>1. /\ TypeOK /\ request[i] = "flying" /\ request' = [request EXCEPT ![i] = "ok"]
      /\ UNCHANGED <<ledger, passed, attempt, open, calls, caller, now, trail>>
      /\ acts' = IF Deduplicated(i) THEN acts ELSE acts \cup {new}
  BY DEF CoreInv, ServiceAccepts
<1>2. /\ request' \in Seq(Requests) /\ Len(request') = Len(request)
      /\ request'[i] = "ok" /\ \A j \in Ids : j # i => request'[j] = request[j]
  BY <1>1, RequestMoves DEF Requests
<1>3. Ids' = Ids
  BY <1>1 DEF Ids
<1>4. acts' \in {acts, acts \cup {new}} /\ new \in [intent : Ids, at : Nat]
  BY <1>1, StateIsTyped
<1>5. TypeOK'
  BY <1>1, <1>2, <1>4, StateIsTyped, TypesKept
<1>6. LinksOK'
  BY <1>1, <1>3 DEF CoreInv, LinksOK
<1>7. TimesOK'
  BY <1>1, <1>2, <1>3 DEF CoreInv, TimesOK
<1>8. \A j \in Ids : Harmless(j) => request'[j] = "over" /\ \A a \in acts' : a.intent # j
  BY <1>1, <1>2, <1>4 DEF Harmless
<1>9. CallersOK'
  <2>1. \A j \in Ids : /\ request[j] = "ok" => request'[j] = "ok"
                       /\ request[j] = "unsent" <=> request'[j] = "unsent"
    BY <1>1, <1>2
  <2> QED BY <1>1, <1>3, <1>8, <2>1 DEF CoreInv, CallersOK, CallerFits, Harmless
<1>10. ActsOK'
  <2>1. \A a \in acts' : /\ request'[a.intent] = "ok"
                         /\ ledger[a.intent].nonce_ts <= a.at /\ a.at <= now
    <3>1. new.intent = i /\ new.at = now /\ now <= now /\ ledger[i].nonce_ts <= now
      BY <1>1, StateIsTyped DEF CoreInv, TimesOK
    <3> HIDE DEF new
    <3> QED BY <1>1, <1>2, <1>4, <3>1 DEF CoreInv, ActsOK, TypeOK
  <2>2. ASSUME NEW j \in Ids, request'[j] = "ok"
        PROVE  \E a \in acts' : ledger[a.intent].nonce = ledger[j].nonce
    <3>1. CASE j # i
      BY <1>2, <1>4, <2>2, <3>1 DEF CoreInv, ActsOK
    <3>2. CASE j = i /\ Deduplicated(i)
      BY <1>1, <3>2 DEF Deduplicated
    <3>3. CASE j = i /\ ~Deduplicated(i)
      <4>1. new \in acts' /\ new.intent = i
        BY <1>1, <3>3
      <4> HIDE DEF new
      <4> QED BY <3>3, <4>1
    <3> QED BY <3>1, <3>2, <3>3
  <2> QED BY <1>1, <1>3, <2>1, <2>2 DEF ActsOK
<1>11. SettlementsAreTrue'
  BY <1>1, <1>3, <1>4, <1>8 DEF CoreInv, SettlementsAreTrue, Harmless
<1>12. EarlierAreHarmless'
  BY <1>1, <1>3, <1>8 DEF CoreInv, EarlierAreHarmless, Harmless, Excused, ChainOf
<1> QED BY <1>5, <1>6, <1>7, <1>9, <1>10, <1>11, <1>12 DEF CoreInv

-----------------------------------------------------------------------------
(* The steps that record an intent *)

\* A process gets its intent recorded, to send it or (over) not to.
LEMMA RecordingKeepsCore ==
  ASSUME CoreInv, NEW c \in Callers, NEW r, NEW req \in {"unsent", "over"},
         caller[c].pc = "calling", Admissible(c, r), Record(r),
         r.state = "not_sent" => req = "over", r.state # "confirmed",
         request' = Append(request, req),
         NEW x \in Calling, caller' = [caller EXCEPT ![c] = x],
         \/ x.pc = "idle" /\ req = "over"
         \/ x.pc = "admitted" /\ x.intent = Len(ledger) + 1 /\ req = "unsent",
         NotePolicy(c),
         UNCHANGED <<passed, attempt, open, calls, acts, now>>
  PROVE  CoreInv'
<1> DEFINE n == Len(ledger)
<1>1. TypeOK /\ Gained(r)
  BY RecordGains DEF CoreInv, Admissible
<1>2. n \in Nat /\ Ids = 1..n /\ Ids' = 1..(n + 1)
  BY <1>1, StateIsTyped DEF Gained, Ids
<1>3. Ids \subseteq Ids' /\ n + 1 \in Ids' /\ n + 1 \notin Ids
      /\ \A i \in Ids' : i \in Ids \/ i = n + 1
  BY <1>2
<1>4. /\ request' \in Seq(Requests) /\ Len(request') = n + 1
      /\ request'[n + 1] = req /\ \A i \in Ids : request'[i] = request[i]
  BY <1>1, <1>2, StateIsTyped DEF Requests
<1>5. /\ ledger' \in Seq(IntentRecord) /\ Len(ledger') = n + 1 /\ ledger'[n + 1] = r
      /\ \A i \in Ids : /\ SameIntent(ledger'[i], ledger[i])
                        /\ ledger'[i].state = ledger[i].state
  BY <1>1 DEF Gained
<1>6. caller' \in [Callers -> Calling] /\ caller'[c] = x
      /\ \A d \in Callers : d # c => caller'[d] = caller[d]
  BY <1>1, StateIsTyped
<1>7. \A a \in acts : a.intent \in Ids
  BY <1>1 DEF TypeOK
<1>8. /\ trail'.released = trail.released /\ trail'.vouched = trail.vouched
      /\ trail.policy \subseteq trail'.policy
      /\ Admission(caller[c].key) = "resend_unknown" => n + 1 \in trail'.policy
      /\ trail' \in [policy : SUBSET Ids', released : SUBSET Ids',
                     vouched : SUBSET Ids', told : SUBSET Ids']
  <2>1. CASE Admission(caller[c].key) = "resend_unknown"
    <3>1. trail' = [trail EXCEPT !.policy = @ \cup {n + 1}]
      BY <2>1 DEF NotePolicy
    <3> HIDE DEF n
    <3> QED BY <1>1, <1>3, <3>1, StateIsTyped DEF Trails
  <2>2. CASE Admission(caller[c].key) # "resend_unknown"
    <3>1. trail' = trail
      BY <2>2 DEF NotePolicy
    <3> QED BY <1>1, <1>3, <2>2, <3>1, StateIsTyped DEF Trails
  <2> QED BY <2>1, <2>2
<1>9. /\ r \in IntentRecord /\ r.pid = c /\ r.key = caller[c].key
      /\ r.deadline = now + Timeout + Grace
      /\ FirstSend(r) \/ FreshRepeat(c, r) \/ ReplayOf(r)
  BY DEF Admissible
<1> HIDE DEF n
<1>10. TypeOK'
  <2>1. acts' \subseteq [intent : Ids', at : Nat]
    BY <1>1, <1>3 DEF TypeOK
  <2>2. passed' \in Nat /\ attempt' \in Nat /\ calls' \in Nat /\ now' \in Nat /\ open' \in BOOLEAN
    BY <1>1, StateIsTyped
  <2> QED BY <1>4, <1>5, <1>6, <1>8, <2>1, <2>2 DEF TypeOK, Requests
\* What the new record says of its root and nonce.
<1>11. /\ r.root \in Ids' /\ r.nonce \in Ids'
       /\ ledger'[r.root].key = r.key
       /\ ledger'[r.nonce].root = r.root /\ ledger'[r.nonce].nonce = r.nonce
       /\ ledger'[r.nonce].nonce_ts = r.nonce_ts /\ r.nonce_ts <= now
       /\ r.nonce # n + 1 => Mode[r.key] = "key" /\ now + Timeout <= r.nonce_ts + Window
       /\ r.nonce = n + 1 => r.nonce_ts = now
  <2>1. now \in Nat
    BY <1>1, StateIsTyped
  <2>2. CASE FirstSend(r)
    BY <1>3, <1>5, <2>1, <2>2 DEF FirstSend, n
  <2>3. CASE FreshRepeat(c, r)
    <3>1. PICK t \in Ids : r.root = ledger[t].root /\ ledger[t].key = r.key
      BY <2>3 DEF FreshRepeat
    <3>2. ledger[t].root \in Ids /\ ledger[ledger[t].root].key = ledger[t].key
      BY <1>1, LinkFacts DEF CoreInv
    <3>3. ledger'[r.root].key = r.key
      BY <1>5, <3>1, <3>2 DEF SameIntent
    <3> QED BY <1>3, <1>5, <2>1, <2>3, <3>1, <3>2, <3>3 DEF FreshRepeat, n
  <2>4. CASE ReplayOf(r)
    <3>1. PICK t \in Ids, m \in Ids :
            /\ r.root = ledger[t].root /\ ledger[t].key = r.key
            /\ ledger[m].root = ledger[t].root
            /\ r.nonce = ledger[m].nonce /\ r.nonce_ts = ledger[m].nonce_ts
            /\ Mode[r.key] = "key" /\ now + Timeout <= r.nonce_ts + Window
      BY <2>4 DEF ReplayOf
    <3>2. /\ ledger[t].root \in Ids /\ ledger[ledger[t].root].key = ledger[t].key
          /\ ledger[m].nonce \in Ids
          /\ ledger[ledger[m].nonce].root = ledger[m].root
          /\ ledger[ledger[m].nonce].nonce = ledger[m].nonce
          /\ ledger[ledger[m].nonce].nonce_ts = ledger[m].nonce_ts
      BY <1>1, LinkFacts DEF CoreInv
    <3>3. ledger[m].nonce_ts <= now
      BY DEF CoreInv, TimesOK
    <3> QED BY <1>3, <1>5, <3>1, <3>2, <3>3 DEF SameIntent
  <2> QED BY <1>9, <2>2, <2>3, <2>4
<1>12. LinksOK'
  <2> SUFFICES ASSUME NEW i \in Ids'
               PROVE  LET s == ledger'[i] IN
                      /\ s.root \in 1..i /\ s.nonce \in 1..i
                      /\ ledger'[s.root].key = s.key
                      /\ ledger'[s.nonce].root = s.root /\ ledger'[s.nonce].nonce = s.nonce
                      /\ ledger'[s.nonce].nonce_ts = s.nonce_ts
                      /\ s.nonce # i => Mode[s.key] = "key"
    BY DEF LinksOK
  <2>1. CASE i = n + 1
    BY <1>2, <1>5, <1>11, <2>1
  <2>2. CASE i \in Ids
    <3>1. /\ ledger[i].root \in 1..i /\ ledger[i].nonce \in 1..i
          /\ ledger[i].root \in Ids /\ ledger[i].nonce \in Ids
      BY <1>2, <2>2 DEF CoreInv, LinksOK
    <3>2. /\ SameIntent(ledger'[i], ledger[i])
          /\ SameIntent(ledger'[ledger[i].root], ledger[ledger[i].root])
          /\ SameIntent(ledger'[ledger[i].nonce], ledger[ledger[i].nonce])
      BY <1>5, <2>2, <3>1
    <3> QED BY <2>2, <3>1, <3>2 DEF CoreInv, LinksOK, SameIntent
  <2> QED BY <1>3, <2>1, <2>2
<1>13. TimesOK'
  <2> SUFFICES ASSUME NEW i \in Ids'
               PROVE  LET s == ledger'[i] IN
                      /\ s.nonce_ts <= now
                      /\ s.nonce_ts + Timeout + Grace <= s.deadline
                      /\ s.nonce = i => s.deadline = s.nonce_ts + Timeout + Grace
                      /\ s.nonce # i => s.deadline <= s.nonce_ts + Window + Grace
                      /\ Timely /\ request'[i] = "unsent" => s.deadline = now + Timeout + Grace
                      /\ Timely /\ request'[i] = "flying" => now + Grace <= s.deadline
    BY DEF TimesOK
  <2>1. CASE i = n + 1
    <3>1. now \in Nat /\ r.nonce_ts \in Nat /\ req # "flying"
      BY <1>1, <1>9, StateIsTyped DEF IntentRecord
    <3>2. /\ r.nonce_ts + Timeout + Grace <= r.deadline
          /\ r.nonce = n + 1 => r.deadline = r.nonce_ts + Timeout + Grace
          /\ r.nonce # n + 1 => r.deadline <= r.nonce_ts + Window + Grace
      <4>1. /\ r.deadline = now + Timeout + Grace /\ r.nonce_ts <= now
            /\ r.nonce = n + 1 => r.nonce_ts = now
            /\ r.nonce # n + 1 => now + Timeout <= r.nonce_ts + Window
        BY <1>9, <1>11
      <4>2. \A ts \in Nat :
              /\ ts <= now => ts + Timeout + Grace <= now + Timeout + Grace
              /\ now + Timeout <= ts + Window => now + Timeout + Grace <= ts + Window + Grace
        BY <3>1, TimeAssumption
      <4> QED BY <3>1, <4>1, <4>2
    <3>4. r.nonce_ts <= now /\ request'[i] # "flying" /\ ledger'[i] = r
      BY <1>4, <1>5, <1>11, <2>1, <3>1
    <3> QED BY <1>9, <2>1, <3>2, <3>4
  <2>2. CASE i \in Ids
    <3>1. SameIntent(ledger'[i], ledger[i]) /\ request'[i] = request[i]
      BY <1>4, <1>5, <2>2
    <3> QED BY <2>2, <3>1 DEF CoreInv, TimesOK, SameIntent
  <2> QED BY <1>3, <2>1, <2>2
<1>14. \A i \in Ids : Harmless(i) => request'[i] = "over" /\ \A a \in acts' : a.intent # i
  BY <1>4 DEF Harmless
<1>15. CallersOK'
  <2>1. CallerFits(c)'
    BY <1>3, <1>4, <1>5, <1>6, <1>9 DEF CallerFits, n
  <2>2. ASSUME NEW d \in Callers, d # c PROVE CallerFits(d)'
    <3>1. caller'[d] = caller[d] /\ CallerFits(d)
      BY <1>6, <2>2 DEF CoreInv, CallersOK
    <3>2. \A i \in Ids : i \in Ids' /\ ledger'[i].pid = ledger[i].pid /\ request'[i] = request[i]
      BY <1>3, <1>4, <1>5 DEF SameIntent
    <3>3. caller[d].pc \in {"looking", "admitted", "sent", "heard"} =>
            caller[d].intent \in Ids
      BY <3>1 DEF CallerFits
    <3>4. caller[d].pc = "heard" /\ caller[d].got = "not_sent" =>
            /\ request'[caller[d].intent] = "over"
            /\ \A a \in acts' : a.intent # caller[d].intent
      BY <1>14, <3>1, <3>3 DEF CallerFits
    <3> QED BY <3>1, <3>2, <3>3, <3>4 DEF CallerFits, Harmless
  <2>3. ASSUME NEW i \in Ids', request'[i] = "unsent"
        PROVE  \E d \in Callers : caller'[d].pc = "admitted" /\ caller'[d].intent = i
    <3>1. CASE i = n + 1
      BY <1>4, <1>6, <2>3, <3>1 DEF n
    <3>2. CASE i \in Ids
      <4>1. request[i] = "unsent"
        BY <1>4, <2>3, <3>2
      <4>2. PICK d \in Callers : caller[d].pc = "admitted" /\ caller[d].intent = i
        BY <3>2, <4>1 DEF CoreInv, CallersOK
      <4> QED BY <1>6, <4>2
    <3> QED BY <1>3, <3>1, <3>2
  <2> QED BY <2>1, <2>2, <2>3 DEF CallersOK
<1>16. ActsOK'
  <2>1. \A i \in Ids : /\ ledger'[i].nonce = ledger[i].nonce
                       /\ ledger'[i].nonce_ts = ledger[i].nonce_ts
                       /\ request'[i] = request[i]
    BY <1>4, <1>5 DEF SameIntent
  <2>2. request'[n + 1] # "ok"
    BY <1>4
  <2>3. \A a \in acts : /\ request'[a.intent] = "ok"
                        /\ ledger'[a.intent].nonce_ts <= a.at /\ a.at <= now
    BY <1>7, <2>1 DEF CoreInv, ActsOK
  <2>4. \A i \in Ids : request[i] = "ok" =>
          \E a \in acts : ledger'[a.intent].nonce = ledger'[i].nonce
    BY <1>7, <2>1 DEF CoreInv, ActsOK
  <2>5. \A i \in Ids' : request'[i] = "ok" => i \in Ids /\ request[i] = "ok"
    BY <1>3, <2>1, <2>2
  <2> QED BY <2>3, <2>4, <2>5 DEF ActsOK
<1>17. SettlementsAreTrue'
  <2> SUFFICES ASSUME NEW i \in Ids'
               PROVE  /\ ledger'[i].state = "not_sent" /\ i \notin trail'.released =>
                           request'[i] = "over" /\ \A a \in acts : a.intent # i
                      /\ ledger'[i].state = "confirmed" /\ i \notin trail'.vouched =>
                           \E a \in acts : ledger'[a.intent].nonce = ledger'[i].nonce
    BY DEF SettlementsAreTrue
  <2>1. CASE i = n + 1
    BY <1>3, <1>4, <1>5, <1>7, <2>1
  <2>2. CASE i \in Ids
    <3>1. \A j \in Ids : ledger'[j].nonce = ledger[j].nonce
      BY <1>5 DEF SameIntent
    <3>2. ledger'[i].state = ledger[i].state /\ request'[i] = request[i]
      BY <1>4, <1>5, <2>2
    <3>3. ledger[i].state = "confirmed" /\ i \notin trail.vouched =>
            \E a \in acts : ledger[a.intent].nonce = ledger[i].nonce
      BY <2>2 DEF CoreInv, SettlementsAreTrue
    <3>4. ledger[i].state = "not_sent" /\ i \notin trail.released =>
            request[i] = "over" /\ \A a \in acts : a.intent # i
      BY <2>2 DEF CoreInv, SettlementsAreTrue
    <3> QED BY <1>7, <1>8, <2>2, <3>1, <3>2, <3>3, <3>4
  <2> QED BY <1>3, <2>1, <2>2
<1>18. EarlierAreHarmless'
  <2>1. \A i \in Ids : Excused(i) => Excused(i)'
    BY <1>3, <1>5, <1>8 DEF Excused, ChainOf, SameIntent
  <2> SUFFICES ASSUME NEW i \in Ids', NEW j \in Ids', i < j,
                      ledger'[i].root = ledger'[j].root,
                      ledger'[i].nonce # ledger'[j].nonce, ~Excused(i)'
               PROVE  Harmless(i)'
    BY DEF EarlierAreHarmless
  <2>2. i \in Ids
    BY <1>2
  <2>3. ledger[i].root = ledger'[i].root /\ ledger[i].nonce = ledger'[i].nonce
    BY <1>5, <2>2 DEF SameIntent
  <2>4. Harmless(i)
    <3>1. CASE j \in Ids
      <4>1. ledger[j].root = ledger'[j].root /\ ledger[j].nonce = ledger'[j].nonce
        BY <1>5, <3>1 DEF SameIntent
      <4> QED BY <2>1, <2>2, <2>3, <3>1, <4>1 DEF CoreInv, EarlierAreHarmless
    <3>2. CASE j = n + 1
      <4>1. ledger[i].root = r.root /\ ledger[i].nonce # r.nonce
        BY <1>5, <2>3, <3>2
      <4>2. ledger[i].state = "not_sent" => Harmless(i)
        <5>1. i \notin trail.released
          BY <2>1, <2>2 DEF Excused, ChainOf
        <5> QED BY <2>2, <5>1 DEF CoreInv, SettlementsAreTrue, Harmless
      <4>3. ~FirstSend(r)
        BY <1>2, <2>2, <4>1 DEF CoreInv, LinksOK, FirstSend, n
      <4>4. CASE FreshRepeat(c, r)
        <5>1. PICK t \in Ids : /\ r.root = ledger[t].root
                               /\ \/ Admission(caller[c].key) = "resend_unknown"
                                  \/ \A l \in ChainOf(t) : ledger[l].state = "not_sent"
          BY <4>4 DEF FreshRepeat
        <5>2. Admission(caller[c].key) # "resend_unknown"
          <6>1. n + 1 \in ChainOf(i)'
            BY <1>3, <1>5, <2>3, <4>1 DEF ChainOf
          <6> QED BY <1>8, <6>1 DEF Excused
        <5>3. i \in ChainOf(t)
          BY <2>2, <4>1, <5>1 DEF ChainOf
        <5> QED BY <4>2, <5>1, <5>2, <5>3
      <4>5. CASE ReplayOf(r)
        <5>1. PICK t \in Ids, m \in Ids :
                /\ r.root = ledger[t].root /\ ledger[m].root = ledger[t].root
                /\ r.nonce = ledger[m].nonce
                /\ \A l \in ChainOf(t) : l <= m \/ ledger[l].state = "not_sent"
          BY <4>5 DEF ReplayOf
        <5>2. i \in ChainOf(t)
          BY <2>2, <4>1, <5>1 DEF ChainOf
        <5>3. i < m \/ ledger[i].state = "not_sent"
          BY <1>2, <2>2, <4>1, <5>1, <5>2
        <5>4. CASE i < m
          BY <2>1, <2>2, <4>1, <5>1, <5>4 DEF CoreInv, EarlierAreHarmless
        <5> QED BY <4>2, <5>3, <5>4
      <4> QED BY <1>9, <4>3, <4>4, <4>5
    <3> QED BY <1>3, <3>1, <3>2
  <2> QED BY <1>14, <2>2, <2>4 DEF Harmless
<1> QED BY <1>10, <1>12, <1>13, <1>15, <1>16, <1>17, <1>18 DEF CoreInv

LEMMA AdmitKeepsCore ==
  ASSUME CoreInv, NEW c \in Callers, Admit(c)
  PROVE  CoreInv'
<1> DEFINE r == AdmittedRecord(c)
           x == [caller[c] EXCEPT !.pc = "admitted", !.intent = Len(ledger) + 1]
<1>1. /\ TypeOK /\ caller[c].pc = "calling" /\ caller[c].key \in Keys
      /\ caller[c] \in Calling /\ Len(ledger) + 1 \in Nat
  BY StateIsTyped DEF CoreInv, CallersOK, CallerFits, Admit, MayRecord
<1>2. Admissible(c, r) /\ r.state = "pending"
  BY <1>1, AdmittedIsAdmissible DEF CoreInv, Admit
<1>3. x \in Calling /\ x.pc = "admitted" /\ x.intent = Len(ledger) + 1
  BY <1>1 DEF Calling
<1>4. caller' = [caller EXCEPT ![c] = x]
  BY <1>1, StateIsTyped DEF Admit
<1>5. /\ Record(r) /\ request' = Append(request, "unsent") /\ NotePolicy(c)
      /\ UNCHANGED <<passed, attempt, open, calls, acts, now>>
  BY DEF Admit
<1> HIDE DEF r, x
<1> QED BY <1>1, <1>2, <1>3, <1>4, <1>5, RecordingKeepsCore

LEMMA AdmitUnsyncedKeepsCore ==
  ASSUME CoreInv, NEW c \in Callers, AdmitUnsynced(c)
  PROVE  CoreInv'
<1>1. TypeOK /\ caller[c].pc = "calling" /\ caller[c].key \in Keys
  BY DEF CoreInv, CallersOK, CallerFits, AdmitUnsynced, MayRecord
<1>2. PICK state \in {"pending", "not_sent"} :
        Record([AdmittedRecord(c) EXCEPT !.state = state])
  BY DEF AdmitUnsynced
<1> DEFINE q == AdmittedRecord(c)
           r == [q EXCEPT !.state = state]
<1>3. Admissible(c, q)
  BY <1>1, AdmittedIsAdmissible DEF CoreInv, AdmitUnsynced
<1>4. Admissible(c, r) /\ r.state = state
  <2> HIDE DEF q
  <2>1. q \in IntentRecord
    BY <1>3 DEF Admissible
  <2>2. r \in IntentRecord /\ SameIntent(r, q) /\ r.state = state
    BY <2>1 DEF IntentRecord, SameIntent, Outcomes
  <2> HIDE DEF r
  <2> QED BY <1>3, <2>2 DEF Admissible, SameIntent, FirstSend, FreshRepeat, ReplayOf
<1>5. /\ Record(r) /\ request' = Append(request, "over") /\ NotePolicy(c)
      /\ caller' = [caller EXCEPT ![c] = Idle] /\ Idle.pc = "idle"
      /\ UNCHANGED <<passed, attempt, open, calls, acts, now>>
  BY <1>2 DEF AdmitUnsynced, Return, Idle
<1> HIDE DEF q, r
<1> QED BY <1>1, <1>4, <1>5, IdleIsCalling, RecordingKeepsCore

-----------------------------------------------------------------------------
(* Every step keeps the invariant *)

LEMMA InitIsCore == Init => CoreInv
<1> SUFFICES ASSUME Init PROVE CoreInv
  OBVIOUS
<1>1. /\ ledger = <<>> /\ request = <<>> /\ acts = {} /\ Ids = {}
      /\ passed = 0 /\ attempt = 0 /\ calls = 0 /\ now = 0 /\ open = FALSE
      /\ caller = [c \in Callers |-> Idle]
      /\ trail = [policy |-> {}, released |-> {}, vouched |-> {}, told |-> {}]
  BY DEF Init, Ids
<1>2. TypeOK
  <2>1. ledger \in Seq(IntentRecord) /\ Len(ledger) = 0
    BY <1>1
  <2>2. request \in Seq({"unsent", "flying", "ok", "over"}) /\ Len(request) = 0
    BY <1>1
  <2>3. caller \in [Callers -> Calling]
    BY <1>1, IdleIsCalling
  <2>4. acts \subseteq [intent : Ids, at : Nat]
    BY <1>1
  <2>5. trail \in [policy : SUBSET Ids, released : SUBSET Ids,
                   vouched : SUBSET Ids, told : SUBSET Ids]
    BY <1>1
  <2>6. passed \in Nat /\ attempt \in Nat /\ calls \in Nat /\ now \in Nat /\ open \in BOOLEAN
    BY <1>1
  <2> QED BY <2>1, <2>2, <2>3, <2>4, <2>5, <2>6 DEF TypeOK
<1>3. CallersOK
  BY <1>1 DEF CallersOK, CallerFits, Idle
<1>4. LinksOK /\ TimesOK /\ ActsOK /\ SettlementsAreTrue /\ EarlierAreHarmless
  BY <1>1 DEF LinksOK, TimesOK, ActsOK, SettlementsAreTrue, EarlierAreHarmless
<1> QED BY <1>2, <1>3, <1>4 DEF CoreInv

LEMMA CallKeepsCore ==
  ASSUME CoreInv, NEW c \in Callers, Call(c)
  PROVE  CoreInv'
<1>1. CASE \E k \in Keys : Begin(c, k)
  BY <1>1, BeginKeepsCore
<1>2. CASE Admit(c)
  BY <1>2, AdmitKeepsCore
<1>3. CASE AdmitUnsynced(c)
  BY <1>3, AdmitUnsyncedKeepsCore
<1>4. CASE JournalRefuses(c)
  BY <1>4, ReturnKeepsCore DEF JournalRefuses
<1>5. CASE Refuse(c)
  BY <1>5, ReturnKeepsCore DEF Refuse
<1>6. CASE AnswerAlreadySent(c)
  BY <1>6, AnswerKeepsCore
<1>7. CASE StartLookup(c)
  BY <1>7, StartLookupKeepsCore
<1>8. CASE LookupFinds(c)
  BY <1>8, LookupFindsKeepsCore
<1>9. CASE LookupFails(c)
  BY <1>9, LookupFailsKeepsCore
<1>10. CASE Leave(c)
  BY <1>10, LeaveKeepsCore
<1>11. CASE BuildFails(c)
  BY <1>11, BuildFailsKeepsCore
<1>12. CASE \E got \in {"confirmed", "not_sent", "unknown"} : Hear(c, got)
  BY <1>12, HearKeepsCore DEF Outcomes
<1>13. CASE Finish(c)
  BY <1>13, FinishKeepsCore
<1> QED
  BY <1>1, <1>2, <1>3, <1>4, <1>5, <1>6, <1>7, <1>8, <1>9, <1>10, <1>11, <1>12, <1>13
  DEF Call

LEMMA StutterKeepsCore ==
  ASSUME CoreInv, UNCHANGED vars
  PROVE  CoreInv'
<1>1. UNCHANGED <<ledger, passed, attempt, open, calls, caller, request, acts, now, trail>>
  BY DEF vars
<1>2. Calm
  BY <1>1 DEF Calm, SameLedger, SameIntent, RequestsAdvance
<1>3. TypeOK'
  BY <1>1, StateIsTyped, TypesKept DEF CoreInv
<1>4. CallersOK'
  BY <1>1, <1>2, CalmKeepsAllCallers DEF CoreInv
<1> QED BY <1>1, <1>2, <1>3, <1>4, CalmKeepsCore

LEMMA StepKeepsCore ==
  ASSUME CoreInv, [Next]_vars
  PROVE  CoreInv'
<1>1. CASE \E c \in Callers : Call(c) \/ Die(c)
  BY <1>1, CallKeepsCore, DieKeepsCore
<1>2. CASE StartAttempt
  BY <1>2, StartAttemptKeepsCore
<1>3. CASE \E succeeded \in BOOLEAN : EndAttempt(succeeded)
  BY <1>3, EndAttemptKeepsCore
<1>4. CASE \E i \in Ids, sent \in BOOLEAN : Resolve(i, sent)
  BY <1>4, ResolveKeepsCore
<1>5. CASE \E i \in Ids : ServiceAccepts(i) \/ Drop(i)
  BY <1>5, AcceptKeepsCore, DropKeepsCore
<1>6. CASE Tick
  BY <1>6, TickKeepsCore
<1>7. CASE UNCHANGED vars
  BY <1>7, StutterKeepsCore
<1> QED BY <1>1, <1>2, <1>3, <1>4, <1>5, <1>6, <1>7 DEF Next

\* The service deduplicates a replay: while a request of a nonce that has acted
\* still flies, the service's window for that nonce is open.
LEMMA ReplayIsDeduplicated ==
  ASSUME CoreInv, Timely \/ \A k \in Keys : Mode[k] # "key",
         NEW i \in Ids, request[i] = "flying",
         NEW a \in acts, ledger[a.intent].nonce = ledger[i].nonce
  PROVE  Deduplicated(i)
<1> DEFINE j == a.intent
           n == ledger[i].nonce
           ts == ledger[i].nonce_ts
<1>1. TypeOK /\ LinksOK /\ j \in Ids /\ a.at \in Nat
  BY DEF CoreInv, TypeOK
<1>2. request[j] = "ok" /\ ledger[j].nonce_ts <= a.at /\ j # i
  BY DEF CoreInv, ActsOK
<1>3. ledger[n].nonce_ts = ts /\ ledger[j].nonce_ts = ts
  BY <1>1, LinkFacts
<1>4. ledger[j].key = ledger[i].key
  BY <1>1, LinkFacts
<1>5. Mode[ledger[i].key] = "key"
  <2>1. i # n \/ j # n
    BY <1>2
  <2>2. /\ i # n => Mode[ledger[i].key] = "key"
        /\ j # n => Mode[ledger[j].key] = "key"
    BY <1>1 DEF LinksOK
  <2> QED BY <1>4, <2>1, <2>2
<1>6. Timely
  BY <1>1, <1>5, RecordsAreTyped
<1>7. /\ i # n => ledger[i].deadline <= ts + Window + Grace
      /\ i = n => ledger[i].deadline = ts + Timeout + Grace
      /\ j # n => /\ ledger[j].deadline <= ts + Window + Grace
                  /\ ts + Timeout + Grace <= ledger[j].deadline
      /\ now + Grace <= ledger[i].deadline
  BY <1>1, <1>3, <1>6 DEF CoreInv, TimesOK
<1>8. /\ ts \in Nat /\ now \in Nat /\ ledger[i].deadline \in Nat /\ ledger[j].deadline \in Nat
      /\ Timeout \in Nat /\ Grace \in Nat /\ Window \in Nat
  BY <1>1, RecordsAreTyped, StateIsTyped, TimeAssumption
<1>9. now <= a.at + Window
  <2>1. ts <= a.at
    BY <1>2, <1>3
  <2> HIDE DEF j, n, ts
  <2>2. CASE i # n
    BY <1>1, <1>7, <1>8, <2>1, <2>2
  <2>3. CASE i = n
    <3>1. j # n
      BY <1>2, <2>3
    <3> QED BY <1>1, <1>7, <1>8, <2>1, <2>3, <3>1
  <2> QED BY <2>2, <2>3
<1> QED BY <1>5, <1>9 DEF Deduplicated

\* Only the service's acceptance of a request makes an effect.
LEMMA OnlyAcceptanceActs ==
  ASSUME [Next]_vars, acts' # acts
  PROVE  \E i \in Ids : ServiceAccepts(i)
<1>1. \A c \in Callers : Call(c) => acts' = acts
  BY DEF Call, Begin, Admit, AdmitUnsynced, JournalRefuses, Refuse, AnswerAlreadySent,
         StartLookup, LookupFinds, LookupFails, Leave, BuildFails, Hear, Finish
<1>2. /\ \A c \in Callers : ~Die(c)
      /\ ~StartAttempt /\ (\A succeeded \in BOOLEAN : ~EndAttempt(succeeded))
      /\ (\A i \in Ids, sent \in BOOLEAN : ~Resolve(i, sent))
      /\ (\A i \in Ids : ~Drop(i)) /\ ~Tick /\ ~UNCHANGED vars
  BY DEF Die, StartAttempt, EndAttempt, Resolve, Drop, Tick, vars
<1> QED BY <1>1, <1>2 DEF Next

\* The nonce an intent was recorded with is never changed.
LEMMA NonceIsFixed ==
  ASSUME CoreInv, [Next]_vars, NEW i \in Ids
  PROVE  ledger'[i].nonce = ledger[i].nonce
<1> USE DEF SettledAs, Gained, SameIntent
<1>1. TypeOK
  BY DEF CoreInv
<1>2. CASE UNCHANGED ledger
  BY <1>2
<1>3. ASSUME NEW c \in Callers, Admit(c) \/ AdmitUnsynced(c)
      PROVE  ledger'[i].nonce = ledger[i].nonce
  <2>1. caller[c].key \in Keys /\ MayRecord(c)
    BY <1>3 DEF CoreInv, CallersOK, CallerFits, Admit, AdmitUnsynced, MayRecord
  <2>2. AdmittedRecord(c) \in IntentRecord
    BY <1>1, <2>1, AdmittedIsAdmissible DEF CoreInv, Admissible
  <2>3. \A state \in Outcomes \cup {"pending"} :
          [AdmittedRecord(c) EXCEPT !.state = state] \in IntentRecord
    <3> DEFINE q == AdmittedRecord(c)
    <3> HIDE DEF q
    <3>1. \A state \in Outcomes \cup {"pending"} : [q EXCEPT !.state = state] \in IntentRecord
      BY <2>2 DEF IntentRecord, q
    <3> QED BY <3>1 DEF q
  <2>4. PICK r \in IntentRecord : Record(r)
    BY <1>3, <2>2, <2>3 DEF Admit, AdmitUnsynced, Outcomes
  <2> QED BY <1>1, <2>4, RecordGains
<1>4. ASSUME NEW j \in Ids, NEW outcome \in Outcomes, NEW person \in BOOLEAN,
             Settle(j, outcome, person)
      PROVE  ledger'[i].nonce = ledger[i].nonce
  BY <1>1, <1>4, SettleSettles
<1>5. ASSUME NEW c \in Callers, Call(c)
      PROVE  \/ UNCHANGED ledger
             \/ Admit(c) \/ AdmitUnsynced(c)
             \/ \E j \in Ids, outcome \in Outcomes : Settle(j, outcome, FALSE)
  <2>1. CallerFits(c)
    BY DEF CoreInv, CallersOK
  <2>2. CASE LookupFinds(c) \/ LookupFails(c) \/ BuildFails(c) \/ Finish(c)
    BY <2>1, <2>2 DEF LookupFinds, LookupFails, BuildFails, Finish, TrySettle, CallerFits, Outcomes
  <2> QED
    BY <1>5, <2>2 DEF Call, Begin, JournalRefuses, Refuse, AnswerAlreadySent, StartLookup,
                      Leave, Hear
<1>6. CASE \E j \in Ids, sent \in BOOLEAN : Resolve(j, sent)
  BY <1>4, <1>6 DEF Resolve, Outcomes
<1>7. CASE \E c \in Callers : Call(c)
  BY <1>2, <1>3, <1>4, <1>5, <1>7
<1> QED
  BY <1>2, <1>6, <1>7 DEF Next, Die, StartAttempt, EndAttempt, ServiceAccepts, Drop, Tick, vars

\* A step keeps one effect per nonce.
LEMMA StepKeepsOneAct ==
  ASSUME CoreInv, OneActPerNonce, [Next]_vars,
         Timely \/ \A k \in Keys : Mode[k] # "key"
  PROVE  OneActPerNonce'
<1> SUFFICES ASSUME NEW a \in acts', NEW b \in acts',
                    ledger'[a.intent].nonce = ledger'[b.intent].nonce
             PROVE  a = b
  BY DEF OneActPerNonce
<1>1. CASE UNCHANGED acts
  <2>1. a \in acts /\ b \in acts /\ a.intent \in Ids /\ b.intent \in Ids
    BY <1>1 DEF CoreInv, TypeOK
  <2>2. \A i \in Ids : ledger'[i].nonce = ledger[i].nonce
    BY NonceIsFixed
  <2> QED BY <2>1, <2>2 DEF OneActPerNonce
<1>2. CASE ~UNCHANGED acts
  <2>1. PICK i \in Ids : ServiceAccepts(i)
    BY <1>2, OnlyAcceptanceActs
  <2> DEFINE new == [intent |-> i, at |-> now]
  <2>2. /\ request[i] = "flying" /\ ~Deduplicated(i) /\ acts' = acts \cup {new}
        /\ ledger' = ledger
    BY <1>2, <2>1 DEF ServiceAccepts
  <2>3. \A x \in acts : ledger[x.intent].nonce # ledger[i].nonce
    BY <2>2, ReplayIsDeduplicated
  <2>4. new.intent = i
    OBVIOUS
  <2> HIDE DEF new
  <2> QED BY <2>2, <2>3, <2>4 DEF OneActPerNonce
<1> QED BY <1>1, <1>2

-----------------------------------------------------------------------------
(* Theorems *)

\* The invariant that needs no timing holds in every behaviour.
THEOREM CoreInvariant == Spec => []CoreInv
<1>1. Init => CoreInv
  BY InitIsCore
<1>2. CoreInv /\ [Next]_vars => CoreInv'
  BY StepKeepsCore
<1> QED BY <1>1, <1>2, PTL DEF Spec

\* Every variable keeps its type (run send_marker).
THEOREM TypeCorrect == Spec => []TypeOK
<1>1. CoreInv => TypeOK
  BY DEF CoreInv
<1> QED BY <1>1, CoreInvariant, PTL

\* A settlement the code journals is true, however late requests arrive and
\* whichever callers die (run send_marker).
THEOREM SettlementsHold == Spec => []SettlementsAreTrue
<1>1. CoreInv => SettlementsAreTrue
  BY DEF CoreInv
<1> QED BY <1>1, CoreInvariant, PTL

\* What the effects at the service rest on holds, when no function is in key
\* mode or requests and answers keep to their timeouts.
THEOREM EffectsInvariant ==
  ASSUME Timely \/ \A k \in Keys : Mode[k] # "key"
  PROVE  Spec => []EffectsInv
<1>1. Init => CoreInv /\ OneActPerNonce
  <2>1. Init => OneActPerNonce
    BY DEF Init, OneActPerNonce
  <2> QED BY <2>1, InitIsCore
<1>2. (CoreInv /\ OneActPerNonce) /\ [Next]_vars => (CoreInv /\ OneActPerNonce)'
  BY StepKeepsCore, StepKeepsOneAct
<1>3. CoreInv /\ OneActPerNonce => EffectsInv
  BY DEF CoreInv, EffectsInv
<1> QED BY <1>1, <1>2, <1>3, PTL DEF Spec

\* The promise of send-once: no chain of intents has two effects at the service
\* unless the resend policy or a person allowed a repeat (run send_key), under
\* the same timing assumption, which only a key-mode window needs.
THEOREM NoBlindSecondSend ==
  ASSUME Timely \/ \A k \in Keys : Mode[k] # "key"
  PROVE  Spec => []AtMostOnce
<1>1. EffectsInv => AtMostOnce
  <2> SUFFICES ASSUME EffectsInv, NEW a \in acts, NEW b \in acts, a # b,
                      ledger[a.intent].root = ledger[b.intent].root
               PROVE  Excused(a.intent)
    BY DEF AtMostOnce
  <2> DEFINE i == a.intent
             j == b.intent
  <2>1. TypeOK /\ i \in Ids /\ j \in Ids /\ i \in Nat /\ j \in Nat
    BY DEF EffectsInv, TypeOK, Ids
  <2>2. ledger[i].nonce # ledger[j].nonce
    BY DEF EffectsInv, OneActPerNonce
  <2>3. ~Harmless(i) /\ ~Harmless(j)
    BY DEF Harmless
  <2>4. Excused(i) <=> Excused(j)
    BY DEF Excused, ChainOf
  <2>5. i < j \/ j < i
    BY <2>1, <2>2
  <2> HIDE DEF i, j
  <2>6. ledger[i].root = ledger[j].root
    BY DEF i, j
  <2>7. Excused(i)
    BY <2>1, <2>2, <2>3, <2>4, <2>5, <2>6 DEF EffectsInv, EarlierAreHarmless
  <2> QED BY <2>7 DEF i
<1> QED BY <1>1, EffectsInvariant, PTL

-----------------------------------------------------------------------------
(* What a step does to the ledger *)

\* The records keep their links: nothing is recorded.
SameLinks ==
  /\ Len(ledger') = Len(ledger)
  /\ \A j \in Ids : /\ SameIntent(ledger'[j], ledger[j])
                    /\ ledger'[j].superseded_by = ledger[j].superseded_by

\* What the record of an admitted call says of its links.
Linked(c, r) == LET k == caller[c].key IN
  /\ r.superseded_by = 0
  /\ \/ /\ Admission(k) = "new" /\ InScope(k) = {}
        /\ r.replay_of = 0 /\ r.resend_of = 0
        /\ r.root = Len(ledger) + 1 /\ r.nonce = Len(ledger) + 1
     \/ /\ Admission(k) \in {"resend", "resend_unknown"} /\ InScope(k) # {}
        /\ r.replay_of = 0 /\ r.resend_of = Tip(k)
        /\ r.root = ledger[Tip(k)].root /\ r.nonce = Len(ledger) + 1
     \/ /\ Admission(k) = "replay" /\ InScope(k) # {}
        /\ r.replay_of = Tip(k) /\ r.resend_of = 0
        /\ r.root = ledger[Tip(k)].root
        /\ r.nonce = ledger[VerdictMember(TipChain(k))].nonce

\* A call was admitted and its record r is in the ledger.
Records(c, r) ==
  /\ MayRecord(c) /\ caller[c].key \in Keys
  /\ Gained(r) /\ Admissible(c, r) /\ Linked(c, r) /\ NotePolicy(c)
  /\ UNCHANGED <<passed, attempt, open, calls, acts, now>>
  /\ \/ /\ r.state = "pending" /\ request' = Append(request, "unsent")
        /\ caller' = [caller EXCEPT ![c].pc = "admitted", ![c].intent = Len(ledger) + 1]
     \/ request' = Append(request, "over") /\ Return(c)

\* A record made by an admitted call is linked to the tip of the chain.
LEMMA AdmittedIsLinked ==
  ASSUME TypeOK, NEW c \in Callers, MayRecord(c), caller[c].key \in Keys
  PROVE  Linked(c, AdmittedRecord(c))
<1> DEFINE k == caller[c].key
           n == Len(ledger) + 1
<1>1. Admission(k) \in {"new", "resend", "resend_unknown", "replay"}
  BY DEF MayRecord, Sends
<1>2. InScope(k) = {} <=> Admission(k) = "new"
  <2>1. InScope(k) = {} => Admission(k) = "new"
    BY DEF Admission
  <2>2. ASSUME InScope(k) # {} PROVE Admission(k) # "new"
    <3> DEFINE v == VerdictState(TipChain(k))
    <3>1. v \in {"confirmed", "pending", "unknown", "not_sent"}
      BY DEF VerdictState
    <3>2. DecideUnknown(k) # "new"
      <4>1. Mode[k] \in {"key", "marker", "ref", "none"}
        BY ModeAssumption
      <4> HIDE DEF k
      <4> QED BY <4>1 DEF DecideUnknown
    <3>3. Admission(k) = CASE v = "confirmed" -> "already_sent"
                           [] v = "pending" -> "in_flight"
                           [] v = "unknown" -> DecideUnknown(k)
                           [] v = "not_sent" -> "resend"
      BY <2>2 DEF Admission
    <3> HIDE DEF v, k
    <3> QED BY <3>1, <3>2, <3>3
  <2> QED BY <2>1, <2>2
<1>0. InScope(k) # {} => Tip(k) \in Nat /\ Tip(k) # 0
  <2>1. InScope(k) # {} => Tip(k) \in Ids
    BY TipIsInScope
  <2>2. \A i \in Ids : i \in Nat /\ i # 0
    BY DEF TypeOK, Ids
  <2> QED BY <2>1, <2>2
<1>3. CASE Admission(k) = "new"
  <2>1. AdmittedRecord(c) = Draft(c, 0, 0)
    BY <1>3 DEF AdmittedRecord
  <2> QED BY <1>2, <1>3, <2>1 DEF Linked, Draft
<1>4. CASE Admission(k) \in {"resend", "resend_unknown"}
  <2>1. AdmittedRecord(c) = Draft(c, 0, Tip(k))
    BY <1>4 DEF AdmittedRecord
  <2>2. Tip(k) \in Nat /\ Tip(k) # 0
    BY <1>0, <1>2, <1>4
  <2> DEFINE r == Draft(c, 0, Tip(k))
  <2>3. /\ r.superseded_by = 0 /\ r.replay_of = 0 /\ r.resend_of = Tip(k)
        /\ r.root = ledger[Tip(k)].root /\ r.nonce = n
    BY <2>2 DEF Draft
  <2> HIDE DEF r
  <2> QED BY <1>2, <1>4, <2>1, <2>3 DEF Linked, r
<1>5. CASE Admission(k) = "replay"
  <2>1. AdmittedRecord(c) = Draft(c, Tip(k), 0)
    BY <1>5 DEF AdmittedRecord
  <2>2. Tip(k) \in Nat /\ Tip(k) # 0
    BY <1>0, <1>2, <1>5
  <2> DEFINE r == Draft(c, Tip(k), 0)
  <2>3. /\ r.superseded_by = 0 /\ r.replay_of = Tip(k) /\ r.resend_of = 0
        /\ r.root = ledger[Tip(k)].root /\ r.nonce = ledger[VerdictMember(TipChain(k))].nonce
    BY <2>2 DEF Draft, TipChain
  <2> HIDE DEF r
  <2> QED BY <1>2, <1>5, <2>1, <2>3 DEF Linked, r
<1> QED BY <1>1, <1>3, <1>4, <1>5

\* An admission records one intent, whether its sync succeeds or not.
LEMMA AdmitsRecord ==
  ASSUME CoreInv, NEW c \in Callers, Admit(c) \/ AdmitUnsynced(c)
  PROVE  \E r : Records(c, r)
<1> DEFINE q == AdmittedRecord(c)
<1>1. TypeOK /\ LinksOK /\ MayRecord(c) /\ caller[c].key \in Keys
  BY DEF CoreInv, CallersOK, CallerFits, Admit, AdmitUnsynced, MayRecord
<1>2. Admissible(c, q) /\ Linked(c, q) /\ q \in IntentRecord /\ q.state = "pending"
  BY <1>1, AdmittedIsAdmissible, AdmittedIsLinked DEF Admissible
<1>3. CASE Admit(c)
  <2>1. Record(q) /\ NotePolicy(c)
    BY <1>3 DEF Admit
  <2>2. Gained(q)
    BY <1>1, <1>2, <2>1, RecordGains
  <2>3. Records(c, q)
    <3> HIDE DEF q
    <3> QED BY <1>1, <1>2, <1>3, <2>1, <2>2 DEF Records, Admit
  <2> QED BY <2>3
<1>4. CASE AdmitUnsynced(c)
  <2>1. PICK state \in {"pending", "not_sent"} : Record([q EXCEPT !.state = state])
    BY <1>4 DEF AdmitUnsynced
  <2> DEFINE r == [q EXCEPT !.state = state]
  <2> HIDE DEF q
  <2>2. r \in IntentRecord /\ SameIntent(r, q) /\ r.superseded_by = q.superseded_by
    BY <1>2, <2>1 DEF IntentRecord, SameIntent, Outcomes
  <2>3. Record(r) /\ NotePolicy(c)
    BY <1>4, <2>1 DEF AdmitUnsynced
  <2> HIDE DEF r
  <2>4. Gained(r)
    BY <1>1, <2>2, <2>3, RecordGains
  <2>5. Admissible(c, r) /\ Linked(c, r)
    BY <1>2, <2>2 DEF Admissible, SameIntent, FirstSend, FreshRepeat, ReplayOf, Linked
  <2>6. Records(c, r)
    BY <1>1, <1>4, <2>3, <2>4, <2>5 DEF Records, AdmitUnsynced
  <2> QED BY <2>6
<1> QED BY <1>3, <1>4

\* Who settles an intent, and as what.
Settles(i) ==
  \/ \E c \in Callers :
       /\ caller[c].intent = i /\ Return(c) /\ (Finish(c) \/ LookupFinds(c) \/ LookupFails(c) \/ BuildFails(c))
       /\ \E outcome \in Outcomes : SettledAs(i, outcome)
  \/ \E sent \in BOOLEAN : Resolve(i, sent) /\ \E outcome \in Outcomes : SettledAs(i, outcome)

\* Every step leaves the ledger alone, settles one intent or records one.
LEMMA LedgerMove ==
  ASSUME CoreInv, [Next]_vars
  PROVE  \/ ledger' = ledger
         \/ \E i \in Ids : Settles(i)
         \/ \E c \in Callers : \E r : Records(c, r)
<1>1. TypeOK
  BY DEF CoreInv
<1>2. ASSUME NEW c \in Callers, Finish(c) \/ LookupFinds(c) \/ LookupFails(c) \/ BuildFails(c)
      PROVE  ledger' = ledger \/ \E i \in Ids : Settles(i)
  <2> DEFINE i == caller[c].intent
  <2>1. i \in Ids /\ (caller[c].pc = "heard" => caller[c].got \in Outcomes)
    BY <1>2 DEF CoreInv, CallersOK, CallerFits, Finish, LookupFinds, LookupFails, BuildFails
  <2>2. ledger' = ledger \/ \E outcome \in Outcomes : Settle(i, outcome, FALSE)
    BY <1>2, <2>1 DEF Finish, LookupFinds, LookupFails, BuildFails, TrySettle, Outcomes
  <2>3. (\E outcome \in Outcomes : Settle(i, outcome, FALSE)) => \E outcome \in Outcomes : SettledAs(i, outcome)
    BY <1>1, <2>1, SettleSettles
  <2>4. Return(c)
    BY <1>2 DEF Finish, LookupFinds, LookupFails, BuildFails
  <2> QED BY <1>2, <2>1, <2>2, <2>3, <2>4 DEF Settles
<1>3. ASSUME NEW i \in Ids, NEW sent \in BOOLEAN, Resolve(i, sent)
      PROVE  Settles(i)
  <2>1. \E outcome \in Outcomes : Settle(i, outcome, TRUE)
    BY <1>3 DEF Resolve, Outcomes
  <2> QED BY <1>1, <1>3, <2>1, SettleSettles DEF Settles
<1>4. ASSUME NEW c \in Callers, Call(c)
      PROVE  \/ ledger' = ledger
             \/ Finish(c) \/ LookupFinds(c) \/ LookupFails(c) \/ BuildFails(c)
             \/ Admit(c) \/ AdmitUnsynced(c)
  BY <1>4 DEF Call, Begin, JournalRefuses, Refuse, AnswerAlreadySent, StartLookup, Leave, Hear
<1>5. CASE \E c \in Callers : Call(c)
  BY <1>2, <1>4, <1>5, AdmitsRecord
<1>6. CASE \E i \in Ids, sent \in BOOLEAN : Resolve(i, sent)
  BY <1>3, <1>6
<1> QED
  BY <1>5, <1>6 DEF Next, Die, StartAttempt, EndAttempt, ServiceAccepts, Drop, Tick, vars

\* So but for a recording, every record keeps its links.
LEMMA LinksMove ==
  ASSUME CoreInv, [Next]_vars
  PROVE  SameLinks \/ \E c \in Callers : \E r : Records(c, r)
<1>1. CASE ledger' = ledger
  BY <1>1 DEF SameLinks, SameIntent
<1>2. ASSUME NEW i \in Ids, NEW outcome \in Outcomes, SettledAs(i, outcome)
      PROVE  SameLinks
  BY <1>2 DEF SettledAs, SameLinks
<1> QED BY <1>1, <1>2, LedgerMove DEF Settles

-----------------------------------------------------------------------------
(* Where a scope begins and ends *)

\* Min picks the earliest of a nonempty set of positions, as a scope's start does.
LEMMA MinIsEarliest ==
  ASSUME NEW S, S \subseteq Nat, S # {}
  PROVE  Min(S) \in S /\ \A y \in S : Min(S) <= y
<1> DEFINE Less == OpToRel(<, Nat)
<1>1. IsWellFoundedOn(Less, Nat)
  BY NatLessThanWellFounded
<1>2. PICK m \in S : \A y \in S : ~(<<y, m>> \in Less)
  BY <1>1, WFMin
<1>3. \A y \in S : m <= y
  <2> SUFFICES ASSUME NEW y \in S PROVE m <= y
    OBVIOUS
  <2>1. ~(y < m)
    BY <1>2 DEF OpToRel
  <2> QED BY <2>1
<1> QED BY <1>3 DEF Min

\* What an item's scope leaves behind it has passed and is not open.
LEMMA FloorIs ==
  ASSUME TypeOK, NEW k
  PROVE  /\ Floor(k) \in Nat /\ Floor(k) <= passed
         /\ IsItem(k) => \A i \in Ids : ledger[i].key = k /\ i < Floor(k) =>
              VerdictState(SendOf(i)) \notin {"unknown", "pending"}
<1>1. passed \in Nat /\ OpenSends \subseteq Nat /\ \A i \in Ids : i \in Nat
  BY StateIsTyped DEF OpenSends
<1>2. CASE ~IsItem(k)
  BY <1>1, <1>2 DEF Floor
<1>3. CASE IsItem(k)
  <2> DEFINE S == OpenSends \cup {passed}
             f == Floor(k)
  <2>1. f = Min(S) /\ S \subseteq Nat /\ passed \in S
    BY <1>1, <1>3 DEF Floor
  <2> HIDE DEF S, f
  <2>2. f \in S /\ \A y \in S : f <= y
    BY <2>1, MinIsEarliest
  <2>3. ASSUME NEW i \in Ids, ledger[i].key = k, i < f,
               VerdictState(SendOf(i)) \in {"unknown", "pending"}
        PROVE  FALSE
    <3>1. i < passed /\ f \in Nat /\ i \in Nat
      BY <1>1, <2>1, <2>2, <2>3
    <3>2. i \in S
      BY <1>3, <2>3, <3>1 DEF S, OpenSends
    <3> QED BY <2>2, <2>3, <3>1, <3>2
  <2> QED BY <1>1, <2>1, <2>2, <2>3 DEF f
<1> QED BY <1>1, <1>2, <1>3

\* The tip is the latest intent of its key.
LEMMA TipIsLast ==
  ASSUME TypeOK, NEW k \in Keys, InScope(k) # {}
  PROVE  Tip(k) \in Ids /\ ledger[Tip(k)].key = k /\ \A i \in Ids : ledger[i].key = k => i <= Tip(k)
<1> DEFINE f == Floor(k)
<1>1. Len(ledger) \in Nat /\ Ids = 1..Len(ledger) /\ f \in Nat
  BY StateIsTyped, FloorIs
<1>2. InScope(k) \subseteq 1..Len(ledger)
  BY <1>1 DEF InScope
<1>3. Tip(k) \in InScope(k) /\ \A y \in InScope(k) : y <= Tip(k)
  BY <1>1, <1>2, MaxIsLatest DEF Tip
<1>4. Tip(k) \in Ids /\ ledger[Tip(k)].key = k /\ Tip(k) >= f
  BY <1>3 DEF InScope
<1> DEFINE t == Tip(k)
<1> HIDE DEF t, f
<1>5. ASSUME NEW i \in Ids, ledger[i].key = k
      PROVE  i <= t
  <2>1. CASE i >= f
    <3>1. i \in InScope(k)
      BY <1>5, <2>1 DEF InScope, f
    <3> QED BY <1>3, <3>1 DEF t
  <2>2. CASE ~(i >= f)
    <3>1. t \in Nat /\ t >= f /\ i \in Nat
      BY <1>1, <1>4 DEF t
    <3> QED BY <1>1, <2>2, <3>1
  <2> QED BY <2>1, <2>2
<1> QED BY <1>4, <1>5 DEF t

-----------------------------------------------------------------------------
(* A chain is a line *)

\* The link of a repeat, whichever it is.
Prev(r) == IF r.replay_of # 0 THEN r.replay_of ELSE r.resend_of

\* One record of a line.
OnLine(i) == LET r == ledger[i] IN
  /\ r.replay_of = 0 \/ r.resend_of = 0
  /\ Prev(r) = 0 => r.root = i /\ r.nonce = i
  /\ Prev(r) # 0 => /\ Prev(r) \in 1..(i - 1)
                    /\ ledger[Prev(r)].superseded_by = i
                    /\ ledger[Prev(r)].key = r.key /\ ledger[Prev(r)].root = r.root
  /\ r.superseded_by # 0 =>
       /\ r.superseded_by \in (i + 1)..Len(ledger)
       /\ i \in {ledger[r.superseded_by].replay_of, ledger[r.superseded_by].resend_of}

LEMMA LineIs == ChainIsALine <=> \A i \in Ids : OnLine(i)
BY DEF ChainIsALine, OnLine, Prev

\* The tip of a chain is not superseded: the intent that did it would be of the
\* same key and later.
LEMMA TipIsFree ==
  ASSUME TypeOK, ChainIsALine, NEW k \in Keys, InScope(k) # {}
  PROVE  ledger[Tip(k)].superseded_by = 0
<1> DEFINE t == Tip(k)
           s == ledger[t].superseded_by
<1>1. t \in Ids /\ ledger[t].key = k /\ \A i \in Ids : ledger[i].key = k => i <= t
  BY TipIsLast
<1>2. Ids = 1..Len(ledger) /\ Len(ledger) \in Nat
  BY StateIsTyped
<1> SUFFICES ASSUME s # 0 PROVE FALSE
  OBVIOUS
<1>3. s \in (t + 1)..Len(ledger) /\ t \in {ledger[s].replay_of, ledger[s].resend_of}
  BY <1>1, LineIs DEF OnLine
<1> HIDE DEF s, t
<1>4. s \in Ids /\ s > t /\ t # 0 /\ t \in Nat /\ s \in Nat
  BY <1>1, <1>2, <1>3
<1>5. OnLine(s) /\ ledger[s] \in IntentRecord
  BY <1>4, LineIs, RecordsAreTyped
<1>6. Prev(ledger[s]) = t
  BY <1>3, <1>4, <1>5 DEF OnLine, Prev
<1>7. ledger[s].key = ledger[t].key
  BY <1>4, <1>5, <1>6 DEF OnLine
<1> QED BY <1>1, <1>4, <1>7

\* A recording adds one position.
LEMMA RecordingAdds ==
  ASSUME TypeOK, NEW c \in Callers, NEW r, Records(c, r)
  PROVE  /\ Len(ledger) \in Nat /\ Len(ledger') = Len(ledger) + 1
         /\ Ids = 1..Len(ledger) /\ Ids' = Ids \cup {Len(ledger) + 1}
         /\ Len(ledger) + 1 \in Nat /\ Len(ledger) + 1 \notin Ids
         /\ r = ledger'[Len(ledger) + 1] /\ r \in IntentRecord
<1>1. Len(ledger) \in Nat /\ Ids = 1..Len(ledger)
  BY StateIsTyped
<1>2. Len(ledger') = Len(ledger) + 1 /\ r = ledger'[Len(ledger) + 1] /\ r \in IntentRecord
  BY DEF Records, Gained, Admissible
<1>3. Ids' = 1..Len(ledger')
  BY DEF Ids
<1> QED BY <1>1, <1>2, <1>3

\* A recording extends a line at its end.
LEMMA RecordingKeepsLine ==
  ASSUME TypeOK, ChainIsALine, NEW c \in Callers, NEW r, Records(c, r)
  PROVE  ChainIsALine'
<1> DEFINE k == caller[c].key
           n == Len(ledger) + 1
           t == Tip(k)
           p == Prev(r)
<1>1. /\ n \in Nat /\ Ids = 1..(n - 1) /\ Ids' = Ids \cup {n} /\ n \notin Ids
      /\ Len(ledger') = n /\ ledger'[n] = r /\ r \in IntentRecord
  BY RecordingAdds
<1>2. k \in Keys /\ r.key = k /\ Linked(c, r)
  BY DEF Records, Admissible
<1>3. \A j \in Ids : /\ SameIntent(ledger'[j], ledger[j])
                     /\ ledger'[j].superseded_by =
                          IF j \in {r.replay_of, r.resend_of} THEN n ELSE ledger[j].superseded_by
  BY DEF Records, Gained
<1>4. /\ r.superseded_by = 0 /\ (r.replay_of = 0 \/ r.resend_of = 0)
      /\ p = 0 => r.root = n /\ r.nonce = n
      /\ p # 0 => p \in Ids /\ ledger[p].key = k /\ ledger[p].superseded_by = 0
                  /\ r.root = ledger[p].root
  <2>1. CASE Admission(k) = "new"
    BY <1>2, <2>1 DEF Linked, Prev
  <2>2. CASE Admission(k) # "new"
    <3>1. InScope(k) # {}
      BY <1>2, <2>2 DEF Linked
    <3>2. t \in Ids /\ ledger[t].key = k /\ ledger[t].superseded_by = 0
      BY <1>2, <3>1, TipIsInScope, TipIsFree
    <3>3. t # 0
      BY <1>1, <3>2
    <3> QED BY <1>2, <2>2, <3>2, <3>3 DEF Linked, Prev
  <2> QED BY <2>1, <2>2
<1>5. \A j \in Ids : j \in {r.replay_of, r.resend_of} <=> j = p
  BY <1>1, <1>4 DEF Prev
<1> HIDE DEF n, t, p, k
<1>6. ASSUME NEW i \in Ids' PROVE OnLine(i)'
  <2>1. CASE i = n
    <3>1. p # 0 => p \in 1..(i - 1) /\ SameIntent(ledger'[p], ledger[p]) /\ ledger'[p].superseded_by = i
      BY <1>1, <1>3, <1>4, <1>5, <2>1
    <3> QED BY <1>1, <1>2, <1>4, <2>1, <3>1 DEF OnLine, p, SameIntent, Prev
  <2>2. CASE i \in Ids
    <3> DEFINE q == ledger[i]
               s == ledger'[i]
    <3>1. OnLine(i)
      BY <2>2, LineIs
    <3>2. SameIntent(s, q) /\ Prev(s) = Prev(q)
      BY <1>3, <2>2 DEF SameIntent, Prev
    <3>3. s.superseded_by = IF i = p THEN n ELSE q.superseded_by
      BY <1>3, <1>5, <2>2
    <3>4. ASSUME Prev(q) # 0
          PROVE  /\ Prev(q) \in 1..(i - 1) /\ ledger'[Prev(q)].superseded_by = i
                 /\ ledger'[Prev(q)].key = s.key /\ ledger'[Prev(q)].root = s.root
      <4> DEFINE u == Prev(q)
      <4>1. u \in 1..(i - 1) /\ ledger[u].superseded_by = i /\ ledger[u].key = q.key /\ ledger[u].root = q.root
        BY <3>1, <3>4 DEF OnLine
      <4> HIDE DEF u
      <4>2. u \in Ids /\ i # 0
        BY <1>1, <2>2, <4>1
      <4>3. u # p
        <5> SUFFICES ASSUME u = p PROVE FALSE
          OBVIOUS
        <5>1. p # 0
          BY <1>1, <4>2
        <5> QED BY <1>4, <4>1, <4>2, <5>1
      <4>4. ledger'[u].superseded_by = i /\ SameIntent(ledger'[u], ledger[u])
        BY <1>3, <1>5, <4>1, <4>2, <4>3
      <4> QED BY <3>2, <4>1, <4>4 DEF SameIntent, u
    <3>5. ASSUME s.superseded_by # 0
          PROVE  /\ s.superseded_by \in (i + 1)..n
                 /\ i \in {ledger'[s.superseded_by].replay_of, ledger'[s.superseded_by].resend_of}
      <4>1. CASE i = p
        BY <1>1, <1>5, <2>2, <3>3, <4>1
      <4>2. CASE i # p
        <5> DEFINE u == q.superseded_by
        <5>1. u # 0 /\ s.superseded_by = u
          BY <3>3, <3>5, <4>2
        <5>2. u \in (i + 1)..(n - 1) /\ i \in {ledger[u].replay_of, ledger[u].resend_of}
          BY <3>1, <5>1 DEF OnLine, n
        <5> HIDE DEF u
        <5>3. u \in Ids /\ u \in (i + 1)..n
          BY <1>1, <2>2, <5>2
        <5>4. SameIntent(ledger'[u], ledger[u])
          BY <1>3, <5>3
        <5> QED BY <5>1, <5>2, <5>3, <5>4 DEF SameIntent
      <4> QED BY <4>1, <4>2
    <3>6. s.replay_of = 0 \/ s.resend_of = 0
      BY <3>1, <3>2 DEF OnLine, SameIntent
    <3>7. Prev(s) = 0 => s.root = i /\ s.nonce = i
      BY <3>1, <3>2 DEF OnLine, SameIntent
    <3> HIDE DEF q, s
    <3>8. /\ s.replay_of = 0 \/ s.resend_of = 0
          /\ Prev(s) = 0 => s.root = i /\ s.nonce = i
          /\ Prev(s) # 0 => /\ Prev(s) \in 1..(i - 1) /\ ledger'[Prev(s)].superseded_by = i
                            /\ ledger'[Prev(s)].key = s.key /\ ledger'[Prev(s)].root = s.root
          /\ s.superseded_by # 0 =>
               /\ s.superseded_by \in (i + 1)..Len(ledger')
               /\ i \in {ledger'[s.superseded_by].replay_of, ledger'[s.superseded_by].resend_of}
      BY <1>1, <3>2, <3>4, <3>5, <3>6, <3>7
    <3> QED BY <3>8 DEF OnLine, s, Prev
  <2> QED BY <1>1, <2>1, <2>2
<1> QED BY <1>6 DEF ChainIsALine, OnLine, Prev

\* Settlements keep the links, and a recording extends one line.
LEMMA StepKeepsLine ==
  ASSUME CoreInv, ChainIsALine, [Next]_vars
  PROVE  ChainIsALine'
<1>1. TypeOK
  BY DEF CoreInv
<1>2. CASE SameLinks
  <2>1. Ids' = Ids /\ Ids = 1..Len(ledger) /\ Len(ledger') = Len(ledger) /\ Len(ledger) \in Nat
    BY <1>1, <1>2, StateIsTyped DEF SameLinks, Ids
  <2>2. \A j \in Ids : SameIntent(ledger'[j], ledger[j]) /\ ledger'[j].superseded_by = ledger[j].superseded_by
    BY <1>2 DEF SameLinks
  <2>3. ASSUME NEW i \in Ids PROVE OnLine(i)'
    <3>1. OnLine(i)
      BY LineIs
    <3>2. SameIntent(ledger'[i], ledger[i]) /\ ledger'[i].superseded_by = ledger[i].superseded_by
          /\ Prev(ledger'[i]) = Prev(ledger[i])
      BY <2>2 DEF Prev, SameIntent
    <3>3. Prev(ledger[i]) # 0 => Prev(ledger[i]) \in Ids
      BY <2>1, <3>1 DEF OnLine
    <3>4. ledger[i].superseded_by # 0 => ledger[i].superseded_by \in Ids
      BY <2>1, <3>1 DEF OnLine
    <3> DEFINE p == Prev(ledger[i])
               u == ledger[i].superseded_by
    <3>5. /\ p # 0 => ledger'[p].superseded_by = ledger[p].superseded_by /\ SameIntent(ledger'[p], ledger[p])
          /\ u # 0 => SameIntent(ledger'[u], ledger[u])
      BY <2>2, <3>3, <3>4
    <3>6. p = Prev(ledger'[i]) /\ u = ledger'[i].superseded_by
      BY <3>2
    <3>7. /\ p = 0 => ledger[i].root = i /\ ledger[i].nonce = i
          /\ p # 0 => /\ p \in 1..(i - 1) /\ ledger[p].superseded_by = i
                      /\ ledger[p].key = ledger[i].key /\ ledger[p].root = ledger[i].root
          /\ u # 0 => u \in (i + 1)..Len(ledger) /\ i \in {ledger[u].replay_of, ledger[u].resend_of}
          /\ ledger[i].replay_of = 0 \/ ledger[i].resend_of = 0
      BY <3>1 DEF OnLine
    <3> HIDE DEF p, u
    <3>8. /\ p = 0 => ledger'[i].root = i /\ ledger'[i].nonce = i
          /\ p # 0 => /\ p \in 1..(i - 1) /\ ledger'[p].superseded_by = i
                      /\ ledger'[p].key = ledger'[i].key /\ ledger'[p].root = ledger'[i].root
          /\ u # 0 => u \in (i + 1)..Len(ledger') /\ i \in {ledger'[u].replay_of, ledger'[u].resend_of}
          /\ ledger'[i].replay_of = 0 \/ ledger'[i].resend_of = 0
      BY <2>1, <3>2, <3>5, <3>7 DEF SameIntent
    <3> QED BY <3>6, <3>8 DEF OnLine, Prev
  <2> QED BY <2>1, <2>3 DEF ChainIsALine, OnLine, Prev
<1>3. CASE \E c \in Callers : \E r : Records(c, r)
  BY <1>1, <1>3, RecordingKeepsLine
<1> QED BY <1>2, <1>3, LinksMove

-----------------------------------------------------------------------------
(* A fresh send *)

\* Only an empty scope admits a first send, and what a list item's scope leaves
\* behind is settled.
LEMMA FreshSendIsClear ==
  ASSUME CoreInv, [Next]_vars, Len(ledger') > Len(ledger),
         IsItem(ledger'[Len(ledger')].key), ledger'[Len(ledger')].root = Len(ledger'),
         NEW i \in Ids, ledger[i].key = ledger'[Len(ledger')].key
  PROVE  VerdictState(SendOf(i)) \notin {"unknown", "pending"}
<1>1. TypeOK /\ LinksOK /\ Len(ledger) \in Nat
  BY StateIsTyped DEF CoreInv
<1>2. PICK c \in Callers : \E r : Records(c, r)
  BY <1>1, LinksMove DEF SameLinks
<1>3. PICK r : Records(c, r)
  BY <1>2
<1> DEFINE k == caller[c].key
           n == Len(ledger) + 1
<1>4. n \in Nat /\ Len(ledger') = n /\ Ids = 1..(n - 1) /\ r = ledger'[n]
  BY <1>1, <1>3, RecordingAdds
<1>5. k \in Keys /\ r.key = k /\ Linked(c, r) /\ r.root = n
  BY <1>3, <1>4 DEF Records, Admissible
<1>6. InScope(k) = {}
  <2> SUFFICES ASSUME InScope(k) # {} PROVE FALSE
    OBVIOUS
  <2>1. r.root = ledger[Tip(k)].root
    BY <1>5 DEF Linked
  <2>2. Tip(k) \in Ids
    BY <1>1, <1>5, TipIsInScope
  <2>3. ledger[Tip(k)].root \in Ids
    BY <1>1, <2>2, LinkFacts
  <2> HIDE DEF n
  <2> QED BY <1>4, <1>5, <2>1, <2>3
<1> DEFINE f == Floor(k)
<1>7. ledger[i].key = k /\ IsItem(k)
  BY <1>4, <1>5
<1>8. ~(i >= f) /\ f \in Nat /\ i \in Nat
  BY <1>1, <1>4, <1>6, <1>7, FloorIs DEF InScope
<1>9. i < f
  <2> HIDE DEF f
  <2> QED BY <1>8
<1> QED BY <1>1, <1>7, <1>9, FloorIs

-----------------------------------------------------------------------------
(* Who sends, and who settles or looks up *)

\* What an intent was recorded with stays, and the clock never goes back.
LEMMA IntentsStay ==
  ASSUME CoreInv, [Next]_vars
  PROVE  /\ \A i \in Ids : i \in Ids' /\ SameIntent(ledger'[i], ledger[i])
         /\ now \in Nat /\ now' \in Nat /\ now <= now'
<1>1. TypeOK /\ Ids = 1..Len(ledger) /\ Len(ledger) \in Nat /\ now \in Nat
  BY StateIsTyped DEF CoreInv
<1>2. now' = now \/ now' = now + 1
  BY DEF Next, Call, Begin, Admit, AdmitUnsynced, JournalRefuses, Refuse, AnswerAlreadySent,
         StartLookup, LookupFinds, LookupFails, Leave, BuildFails, Hear, Finish, Die,
         StartAttempt, EndAttempt, Resolve, ServiceAccepts, Drop, Tick, vars
<1>3. CASE SameLinks
  BY <1>1, <1>2, <1>3 DEF SameLinks, Ids
<1>4. CASE \E c \in Callers : \E r : Records(c, r)
  BY <1>1, <1>2, <1>4, RecordingAdds DEF Records, Gained
<1> QED BY <1>3, <1>4, LinksMove

Working(c) == caller[c].pc \in {"looking", "admitted", "sent", "heard"}

\* A process that looks up, sends or has heard was doing so already with the same
\* intent, starts to look one up, or was just admitted.
LEMMA CallerMoves ==
  ASSUME CoreInv, [Next]_vars, NEW d \in Callers, Working(d)'
  PROVE  \/ /\ Working(d)
            /\ caller'[d].intent = caller[d].intent /\ caller'[d].key = caller[d].key
            /\ Sending(d)' => Sending(d)
            /\ caller'[d].pc = "looking" => caller[d].pc = "looking"
            /\ caller'[d].pc = "heard" => caller[d].pc = "heard" \/ \E got \in Outcomes : Hear(d, got)
         \/ /\ StartLookup(d) /\ caller'[d].pc = "looking" /\ caller'[d].key = caller[d].key
            /\ caller'[d].intent = VerdictMember(TipChain(caller[d].key))
         \/ /\ \E r : Records(d, r) /\ r.state = "pending" /\ request' = Append(request, "unsent")
            /\ caller'[d].pc = "admitted" /\ caller'[d].key = caller[d].key
            /\ caller'[d].intent = Len(ledger) + 1
<1> USE DEF Working, Sending
<1>1. TypeOK /\ caller \in [Callers -> Calling]
  BY StateIsTyped DEF CoreInv
<1>2. CASE caller'[d] = caller[d]
  BY <1>2
<1>3. ASSUME NEW c \in Callers, Return(c) PROVE caller'[c] = Idle /\ \A e \in Callers : e # c => caller'[e] = caller[e]
  BY <1>1, <1>3 DEF Return
<1>4. ASSUME NEW c \in Callers, Call(c) PROVE \A e \in Callers : e # c => caller'[e] = caller[e]
  BY <1>1, <1>4 DEF Call, Begin, Admit, AdmitUnsynced, JournalRefuses, Refuse, AnswerAlreadySent,
       StartLookup, LookupFinds, LookupFails, Leave, BuildFails, Hear, Finish, Return
<1>5. ~Return(d)
  BY <1>3 DEF Idle
<1>6. CASE Call(d)
  <2>1. CASE \E k \in Keys : Begin(d, k)
    <3>1. caller'[d].pc = "calling"
      BY <1>1, <2>1 DEF Begin, Idle
    <3> QED BY <3>1
  <2>2. CASE Admit(d)
    <3>1. /\ caller'[d].pc = "admitted" /\ caller'[d].key = caller[d].key
          /\ caller'[d].intent = Len(ledger) + 1 /\ request' = Append(request, "unsent")
      BY <1>1, <2>2 DEF Admit, Calling
    <3>2. \E r : Records(d, r)
      BY <2>2, AdmitsRecord
    <3>3. \A r : Records(d, r) => r.state = "pending"
      <4> SUFFICES ASSUME NEW r, Records(d, r) PROVE r.state = "pending"
        OBVIOUS
      <4> QED BY <1>5 DEF Records
    <3> QED BY <3>1, <3>2, <3>3
  <2>3. CASE StartLookup(d)
    <3>1. /\ caller'[d].pc = "looking" /\ caller'[d].key = caller[d].key
          /\ caller'[d].intent = VerdictMember(TipChain(caller[d].key))
      BY <1>1, <2>3 DEF StartLookup, Calling
    <3> QED BY <2>3, <3>1
  <2>4. CASE Leave(d)
    <3>1. caller[d].pc = "admitted" /\ caller'[d].pc = "sent" /\ caller'[d].intent = caller[d].intent /\ caller'[d].key = caller[d].key
      BY <1>1, <2>4 DEF Leave, Calling
    <3> QED BY <3>1
  <2>5. CASE \E got \in {"confirmed", "not_sent", "unknown"} : Hear(d, got)
    <3>1. caller[d].pc = "sent" /\ caller'[d].pc = "heard" /\ caller'[d].intent = caller[d].intent /\ caller'[d].key = caller[d].key
      BY <1>1, <2>5 DEF Hear, Calling
    <3> QED BY <2>5, <3>1 DEF Outcomes
  <2>6. CASE UNCHANGED caller
    BY <1>2, <2>6
  <2> QED BY <1>5, <1>6, <2>1, <2>2, <2>3, <2>4, <2>5, <2>6 DEF Call, AdmitUnsynced, JournalRefuses, Refuse,
        AnswerAlreadySent, LookupFinds, LookupFails, BuildFails, Finish
<1>7. CASE \E c \in Callers : Die(c)
  <2>1. PICK c \in Callers : Die(c)
    BY <1>7
  <2>2. caller' = [caller EXCEPT ![c] = [Idle EXCEPT !.pc = "dead"]]
    BY <2>1 DEF Die
  <2>3. c = d => caller'[d].pc = "dead"
    BY <1>1, <2>2 DEF Idle
  <2>4. c # d => caller'[d] = caller[d]
    BY <1>1, <2>2
  <2> QED BY <1>2, <2>3, <2>4
<1> QED
  BY <1>2, <1>4, <1>6, <1>7 DEF Next, StartAttempt, EndAttempt, Resolve, ServiceAccepts, Drop, Tick, vars

\* A verdict reads as its member does, and when it is not in flight no member is.
LEMMA VerdictReads ==
  ASSUME TypeOK, NEW S, S \subseteq Ids, S # {}
  PROVE  /\ VerdictMember(S) \in S /\ EffectiveState(VerdictMember(S)) = VerdictState(S)
         /\ VerdictState(S) \in {"unknown", "not_sent"} => \A j \in S : EffectiveState(j) # "pending"
         /\ VerdictState(S) # "confirmed" => \A j \in S : EffectiveState(j) # "confirmed"
<1>1. \A j \in S : EffectiveState(j) \in {"confirmed", "pending", "unknown", "not_sent"}
  <2> SUFFICES ASSUME NEW j \in S
               PROVE  EffectiveState(j) \in {"confirmed", "pending", "unknown", "not_sent"}
    OBVIOUS
  <2>1. ledger[j].state \in {"confirmed", "pending", "unknown", "not_sent"}
    BY RecordsAreTyped
  <2> QED BY <2>1 DEF EffectiveState
<1>2. Reading(S, VerdictState(S)) # {}
  BY <1>1 DEF VerdictState, Reading
<1>3. Len(ledger) \in Nat /\ Reading(S, VerdictState(S)) \subseteq 1..Len(ledger)
  BY StateIsTyped DEF Reading
<1>4. VerdictMember(S) \in Reading(S, VerdictState(S))
  BY <1>2, <1>3, MaxIsLatest DEF VerdictMember
<1>5. VerdictState(S) \in {"unknown", "not_sent"} => Reading(S, "pending") = {}
  BY DEF VerdictState
<1>6. VerdictState(S) # "confirmed" => Reading(S, "confirmed") = {}
  BY DEF VerdictState
<1> QED BY <1>4, <1>5, <1>6 DEF Reading

\* An intent that does not read as in flight while its sender still sends it is
\* past its deadline: a sender alive is told from a dead one.
LEMMA SilentIsLate ==
  ASSUME CoreInv, SendersFit, NEW d \in Callers, Sending(d), EffectiveState(caller[d].intent) # "pending"
  PROVE  now > ledger[caller[d].intent].deadline
<1> DEFINE i == caller[d].intent
<1>1. i \in Ids /\ ledger[i].pid = d
  BY DEF CoreInv, CallersOK, CallerFits, Sending
<1>2. ledger[i].state = "pending" \/ now > ledger[i].deadline
  BY DEF SendersFit
<1>3. Alive(d)
  BY DEF Alive, Sending
<1> HIDE DEF i
<1>4. EffectiveState(i) # "pending"
  BY DEF i
<1> QED BY <1>1, <1>2, <1>3, <1>4 DEF EffectiveState, Orphaned, i

\* A sender's intent stays open until its deadline: nobody else settles it.
LEMMA SenderStaysOpen ==
  ASSUME CoreInv, SendersFit, [Next]_vars, NEW d \in Callers, Sending(d), Sending(d)',
         caller'[d].intent = caller[d].intent
  PROVE  \/ ledger'[caller[d].intent].state = "pending"
         \/ now' > ledger'[caller[d].intent].deadline
<1> DEFINE i == caller[d].intent
<1>1. TypeOK /\ i \in Ids /\ ledger[i].pid = d
  BY DEF CoreInv, CallersOK, CallerFits, Sending
<1>2. /\ ledger'[i].deadline = ledger[i].deadline /\ now <= now' /\ now \in Nat /\ now' \in Nat
      /\ ledger[i].deadline \in Nat
  BY <1>1, IntentsStay, RecordsAreTyped DEF SameIntent
<1>3. ledger[i].state = "pending" \/ now > ledger[i].deadline
  BY DEF SendersFit
<1>4. ASSUME now > ledger[i].deadline PROVE now' > ledger'[i].deadline
  <2> HIDE DEF i
  <2> QED BY <1>2, <1>4
<1>5. CASE ledger'[i].state = ledger[i].state
  BY <1>3, <1>4, <1>5
<1>6. ASSUME NEW j \in Ids, Settles(j) PROVE ledger'[i].state = ledger[i].state \/ now > ledger[i].deadline
  <2>1. CASE j # i
    BY <1>1, <1>6, <2>1 DEF Settles, SettledAs
  <2>2. CASE j = i
    <3>1. ASSUME NEW c \in Callers, caller[c].intent = i, Return(c), Finish(c) \/ BuildFails(c) PROVE FALSE
      <4>1. ledger[i].pid = c
        BY <3>1 DEF CoreInv, CallersOK, CallerFits, Finish, BuildFails
      <4>2. caller'[d] = Idle
        BY <1>1, <3>1, <4>1, StateIsTyped DEF Return
      <4> QED BY <4>2 DEF Sending, Idle
    <3>2. ASSUME NEW c \in Callers, caller[c].intent = i, LookupFinds(c) \/ LookupFails(c)
          PROVE  now > ledger[i].deadline
      BY <3>2 DEF SendersFit, LookupFinds, LookupFails
    <3>3. ASSUME NEW sent \in BOOLEAN, Resolve(i, sent) PROVE now > ledger[i].deadline
      <4>1. SendOf(i) \subseteq Ids /\ i \in SendOf(i)
        BY <1>1 DEF SendOf, ChainOf
      <4>2. EffectiveState(i) = "unknown"
        BY <1>1, <3>3, <4>1, VerdictReads DEF Resolve
      <4> QED BY <4>2, SilentIsLate
    <3> QED BY <1>6, <2>2, <3>1, <3>2, <3>3 DEF Settles
  <2> QED BY <2>1, <2>2
<1>7. (\E c \in Callers : \E r : Records(c, r)) => ledger'[i].state = ledger[i].state
  BY <1>1 DEF Records, Gained
<1> QED BY <1>3, <1>4, <1>5, <1>6, <1>7, LedgerMove

\* The member a lookup is about: of the key asked for, and not in flight.
LEMMA LookedUp ==
  ASSUME CoreInv, NEW c \in Callers, StartLookup(c)
  PROVE  LET m == VerdictMember(TipChain(caller[c].key)) IN
         /\ m \in Ids /\ ledger[m].key = caller[c].key /\ EffectiveState(m) = "unknown"
<1> DEFINE k == caller[c].key
           m == VerdictMember(TipChain(k))
<1>1. TypeOK /\ LinksOK /\ k \in Keys /\ Admission(k) = "reconcile"
  BY DEF CoreInv, CallersOK, CallerFits, StartLookup
<1>2. InScope(k) # {}
  BY <1>1 DEF Admission
<1>3. TipChain(k) \subseteq Ids /\ Tip(k) \in TipChain(k) /\ Tip(k) \in Ids /\ ledger[Tip(k)].key = k
  BY <1>1, <1>2, TipIsInScope
<1>4. m \in TipChain(k) /\ EffectiveState(m) = VerdictState(TipChain(k))
  BY <1>1, <1>3, VerdictReads
<1>5. VerdictState(TipChain(k)) = "unknown"
  <2> DEFINE v == VerdictState(TipChain(k))
  <2>1. v \in {"confirmed", "pending", "unknown", "not_sent"}
    BY DEF VerdictState
  <2>2. Admission(k) = CASE v = "confirmed" -> "already_sent"
                         [] v = "pending" -> "in_flight"
                         [] v = "unknown" -> DecideUnknown(k)
                         [] v = "not_sent" -> "resend"
    BY <1>2 DEF Admission
  <2>3. /\ v = "confirmed" => Admission(k) = "already_sent"
        /\ v = "pending" => Admission(k) = "in_flight"
        /\ v = "not_sent" => Admission(k) = "resend"
    <3> HIDE DEF v, k
    <3> QED BY <2>2
  <2> HIDE DEF v
  <2> QED BY <1>1, <2>1, <2>3 DEF v
<1>6. ledger[m].root = ledger[Tip(k)].root
  BY <1>4 DEF TipChain, ChainOf
<1>7. ledger[m].key = k
  BY <1>1, <1>3, <1>4, <1>6, LinkFacts
<1> QED BY <1>3, <1>4, <1>5, <1>7

\* Nobody interferes with an intent that is being sent before its deadline.
LEMMA StepKeepsSenders ==
  ASSUME CoreInv, SendersFit, [Next]_vars
  PROVE  SendersFit'
<1>1. TypeOK /\ \A i \in Ids : i # Len(ledger) + 1
  BY StateIsTyped DEF CoreInv
<1>2. \A e \in Callers : Working(e) => caller[e].intent \in Ids
  BY DEF CoreInv, CallersOK, CallerFits, Working
<1>3. ASSUME NEW d \in Callers, Working(d)' PROVE ledger'[caller'[d].intent].key = caller'[d].key
  <2>1. CASE Working(d) /\ caller'[d].intent = caller[d].intent /\ caller'[d].key = caller[d].key
    BY <1>2, <2>1, IntentsStay DEF SendersFit, SameIntent, Working
  <2>2. CASE StartLookup(d) /\ caller'[d].key = caller[d].key
             /\ caller'[d].intent = VerdictMember(TipChain(caller[d].key))
    BY <2>2, LookedUp, IntentsStay DEF SameIntent
  <2>3. CASE (\E r : Records(d, r)) /\ caller'[d].key = caller[d].key /\ caller'[d].intent = Len(ledger) + 1
    BY <2>3 DEF Records, Gained, Admissible
  <2> QED BY <1>3, <2>1, <2>2, <2>3, CallerMoves
<1>4. ASSUME NEW d \in Callers, Sending(d)'
      PROVE  ledger'[caller'[d].intent].state = "pending" \/ now' > ledger'[caller'[d].intent].deadline
  <2>1. CASE Sending(d) /\ caller'[d].intent = caller[d].intent
    BY <1>4, <2>1, SenderStaysOpen
  <2>2. CASE \E r : Records(d, r) /\ r.state = "pending" /\ caller'[d].intent = Len(ledger) + 1
    BY <2>2 DEF Records, Gained
  <2>3. Working(d)' /\ caller'[d].pc # "looking"
    BY <1>4 DEF Working, Sending
  <2> QED BY <1>4, <2>1, <2>2, <2>3, CallerMoves
<1>5. ASSUME NEW c \in Callers, caller'[c].pc = "looking",
             NEW d \in Callers, Sending(d)', caller'[d].intent = caller'[c].intent
      PROVE  now' > ledger'[caller'[c].intent].deadline
  <2> DEFINE i == caller'[c].intent
  <2>1. /\ Working(c)' /\ Working(d)' /\ caller'[d].pc # "looking" /\ caller'[c].pc # "admitted"
    BY <1>5 DEF Working, Sending
  <2>2. \/ caller[c].pc = "looking" /\ i = caller[c].intent
        \/ StartLookup(c) /\ i = VerdictMember(TipChain(caller[c].key))
    BY <1>5, <2>1, CallerMoves
  <2>3. i \in Ids
    BY <1>2, <2>2, LookedUp DEF Working
  <2>4. Sending(d) /\ caller[d].intent = i
    <3>1. i # Len(ledger) + 1
      BY <1>1, <2>3
    <3> QED BY <1>5, <2>1, <3>1, CallerMoves
  <2>5. now > ledger[i].deadline
    <3>1. CASE caller[c].pc = "looking" /\ i = caller[c].intent
      BY <2>4, <3>1 DEF SendersFit
    <3>2. CASE StartLookup(c) /\ i = VerdictMember(TipChain(caller[c].key))
      BY <2>4, <3>2, LookedUp, SilentIsLate
    <3> QED BY <2>2, <3>1, <3>2
  <2>6. /\ ledger'[i].deadline = ledger[i].deadline /\ now <= now' /\ now \in Nat /\ now' \in Nat
        /\ ledger[i].deadline \in Nat
    BY <1>1, <2>3, IntentsStay, RecordsAreTyped DEF SameIntent
  <2> HIDE DEF i
  <2>7. now' > ledger'[i].deadline
    BY <2>5, <2>6
  <2> QED BY <2>7 DEF i
<1> QED BY <1>3, <1>4, <1>5 DEF SendersFit, Working, Sending

\* An intent of the chain that is repeated does not read as in flight.
LEMMA RepeatedIsSilent ==
  ASSUME CoreInv, NEW c \in Callers, NEW r, Records(c, r),
         NEW j \in Ids, ledger[j].root = r.root
  PROVE  EffectiveState(j) \notin {"pending", "confirmed"}
<1> DEFINE k == caller[c].key
           n == Len(ledger) + 1
           v == VerdictState(TipChain(k))
<1>1. TypeOK /\ LinksOK /\ k \in Keys /\ Linked(c, r)
  BY DEF CoreInv, Records
<1>2. n \notin Ids /\ ledger[j].root \in Ids
  BY <1>1, RecordingAdds, LinkFacts
<1>3. InScope(k) # {} /\ r.root = ledger[Tip(k)].root /\ Admission(k) \in {"resend", "resend_unknown", "replay"}
  <2>1. r.root # n
    BY <1>2
  <2> QED BY <1>1, <2>1 DEF Linked
<1>4. TipChain(k) \subseteq Ids /\ Tip(k) \in TipChain(k) /\ j \in TipChain(k)
  BY <1>1, <1>3, TipIsInScope DEF TipChain, ChainOf
<1>5. v \in {"unknown", "not_sent"}
  <2>1. v \in {"confirmed", "pending", "unknown", "not_sent"}
    BY DEF VerdictState
  <2>2. Admission(k) = CASE v = "confirmed" -> "already_sent"
                         [] v = "pending" -> "in_flight"
                         [] v = "unknown" -> DecideUnknown(k)
                         [] v = "not_sent" -> "resend"
    BY <1>3 DEF Admission
  <2>3. /\ v = "confirmed" => Admission(k) = "already_sent"
        /\ v = "pending" => Admission(k) = "in_flight"
    <3> HIDE DEF v, k
    <3> QED BY <2>2
  <2> HIDE DEF v
  <2> QED BY <1>3, <2>1, <2>3
<1> QED BY <1>1, <1>4, <1>5, VerdictReads

\* A repeat is admitted only when no other sender of its chain is in time.
LEMMA StepKeepsOneSender ==
  ASSUME CoreInv, SendersFit, OneSenderPerChain, [Next]_vars
  PROVE  OneSenderPerChain'
<1>1. TypeOK /\ LinksOK /\ \A i \in Ids : i # Len(ledger) + 1
  BY StateIsTyped DEF CoreInv
<1>2. \A e \in Callers : Sending(e) => caller[e].intent \in Ids
  BY DEF CoreInv, CallersOK, CallerFits, Sending
<1>3. ASSUME NEW e \in Callers, Sending(e)'
      PROVE  \/ Sending(e) /\ caller'[e].intent = caller[e].intent
             \/ (\E r : Records(e, r)) /\ caller'[e].intent = Len(ledger) + 1
  <2>1. Working(e)' /\ caller'[e].pc # "looking"
    BY <1>3 DEF Working, Sending
  <2> QED BY <1>3, <2>1, CallerMoves
<1>4. ASSUME NEW i \in Ids, now > ledger[i].deadline PROVE now' > ledger'[i].deadline
  <2>1. /\ ledger'[i].deadline = ledger[i].deadline /\ now <= now' /\ now \in Nat /\ now' \in Nat
        /\ ledger[i].deadline \in Nat
    BY <1>1, IntentsStay, RecordsAreTyped DEF SameIntent
  <2> QED BY <1>4, <2>1
<1>5. ASSUME NEW c \in Callers, NEW d \in Callers, c # d, Sending(c)', Sending(d)',
             ledger'[caller'[c].intent].root = ledger'[caller'[d].intent].root,
             \E r : Records(c, r), caller'[c].intent = Len(ledger) + 1
      PROVE  now' > ledger'[caller'[d].intent].deadline
  <2> DEFINE j == caller'[d].intent
  <2>1. PICK r : Records(c, r)
    BY <1>5
  <2>2. caller'[d] = caller[d]
    BY <1>1, <1>5, <2>1, StateIsTyped DEF Records, Return
  <2>3. Sending(d) /\ caller[d].intent = j /\ j \in Ids
    BY <1>2, <1>5, <2>2 DEF Sending
  <2>4. ledger[j].root = r.root
    BY <1>5, <2>1, <2>3, IntentsStay DEF Records, Gained, SameIntent
  <2>5. EffectiveState(j) # "pending"
    BY <2>1, <2>3, <2>4, RepeatedIsSilent
  <2> QED BY <1>4, <2>3, <2>5, SilentIsLate
<1>6. ASSUME NEW c \in Callers, NEW d \in Callers, c # d, Sending(c)', Sending(d)',
             ledger'[caller'[c].intent].root = ledger'[caller'[d].intent].root
      PROVE  \E e \in {c, d} : now' > ledger'[caller'[e].intent].deadline
  <2>1. CASE caller'[c].intent = Len(ledger) + 1 /\ \E r : Records(c, r)
    BY <1>5, <1>6, <2>1
  <2>2. CASE caller'[d].intent = Len(ledger) + 1 /\ \E r : Records(d, r)
    BY <1>5, <1>6, <2>2
  <2>3. CASE /\ Sending(c) /\ caller'[c].intent = caller[c].intent
             /\ Sending(d) /\ caller'[d].intent = caller[d].intent
    <3> DEFINE i == caller[c].intent
               j == caller[d].intent
    <3>1. i \in Ids /\ j \in Ids
      BY <1>2, <2>3
    <3>2. ledger[i].root = ledger[j].root
      BY <1>6, <2>3, <3>1, IntentsStay DEF SameIntent
    <3>3. \E e \in {c, d} : now > ledger[caller[e].intent].deadline
      BY <1>6, <2>3, <3>2 DEF OneSenderPerChain, Sending
    <3> QED BY <1>4, <2>3, <3>1, <3>3
  <2> QED BY <1>3, <1>6, <2>1, <2>2, <2>3
<1> QED BY <1>6 DEF OneSenderPerChain, Sending

-----------------------------------------------------------------------------
(* Requests only advance *)

Advances(i) ==
  \/ request'[i] = request[i]
  \/ request[i] = "unsent" /\ request'[i] \in {"flying", "over"}
  \/ request[i] = "flying" /\ request'[i] \in {"ok", "over"}

\* A request leaves, is accepted or ends, and never comes back.
LEMMA RequestsGo ==
  ASSUME CoreInv, [Next]_vars, NEW i \in Ids
  PROVE  Advances(i)
<1> USE DEF Advances
<1>1. /\ TypeOK /\ i \in 1..Len(request) /\ request \in Seq(Requests) /\ Len(request) \in Nat
      /\ Ids = 1..Len(request)
  BY StateIsTyped DEF CoreInv
<1>2. CASE request' = request
  BY <1>2
<1>3. ASSUME NEW j \in Ids, NEW to \in Requests, request' = [request EXCEPT ![j] = to],
             \/ request[j] = "unsent" /\ to \in {"flying", "over"}
             \/ request[j] = "flying" /\ to \in {"ok", "over"}
      PROVE  Advances(i)
  BY <1>1, <1>3
<1>4. ASSUME NEW c \in Callers, caller[c].pc = "admitted"
      PROVE  caller[c].intent \in Ids /\ request[caller[c].intent] = "unsent"
  BY <1>4 DEF CoreInv, CallersOK, CallerFits
<1>5. ASSUME NEW c \in Callers, Call(c) PROVE Advances(i)
  <2>1. CASE Leave(c)
    BY <1>3, <1>4, <2>1 DEF Leave, Requests
  <2>2. CASE BuildFails(c)
    BY <1>3, <1>4, <2>2 DEF BuildFails, Requests
  <2>3. CASE \E got \in {"confirmed", "not_sent", "unknown"} : Hear(c, got)
    <3>1. caller[c].intent \in Ids
      BY <2>3 DEF Hear, CoreInv, CallersOK, CallerFits
    <3> QED BY <1>3, <2>3, <3>1 DEF Hear, KilledPush, Requests
  <2>4. CASE Admit(c) \/ AdmitUnsynced(c)
    <3>1. request' = Append(request, "unsent") \/ request' = Append(request, "over")
      BY <2>4 DEF Admit, AdmitUnsynced
    <3> QED BY <1>1, <3>1
  <2> QED BY <1>5, <2>1, <2>2, <2>3, <2>4 DEF Call, Begin, JournalRefuses, Refuse, AnswerAlreadySent,
        StartLookup, LookupFinds, LookupFails, Finish
<1>6. ASSUME NEW c \in Callers, Die(c) PROVE Advances(i)
  BY <1>3, <1>4, <1>6 DEF Die, Requests
<1>7. ASSUME NEW j \in Ids, ServiceAccepts(j) \/ Drop(j) PROVE Advances(i)
  BY <1>3, <1>7 DEF ServiceAccepts, Drop, Requests
<1> QED
  BY <1>2, <1>5, <1>6, <1>7 DEF Next, StartAttempt, EndAttempt, Resolve, Tick, vars

Over(i) == request[i] \in {"ok", "over"}

-----------------------------------------------------------------------------
(* What is read back *)

\* In time, a push that is not in flight any more is over: only its deadline
\* opens it to a lookup or to a person.
LEMMA SilentPushIsOver ==
  ASSUME CoreInv, ReadBacksFit, Timely, NEW i \in Ids, Mode[ledger[i].key] = "ref",
         EffectiveState(i) # "pending"
  PROVE  Over(i)
<1>1. TypeOK /\ request[i] \in Requests /\ now \in Nat /\ ledger[i].deadline \in Nat
  <2>1. TypeOK
    BY DEF CoreInv
  <2>2. now \in Nat /\ request \in Seq(Requests) /\ i \in 1..Len(request)
    BY <2>1, StateIsTyped
  <2> QED BY <2>1, <2>2, RecordsAreTyped
<1>2. CASE ledger[i].state # "pending"
  BY <1>2 DEF ReadBacksFit, Over
<1>3. CASE ledger[i].state = "pending"
  <2>1. now > ledger[i].deadline
    BY <1>3 DEF EffectiveState, Orphaned
  <2>2. /\ request[i] = "unsent" => ledger[i].deadline = now + Timeout + Grace
        /\ request[i] = "flying" => now + Grace <= ledger[i].deadline
    BY DEF CoreInv, TimesOK
  <2>3. Timeout \in Nat /\ Grace \in Nat
    BY TimeAssumption
  <2>4. request[i] # "unsent" /\ request[i] # "flying"
    BY <1>1, <2>1, <2>2, <2>3
  <2> QED BY <1>1, <2>4 DEF Over, Requests
<1> QED BY <1>2, <1>3

\* What a push heard is over: a push that heard nothing is killed first.
LEMMA HeardPushIsOver ==
  ASSUME CoreInv, NEW c \in Callers, NEW got \in Outcomes, Hear(c, got), IsPush(caller[c].key)
  PROVE  caller[c].intent \in Ids /\ request'[caller[c].intent] \in {"ok", "over"}
<1> DEFINE i == caller[c].intent
<1>1. TypeOK /\ i \in Ids /\ ledger[i].pid = c /\ caller[c].pc = "sent"
  BY DEF CoreInv, CallersOK, CallerFits, Hear
<1>2. request \in Seq(Requests) /\ i \in 1..Len(request)
  BY <1>1, StateIsTyped
<1>3. request[i] # "unsent"
  <2> SUFFICES ASSUME request[i] = "unsent" PROVE FALSE
    OBVIOUS
  <2>1. PICK d \in Callers : caller[d].pc = "admitted" /\ caller[d].intent = i
    BY <1>1 DEF CoreInv, CallersOK
  <2>2. ledger[i].pid = d
    BY <2>1 DEF CoreInv, CallersOK, CallerFits
  <2> QED BY <1>1, <2>1, <2>2
<1>4. request[i] = "flying" => request'[i] = "over"
  <2> SUFFICES ASSUME request[i] = "flying" PROVE request'[i] = "over"
    OBVIOUS
  <2>1. request' = [request EXCEPT ![i] = "over"]
    BY DEF Hear, KilledPush
  <2> QED BY <1>1, <2>1, RequestMoves DEF Requests
<1>5. request[i] \in {"ok", "over"} => request'[i] = request[i]
  <2> SUFFICES ASSUME request[i] \in {"ok", "over"} PROVE request' = request
    OBVIOUS
  <2> QED BY DEF Hear, KilledPush
<1> QED BY <1>1, <1>2, <1>3, <1>4, <1>5 DEF Requests

\* A push is settled or read back only when it is over.
LEMMA StepKeepsReadBacks ==
  ASSUME CoreInv, SendersFit, ReadBacksFit, [Next]_vars
  PROVE  ReadBacksFit'
<1> SUFFICES ASSUME Timely PROVE ReadBacksFit'
  BY DEF ReadBacksFit
<1>1. /\ TypeOK /\ \A i \in Ids : i # Len(ledger) + 1 /\ request[i] \in Requests
  <2>1. TypeOK
    BY DEF CoreInv
  <2>2. request \in Seq(Requests) /\ Ids = 1..Len(request) /\ Len(request) = Len(ledger)
    BY <2>1, StateIsTyped
  <2> QED BY <2>1, <2>2
<1>2. \A e \in Callers : Working(e) => caller[e].intent \in Ids
  BY DEF CoreInv, CallersOK, CallerFits, Working
<1>3. ASSUME NEW i \in Ids, Over(i) PROVE Over(i)'
  BY <1>3, RequestsGo DEF Over, Advances
<1>4. /\ \A i \in Ids : Mode[ledger[i].key] = "ref" /\ ledger[i].state # "pending" => Over(i)
      /\ \A c \in Callers : caller[c].pc = "heard" /\ Mode[caller[c].key] = "ref" => Over(caller[c].intent)
  BY DEF ReadBacksFit, Over
<1>5. ASSUME NEW c \in Callers, caller[c].pc = "looking", Mode[caller[c].key] = "ref" PROVE Over(caller[c].intent)
  BY <1>1, <1>2, <1>5 DEF ReadBacksFit, LookupIsQuiet, Over, Requests, Working
<1>6. ASSUME NEW i \in Ids, Mode[ledger[i].key] = "ref", ledger'[i].state # "pending" PROVE Over(i)'
  <2>1. CASE ledger'[i].state = ledger[i].state
    BY <1>3, <1>4, <1>6, <2>1
  <2>2. ASSUME NEW j \in Ids, Settles(j) PROVE ledger'[i].state = ledger[i].state \/ Over(i)'
    <3>1. CASE j # i
      BY <2>2, <3>1 DEF Settles, SettledAs
    <3>2. CASE j = i
      <4>1. ASSUME NEW c \in Callers, caller[c].intent = i, Finish(c) PROVE Over(i)'
        BY <1>3, <1>4, <1>6, <4>1 DEF Finish, SendersFit
      <4>2. ASSUME NEW c \in Callers, caller[c].intent = i, BuildFails(c) PROVE Over(i)'
        <5>1. request' = [request EXCEPT ![i] = "over"]
          BY <4>2 DEF BuildFails
        <5>2. request'[i] = "over"
          BY <1>1, <5>1, RequestMoves DEF Requests
        <5> QED BY <5>2 DEF Over
      <4>3. ASSUME NEW c \in Callers, caller[c].intent = i, LookupFinds(c) \/ LookupFails(c) PROVE Over(i)'
        <5>1. caller[c].pc = "looking" /\ ledger[i].key = caller[c].key
          BY <4>3 DEF LookupFinds, LookupFails, SendersFit
        <5> QED BY <1>3, <1>5, <1>6, <4>3, <5>1
      <4>4. ASSUME NEW sent \in BOOLEAN, Resolve(i, sent) PROVE Over(i)'
        <5>1. SendOf(i) \subseteq Ids /\ i \in SendOf(i)
          BY DEF SendOf, ChainOf
        <5>2. EffectiveState(i) = "unknown"
          BY <1>1, <4>4, <5>1, VerdictReads DEF Resolve
        <5> QED BY <1>3, <1>6, <5>2, SilentPushIsOver
      <4> QED BY <2>2, <3>2, <4>1, <4>2, <4>3, <4>4 DEF Settles
    <3> QED BY <3>1, <3>2
  <2>3. (\E c \in Callers : \E r : Records(c, r)) => ledger'[i].state = ledger[i].state
    BY DEF Records, Gained
  <2> QED BY <2>1, <2>2, <2>3, LedgerMove
<1>7. ASSUME NEW i \in Ids', Mode[ledger'[i].key] = "ref", ledger'[i].state # "pending" PROVE Over(i)'
  <2>1. CASE i \in Ids
    BY <1>6, <1>7, <2>1, IntentsStay DEF SameIntent
  <2>2. CASE i \notin Ids
    <3>1. PICK c \in Callers : \E r : Records(c, r)
      BY <1>1, <2>2, LinksMove DEF SameLinks, Ids
    <3>2. PICK r : Records(c, r)
      BY <3>1
    <3>3. i = Len(ledger) + 1 /\ r = ledger'[i]
      BY <1>1, <2>2, <3>2, RecordingAdds
    <3>4. request' = Append(request, "over")
      BY <1>7, <3>2, <3>3 DEF Records
    <3>5. request'[i] = "over"
      BY <1>1, <3>3, <3>4, StateIsTyped
    <3> QED BY <3>5 DEF Over
  <2> QED BY <2>1, <2>2
<1>8. ASSUME NEW c \in Callers, caller'[c].pc \in {"heard", "looking"}, Mode[caller'[c].key] = "ref"
      PROVE  request'[caller'[c].intent] \in {"ok", "over"}
  <2> DEFINE i == caller'[c].intent
  <2>1. Working(c)' /\ caller'[c].pc # "admitted"
    BY <1>8 DEF Working
  <2>2. CASE /\ Working(c) /\ i = caller[c].intent /\ caller'[c].key = caller[c].key
             /\ caller[c].pc \in {"heard", "looking"}
    BY <1>2, <1>3, <1>4, <1>5, <1>8, <2>2 DEF Over
  <2>3. CASE /\ Working(c) /\ i = caller[c].intent /\ caller'[c].key = caller[c].key
             /\ \E got \in Outcomes : Hear(c, got)
    <3>1. IsPush(caller[c].key)
      BY <1>8, <2>3 DEF IsPush
    <3>2. request'[i] \in {"ok", "over"}
      BY <2>3, <3>1, HeardPushIsOver
    <3> QED BY <3>2
  <2>4. CASE StartLookup(c) /\ caller'[c].key = caller[c].key /\ i = VerdictMember(TipChain(caller[c].key))
    BY <1>3, <1>8, <2>4, LookedUp, SilentPushIsOver DEF Over
  <2> QED BY <1>8, <2>1, <2>2, <2>3, <2>4, CallerMoves
<1> QED BY <1>7, <1>8 DEF ReadBacksFit, LookupIsQuiet, Over

-----------------------------------------------------------------------------
(* What pays for a repeat *)

\* A repeat is decided by the verdict of the tip's chain.
LEMMA AdmissionReads ==
  ASSUME NEW k \in Keys, InScope(k) # {}
  PROVE  /\ Admission(k) = "resend" => VerdictState(TipChain(k)) = "not_sent"
         /\ Admission(k) \in {"resend_unknown", "replay"} => VerdictState(TipChain(k)) = "unknown"
         /\ Admission(k) = "already_sent" => VerdictState(TipChain(k)) = "confirmed"
<1> DEFINE v == VerdictState(TipChain(k))
<1>1. v \in {"confirmed", "pending", "unknown", "not_sent"}
  BY DEF VerdictState
<1>2. Admission(k) = CASE v = "confirmed" -> "already_sent"
                       [] v = "pending" -> "in_flight"
                       [] v = "unknown" -> DecideUnknown(k)
                       [] v = "not_sent" -> "resend"
  BY DEF Admission
<1>3. DecideUnknown(k) \notin {"resend", "already_sent"}
  <2>1. Mode[k] \in {"key", "marker", "ref", "none"}
    BY ModeAssumption
  <2> QED BY <2>1 DEF DecideUnknown
<1>4. /\ v = "confirmed" => Admission(k) = "already_sent"
      /\ v = "pending" => Admission(k) = "in_flight"
      /\ v = "unknown" => Admission(k) = DecideUnknown(k)
      /\ v = "not_sent" => Admission(k) = "resend"
  <2> HIDE DEF v
  <2> QED BY <1>2
<1> HIDE DEF v
<1>5. /\ Admission(k) = "resend" => v = "not_sent"
      /\ Admission(k) \in {"resend_unknown", "replay"} => v = "unknown"
      /\ Admission(k) = "already_sent" => v = "confirmed"
  BY <1>1, <1>3, <1>4
<1> QED BY <1>5 DEF v

\* A request that never acts goes on never acting.
LEMMA HarmlessStays ==
  ASSUME CoreInv, [Next]_vars, NEW i \in Ids, Harmless(i)
  PROVE  Harmless(i)'
<1>1. request'[i] = "over"
  BY RequestsGo DEF Harmless, Advances
<1>2. \A a \in acts' : a.intent # i
  <2>1. CASE acts' = acts
    BY <2>1 DEF Harmless
  <2>2. CASE acts' # acts
    <3>1. PICK j \in Ids : ServiceAccepts(j)
      BY <2>2, OnlyAcceptanceActs
    <3>2. j # i
      BY <3>1 DEF ServiceAccepts, Harmless
    <3>3. acts' \subseteq acts \cup {[intent |-> j, at |-> now]}
      BY <3>1 DEF ServiceAccepts
    <3> QED BY <3>2, <3>3 DEF Harmless
  <2> QED BY <2>1, <2>2
<1> QED BY <1>1, <1>2 DEF Harmless

\* The history only grows.
LEMMA TrailGrows ==
  ASSUME CoreInv, [Next]_vars
  PROVE  /\ trail.policy \subseteq trail'.policy /\ trail.released \subseteq trail'.released
         /\ trail.vouched \subseteq trail'.vouched
<1>1. trail \in Trails
  BY StateIsTyped DEF CoreInv
<1>2. trail' = trail => trail.policy \subseteq trail'.policy /\ trail.released \subseteq trail'.released
                        /\ trail.vouched \subseteq trail'.vouched
  OBVIOUS
<1>3. ASSUME NEW c \in Callers, NotePolicy(c)
      PROVE  /\ trail.policy \subseteq trail'.policy /\ trail.released \subseteq trail'.released
             /\ trail.vouched \subseteq trail'.vouched
  BY <1>1, <1>3 DEF NotePolicy, Trails
<1>4. ASSUME NEW i, NoteTold(i)
      PROVE  /\ trail.policy \subseteq trail'.policy /\ trail.released \subseteq trail'.released
             /\ trail.vouched \subseteq trail'.vouched
  BY <1>1, <1>4 DEF NoteTold, Trails
<1>5. ASSUME NEW i \in Ids, NEW sent \in BOOLEAN, Resolve(i, sent)
      PROVE  /\ trail.policy \subseteq trail'.policy /\ trail.released \subseteq trail'.released
             /\ trail.vouched \subseteq trail'.vouched
  BY <1>1, <1>5 DEF Resolve, Trails
<1>6. ASSUME NEW c \in Callers, Call(c)
      PROVE  trail' = trail \/ NotePolicy(c) \/ \E i : NoteTold(i)
  BY <1>6 DEF Call, Begin, Admit, AdmitUnsynced, JournalRefuses, Refuse, AnswerAlreadySent,
         StartLookup, LookupFinds, LookupFails, Leave, BuildFails, Hear, Finish
<1> QED
  BY <1>2, <1>3, <1>4, <1>5, <1>6 DEF Next, Die, StartAttempt, EndAttempt, ServiceAccepts, Drop, Tick, vars

\* What was paid for stays paid for.
LEMMA ChargedStays ==
  ASSUME CoreInv, [Next]_vars, NEW i \in Ids, Charged(i)
  PROVE  Charged(i)'
<1>1. PICK m \in ChainOf(i) :
        \/ m \in trail.released /\ ledger[m].nonce = ledger[i].nonce
        \/ /\ m \in trail.policy /\ ledger[m].resend_of \in Ids
           /\ ledger[ledger[m].resend_of].nonce = ledger[i].nonce
  BY DEF Charged
<1>2. \A j \in Ids : j \in Ids' /\ SameIntent(ledger'[j], ledger[j])
  BY IntentsStay
<1>3. m \in Ids /\ m \in ChainOf(i)'
  BY <1>1, <1>2 DEF ChainOf, SameIntent
<1>4. \/ m \in trail'.released /\ ledger'[m].nonce = ledger'[i].nonce
      \/ /\ m \in trail'.policy /\ ledger'[m].resend_of \in Ids'
         /\ ledger'[ledger'[m].resend_of].nonce = ledger'[i].nonce
  BY <1>1, <1>2, <1>3, TrailGrows DEF SameIntent
<1> QED BY <1>3, <1>4 DEF Charged

\* An intent settled as not sent never acts, unless a person said so.
LEMMA NotSentIsPaid ==
  ASSUME CoreInv, NEW i \in Ids, ledger[i].state = "not_sent"
  PROVE  Harmless(i) \/ Charged(i)
<1>1. i \in ChainOf(i)
  BY DEF ChainOf
<1> QED BY <1>1 DEF CoreInv, SettlementsAreTrue, Harmless, Charged

\* A chain moves on to a fresh nonce only when the earlier ones never act or
\* were paid for.
LEMMA StepKeepsCharges ==
  ASSUME CoreInv, EarlierAreCharged, [Next]_vars
  PROVE  EarlierAreCharged'
<1>1. TypeOK /\ LinksOK
  BY DEF CoreInv
<1> SUFFICES ASSUME NEW i \in Ids', NEW j \in Ids', i < j, ledger'[i].root = ledger'[j].root,
                    ledger'[i].nonce # ledger'[j].nonce
             PROVE  Harmless(i)' \/ Charged(i)'
  BY DEF EarlierAreCharged
<1>2. CASE i \in Ids /\ j \in Ids
  <2>1. ledger[i].root = ledger[j].root /\ ledger[i].nonce # ledger[j].nonce
    BY <1>2, IntentsStay DEF SameIntent
  <2> QED BY <1>2, <2>1, HarmlessStays, ChargedStays DEF EarlierAreCharged
<1>3. CASE ~(i \in Ids /\ j \in Ids)
  <2>1. ~SameLinks
    BY <1>3 DEF SameLinks, Ids
  <2>2. PICK c \in Callers : \E r : Records(c, r)
    BY <2>1, LinksMove
  <2>3. PICK r : Records(c, r)
    BY <2>2
  <2> DEFINE k == caller[c].key
             n == Len(ledger) + 1
             t == Tip(k)
             m == VerdictMember(TipChain(k))
  <2>4. /\ n \in Nat /\ Ids = 1..(n - 1) /\ Ids' = Ids \cup {n} /\ n \notin Ids /\ r = ledger'[n]
    BY <1>1, <2>3, RecordingAdds
  <2> HIDE DEF n
  <2>5. j = n /\ i \in Ids
    BY <1>3, <2>4
  <2>6. /\ SameIntent(ledger'[i], ledger[i]) /\ ledger[i].root = r.root /\ ledger[i].nonce # r.nonce
    BY <2>4, <2>5, IntentsStay DEF SameIntent
  <2>7. k \in Keys /\ Linked(c, r) /\ NotePolicy(c)
    BY <2>3 DEF Records
  <2>8. ledger[i].root \in Ids /\ ledger[i].root # n
    BY <1>1, <2>4, <2>5, LinkFacts
  <2>9. /\ InScope(k) # {} /\ r.root = ledger[t].root
        /\ \/ Admission(k) = "resend"
           \/ Admission(k) = "resend_unknown" /\ r.resend_of = t
           \/ Admission(k) = "replay" /\ r.nonce = ledger[m].nonce
    BY <2>6, <2>7, <2>8 DEF Linked, n
  <2>10. TipChain(k) \subseteq Ids /\ t \in TipChain(k) /\ t \in Ids /\ i \in TipChain(k)
    BY <1>1, <2>5, <2>6, <2>7, <2>9, TipIsInScope DEF TipChain, ChainOf
  <2>11. CASE Admission(k) = "resend"
    <3>1. ledger[i].state = "not_sent"
      BY <1>1, <2>7, <2>9, <2>10, <2>11, AdmissionReads, VerdictIsHeld
    <3> QED BY <2>5, <3>1, NotSentIsPaid, HarmlessStays, ChargedStays
  <2>12. CASE Admission(k) = "resend_unknown" /\ r.resend_of = t
    <3>1. CASE ledger[i].nonce = ledger[t].nonce
      <4>1. n \in trail'.policy
        <5>1. trail' = [trail EXCEPT !.policy = @ \cup {n}]
          BY <2>7, <2>12 DEF NotePolicy, n
        <5> QED BY <1>1, <5>1, StateIsTyped DEF Trails
      <4>2. n \in ChainOf(i)' /\ ledger'[n].resend_of = t /\ t \in Ids'
        BY <2>4, <2>5, <2>6, <2>10, <2>12 DEF ChainOf, SameIntent
      <4>3. ledger'[t].nonce = ledger'[i].nonce
        BY <2>6, <2>10, <3>1, IntentsStay DEF SameIntent
      <4> QED BY <4>1, <4>2, <4>3 DEF Charged
    <3>2. CASE ledger[i].nonce # ledger[t].nonce
      <4>1. ledger[i].root = ledger[t].root /\ i # t
        BY <2>6, <2>9, <3>2
      <4>2. ledger[i].key = ledger[t].key
        BY <1>1, <2>5, <2>10, <4>1, LinkFacts
      <4>3. i <= t
        BY <1>1, <2>5, <2>7, <2>9, <4>2, TipIsLast
      <4> HIDE DEF t
      <4>4. i < t
        BY <2>4, <2>5, <2>10, <4>1, <4>3
      <4> QED BY <2>5, <2>10, <3>2, <4>1, <4>4, HarmlessStays, ChargedStays DEF EarlierAreCharged
    <3> QED BY <3>1, <3>2
  <2>13. CASE Admission(k) = "replay" /\ r.nonce = ledger[m].nonce
    <3>1. VerdictState(TipChain(k)) = "unknown"
      BY <2>7, <2>9, <2>13, AdmissionReads
    <3>2. m \in TipChain(k) /\ (i <= m \/ ledger[i].state = "not_sent")
      BY <1>1, <2>10, <3>1, VerdictIsHeld
    <3>3. CASE ledger[i].state = "not_sent"
      BY <2>5, <3>3, NotSentIsPaid, HarmlessStays, ChargedStays
    <3>4. CASE i <= m
      <4>1. m \in Ids /\ ledger[m].root = ledger[i].root /\ ledger[i].nonce # ledger[m].nonce
        BY <2>6, <2>10, <2>13, <3>2 DEF TipChain, ChainOf
      <4> HIDE DEF m
      <4>2. i < m
        BY <2>4, <2>5, <3>4, <4>1
      <4> QED BY <2>5, <4>1, <4>2, HarmlessStays, ChargedStays DEF EarlierAreCharged
    <3> QED BY <3>2, <3>3, <3>4
  <2> QED BY <2>9, <2>11, <2>12, <2>13
<1> QED BY <1>2, <1>3

-----------------------------------------------------------------------------
(* The invariant *)

\* No more is recorded than the bound admits.
LEMMA StepKeepsBound ==
  ASSUME CoreInv, Len(ledger) <= MaxIntents, [Next]_vars
  PROVE  Len(ledger') <= MaxIntents
<1>1. TypeOK /\ Len(ledger) \in Nat /\ MaxIntents \in Nat
  BY StateIsTyped, BoundAssumption DEF CoreInv
<1>2. CASE SameLinks
  BY <1>2 DEF SameLinks
<1>3. CASE \E c \in Callers : \E r : Records(c, r)
  BY <1>1, <1>3 DEF Records, Gained, MayRecord
<1> QED BY <1>2, <1>3, LinksMove

\* What holds whatever the timing.
LineInv ==
  /\ CoreInv /\ EarlierAreCharged /\ ChainIsALine
  /\ SendersFit /\ OneSenderPerChain /\ ReadBacksFit
  /\ Len(ledger) <= MaxIntents

LEMMA InitIsOnLine == Init => LineInv
<1> SUFFICES ASSUME Init PROVE LineInv
  OBVIOUS
<1>1. CoreInv
  BY InitIsCore
<1>2. Len(ledger) = 0 /\ Ids = {} /\ \A c \in Callers : caller[c].pc = "idle"
  <2>1. Len(ledger) = 0 /\ \A c \in Callers : caller[c].pc = "idle"
    BY DEF Init, Idle
  <2> QED BY <2>1 DEF Ids
<1>3. EarlierAreCharged /\ ChainIsALine
  BY <1>2 DEF EarlierAreCharged, ChainIsALine
<1>4. SendersFit /\ OneSenderPerChain
  BY <1>2 DEF SendersFit, Sending, OneSenderPerChain
<1>5. ReadBacksFit
  BY <1>2 DEF ReadBacksFit, LookupIsQuiet
<1>6. 0 <= MaxIntents
  BY BoundAssumption
<1> QED BY <1>1, <1>2, <1>3, <1>4, <1>5, <1>6 DEF LineInv

LEMMA StepKeepsLineInv ==
  ASSUME LineInv, [Next]_vars
  PROVE  LineInv'
<1>1. CoreInv /\ EarlierAreCharged /\ ChainIsALine /\ SendersFit /\ OneSenderPerChain /\ ReadBacksFit
      /\ Len(ledger) <= MaxIntents
  BY DEF LineInv
<1>2. CoreInv'
  BY <1>1, StepKeepsCore
<1>3. EarlierAreCharged' /\ ChainIsALine'
  BY <1>1, StepKeepsCharges, StepKeepsLine
<1>4. SendersFit' /\ OneSenderPerChain' /\ ReadBacksFit'
  BY <1>1, StepKeepsSenders, StepKeepsOneSender, StepKeepsReadBacks
<1>5. Len(ledger') <= MaxIntents
  BY <1>1, StepKeepsBound
<1> QED BY <1>2, <1>3, <1>4, <1>5 DEF LineInv

\* It holds in every behaviour: no timing of callers, service or clock breaks it.
THEOREM LineInvariant == Spec => []LineInv
BY InitIsOnLine, StepKeepsLineInv, PTL DEF Spec

\* Every repeat extends its chain at the end, so the walks along replay_of and
\* resend_of see the whole chain (run send_key).
THEOREM ChainsAreLines == Spec => []ChainIsALine
<1>1. LineInv => ChainIsALine
  BY DEF LineInv
<1> QED BY <1>1, LineInvariant, PTL

\* Two processes never send intents of one chain at once before a deadline,
\* whoever dies and whatever a person settles (run send_marker).
THEOREM OneSender == Spec => []OneSenderPerChain
<1>1. LineInv => OneSenderPerChain
  BY DEF LineInv
<1> QED BY <1>1, LineInvariant, PTL

\* In time, a push is read back only when it is over (run send_key).
THEOREM ReadBacksAreQuiet ==
  ASSUME Timely
  PROVE  Spec => []LookupIsQuiet
<1>1. LineInv => LookupIsQuiet
  BY DEF LineInv, ReadBacksFit
<1> QED BY <1>1, LineInvariant, PTL

\* A list item starts no send afresh over one it left open (run send_key).
THEOREM NoFreshSends == Spec => NoFreshSendOverAnOpenOne
<1> DEFINE A == \A k \in Keys :
       IsItem(k) /\ Len(ledger') > Len(ledger) /\ ledger'[Len(ledger')].key = k
         /\ ledger'[Len(ledger')].root = Len(ledger')
       => \A i \in Ids : ledger[i].key = k =>
            VerdictState(SendOf(i)) \notin {"unknown", "pending"}
<1>1. CoreInv /\ [Next]_vars => A
  BY FreshSendIsClear
<1>2. CoreInv /\ [Next]_vars => [A]_vars
  BY <1>1
<1>3. Spec => [][A]_vars
  <2> HIDE DEF A
  <2> QED BY <1>2, CoreInvariant, PTL DEF Spec
<1> QED BY <1>3 DEF NoFreshSendOverAnOpenOne

\* The whole invariant, when no function is in key mode or requests and answers
\* keep to their timeouts (run send_marker).
THEOREM SendInvariant ==
  ASSUME Timely \/ \A k \in Keys : Mode[k] # "key"
  PROVE  Spec => []SendInv
<1>1. LineInv /\ EffectsInv => SendInv
  BY DEF LineInv, SendInv
<1> QED BY <1>1, LineInvariant, EffectsInvariant, PTL

-----------------------------------------------------------------------------
(* The effects of a chain are counted *)

ActsOf(p) == {a \in acts : ledger[a.intent].root = p}

PolicyOf(p) == ChainOf(p) \cap trail.policy

ReleasedOf(p) == ChainOf(p) \cap trail.released

\* Every walk back along the links ends at the root: the root of a root is itself.
LEMMA RootsAreRoots ==
  ASSUME TypeOK, LinksOK, ChainIsALine, NEW i \in Ids
  PROVE  ledger[i].root \in Ids /\ ledger[ledger[i].root].root = ledger[i].root
<1> DEFINE Bad == {j \in Ids : ledger[ledger[j].root].root # ledger[j].root}
<1>1. Ids = 1..Len(ledger) /\ Len(ledger) \in Nat /\ Bad \subseteq Nat
  BY StateIsTyped
<1>2. Bad = {}
  <2> SUFFICES ASSUME Bad # {} PROVE FALSE
    OBVIOUS
  <2> DEFINE j == Min(Bad)
  <2>1. j \in Bad /\ \A y \in Bad : j <= y
    <3> HIDE DEF Bad
    <3> QED BY <1>1, MinIsEarliest
  <2> HIDE DEF j
  <2>2. j \in Ids /\ OnLine(j) /\ ledger[ledger[j].root].root # ledger[j].root
    BY <2>1, LineIs
  <2> HIDE DEF Bad
  <2> DEFINE q == Prev(ledger[j])
  <2>3. q # 0
    <3> SUFFICES ASSUME q = 0 PROVE FALSE
      OBVIOUS
    <3>1. ledger[j].root = j
      BY <2>2 DEF OnLine
    <3> QED BY <2>2, <3>1
  <2>4. q \in 1..(j - 1) /\ ledger[q].root = ledger[j].root
    BY <2>2, <2>3 DEF OnLine
  <2> HIDE DEF q
  <2>5. q \in Ids /\ ~(j <= q)
    BY <1>1, <2>2, <2>4
  <2>6. q \in Bad
    BY <2>2, <2>4, <2>5 DEF Bad
  <2> QED BY <2>1, <2>5, <2>6
<1> QED BY <1>2, LinkFacts

\* There are never more effects than intents.
LEMMA ActsAreFinite ==
  ASSUME TypeOK, LinksOK, OneActPerNonce
  PROVE  IsFiniteSet(acts)
<1> DEFINE f == [a \in acts |-> ledger[a.intent].nonce]
<1>1. Len(ledger) \in Nat /\ Ids = 1..Len(ledger) /\ \A a \in acts : a.intent \in Ids
  BY StateIsTyped
<1>2. IsFiniteSet(Ids)
  BY <1>1, FS_Interval
<1>3. f \in [acts -> Ids]
  BY <1>1, LinkFacts
<1>4. f \in Injection(acts, Ids)
  BY <1>3 DEF Injection, IsInjective, OneActPerNonce
<1> QED BY <1>2, <1>4, FS_Injection

\* A chain takes effect at most once, and once more for each repeat the policy
\* allowed and each send a person released.
LEMMA EffectsAreCounted ==
  ASSUME SendInv, NEW p \in Ids, ledger[p].root = p
  PROVE  /\ IsFiniteSet(ActsOf(p)) /\ IsFiniteSet(PolicyOf(p)) /\ IsFiniteSet(ReleasedOf(p))
         /\ Cardinality(ActsOf(p)) <= 1 + Cardinality(PolicyOf(p)) + Cardinality(ReleasedOf(p))
<1> DEFINE S == ActsOf(p)
           P == PolicyOf(p)
           R == ReleasedOf(p)
<1>1. /\ TypeOK /\ LinksOK /\ OneActPerNonce /\ EarlierAreCharged
      /\ Len(ledger) \in Nat /\ Ids = 1..Len(ledger) /\ \A a \in acts : a.intent \in Ids
  <2>1. TypeOK /\ LinksOK /\ OneActPerNonce /\ EarlierAreCharged
    BY DEF SendInv, EffectsInv
  <2> QED BY <2>1, StateIsTyped
<1>2. IsFiniteSet(S) /\ IsFiniteSet(P) /\ IsFiniteSet(R)
  <2>1. IsFiniteSet(acts) /\ IsFiniteSet(Ids)
    BY <1>1, ActsAreFinite, FS_Interval
  <2>2. S \in SUBSET acts /\ P \in SUBSET Ids /\ R \in SUBSET Ids
    BY DEF ActsOf, PolicyOf, ReleasedOf, ChainOf
  <2> HIDE DEF S, P, R
  <2> QED BY <2>1, <2>2, FS_Subset
<1>3. Cardinality(S) \in Nat /\ Cardinality(P) \in Nat /\ Cardinality(R) \in Nat
  <2> HIDE DEF S, P, R
  <2> QED BY <1>2, FS_CardinalityType
<1>4. CASE S = {}
  <2>1. Cardinality(S) = 0
    BY <1>4, FS_EmptySet
  <2> HIDE DEF S, P, R
  <2>2. Cardinality(S) <= 1 + Cardinality(P) + Cardinality(R)
    BY <1>3, <2>1
  <2> QED BY <1>2, <2>2 DEF S, P, R
<1>5. CASE S # {}
  <2> DEFINE I == {a.intent : a \in S}
  <2>1. I \subseteq 1..Len(ledger) /\ I # {}
    BY <1>1, <1>5 DEF ActsOf
  <2>2. Max(I) \in I /\ \A y \in I : y <= Max(I)
    <3> HIDE DEF I
    <3> QED BY <1>1, <2>1, MaxIsLatest
  <2>3. PICK z \in S : z.intent = Max(I)
    BY <2>2
  <2> DEFINE TR == {a \in S : \E m \in R : ledger[m].nonce = ledger[a.intent].nonce}
             TP == {a \in S : \E m \in P : ledger[ledger[m].resend_of].nonce = ledger[a.intent].nonce}
  <2>4. ASSUME NEW a \in S, a # z PROVE a \in TR \/ a \in TP
    <3>1. a \in acts /\ z \in acts /\ ledger[a.intent].root = p /\ ledger[z.intent].root = p
      BY DEF ActsOf
    <3>2. a.intent \in Ids /\ z.intent \in Ids /\ ledger[a.intent].nonce # ledger[z.intent].nonce
      BY <1>1, <2>4, <3>1 DEF OneActPerNonce
    <3>3. a.intent <= z.intent /\ a.intent # z.intent
      BY <2>2, <2>3, <3>2
    <3>4. a.intent < z.intent
      BY <1>1, <3>2, <3>3
    <3>5. Charged(a.intent)
      BY <1>1, <3>1, <3>2, <3>4 DEF EarlierAreCharged, Harmless
    <3>6. ChainOf(a.intent) = ChainOf(p)
      BY <3>1 DEF ChainOf
    <3> QED BY <3>5, <3>6 DEF Charged, PolicyOf, ReleasedOf
  <2>5. \A a, b \in S : ledger[a.intent].nonce = ledger[b.intent].nonce => a = b
    BY <1>1 DEF OneActPerNonce, ActsOf
  <2>6. IsFiniteSet(TR) /\ Cardinality(TR) <= Cardinality(R)
    <3> DEFINE f == [a \in TR |-> CHOOSE m \in R : ledger[m].nonce = ledger[a.intent].nonce]
    <3>1. \A a \in TR : f[a] \in R /\ ledger[f[a]].nonce = ledger[a.intent].nonce
      <4> HIDE DEF R, S
      <4> QED OBVIOUS
    <3>2. f \in Injection(TR, R)
      <4>1. f \in [TR -> R]
        BY <3>1
      <4>2. \A a, b \in TR : f[a] = f[b] => a = b
        <5> HIDE DEF f
        <5> QED BY <2>5, <3>1
      <4> QED BY <4>1, <4>2 DEF Injection, IsInjective
    <3> HIDE DEF f, TR, R
    <3> QED BY <1>2, <3>2, FS_Injection
  <2>7. IsFiniteSet(TP) /\ Cardinality(TP) <= Cardinality(P)
    <3> DEFINE f == [a \in TP |-> CHOOSE m \in P : ledger[ledger[m].resend_of].nonce = ledger[a.intent].nonce]
    <3>1. \A a \in TP : f[a] \in P /\ ledger[ledger[f[a]].resend_of].nonce = ledger[a.intent].nonce
      <4> HIDE DEF P, S
      <4> QED OBVIOUS
    <3>2. f \in Injection(TP, P)
      <4>1. f \in [TP -> P]
        BY <3>1
      <4>2. \A a, b \in TP : f[a] = f[b] => a = b
        <5> HIDE DEF f
        <5> QED BY <2>5, <3>1
      <4> QED BY <4>1, <4>2 DEF Injection, IsInjective
    <3> HIDE DEF f, TP, P
    <3> QED BY <1>2, <3>2, FS_Injection
  <2>8. S \ {z} \in SUBSET (TR \cup TP)
    BY <2>4
  <2> HIDE DEF TR, TP, S, P, R
  <2>9. IsFiniteSet(TR \cup TP) /\ Cardinality(TR \cup TP) = Cardinality(TR) + Cardinality(TP) - Cardinality(TR \cap TP)
    BY <2>6, <2>7, FS_Union
  <2>10. Cardinality(TR \cap TP) \in Nat /\ Cardinality(TR) \in Nat /\ Cardinality(TP) \in Nat
    BY <2>6, <2>7, FS_Intersection, FS_CardinalityType
  <2>11. Cardinality(S \ {z}) <= Cardinality(TR \cup TP)
    BY <2>8, <2>9, FS_Subset
  <2>12. Cardinality(S \ {z}) = Cardinality(S) - 1
    BY <1>2, <2>3, FS_RemoveElement
  <2>13. Cardinality(S) <= 1 + Cardinality(P) + Cardinality(R)
    BY <1>3, <2>6, <2>7, <2>9, <2>10, <2>11, <2>12
  <2> QED BY <1>2, <2>13 DEF S, P, R
<1> QED BY <1>4, <1>5

-----------------------------------------------------------------------------
(* The ledger as SendOnce sees it *)

AllowedOf(p) ==
  IF p \in Ids /\ ledger[p].root = p
  THEN 1 + Cardinality(PolicyOf(p)) + Cardinality(ReleasedOf(p)) ELSE 0

Allowed == [p \in 1..MaxIntents |-> AllowedOf(p)]

Acted == [p \in 1..MaxIntents |-> Cardinality(ActsOf(p))]

Vouched == {ledger[i].root : i \in trail.vouched}

Told == trail.told

\* The steps of SendOnce in these terms.
Allows(p) ==
  /\ p \in 1..MaxIntents /\ Allowed' = [Allowed EXCEPT ![p] = @ + 1]
  /\ Acted' = Acted /\ Vouched' = Vouched /\ Told' = Told

Takes(p) ==
  /\ p \in 1..MaxIntents /\ Acted[p] < Allowed[p] /\ Acted' = [Acted EXCEPT ![p] = @ + 1]
  /\ Allowed' = Allowed /\ Vouched' = Vouched /\ Told' = Told

Vouches(p) ==
  /\ p \in 1..MaxIntents /\ Vouched' = Vouched \cup {p}
  /\ Allowed' = Allowed /\ Acted' = Acted /\ Told' = Told

Tells(p) ==
  /\ p \in 1..MaxIntents /\ (Acted[p] > 0 \/ p \in Vouched) /\ Told' = Told \cup {p}
  /\ Allowed' = Allowed /\ Acted' = Acted /\ Vouched' = Vouched

Stays == Allowed' = Allowed /\ Acted' = Acted /\ Vouched' = Vouched /\ Told' = Told

LEMMA PromiseReads ==
  /\ Promise!Init <=> /\ Allowed = [p \in 1..MaxIntents |-> 0] /\ Acted = [p \in 1..MaxIntents |-> 0]
                      /\ Vouched = {} /\ Told = {}
  /\ [Promise!Next]_(Promise!vars) <=>
       \/ Stays
       \/ \E p \in 1..MaxIntents : Allows(p) \/ Takes(p) \/ Vouches(p) \/ Tells(p)
<1> USE DEF Allowed, AllowedOf, PolicyOf, ReleasedOf, Acted, ActsOf, Vouched, Told
<1>1. Promise!Init <=> /\ Allowed = [p \in 1..MaxIntents |-> 0] /\ Acted = [p \in 1..MaxIntents |-> 0]
                       /\ Vouched = {} /\ Told = {}
  BY DEF Promise!Init
<1>2. ASSUME NEW p \in 1..MaxIntents
      PROVE  /\ Promise!Allow(p) <=> Allows(p)
             /\ Promise!Act(p) <=> Takes(p)
             /\ Promise!Vouch(p) <=> Vouches(p)
             /\ Promise!Tell(p) <=> Tells(p)
  BY DEF Promise!Allow, Promise!Act, Promise!Vouch, Promise!Tell, Allows, Takes, Vouches, Tells
<1>3. Promise!vars' = Promise!vars <=> Stays
  BY DEF Promise!vars, Stays
<1> QED BY <1>1, <1>2, <1>3 DEF Promise!Next

-----------------------------------------------------------------------------
(* What a step changes of that *)

LEMMA InvHolds ==
  ASSUME SendInv
  PROVE  /\ CoreInv /\ TypeOK /\ LinksOK /\ ChainIsALine /\ Len(ledger) \in Nat /\ Ids = 1..Len(ledger)
         /\ trail \in Trails /\ MaxIntents \in Nat /\ Ids \subseteq 1..MaxIntents
         /\ \A a \in acts : a.intent \in Ids
<1>1. CoreInv /\ TypeOK /\ LinksOK /\ ChainIsALine /\ Len(ledger) <= MaxIntents
  BY DEF SendInv, EffectsInv, CoreInv
<1>2. MaxIntents \in Nat
  BY BoundAssumption
<1> QED BY <1>1, <1>2, StateIsTyped

LEMMA ActedStays ==
  ASSUME SendInv, [Next]_vars, acts' = acts
  PROVE  Acted' = Acted
<1>1. CoreInv /\ \A a \in acts : a.intent \in Ids
  BY InvHolds
<1>2. ASSUME NEW p \in 1..MaxIntents PROVE ActsOf(p)' = ActsOf(p)
  BY <1>1, IntentsStay DEF ActsOf, SameIntent
<1> QED BY <1>2 DEF Acted

LEMMA VouchedStays ==
  ASSUME SendInv, [Next]_vars, trail'.vouched = trail.vouched
  PROVE  Vouched' = Vouched
<1>1. CoreInv /\ trail.vouched \subseteq Ids
  BY InvHolds DEF Trails
<1> QED BY <1>1, IntentsStay DEF Vouched, SameIntent

LEMMA ChainsStay ==
  ASSUME SameLinks, NEW i \in Ids
  PROVE  ChainOf(i)' = ChainOf(i) /\ ledger'[i].root = ledger[i].root /\ Ids' = Ids
<1>1. Ids' = Ids /\ \A j \in Ids : ledger'[j].root = ledger[j].root
  BY DEF SameLinks, Ids, SameIntent
<1> QED BY <1>1 DEF ChainOf

LEMMA AllowedStays ==
  ASSUME SendInv, SameLinks, trail'.policy = trail.policy, trail'.released = trail.released
  PROVE  Allowed' = Allowed
<1>1. Ids' = Ids
  BY DEF SameLinks, Ids
<1>2. ASSUME NEW p \in 1..MaxIntents PROVE AllowedOf(p)' = AllowedOf(p)
  <2>1. CASE p \in Ids
    <3>1. ChainOf(p)' = ChainOf(p) /\ ledger'[p].root = ledger[p].root
      BY <2>1, ChainsStay
    <3>2. PolicyOf(p)' = PolicyOf(p) /\ ReleasedOf(p)' = ReleasedOf(p)
      BY <3>1 DEF PolicyOf, ReleasedOf
    <3> QED BY <1>1, <3>1, <3>2 DEF AllowedOf
  <2>2. CASE p \notin Ids
    BY <1>1, <2>2 DEF AllowedOf
  <2> QED BY <2>1, <2>2
<1> QED BY <1>2 DEF Allowed

\* One more repeat of a chain is allowed.
LEMMA AllowedRises ==
  ASSUME NEW p \in 1..MaxIntents, AllowedOf(p)' = AllowedOf(p) + 1,
         \A q \in 1..MaxIntents : q # p => AllowedOf(q)' = AllowedOf(q)
  PROVE  Allowed' = [Allowed EXCEPT ![p] = @ + 1]
<1>1. Allowed' = [q \in 1..MaxIntents |-> AllowedOf(q)']
  BY DEF Allowed
<1>2. [Allowed EXCEPT ![p] = @ + 1]
        = [q \in 1..MaxIntents |-> IF q = p THEN AllowedOf(p) + 1 ELSE AllowedOf(q)]
  BY DEF Allowed
<1>3. \A q \in 1..MaxIntents : AllowedOf(q)' = IF q = p THEN AllowedOf(p) + 1 ELSE AllowedOf(q)
  OBVIOUS
<1> QED BY <1>1, <1>2, <1>3

\* A chain with an effect has been counted.
LEMMA ActedIsPositive ==
  ASSUME SendInv, NEW a \in acts
  PROVE  LET p == ledger[a.intent].root IN p \in 1..MaxIntents /\ Acted[p] > 0
<1> DEFINE p == ledger[a.intent].root
<1>1. TypeOK /\ LinksOK /\ a.intent \in Ids /\ Ids \subseteq 1..MaxIntents /\ ChainIsALine
  BY InvHolds
<1>2. p \in Ids /\ ledger[p].root = p
  BY <1>1, RootsAreRoots
<1>3. a \in ActsOf(p) /\ IsFiniteSet(ActsOf(p))
  BY <1>2, EffectsAreCounted DEF ActsOf
<1>4. Cardinality(ActsOf(p)) \in Nat /\ Cardinality(ActsOf(p)) # 0
  BY <1>3, FS_EmptySet, FS_CardinalityType
<1>5. Cardinality(ActsOf(p)) > 0
  BY <1>4
<1> QED BY <1>1, <1>2, <1>5 DEF Acted

\* A person says what became of a send: a repeat is allowed, or its effect is
\* vouched for.
LEMMA ResolvingIsPromised ==
  ASSUME SendInv, [Next]_vars, NEW i \in Ids, NEW sent \in BOOLEAN, Resolve(i, sent)
  PROVE  Stays \/ \E p \in 1..MaxIntents : Allows(p) \/ Vouches(p)
<1>1. /\ CoreInv /\ TypeOK /\ LinksOK /\ ChainIsALine /\ trail \in Trails /\ Ids \subseteq 1..MaxIntents
      /\ IsFiniteSet(Ids)
  BY InvHolds, FS_Interval
<1>2. PICK p \in Ids : p = ledger[i].root /\ ledger[p].root = p
  BY <1>1, RootsAreRoots
<1>3. SameLinks
  <2>1. \E outcome \in Outcomes : Settle(i, outcome, TRUE)
    BY DEF Resolve, Outcomes
  <2>2. \E outcome \in Outcomes : SettledAs(i, outcome)
    BY <1>1, <2>1, SettleSettles
  <2> QED BY <2>2 DEF SettledAs, SameLinks
<1>4. acts' = acts /\ Acted' = Acted
  <2>1. acts' = acts
    BY DEF Resolve
  <2> QED BY <2>1, ActedStays
<1>5. Told' = Told /\ trail'.policy = trail.policy
  BY <1>1 DEF Resolve, Told, Trails
<1>6. CASE sent
  <2>1. trail' = [trail EXCEPT !.vouched = @ \cup {i}]
    BY <1>6 DEF Resolve
  <2>2. trail'.vouched = trail.vouched \cup {i} /\ trail'.released = trail.released
    BY <1>1, <2>1 DEF Trails
  <2>3. Allowed' = Allowed
    BY <1>3, <1>5, <2>2, AllowedStays
  <2>4. Vouched' = Vouched \cup {p}
    <3>1. trail.vouched \subseteq Ids /\ \A j \in Ids : ledger'[j].root = ledger[j].root
      BY <1>1, <1>3, ChainsStay DEF Trails
    <3> QED BY <1>2, <2>2, <3>1 DEF Vouched
  <2> QED BY <1>1, <1>2, <1>4, <1>5, <2>3, <2>4 DEF Vouches
<1>7. CASE ~sent
  <2>1. trail' = [trail EXCEPT !.released = @ \cup {i}]
    BY <1>7 DEF Resolve
  <2>2. trail'.vouched = trail.vouched /\ trail'.released = trail.released \cup {i}
    BY <1>1, <2>1 DEF Trails
  <2>3. Vouched' = Vouched
    BY <2>2, VouchedStays
  <2>4. CASE i \in trail.released
    <3>1. trail'.released = trail.released
      BY <2>2, <2>4
    <3> QED BY <1>3, <1>4, <1>5, <2>3, <3>1, AllowedStays DEF Stays
  <2>5. CASE i \notin trail.released
    <3>1. Ids' = Ids /\ \A q \in Ids : ChainOf(q)' = ChainOf(q) /\ ledger'[q].root = ledger[q].root
      BY <1>2, <1>3, ChainsStay
    <3>2. \A q \in Ids : PolicyOf(q)' = PolicyOf(q)
      BY <1>5, <3>1 DEF PolicyOf
    <3>3. ASSUME NEW q \in 1..MaxIntents, q # p PROVE AllowedOf(q)' = AllowedOf(q)
      <4>1. CASE q \in Ids /\ ledger[q].root = q
        <5>1. i \notin ChainOf(q)
          BY <1>2, <3>3, <4>1 DEF ChainOf
        <5>2. ReleasedOf(q)' = ReleasedOf(q)
          BY <2>2, <3>1, <4>1, <5>1 DEF ReleasedOf
        <5> QED BY <3>1, <3>2, <4>1, <5>2 DEF AllowedOf
      <4>2. CASE ~(q \in Ids /\ ledger[q].root = q)
        BY <3>1, <4>2 DEF AllowedOf
      <4> QED BY <4>1, <4>2
    <3>4. AllowedOf(p)' = AllowedOf(p) + 1
      <4>1. i \in ChainOf(p)
        BY <1>2 DEF ChainOf
      <4>2. ReleasedOf(p)' = ReleasedOf(p) \cup {i} /\ i \notin ReleasedOf(p)
        BY <1>2, <2>2, <2>5, <3>1, <4>1 DEF ReleasedOf
      <4>3. IsFiniteSet(PolicyOf(p)) /\ IsFiniteSet(ReleasedOf(p))
        BY <1>2, EffectsAreCounted
      <4>4. Cardinality(ReleasedOf(p) \cup {i}) = Cardinality(ReleasedOf(p)) + 1
        BY <4>2, <4>3, FS_AddElement
      <4>5. Cardinality(PolicyOf(p)) \in Nat /\ Cardinality(ReleasedOf(p)) \in Nat
        BY <4>3, FS_CardinalityType
      <4>6. /\ AllowedOf(p) = 1 + Cardinality(PolicyOf(p)) + Cardinality(ReleasedOf(p))
            /\ AllowedOf(p)' = 1 + Cardinality(PolicyOf(p)) + Cardinality(ReleasedOf(p) \cup {i})
        BY <1>2, <3>1, <3>2, <4>2 DEF AllowedOf
      <4> QED BY <4>4, <4>5, <4>6
    <3>5. Allowed' = [Allowed EXCEPT ![p] = @ + 1]
      <4>1. p \in 1..MaxIntents
        BY <1>1, <1>2
      <4> QED BY <3>3, <3>4, <4>1, AllowedRises
    <3> QED BY <1>1, <1>2, <1>4, <1>5, <2>3, <3>5 DEF Allows
  <2> QED BY <2>4, <2>5
<1> QED BY <1>6, <1>7

\* Every chain is within what it was allowed.
Counted == \A p \in 1..MaxIntents : Acted[p] \in Nat /\ Allowed[p] \in Nat /\ Acted[p] <= Allowed[p]

LEMMA EveryChainIsCounted == SendInv => Counted
<1> SUFFICES ASSUME SendInv, NEW p \in 1..MaxIntents
             PROVE  Acted[p] \in Nat /\ Allowed[p] \in Nat /\ Acted[p] <= Allowed[p]
  BY DEF Counted
<1>1. /\ CoreInv /\ TypeOK /\ LinksOK /\ ChainIsALine /\ \A a \in acts : a.intent \in Ids
      /\ Acted[p] = Cardinality(ActsOf(p)) /\ Allowed[p] = AllowedOf(p)
  BY InvHolds DEF Acted, Allowed
<1>2. CASE p \in Ids /\ ledger[p].root = p
  <2>1. /\ IsFiniteSet(ActsOf(p)) /\ IsFiniteSet(PolicyOf(p)) /\ IsFiniteSet(ReleasedOf(p))
        /\ Cardinality(ActsOf(p)) <= 1 + Cardinality(PolicyOf(p)) + Cardinality(ReleasedOf(p))
    BY <1>2, EffectsAreCounted
  <2>2. /\ Cardinality(ActsOf(p)) \in Nat /\ Cardinality(PolicyOf(p)) \in Nat
        /\ Cardinality(ReleasedOf(p)) \in Nat
    BY <2>1, FS_CardinalityType
  <2> QED BY <1>1, <1>2, <2>1, <2>2 DEF AllowedOf
<1>3. CASE ~(p \in Ids /\ ledger[p].root = p)
  <2>1. ActsOf(p) = {}
    <3> SUFFICES ASSUME NEW a \in acts, ledger[a.intent].root = p PROVE FALSE
      BY DEF ActsOf
    <3> QED BY <1>1, <1>3, RootsAreRoots
  <2>2. Cardinality(ActsOf(p)) = 0
    BY <2>1, FS_EmptySet
  <2> QED BY <1>1, <1>3, <2>2 DEF AllowedOf
<1> QED BY <1>2, <1>3

\* The service takes a request: it acts within what its chain was allowed.
LEMMA AcceptingIsPromised ==
  ASSUME SendInv, Counted, Counted', [Next]_vars, NEW i \in Ids, ServiceAccepts(i)
  PROVE  Stays \/ \E p \in 1..MaxIntents : Takes(p)
<1>1. /\ CoreInv /\ TypeOK /\ LinksOK /\ ChainIsALine /\ Ids \subseteq 1..MaxIntents
      /\ \A a \in acts : a.intent \in Ids
  BY InvHolds
<1>2. /\ ledger' = ledger /\ trail' = trail /\ SameLinks
      /\ Allowed' = Allowed /\ Vouched' = Vouched /\ Told' = Told
  <2>1. ledger' = ledger /\ trail' = trail
    BY DEF ServiceAccepts
  <2>2. SameLinks
    BY <2>1 DEF SameLinks, SameIntent
  <2> QED BY <2>1, <2>2, AllowedStays, VouchedStays DEF Told
<1>3. PICK p \in Ids : p = ledger[i].root /\ ledger[p].root = p
  BY <1>1, RootsAreRoots
<1>4. CASE Deduplicated(i)
  <2>1. acts' = acts
    BY <1>4 DEF ServiceAccepts
  <2> QED BY <1>2, <2>1, ActedStays DEF Stays
<1>5. CASE ~Deduplicated(i)
  <2> DEFINE new == [intent |-> i, at |-> now]
  <2>1. acts' = acts \cup {new} /\ request[i] = "flying" /\ new.intent = i
    BY <1>5 DEF ServiceAccepts
  <2>2. new \notin acts
    <3> SUFFICES ASSUME new \in acts PROVE FALSE
      OBVIOUS
    <3>1. request[new.intent] = "ok"
      BY <1>1 DEF CoreInv, ActsOK
    <3> HIDE DEF new
    <3> QED BY <2>1, <3>1
  <2> HIDE DEF new
  <2>3. ASSUME NEW q \in 1..MaxIntents, q # p PROVE ActsOf(q)' = ActsOf(q)
    BY <1>2, <1>3, <2>1, <2>3 DEF ActsOf
  <2>4. ActsOf(p)' = ActsOf(p) \cup {new} /\ new \notin ActsOf(p)
    BY <1>2, <1>3, <2>1, <2>2 DEF ActsOf
  <2>5. IsFiniteSet(ActsOf(p))
    BY <1>3, EffectsAreCounted
  <2>6. Cardinality(ActsOf(p) \cup {new}) = Cardinality(ActsOf(p)) + 1
    BY <2>4, <2>5, FS_AddElement
  <2>7. Acted' = [q \in 1..MaxIntents |-> Cardinality(ActsOf(q)')]
    BY DEF Acted
  <2>8. [Acted EXCEPT ![p] = @ + 1]
          = [q \in 1..MaxIntents |-> IF q = p THEN Cardinality(ActsOf(p)) + 1 ELSE Cardinality(ActsOf(q))]
    BY <1>1, <1>3 DEF Acted
  <2>9. \A q \in 1..MaxIntents : Cardinality(ActsOf(q)')
          = IF q = p THEN Cardinality(ActsOf(p)) + 1 ELSE Cardinality(ActsOf(q))
    BY <2>3, <2>4, <2>6
  <2>10. Acted' = [Acted EXCEPT ![p] = @ + 1]
    BY <2>7, <2>8, <2>9
  <2>11. p \in 1..MaxIntents /\ Acted \in [1..MaxIntents -> Nat]
    <3>1. DOMAIN Acted = 1..MaxIntents /\ Acted = [q \in 1..MaxIntents |-> Acted[q]]
      BY DEF Acted
    <3> QED BY <1>1, <1>3, <3>1 DEF Counted
  <2>12. Acted'[p] = Acted[p] + 1
    BY <2>10, <2>11
  <2>13. Acted'[p] <= Allowed'[p] /\ Allowed'[p] = Allowed[p] /\ Allowed[p] \in Nat /\ Acted[p] \in Nat
    BY <1>2, <2>11 DEF Counted
  <2>14. Acted[p] < Allowed[p]
    BY <2>12, <2>13
  <2> QED BY <1>2, <2>10, <2>11, <2>14 DEF Takes
<1> QED BY <1>4, <1>5

\* A repeat is told "already sent" of a chain that acted or was vouched for.
LEMMA TellingIsPromised ==
  ASSUME SendInv, [Next]_vars, NEW c \in Callers, LookupFinds(c) \/ AnswerAlreadySent(c)
  PROVE  \E p \in 1..MaxIntents : Tells(p)
<1>1. /\ CoreInv /\ TypeOK /\ LinksOK /\ ChainIsALine /\ Ids \subseteq 1..MaxIntents
      /\ trail \in Trails /\ \A a \in acts : a.intent \in Ids
  BY InvHolds
<1>2. PICK i \in Ids : /\ NoteTold(i)
                       /\ i \in trail.vouched \/ \E a \in acts : ledger[a.intent].nonce = ledger[i].nonce
  <2>1. CASE LookupFinds(c)
    <3> DEFINE i == caller[c].intent
    <3>1. i \in Ids /\ NoteTold(i) /\ \E a \in acts : a.intent = i
      BY <1>1, <2>1 DEF LookupFinds, CoreInv, CallersOK, CallerFits
    <3> QED BY <3>1
  <2>2. CASE AnswerAlreadySent(c)
    <3> DEFINE k == caller[c].key
               m == VerdictMember(TipChain(k))
    <3>1. k \in Keys /\ Admission(k) = "already_sent" /\ NoteTold(m)
      BY <1>1, <2>2 DEF AnswerAlreadySent, CoreInv, CallersOK, CallerFits
    <3>2. InScope(k) # {}
      BY <3>1 DEF Admission
    <3>3. TipChain(k) \subseteq Ids /\ TipChain(k) # {}
      BY <1>1, <3>1, <3>2, TipIsInScope
    <3>4. m \in Ids /\ EffectiveState(m) = "confirmed"
      BY <1>1, <3>1, <3>2, <3>3, VerdictReads, AdmissionReads
    <3>5. ledger[m].state = "confirmed"
      BY <3>4 DEF EffectiveState
    <3>6. m \in trail.vouched \/ \E a \in acts : ledger[a.intent].nonce = ledger[m].nonce
      BY <1>1, <3>4, <3>5 DEF CoreInv, SettlementsAreTrue
    <3> QED BY <3>1, <3>4, <3>6
  <2> QED BY <2>1, <2>2
<1>3. PICK p \in Ids : p = ledger[i].root
  BY <1>1, RootsAreRoots
<1>4. Acted[p] > 0 \/ p \in Vouched
  <2>1. CASE i \in trail.vouched
    BY <1>3, <2>1 DEF Vouched
  <2>2. CASE \E a \in acts : ledger[a.intent].nonce = ledger[i].nonce
    <3>1. PICK a \in acts : ledger[a.intent].nonce = ledger[i].nonce
      BY <2>2
    <3>2. ledger[a.intent].root = p
      BY <1>1, <1>3, <3>1, LinkFacts
    <3> QED BY <3>2, ActedIsPositive
  <2> QED BY <1>2, <2>1, <2>2
<1>5. SameLinks
  <2>1. ledger' = ledger => SameLinks
    BY DEF SameLinks, SameIntent
  <2>2. LookupFinds(c) => caller[c].intent \in Ids /\ TrySettle(caller[c].intent, "confirmed")
    BY <1>1 DEF LookupFinds, CoreInv, CallersOK, CallerFits
  <2>3. ASSUME NEW j \in Ids, TrySettle(j, "confirmed") PROVE SameLinks
    <3>1. SettledAs(j, "confirmed")
      BY <1>1, <2>3, SettleSettles DEF TrySettle, Outcomes
    <3> QED BY <3>1 DEF SettledAs, SameLinks
  <2> QED BY <2>1, <2>2, <2>3 DEF AnswerAlreadySent
<1>6. /\ Told' = Told \cup {p} /\ trail'.policy = trail.policy /\ trail'.released = trail.released
      /\ trail'.vouched = trail.vouched
  BY <1>1, <1>2, <1>3 DEF NoteTold, Told, Trails
<1>7. Allowed' = Allowed /\ Vouched' = Vouched /\ Acted' = Acted
  <2>1. acts' = acts
    BY DEF LookupFinds, AnswerAlreadySent
  <2> QED BY <1>5, <1>6, <2>1, AllowedStays, VouchedStays, ActedStays
<1> QED BY <1>1, <1>4, <1>6, <1>7 DEF Tells

\* A send is recorded: a first send is allowed one effect, and a repeat that the
\* policy decides one more.
LEMMA RecordingIsPromised ==
  ASSUME SendInv, [Next]_vars, NEW c \in Callers, NEW r, Records(c, r)
  PROVE  Stays \/ \E p \in 1..MaxIntents : Allows(p)
<1>1. /\ CoreInv /\ TypeOK /\ LinksOK /\ ChainIsALine /\ Ids \subseteq 1..MaxIntents
      /\ trail \in Trails
  BY InvHolds
<1>2. PICK n \in Nat : /\ n = Len(ledger) + 1 /\ Ids = 1..(n - 1) /\ Ids' = Ids \cup {n} /\ n \notin Ids
                       /\ r = ledger'[n]
  BY <1>1, RecordingAdds
<1>3. n \in 1..MaxIntents
  <2>1. Len(ledger) < MaxIntents
    BY DEF Records, MayRecord
  <2> QED BY <1>1, <1>2, <2>1, InvHolds
<1>4. /\ Acted' = Acted /\ Linked(c, r) /\ NotePolicy(c) /\ caller[c].key \in Keys
      /\ \A j \in Ids : ledger'[j].root = ledger[j].root
  <2>1. acts' = acts /\ Linked(c, r) /\ NotePolicy(c) /\ caller[c].key \in Keys
    BY DEF Records
  <2> QED BY <1>1, <2>1, ActedStays, IntentsStay DEF SameIntent
<1>5. trail.policy \subseteq Ids /\ trail.released \subseteq Ids
  BY <1>1 DEF Trails
<1>6. /\ trail'.released = trail.released /\ trail'.vouched = trail.vouched /\ trail'.told = trail.told
      /\ trail'.policy = IF Admission(caller[c].key) = "resend_unknown" THEN trail.policy \cup {n} ELSE trail.policy
  BY <1>1, <1>2, <1>4 DEF NotePolicy, Trails
<1>7. Vouched' = Vouched /\ Told' = Told
  BY <1>6, VouchedStays DEF Told
<1>8. ASSUME NEW q \in 1..MaxIntents, q # r.root, q # n PROVE AllowedOf(q)' = AllowedOf(q)
  <2>1. CASE q \in Ids /\ ledger[q].root = q
    <3>1. ChainOf(q)' = ChainOf(q) /\ n \notin ChainOf(q)
      BY <1>2, <1>4, <1>8, <2>1 DEF ChainOf
    <3>2. PolicyOf(q)' = PolicyOf(q) /\ ReleasedOf(q)' = ReleasedOf(q)
      BY <1>6, <3>1 DEF PolicyOf, ReleasedOf
    <3> QED BY <1>2, <1>4, <2>1, <3>2 DEF AllowedOf
  <2>2. CASE ~(q \in Ids /\ ledger[q].root = q)
    <3>1. ~(q \in Ids' /\ ledger'[q].root = q)
      BY <1>2, <1>4, <1>8, <2>2
    <3> QED BY <2>2, <3>1 DEF AllowedOf
  <2> QED BY <2>1, <2>2
<1>9. CASE Admission(caller[c].key) = "new"
  <2>1. r.root = n /\ trail'.policy = trail.policy
    BY <1>2, <1>4, <1>6, <1>9 DEF Linked
  <2>2. AllowedOf(n) = 0
    BY <1>2 DEF AllowedOf
  <2>3. ChainOf(n)' \cap Ids = {}
    <3>1. \A j \in Ids : ledger[j].root \in Ids
      BY <1>1, LinkFacts
    <3> QED BY <1>2, <1>4, <2>1, <3>1 DEF ChainOf
  <2>4. PolicyOf(n)' = {} /\ ReleasedOf(n)' = {}
    BY <1>5, <1>6, <2>1, <2>3 DEF PolicyOf, ReleasedOf
  <2>5. AllowedOf(n)' = 1
    <3>1. AllowedOf(n)' = 1 + Cardinality({}) + Cardinality({})
      BY <1>2, <2>1, <2>4 DEF AllowedOf
    <3> QED BY <3>1, FS_EmptySet
  <2>6. Allowed' = [Allowed EXCEPT ![n] = @ + 1]
    BY <1>3, <1>8, <2>1, <2>2, <2>5, AllowedRises
  <2> QED BY <1>3, <1>4, <1>7, <2>6 DEF Allows
<1>10. CASE Admission(caller[c].key) # "new"
  <2>1. InScope(caller[c].key) # {} /\ r.root = ledger[Tip(caller[c].key)].root
    BY <1>4, <1>10 DEF Linked
  <2>2. PICK p \in Ids : p = r.root /\ ledger[p].root = p
    BY <1>1, <1>4, <2>1, TipIsInScope, RootsAreRoots
  <2>3. AllowedOf(n)' = AllowedOf(n)
    BY <1>2, <2>2 DEF AllowedOf
  <2>4. ChainOf(p)' = ChainOf(p) \cup {n} /\ n \notin ChainOf(p)
    BY <1>2, <1>4, <2>2 DEF ChainOf
  <2>5. ReleasedOf(p)' = ReleasedOf(p)
    BY <1>2, <1>5, <1>6, <2>4 DEF ReleasedOf
  <2>6. CASE Admission(caller[c].key) = "resend_unknown"
    <3>1. PolicyOf(p)' = PolicyOf(p) \cup {n} /\ n \notin PolicyOf(p)
      BY <1>2, <1>5, <1>6, <2>4, <2>6 DEF PolicyOf
    <3>2. IsFiniteSet(PolicyOf(p)) /\ IsFiniteSet(ReleasedOf(p))
      BY <2>2, EffectsAreCounted
    <3>3. Cardinality(PolicyOf(p) \cup {n}) = Cardinality(PolicyOf(p)) + 1
      BY <3>1, <3>2, FS_AddElement
    <3>4. Cardinality(PolicyOf(p)) \in Nat /\ Cardinality(ReleasedOf(p)) \in Nat
      BY <3>2, FS_CardinalityType
    <3>5. /\ AllowedOf(p) = 1 + Cardinality(PolicyOf(p)) + Cardinality(ReleasedOf(p))
          /\ AllowedOf(p)' = 1 + Cardinality(PolicyOf(p) \cup {n}) + Cardinality(ReleasedOf(p))
      BY <1>2, <1>4, <2>2, <2>5, <3>1 DEF AllowedOf
    <3>6. AllowedOf(p)' = AllowedOf(p) + 1
      BY <3>3, <3>4, <3>5
    <3>7. Allowed' = [Allowed EXCEPT ![p] = @ + 1]
      BY <1>1, <1>8, <2>2, <2>3, <3>6, AllowedRises
    <3> QED BY <1>1, <1>4, <1>7, <2>2, <3>7 DEF Allows
  <2>7. CASE Admission(caller[c].key) # "resend_unknown"
    <3>1. PolicyOf(p)' = PolicyOf(p)
      BY <1>2, <1>5, <1>6, <2>4, <2>7 DEF PolicyOf
    <3>2. AllowedOf(p)' = AllowedOf(p)
      BY <1>2, <1>4, <2>2, <2>5, <3>1 DEF AllowedOf
    <3>3. \A q \in 1..MaxIntents : AllowedOf(q)' = AllowedOf(q)
      BY <1>8, <2>2, <2>3, <3>2
    <3>4. Allowed' = Allowed
      BY <3>3 DEF Allowed
    <3> QED BY <1>4, <1>7, <3>4 DEF Stays
  <2> QED BY <2>6, <2>7
<1> QED BY <1>9, <1>10

\* Every other step changes nothing that SendOnce sees.
LEMMA OtherStepsStutter ==
  ASSUME SendInv, [Next]_vars, SameLinks, acts' = acts, trail' = trail
  PROVE  Stays
BY AllowedStays, ActedStays, VouchedStays DEF Stays, Told

LEMMA StepIsPromised ==
  ASSUME SendInv, Counted, Counted', [Next]_vars
  PROVE  [Promise!Next]_(Promise!vars)
<1>1. CoreInv
  BY InvHolds
<1> SUFFICES Stays \/ \E p \in 1..MaxIntents : Allows(p) \/ Takes(p) \/ Vouches(p) \/ Tells(p)
  BY PromiseReads
<1>2. CASE \E c \in Callers : \E r : Records(c, r)
  BY <1>2, RecordingIsPromised
<1>3. CASE \E i \in Ids, sent \in BOOLEAN : Resolve(i, sent)
  BY <1>3, ResolvingIsPromised
<1>4. CASE \E i \in Ids : ServiceAccepts(i)
  BY <1>4, AcceptingIsPromised
<1>5. CASE \E c \in Callers : LookupFinds(c) \/ AnswerAlreadySent(c)
  BY <1>5, TellingIsPromised
<1>6. CASE ~(\E c \in Callers : \E r : Records(c, r)) /\ acts' = acts /\ trail' = trail
  BY <1>1, <1>6, LinksMove, OtherStepsStutter
<1>7. ASSUME NEW c \in Callers, Call(c)
      PROVE  \/ acts' = acts /\ trail' = trail
             \/ LookupFinds(c) \/ AnswerAlreadySent(c)
             \/ \E r : Records(c, r)
  BY <1>1, <1>7, AdmitsRecord DEF Call, Begin, JournalRefuses, Refuse, StartLookup, LookupFails, Leave,
     BuildFails, Hear, Finish
<1>8. CASE \E c \in Callers : Call(c)
  BY <1>2, <1>5, <1>6, <1>7, <1>8
<1>9. CASE \/ \E c \in Callers : Die(c)
           \/ StartAttempt \/ \E succeeded \in BOOLEAN : EndAttempt(succeeded)
           \/ \E i \in Ids : Drop(i)
           \/ Tick \/ UNCHANGED vars
  <2>1. acts' = acts /\ trail' = trail
    BY <1>9 DEF Die, StartAttempt, EndAttempt, Drop, Tick, vars
  <2> QED BY <1>2, <1>6, <2>1
<1> QED BY <1>3, <1>4, <1>8, <1>9 DEF Next

-----------------------------------------------------------------------------
(* The theorem *)

\* The ledger keeps the promise of SendOnce: however calls, deaths, settlements
\* and late requests interleave, a chain never acts more often than it was
\* allowed to, and a repeat is told "already sent" only of a chain that acted or
\* was vouched for (run send_key), under the timing only a key-mode window needs.
THEOREM LedgerKeepsPromise ==
  ASSUME Timely \/ \A k \in Keys : Mode[k] # "key"
  PROVE  Spec => KeepsPromise
<1>1. Init => Promise!Init
  <2> SUFFICES ASSUME Init PROVE Promise!Init
    OBVIOUS
  <2>1. Ids = {} /\ acts = {} /\ trail = [policy |-> {}, released |-> {}, vouched |-> {}, told |-> {}]
    BY DEF Init, Ids
  <2>2. Allowed = [p \in 1..MaxIntents |-> 0]
    BY <2>1 DEF Allowed, AllowedOf
  <2>3. \A p : ActsOf(p) = {}
    BY <2>1 DEF ActsOf
  <2>4. Acted = [p \in 1..MaxIntents |-> 0]
    BY <2>3, FS_EmptySet DEF Acted
  <2>5. Vouched = {} /\ Told = {}
    BY <2>1 DEF Vouched, Told
  <2> QED BY <2>2, <2>4, <2>5, PromiseReads
<1>2. SendInv => Counted
  BY EveryChainIsCounted
<1>3. SendInv /\ Counted /\ Counted' /\ [Next]_vars => [Promise!Next]_(Promise!vars)
  BY StepIsPromised
<1>4. Spec => []SendInv
  BY SendInvariant
<1> QED BY <1>1, <1>2, <1>3, <1>4, PTL DEF Spec, KeepsPromise, Promise!Spec

=============================================================================
