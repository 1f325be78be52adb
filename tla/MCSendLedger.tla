---------------------------- MODULE MCSendLedger ----------------------------
(* Instances of SendLedger for TLC: one or two execution keys, how each makes *)
(* a send repeatable and its policy when nobody knows what came of one.      *)
EXTENDS SendLedger, TLC

CONSTANTS p1, p2, k1, k2

MarkerMode == k1 :> "marker"
KeyAndRef == k1 :> "key" @@ k2 :> "ref"
BothPolicies == k1 :> "resend" @@ k2 :> "refuse"
Refuses == k1 :> "refuse"

\* One key at a time: the keys of an attempt share its budget and nothing else.
OneKey ==
  Cardinality(({ledger[i].key : i \in DOMAIN ledger} \cup {caller[c].key : c \in Callers})
              \ {NoKey}) <= 1

\* A chain of three is made at once, in one attempt, and a second attempt comes
\* early.  A push takes its time, in one attempt, with one repeat: it is read
\* back after its pusher died as well as after it was settled as unknown.
Breadth ==
  /\ Len(ledger) > 2 => now <= 1 /\ attempt <= 1
  /\ attempt > 1 => now <= 1
  /\ attempt > 1 \/ Len(ledger) > 2 => \A c \in Callers : caller[c].key # k2

Symmetry == Permutations(Callers)
=============================================================================
