------------------------------ MODULE SendOnce ------------------------------
(***************************************************************************)
(* What the send-intent ledger promises, with nothing of how it keeps it.  *)
(* A purpose is one chain of intents: a first send and its repeats.  It    *)
(* takes effect at the service at most as often as it was allowed to: once *)
(* for the first send, and once more each time the binding's               *)
(* on_unknown: resend, or a person who said "it did not go out", allowed   *)
(* another try.  A repeat is told "already sent" only for a purpose that   *)
(* took effect or that a person vouched for.                               *)
(***************************************************************************)
EXTENDS Naturals

CONSTANT Purposes

VARIABLES
  allowed,   \* how many effects each purpose may have
  acted,     \* how many effects each purpose had at the service
  vouched,   \* the purposes a person said went out
  told       \* the purposes a repeat was answered "already sent" for

vars == <<allowed, acted, vouched, told>>

Init ==
  /\ allowed = [p \in Purposes |-> 0]
  /\ acted = [p \in Purposes |-> 0]
  /\ vouched = {}
  /\ told = {}

Allow(p) ==
  /\ allowed' = [allowed EXCEPT ![p] = @ + 1]
  /\ UNCHANGED <<acted, vouched, told>>

Act(p) ==
  /\ acted[p] < allowed[p]
  /\ acted' = [acted EXCEPT ![p] = @ + 1]
  /\ UNCHANGED <<allowed, vouched, told>>

Vouch(p) ==
  /\ vouched' = vouched \cup {p}
  /\ UNCHANGED <<allowed, acted, told>>

Tell(p) ==
  /\ acted[p] > 0 \/ p \in vouched
  /\ told' = told \cup {p}
  /\ UNCHANGED <<allowed, acted, vouched>>

Next == \E p \in Purposes : Allow(p) \/ Act(p) \/ Vouch(p) \/ Tell(p)

Spec == Init /\ [][Next]_vars
=============================================================================
