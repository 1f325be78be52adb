------------------------------- MODULE MCWakes -------------------------------
(* Small instances of Wakes: two nodes with delays on both sides of the
   release threshold, or one. *)
EXTENDS Wakes, TLC

CONSTANTS n1, n2, d1, d2, w1, w2, p1

Delays == n1 :> 2 @@ n2 :> 1
OneDelay == n1 :> 2
Symmetric == Permutations(Wakers) \cup Permutations(Drivers \ {First})
=============================================================================
