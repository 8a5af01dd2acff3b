-------------------------------- MODULE Picking --------------------------------
(***************************************************************************)
(* What is left of a sequence when some of its places are dropped.         *)
(***************************************************************************)
EXTENDS Integers, FiniteSets, Sequences

\* What stands at the places of K, in their order.
Picked(ms, K) ==
  LET rank(k) == Cardinality({j \in K : j <= k})
  IN  [n \in 1 .. Cardinality(K) |-> ms[CHOOSE k \in K : rank(k) = n]]

=============================================================================
