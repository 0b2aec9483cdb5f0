------------------------------ MODULE Positions ------------------------------
(***************************************************************************)
(* The part of a sequence that stands at some of its positions, in order:  *)
(* what a loop over a queue keeps when it skips the other entries.  It is  *)
(* defined by counting, without recursion, so that proofs can use it.      *)
(***************************************************************************)
EXTENDS Naturals, Sequences, FiniteSets

\* The k-th position of the set I, from the front.
Nth(I, k) == CHOOSE i \in I : Cardinality({j \in I : j <= i}) = k

Pick(q, I) == [k \in 1..Cardinality(I) |-> q[Nth(I, k)]]
=============================================================================
