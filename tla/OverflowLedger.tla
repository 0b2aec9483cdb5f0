--------------------------- MODULE OverflowLedger ---------------------------
(***************************************************************************)
(* What the overflow audit promises, without its atomics and its tasks:    *)
(* rejections are counted one at a time, and reported in batches, each     *)
(* rejection in exactly one batch and never before it was counted.         *)
(***************************************************************************)
EXTENDS Naturals

VARIABLES counted, reported

vars == <<counted, reported>>

Init == counted = 0 /\ reported = 0

Count ==
  /\ counted' = counted + 1
  /\ UNCHANGED reported

\* A batch is not empty and holds only what has been counted.
Report ==
  /\ reported' \in Nat
  /\ reported < reported'
  /\ reported' <= counted
  /\ UNCHANGED counted

Next == Count \/ Report

Spec == Init /\ [][Next]_vars
=============================================================================
