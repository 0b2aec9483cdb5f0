--------------------------- MODULE MCSessionTeardown ---------------------------
(***************************************************************************)
(* SessionTeardown with two readers on threads of their own, and a         *)
(* callback on the owner's thread from which the shutdown may be reached.  *)
(***************************************************************************)
EXTENDS SessionTeardown, TLC

CONSTANTS r1, r2, o1, comThread1, comThread2

MCThreadOf ==
    [c \in Calls |-> IF c = r1 THEN comThread1 ELSE IF c = r2 THEN comThread2 ELSE Owner]
=============================================================================
