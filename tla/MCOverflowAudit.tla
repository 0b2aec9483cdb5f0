-------------------------- MODULE MCOverflowAudit --------------------------
(* Three task slots and four rejections: the main thread can start a second *)
(* task while the first is between its store(false) and its exchange, and   *)
(* a third while both are.                                                  *)
EXTENDS OverflowAudit

CONSTANTS t1, t2, t3

MCTasks == {t1, t2, t3}
=============================================================================
