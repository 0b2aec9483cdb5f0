------------------------------ MODULE MCFileCancel ------------------------------
(***************************************************************************)
(* FileCancel for the files of MCFileIngress, with the fairness of         *)
(* FileIngress.                                                            *)
(***************************************************************************)
EXTENDS MCFileIngress, FileCancel

MCFairSpec == CancelSpec /\ Fairness
=============================================================================
