----------------------------- MODULE MCFileIngress -----------------------------
(***************************************************************************)
(* FileIngress with up to two files of their own transfers, the first in   *)
(* two fragments and the second in SecondFragments.                        *)
(***************************************************************************)
EXTENDS FileIngress

CONSTANTS owner, rtc, p1, p2, t1, t2, SecondFragments

MCTransferOf == [p \in Packets |-> IF p = p1 THEN t1 ELSE t2]
MCFragmentsOf == [p \in Packets |-> IF p = p1 THEN 2 ELSE SecondFragments]
=============================================================================
