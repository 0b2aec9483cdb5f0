----------------------------- MODULE MCWsClient -----------------------------
(***************************************************************************)
(* WsClient with two session messages and another one, this device and one *)
(* more.                                                                   *)
(***************************************************************************)
EXTENDS WsClient

CONSTANTS m1, m2, m3, dev1, here
=============================================================================
