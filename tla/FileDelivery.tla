------------------------------ MODULE FileDelivery ------------------------------
(***************************************************************************)
(* What the file channel promises the two people who use it: a file of an  *)
(* upload appears on the controlled machine at most once, only after the   *)
(* controller has sent all of it, and whole.                               *)
(***************************************************************************)
EXTENDS Naturals

CONSTANTS
    Packets,        \* files on their way, with their headers
    fragmentsOf     \* fragments of each

VARIABLES
    sent,           \* fragments of each packet the controller has sent
    written         \* what has been committed for each packet

vars == <<sent, written>>

Whole(p) == [i \in 1..fragmentsOf[p] |-> i - 1]

Init ==
    /\ sent = [p \in Packets |-> 0]
    /\ written = [p \in Packets |-> <<>>]

Send(p) ==
    /\ sent[p] < fragmentsOf[p]
    /\ sent' = [sent EXCEPT ![p] = @ + 1]
    /\ UNCHANGED written

Write(p) ==
    /\ sent[p] = fragmentsOf[p]
    /\ written[p] = <<>>
    /\ written' = [written EXCEPT ![p] = <<Whole(p)>>]
    /\ UNCHANGED sent

Next == \E p \in Packets : Send(p) \/ Write(p)

Spec == Init /\ [][Next]_vars
=============================================================================
