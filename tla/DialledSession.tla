----------------------------- MODULE DialledSession -----------------------------
(***************************************************************************)
(* What a controller's window promises the controlled device: it calls     *)
(* again only when the call before was taken back by either side, and      *)
(* never once the window is closed.                                        *)
(***************************************************************************)
EXTENDS Naturals

VARIABLES
    line,   \* the peer connection the call is made with, 0 for none
    open,   \* the device was called and nobody took the call back
    over    \* the window is closed

Init == line = 0 /\ ~open /\ ~over

\* A call may fail before the device hears of it.
Call ==
    /\ ~open /\ ~over
    /\ line' \in Nat /\ open' \in BOOLEAN
    /\ UNCHANGED over

\* Only a call that was taken back lets go of its line.
TakeBack == ~open' /\ line' \in {line, 0} /\ UNCHANGED over

Close == ~open' /\ line' = 0 /\ over'

Next == Call \/ TakeBack \/ Close

Spec == Init /\ [][Next]_<<line, open, over>>
=============================================================================
