----------------------------- MODULE CallbackQueue -----------------------------
(***************************************************************************)
(* What QtCallbackDispatcher promises its users: posted callbacks wait in  *)
(* one line and are run from its front, one at a time.  Only when Qt       *)
(* refuses the queued call is the line thrown away, and then all of it.    *)
(***************************************************************************)
EXTENDS Sequences

CONSTANT Callbacks

VARIABLE line

Init == line = <<>>

Join == \E c \in Callbacks : line' = Append(line, c)
Serve == line # <<>> /\ line' = Tail(line)
Discard == line # <<>> /\ line' = <<>>

Next == Join \/ Serve \/ Discard

Spec == Init /\ [][Next]_line
=============================================================================
