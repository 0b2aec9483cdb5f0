------------------------------ MODULE SignalLink ------------------------------
(***************************************************************************)
(* What the signalling client promises about the messages handed to it:    *)
(* each is put on the wire at most once and in the order of hand-over; a   *)
(* message of a WebRTC session never after the connection it was meant for *)
(* was lost, and no message after the client was moved to another server.  *)
(* Messages may be dropped.                                                *)
(***************************************************************************)
EXTENDS Positions

CONSTANTS Messages, SessionMessages

VARIABLES
    waiting,    \* the messages accepted and not yet sent, oldest first
    wire,       \* the messages sent, oldest first
    since       \* what happened to the connection since each was accepted

linkVars == <<waiting, wire, since>>

Init ==
    /\ waiting = <<>>
    /\ wire = <<>>
    /\ since = [m \in Messages |-> "unsent"]

\* The loss of the connection, and the move to another server.
AfterLoss(s) == [m \in Messages |-> IF s[m] = "same" THEN "lost" ELSE s[m]]
AfterMove(s) == [m \in Messages |-> IF s[m] = "unsent" THEN "unsent" ELSE "moved"]

MaySend(m, s) == s[m] = "same" \/ (s[m] = "lost" /\ m \notin SessionMessages)

\* The messages at positions sent of the first cut ones go on the wire, the
\* others of the first cut are dropped; the connection may be lost after that.
Transfer(queue, s) ==
    \E cut \in 0..Len(queue) : \E sent \in SUBSET (1..cut) :
        /\ \A i \in sent : MaySend(queue[i], s)
        /\ wire' = wire \o Pick(SubSeq(queue, 1, cut), sent)
        /\ waiting' = SubSeq(queue, cut + 1, Len(queue))
        /\ since' \in {s, AfterLoss(s), AfterMove(s)}

Accept(m) ==
    /\ since[m] = "unsent"
    /\ Transfer(Append(waiting, m), [since EXCEPT ![m] = "same"])

Next ==
    \/ Transfer(waiting, since)
    \/ \E m \in Messages : Accept(m)

LinkSpec == Init /\ [][Next]_linkVars
=============================================================================
