------------------------- MODULE MCControlledAccess -------------------------
(* What the CONNECTs of a behaviour say of themselves, for TLC.             *)
EXTENDS ControlledAccess, TLC

CONSTANTS r1, r2, r3, alice, bob, i1, i2, i3, desktop, file

OneRequest    == {r1}
TwoRequests   == {r1, r2}
ThreeRequests == {r1, r2, r3}

OnePeer  == {alice}
TwoPeers == {alice, bob}

\* One controller with two windows, one for the desktop and one for files.
AllFromAlice == [r \in Requests |-> alice]

\* Two controllers.
LastFromBob == [r \in Requests |-> IF r = r3 THEN bob ELSE alice]

\* Each CONNECT has a session identifier of its own ...
OwnIds == [r \in Requests |-> CASE r = r1 -> i1 [] r = r2 -> i2 [] OTHER -> i3]

\* ... or all of them carry the one of the controller's window.
SameId == [r \in Requests |-> i1]

AllDesktop == [r \in Requests |-> desktop]
SecondFile == [r \in Requests |-> IF r = r2 THEN file ELSE desktop]

(* A second CONNECT or a failed append, not both in one behaviour.         *)
OneTrouble == auditFailures' = 0 \/ stage'[r2] = "unsent"

(* The policy changes a second time only before the second CONNECT.        *)
SecondChangeEarly ==
  policyGeneration' # policyGeneration /\ policyGeneration > 1 => stage[r2] = "unsent"

MCNext == Next /\ OneTrouble /\ SecondChangeEarly

MCFairSpec == Init /\ [][MCNext]_vars /\ Fairness

ThreeIds == {i1, i2, i3}
TwoModes == {desktop, file}
=============================================================================
