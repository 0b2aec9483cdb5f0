---------------------------- MODULE SessionSignals ----------------------------
(***************************************************************************)
(* What the worker of a controller's window (WebRtcCtl) and the workers of *)
(* the controlled device (WebRtcCli) say to each other through the         *)
(* signalling server.  Every message of a window carries the one session   *)
(* identifier the window keeps for its life, so it is not modelled: a      *)
(* message says nothing of the connection it was meant for.                *)
(*                                                                         *)
(* Each CONNECT is numbered, which it is not in the code, and so are the   *)
(* peer connection it was sent for and the worker it makes.  A number no   *)
(* state component mentions any more is used again.                        *)
(***************************************************************************)
EXTENDS Naturals, Sequences

CONSTANTS
    MaxDials,       \* bound: the numbers of CONNECTs
    MaxTroubles     \* bound: losses, failures, early timeouts, path switches

ASSUME SignalsAssumption ==
    /\ MaxDials \in Nat \ {0}
    /\ MaxTroubles \in Nat

VARIABLES
    toControlled,   \* the messages on their way, oldest first
    toController,
    troubles        \* what has gone wrong so far

wires == <<toControlled, toController>>
signalVars == <<wires, troubles>>

Dials == 1..MaxDials

\* Why a worker of the controlled device ends.
Transient == {"connection_start_timeout", "remote_description_failed"}
Terminal == {"network_error", "remote_or_network", "controlled_user"}
Reasons == Transient \cup Terminal

ToControlled ==
    [type : {"connect"}, dial : Dials]
        \cup [type : {"answer"}, of : Dials, to : Dials]
        \cup [type : {"disconnect"}]

\* connected is no part of the message: it records whether the worker ever was.
ToController ==
    [type : {"offer"}, of : Dials]
        \cup [type : {"error"}, access : BOOLEAN]
        \cup [type : {"disconnect"}, reason : Reasons, connected : BOOLEAN]

SignalsTypeOK ==
    /\ toControlled \in Seq(ToControlled)
    /\ toController \in Seq(ToController)
    /\ troubles \in 0..MaxTroubles

SignalsInit == toControlled = <<>> /\ toController = <<>> /\ troubles = 0

Trouble == troubles < MaxTroubles /\ troubles' = troubles + 1

\* A step that is trouble unless expected.
Unless(expected) == IF expected THEN UNCHANGED troubles ELSE Trouble

\* The signalling connection of either side is down when a message is handed
\* over, or is lost before the message is through.
LoseSignal ==
    /\ Trouble
    /\ \/ toControlled # <<>> /\ toControlled' = Tail(toControlled) /\ UNCHANGED toController
       \/ toController # <<>> /\ toController' = Tail(toController) /\ UNCHANGED toControlled
=============================================================================
