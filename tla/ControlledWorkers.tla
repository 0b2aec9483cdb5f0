--------------------------- MODULE ControlledWorkers ---------------------------
(***************************************************************************)
(* The controlled device as one window of a controller sees it: the main   *)
(* window admits a CONNECT unless the session already has a worker, and    *)
(* each worker (WebRtcCli) offers, is answered, connects, and ends.        *)
(* ControlledAccess has the admission in detail.                           *)
(***************************************************************************)
EXTENDS SessionSignals

VARIABLES
    evaluating,     \* the CONNECTs in the pool
    stage,          \* of each worker
    said,           \* m_disconnectSent or m_remoteDisconnectReceived
    reason,         \* m_disconnectReason
    answeredBy,     \* external: the controller's peer whose answer was applied
    everUp          \* history: workers that were connected

workerVars == <<evaluating, stage, said, reason, answeredBy, everUp>>

Stages == {"none", "offering", "offered", "answered", "up", "ending", "leaving"}
Starting == {"offering", "offered", "answered"}
Active == Starting \cup {"up", "ending"}
Listening == Active \cup {"leaving"}

WorkersTypeOK ==
    /\ evaluating \subseteq Dials
    /\ stage \in [Dials -> Stages]
    /\ said \subseteq Dials
    /\ reason \in [Dials -> Reasons]
    /\ answeredBy \in [Dials -> Dials \cup {0}]
    /\ everUp \subseteq Dials

WorkersInit ==
    /\ evaluating = {}
    /\ stage = [n \in Dials |-> "none"]
    /\ said = {}
    /\ reason = [n \in Dials |-> "remote_or_network"]
    /\ answeredBy = [n \in Dials |-> 0]
    /\ everUp = {}

In(states) == {n \in Dials : stage[n] \in states}

\* The stages once the workers ws have emitted destroyCli.
Destroying(ws) == [n \in Dials |-> IF n \in ws /\ stage[n] \in Active THEN "ending" ELSE stage[n]]

-----------------------------------------------------------------------------
(* The main window *)

\* completeIncomingConnectRequest: a second CONNECT of a session that still has
\* a worker is dropped without a word.
CompleteDuplicate(n) ==
    /\ n \in evaluating
    /\ In(Active) # {}
    /\ evaluating' = evaluating \ {n}
    /\ UNCHANGED <<stage, said, reason, answeredBy, everUp, signalVars>>

CompleteRefused(n) ==
    /\ n \in evaluating
    /\ In(Active) = {}
    /\ Trouble
    /\ evaluating' = evaluating \ {n}
    /\ toController' = Append(toController, [type |-> "error", access |-> TRUE])
    /\ UNCHANGED <<stage, said, reason, answeredBy, everUp, toControlled>>

\* The new worker's init, which nothing on its thread can precede.
CompleteAdmitted(n) ==
    /\ n \in evaluating
    /\ In(Active) = {}
    /\ evaluating' = evaluating \ {n}
    /\ stage' = [stage EXCEPT ![n] = "offering"]
    /\ UNCHANGED <<said, reason, answeredBy, everUp, signalVars>>

WorkerInitFails(n) ==
    /\ n \in evaluating
    /\ In(Active) = {}
    /\ Trouble
    /\ evaluating' = evaluating \ {n}
    /\ stage' = [stage EXCEPT ![n] = "ending"]
    /\ toController' = Append(toController, [type |-> "error", access |-> FALSE])
    /\ UNCHANGED <<said, reason, answeredBy, everUp, toControlled>>

\* destroyWebRtcCli: from here on the session counts as gone for admission.
DestroyWebRtcCli(n) ==
    /\ stage[n] = "ending"
    /\ stage' = [stage EXCEPT ![n] = "leaving"]
    /\ UNCHANGED <<evaluating, said, reason, answeredBy, everUp, signalVars>>

-----------------------------------------------------------------------------
(* A worker *)

SendOffer(n) ==
    /\ stage[n] = "offering"
    /\ stage' = [stage EXCEPT ![n] = "offered"]
    /\ toController' = Append(toController, [type |-> "offer", of |-> n])
    /\ UNCHANGED <<evaluating, said, reason, answeredBy, everUp, toControlled, troubles>>

Disconnect(n, why) ==
    [type |-> "disconnect", reason |-> why, connected |-> n \in everUp]

\* Mutant: the timeout is reported, and that is all.
StartupTimeout_ReportOnly(n, expected) ==
    /\ stage[n] \in Starting
    /\ Unless(expected)
    /\ n \notin said
    /\ toController' = toController \o <<[type |-> "error", access |-> FALSE],
                                        Disconnect(n, "connection_start_timeout")>>
    /\ said' = said \cup {n}
    /\ UNCHANGED <<stage, reason, evaluating, answeredBy, everUp, toControlled>>

\* onPeerStartupTimeout of a worker that is not connected.
StartupTimeout(n, expected) ==
    /\ stage[n] \in Starting
    /\ Unless(expected)
    /\ toController' = toController \o <<[type |-> "error", access |-> FALSE],
                                        Disconnect(n, "connection_start_timeout")>>
    /\ said' = said \cup {n}
    /\ reason' = [reason EXCEPT ![n] = "connection_start_timeout"]
    /\ stage' = Destroying({n})
    /\ UNCHANGED <<evaluating, answeredBy, everUp, toControlled>>

\* The peer connection failed or was closed.
PeerFails(n, expected) ==
    /\ stage[n] \in {"answered", "up"}
    /\ Unless(expected)
    /\ \E why \in {"network_error", "remote_or_network"} :
           reason' = [reason EXCEPT ![n] = why]
    /\ stage' = Destroying({n})
    /\ UNCHANGED <<evaluating, said, answeredBy, everUp, wires>>

\* requestLocalDisconnect, from the tray.
RequestLocalDisconnect(n) ==
    /\ stage[n] \in Starting \cup {"up"}
    /\ Trouble
    /\ toController' = IF n \in said THEN toController
                       ELSE Append(toController, Disconnect(n, "controlled_user"))
    /\ said' = said \cup {n}
    /\ reason' = [reason EXCEPT ![n] = "controlled_user"]
    /\ stage' = Destroying({n})
    /\ UNCHANGED <<evaluating, answeredBy, everUp, toControlled>>

\* Nothing is left of a worker that is gone.
Forget(n) ==
    /\ stage' = [stage EXCEPT ![n] = "none"]
    /\ reason' = [reason EXCEPT ![n] = "remote_or_network"]
    /\ answeredBy' = [answeredBy EXCEPT ![n] = 0]
    /\ said' = said \ {n}
    /\ everUp' = everUp \ {n}

\* performDestroy, queued by the window.
PerformDestroy(n) ==
    /\ stage[n] = "leaving"
    /\ toController' = IF n \in said THEN toController
                       ELSE Append(toController, Disconnect(n, reason[n]))
    /\ Forget(n)
    /\ UNCHANGED <<evaluating, toControlled, troubles>>

-----------------------------------------------------------------------------
(* Messages of the controller, which all workers of the session hear. *)

HearConnect ==
    /\ toControlled # <<>>
    /\ LET msg == Head(toControlled) IN
           /\ msg.type = "connect"
           /\ evaluating' = evaluating \cup {msg.dial}
    /\ toControlled' = Tail(toControlled)
    /\ UNCHANGED <<stage, said, reason, answeredBy, everUp, toController, troubles>>

HearDisconnect ==
    /\ toControlled # <<>>
    /\ Head(toControlled).type = "disconnect"
    /\ toControlled' = Tail(toControlled)
    /\ said' = said \cup In(Listening)
    /\ stage' = Destroying(Dials)
    /\ UNCHANGED <<evaluating, reason, answeredBy, everUp, toController, troubles>>

\* An answer fits the worker that waits for one.  libwebrtc takes the answer to
\* another worker's offer or refuses it; it refuses one to a worker that has
\* made no offer or has its answer already.  A refusal destroys the worker.
HearAnswer ==
    /\ toControlled # <<>>
    /\ LET msg == Head(toControlled) IN
           /\ msg.type = "answer"
           /\ \E refused \in SUBSET In({"offering", "offered", "answered", "up"}) :
                  LET taken == In({"offering", "offered", "answered", "up"}) \ refused IN
                  /\ \A n \in taken : stage[n] = "offered"
                  /\ msg.to \notin refused \/ stage[msg.to] # "offered"
                  /\ answeredBy' = [n \in Dials |->
                         IF n \in taken THEN IF n = msg.to THEN msg.of ELSE 0 ELSE answeredBy[n]]
                  /\ reason' = [n \in Dials |->
                         IF n \in refused THEN "remote_description_failed" ELSE reason[n]]
                  /\ stage' = [n \in Dials |->
                         IF n \in taken THEN "answered"
                         ELSE IF n \in refused THEN "ending" ELSE stage[n]]
    /\ toControlled' = Tail(toControlled)
    /\ UNCHANGED <<evaluating, said, everUp, toController, troubles>>

WorkerStep(n) ==
    \/ CompleteDuplicate(n)
    \/ CompleteAdmitted(n)
    \/ DestroyWebRtcCli(n)
    \/ SendOffer(n)
    \/ PerformDestroy(n)

Hear == HearConnect \/ HearDisconnect \/ HearAnswer
=============================================================================
