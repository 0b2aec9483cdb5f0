--------------------------- MODULE SessionReconnect ---------------------------
(***************************************************************************)
(* A controller's window and the workers it makes on the controlled        *)
(* device: dialling, the offer and the answer, both sides' startup timers, *)
(* the goodbyes, and dialling again.                                       *)
(*                                                                         *)
(* The timers run for seconds (15, 3 to 15, and 1.2 for a path switch), so *)
(* one that fires while a message, a posted call or a connection that is   *)
(* coming up is still on its way is trouble, of which a behaviour has      *)
(* little; the others may fire at any time.                                *)
(***************************************************************************)
EXTENDS ControllerSession, ControlledWorkers, Functions

vars == <<sessionVars, workerVars, signalVars>>

TypeOK == SignalsTypeOK /\ SessionTypeOK /\ WorkersTypeOK

Init == SignalsInit /\ SessionInit /\ WorkersInit

\* The controller's peer connection and worker n have each other's description.
Matched(n) == peer # 0 /\ remote = n /\ answeredBy[n] = peer /\ stage[n] \in {"answered", "up"}

\* The worker whose offer the controller's peer connection took has left it.
Deserted == remote # 0 /\ stage[remote] \notin {"offered", "answered", "up"}

\* The peer connection worker n was answered by is closed or gone.
Orphaned(n) == answeredBy[n] # peer \/ peer = 0 \/ ice = "down"

\* Nothing is under way that a timer of 15 s has not waited for.
Quiet ==
    /\ toControlled = <<>> /\ toController = <<>> /\ posted = <<>>
    /\ evaluating = {} /\ In({"offering", "ending", "leaving"}) = {}
    /\ applying = 0 /\ answering = 0
    /\ \A n \in Dials : Matched(n) => ice # "idle" /\ stage[n] = "up"

\* The numbers in use.
InUse ==
    {peer, applying, remote, answering, pendingOffer} \cup evaluating
        \cup {n \in Dials : stage[n] # "none"}
        \cup {answeredBy[n] : n \in Dials}
        \cup UNION {{e.by} \cup (IF e.what = "answer" THEN {e.to} ELSE {}) : e \in Range(posted)}
        \cup UNION {IF m.type = "connect" THEN {m.dial}
                    ELSE IF m.type = "answer" THEN {m.of, m.to} ELSE {} : m \in Range(toControlled)}
        \cup {m.of : m \in {o \in Range(toController) : o.type = "offer"}}

Free == LET unused == Dials \ InUse IN {n \in unused : \A m \in unused : n <= m}

\* A worker's own peer connection connects.
WorkerConnects(n) ==
    /\ stage[n] = "answered" /\ Matched(n)
    /\ stage' = [stage EXCEPT ![n] = "up"]
    /\ everUp' = everUp \cup {n}
    /\ UNCHANGED <<evaluating, said, reason, answeredBy, signalVars, sessionVars>>

PeerConnects ==
    /\ \E n \in Dials : Matched(n)
    /\ Connects /\ UNCHANGED workerVars

\* A path switch within the 1.2 s of another is dropped.
Controller ==
    /\ \/ \E n \in Free :
              FirstDial(n) \/ ReconnectTimeout(n, Quiet) \/ restartAfterNetworkPathChange(n, Quiet)
       \/ PeerStartupTimeout(Quiet)
       \/ setNetworkPath
       \/ HeartbeatSilence(Deserted)
       \/ requestShutdown
       \/ performShutdown
       \/ parseWsMsg
       \/ RunPosted
       \/ AppliesAndAnswers
       \/ Flickers
       \/ Fails(Deserted)
    /\ UNCHANGED workerVars

Worker(n) ==
    /\ \/ WorkerStep(n)
       \/ CompleteRefused(n)
       \/ WorkerInitFails(n)
       \/ StartupTimeout(n, Quiet)
       \/ PeerFails(n, Orphaned(n))
       \/ RequestLocalDisconnect(n)
    /\ UNCHANGED sessionVars

Next ==
    \/ Controller
    \/ PeerConnects
    \/ \E n \in Dials : Worker(n) \/ WorkerConnects(n)
    \/ Hear /\ UNCHANGED sessionVars
    \/ LoseSignal /\ UNCHANGED <<sessionVars, workerVars>>

Spec == Init /\ [][Next]_vars

\* Every thread goes on with what it has been given, every timer fires once all
\* is quiet, and libwebrtc connects two peers that have each other's description
\* and notices a counterpart that is gone.  Closing a window is never abandoned.
Fairness ==
    /\ WF_vars(\E n \in Free : FirstDial(n) /\ UNCHANGED workerVars)
    /\ WF_vars(\E n \in Free : Quiet /\ ReconnectTimeout(n, TRUE) /\ UNCHANGED workerVars)
    /\ WF_vars(\E n \in Free :
                   Quiet /\ restartAfterNetworkPathChange(n, TRUE) /\ UNCHANGED workerVars)
    /\ WF_vars(Quiet /\ PeerStartupTimeout(TRUE) /\ UNCHANGED workerVars)
    /\ WF_vars(performShutdown /\ UNCHANGED workerVars)
    /\ WF_vars(parseWsMsg /\ UNCHANGED workerVars)
    /\ WF_vars(RunPosted /\ UNCHANGED workerVars)
    /\ WF_vars(AppliesAndAnswers /\ UNCHANGED workerVars)
    /\ WF_vars(Deserted /\ Fails(TRUE) /\ UNCHANGED workerVars)
    /\ WF_vars(PeerConnects)
    /\ WF_vars(Hear /\ UNCHANGED sessionVars)
    /\ \A n \in Dials :
           /\ WF_vars(WorkerStep(n) /\ UNCHANGED sessionVars)
           /\ WF_vars(WorkerConnects(n))
           /\ WF_vars(Quiet /\ StartupTimeout(n, TRUE) /\ UNCHANGED sessionVars)
           /\ WF_vars(Orphaned(n) /\ PeerFails(n, TRUE) /\ UNCHANGED sessionVars)

FairSpec == Spec /\ Fairness

-----------------------------------------------------------------------------
(* Properties *)

\* A window that may reconnect is never left with nothing that will make it:
\* until its peer connection is up, or has posted that it failed, a startup
\* timer, the reconnect timer or the delay of a path switch runs.  And
\* m_reconnectPending, which keeps scheduleReconnect from starting the timer, is
\* set only while the timer runs.  The one way out is a report of a former peer
\* connection's that is run on the next one: it stops that one's timers, and
\* until the next dial nothing is said of the window.
NeverStranded ==
    /\ m_reconnectPending = m_reconnectTimer
    /\ started /\ m_allowReconnect /\ closing = "no" /\ ~mistaken =>
           \/ m_peerStartupTimer \/ m_reconnectTimer \/ pathTimer
           \/ ice = "up"
           \/ \E e \in Range(posted) : e.by = peer /\ e.what \in {"failed", "request"}

\* Every CONNECT after the first is sent only once either side has ended what
\* the CONNECT before began, "otherwise the next CONNECT can overlap the old
\* active WebRtcCli" (setNetworkPath, requestSessionReconnect); and none is sent
\* once the window is closed.
Dialled == INSTANCE DialledSession WITH
    line <- peer,
    open <- wired /\ ~m_disconnectSent /\ ~m_remoteDisconnectReceived,
    over <- closing = "done"
ImplementsDial == Dialled!Spec

\* Whatever is lost or fails, a window that was not ended by either user or a
\* failure reported by the device has again and again a connection to a worker
\* that is connected to it, or takes a former connection's report for its own.
Recovers ==
    []<>(\/ m_connected /\ \E n \in Dials : Matched(n) /\ stage[n] = "up"
         \/ ~m_allowReconnect \/ closing # "no" \/ mistaken)

\* A closed window leaves no worker behind on the controlled device, even when
\* its goodbye is lost or arrives before the worker is made.
EveryWorkerEnds ==
    closing = "done" ~> evaluating = {} /\ \A n \in Dials : stage[n] = "none"

\* "A controlled-side startup failure is not a user disconnect.  Keep the window
\* alive" (parseWsMsg): a worker that never was connected does not end the
\* window for good, unless its user did.
StartupFailureSurvived == endedBy # "startup"
=============================================================================
