--------------------------- MODULE ControllerSession ---------------------------
(***************************************************************************)
(* WebRtcCtl, the worker behind a controller's window: it calls the        *)
(* controlled device, answers its offer, and calls again, with back-off,   *)
(* when the connection fails, does not come up in time, or is to use       *)
(* another network path.  Everything runs on the worker's thread except    *)
(* libwebrtc's callbacks, which post their work to the dispatcher; what    *)
(* was posted by one peer connection may run when the next one is there.   *)
(*                                                                         *)
(* A peer connection has the number of the CONNECT sent for it; the code   *)
(* has no such number.                                                     *)
(***************************************************************************)
EXTENDS SessionSignals

VARIABLES
    started,        \* init has been called
    peer,           \* m_peerConnection, 0 when null
    wired,          \* its callbacks are set
    ice,            \* external: the transport of peer
    applying,       \* external: the offer setRemoteDescription works on
    remote,         \* external: the offer the peer has
    answering,      \* external: the offer createAnswer works on
    posted,         \* the dispatcher's queue
    m_connected,
    m_remoteDescriptionInFlight,
    pendingOffer,   \* m_pendingRemoteDescriptionData
    m_allowReconnect,
    m_shutdownStarted,
    closing,        \* "no", "requested" (m_shutdownRequested), "done" (m_shutdownDone)
    m_disconnectSent,
    m_remoteDisconnectReceived,
    m_peerStartupTimer,
    m_reconnectTimer,
    m_reconnectPending,
    pathTimer,      \* the single shot of setNetworkPath, of this generation
    mistaken,       \* history: a former peer's connection was taken for this one's
    endedBy         \* history: what the remote disconnect was about

native == <<wired, ice, applying, remote, answering>>
negotiation == <<m_remoteDescriptionInFlight, pendingOffer>>
goodbye == <<m_disconnectSent, m_remoteDisconnectReceived>>
reconnect == <<m_reconnectTimer, m_reconnectPending>>
life == <<m_allowReconnect, m_shutdownStarted, closing>>
history == <<mistaken, endedBy>>
sessionVars == <<started, peer, native, posted, m_connected, negotiation, life, goodbye,
                 m_peerStartupTimer, reconnect, pathTimer, history>>

Events == {"transport", "connected", "disconnected", "failed", "request", "described",
           "undescribed"}
Posted == [what : Events, by : Dials] \cup [what : {"answer"}, by : Dials, to : Dials]

SessionTypeOK ==
    /\ ice \in {"idle", "up", "down"}
    /\ {peer, applying, remote, answering, pendingOffer} \subseteq Dials \cup {0}
    /\ posted \in Seq(Posted)
    /\ {started, wired, m_connected, m_remoteDescriptionInFlight,
        m_allowReconnect, m_shutdownStarted, m_disconnectSent,
        m_remoteDisconnectReceived, m_peerStartupTimer, m_reconnectTimer,
        m_reconnectPending, pathTimer, mistaken} \subseteq BOOLEAN
    /\ closing \in {"no", "requested", "done"}
    /\ endedBy \in {"nobody", "user", "failure", "startup"}
    /\ pendingOffer # 0 => m_remoteDescriptionInFlight

SessionInit ==
    /\ started = FALSE /\ peer = 0 /\ wired = FALSE
    /\ ice = "idle" /\ applying = 0 /\ remote = 0 /\ answering = 0
    /\ posted = <<>>
    /\ m_connected = FALSE
    /\ m_remoteDescriptionInFlight = FALSE
    /\ pendingOffer = 0
    /\ m_allowReconnect = TRUE /\ m_shutdownStarted = FALSE /\ closing = "no"
    /\ m_disconnectSent = FALSE /\ m_remoteDisconnectReceived = FALSE
    /\ m_peerStartupTimer = FALSE /\ m_reconnectTimer = FALSE
    /\ m_reconnectPending = FALSE /\ pathTimer = FALSE
    /\ mistaken = FALSE /\ endedBy = "nobody"

-----------------------------------------------------------------------------
(* Parts of handlers *)

Stopped == closing # "no" \/ m_shutdownStarted
MayReconnect == m_allowReconnect /\ ~Stopped

\* sendDisconnectSignal, heard being m_remoteDisconnectReceived at the call.
SayGoodbye(heard) ==
    IF m_disconnectSent \/ heard
    THEN UNCHANGED <<toControlled, m_disconnectSent>>
    ELSE /\ m_disconnectSent' = TRUE
         /\ toControlled' = Append(toControlled, [type |-> "disconnect"])

\* The exchange on m_reconnectPending lets one caller start the timer.
scheduleReconnect ==
    /\ m_reconnectTimer' = (m_reconnectTimer \/ ~m_reconnectPending)
    /\ m_reconnectPending' = TRUE

stopReconnect == m_reconnectTimer' = FALSE /\ m_reconnectPending' = FALSE

\* Mutant: the other side is not told.
requestSessionReconnect_Silent(heard) ==
    IF MayReconnect
    THEN scheduleReconnect /\ UNCHANGED <<toControlled, m_disconnectSent>>
    ELSE UNCHANGED <<toControlled, m_disconnectSent, reconnect>>

requestSessionReconnect(heard) ==
    IF MayReconnect
    THEN SayGoodbye(heard) /\ scheduleReconnect
    ELSE UNCHANGED <<toControlled, m_disconnectSent, reconnect>>

\* Mutant: the offer that waits outlives the peer connection.
Cleared_OfferKept ==
    /\ ice' = "idle" /\ applying' = 0 /\ remote' = 0 /\ answering' = 0
    /\ m_connected' = FALSE
    /\ m_remoteDescriptionInFlight' = FALSE
    /\ UNCHANGED pendingOffer

\* What destroy clears, the peer connection's own state with it.
Cleared ==
    /\ ice' = "idle" /\ applying' = 0 /\ remote' = 0 /\ answering' = 0
    /\ m_connected' = FALSE
    /\ m_remoteDescriptionInFlight' = FALSE
    /\ pendingOffer' = 0

destroy ==
    /\ m_shutdownStarted' = TRUE
    /\ peer' = 0 /\ wired' = FALSE
    /\ m_peerStartupTimer' = FALSE
    /\ Cleared

-----------------------------------------------------------------------------
(* Dialling.  doReconnect's destroy and init are one step, like init alone: *)
(* the thread runs nothing between them.  Both find m_reconnectTimer and    *)
(* m_reconnectPending off.  The number n of the CONNECT is a free one.      *)

Dial ==
    /\ closing = "no"
    /\ started' = TRUE
    /\ Cleared
    /\ m_shutdownStarted' = FALSE
    /\ m_disconnectSent' = FALSE /\ m_remoteDisconnectReceived' = FALSE
    /\ mistaken' = FALSE
    /\ UNCHANGED <<posted, m_allowReconnect, closing, toController>>

\* Mutant: m_connected still holds when init looks at it, and no startup timer
\* is started.
InitSucceeds_Unwatched(n, expected) ==
    /\ Dial
    /\ peer' = n /\ wired' = TRUE
    /\ toControlled' = Append(toControlled, [type |-> "connect", dial |-> n])
    /\ m_peerStartupTimer' = FALSE
    /\ m_reconnectTimer' = FALSE /\ m_reconnectPending' = FALSE
    /\ Unless(expected)

\* Mutant: doReconnect does not reset m_reconnectPending.
InitSucceeds_StillPending(n, expected) ==
    /\ Dial
    /\ peer' = n /\ wired' = TRUE
    /\ toControlled' = Append(toControlled, [type |-> "connect", dial |-> n])
    /\ m_peerStartupTimer' = TRUE
    /\ m_reconnectTimer' = FALSE /\ UNCHANGED m_reconnectPending
    /\ Unless(expected)

InitSucceeds(n, expected) ==
    /\ Dial
    /\ peer' = n /\ wired' = TRUE
    /\ toControlled' = Append(toControlled, [type |-> "connect", dial |-> n])
    /\ m_peerStartupTimer' = TRUE
    /\ stopReconnect
    /\ Unless(expected)

\* There is no peer connection, or no video track: no callback is set, nothing
\* is sent, and init calls scheduleReconnect itself.
InitFails(n) ==
    /\ Dial /\ Trouble
    /\ peer' \in {0, n} /\ wired' = FALSE
    /\ m_peerStartupTimer' = FALSE
    /\ m_reconnectTimer' = m_allowReconnect /\ m_reconnectPending' = m_allowReconnect
    /\ UNCHANGED toControlled

init(n, expected) == InitSucceeds(n, expected) \/ InitFails(n)

FirstDial(n) == ~started /\ init(n, TRUE) /\ UNCHANGED <<pathTimer, endedBy>>

\* doReconnect does not look at m_shutdownRequested, but init does.
ReconnectTimeout(n, expected) ==
    /\ m_reconnectTimer
    /\ m_allowReconnect /\ ~m_shutdownStarted
    /\ \/ init(n, expected) /\ UNCHANGED <<pathTimer, endedBy>>
       \/ /\ closing = "requested"
          /\ Unless(expected)
          /\ stopReconnect
          /\ destroy
          /\ UNCHANGED <<started, posted, m_allowReconnect, closing, goodbye, pathTimer,
                         history, wires>>

\* onPeerStartupTimeout
PeerStartupTimeout(expected) ==
    /\ m_peerStartupTimer
    /\ Unless(expected)
    /\ m_peerStartupTimer' = FALSE
    /\ IF m_shutdownStarted \/ m_connected \/ peer = 0
       THEN UNCHANGED <<toControlled, m_disconnectSent, reconnect>>
       ELSE requestSessionReconnect(m_remoteDisconnectReceived)
    /\ UNCHANGED <<started, peer, native, posted, m_connected, negotiation, life,
                   m_remoteDisconnectReceived, pathTimer, history, toController>>

setNetworkPath ==
    /\ ~Stopped /\ started
    /\ Trouble
    /\ stopReconnect
    /\ SayGoodbye(m_remoteDisconnectReceived)
    /\ destroy
    /\ pathTimer' = TRUE
    /\ UNCHANGED <<started, posted, m_allowReconnect, closing, m_remoteDisconnectReceived,
                   history, toController>>

restartAfterNetworkPathChange(n, expected) ==
    /\ pathTimer
    /\ pathTimer' = FALSE
    /\ UNCHANGED endedBy
    /\ \/ init(n, expected)
       \/ /\ closing = "requested"
          /\ Unless(expected)
          /\ UNCHANGED <<mistaken, started, peer, native, posted, m_connected, negotiation, life,
                         goodbye, m_peerStartupTimer, reconnect, wires>>

\* pollSessionHeartbeat finds the channel silent for too long.
HeartbeatSilence(expected) ==
    /\ ice # "idle" /\ ~Stopped
    /\ Unless(expected)
    /\ requestSessionReconnect(m_remoteDisconnectReceived)
    /\ UNCHANGED <<started, peer, native, posted, m_connected, negotiation, life,
                   m_remoteDisconnectReceived, m_peerStartupTimer, pathTimer, history,
                   toController>>

-----------------------------------------------------------------------------
(* Closing the window *)

requestShutdown ==
    /\ closing = "no" /\ started
    /\ closing' = "requested"
    /\ UNCHANGED <<started, peer, native, posted, m_connected, negotiation,
                   m_allowReconnect, m_shutdownStarted, goodbye, m_peerStartupTimer,
                   reconnect, pathTimer, history, signalVars>>

\* shutdownAndMoveToOwnerThread: the goodbye of a user passes the guards.
performShutdown ==
    /\ closing = "requested"
    /\ closing' = "done"
    /\ SayGoodbye(m_remoteDisconnectReceived)
    /\ m_allowReconnect' = FALSE
    /\ stopReconnect
    /\ pathTimer' = FALSE
    /\ destroy
    /\ UNCHANGED <<started, posted, m_remoteDisconnectReceived, history, toController, troubles>>

-----------------------------------------------------------------------------
(* Signalling messages: parseWsMsg *)

\* setRemoteDescription is called with the offer, or the offer waits. Where the
\* call itself throws, the code does at once what the posted failure does
\* (RunUndescribed), with no offer waiting yet.
handleRemoteDescriptionMessage(offer) ==
    IF m_remoteDescriptionInFlight
    THEN pendingOffer' = offer /\ UNCHANGED <<m_remoteDescriptionInFlight, applying>>
    ELSE /\ m_remoteDescriptionInFlight' = TRUE
         /\ applying' = offer
         /\ UNCHANGED pendingOffer

Take(type) ==
    /\ toController # <<>> /\ Head(toController).type = type
    /\ toController' = Tail(toController)
    /\ UNCHANGED <<started, peer, wired, ice, remote, answering, posted, m_connected,
                   m_shutdownStarted, closing,
                   m_peerStartupTimer, pathTimer, mistaken, troubles>>

ParseOffer ==
    /\ Take("offer")
    /\ IF Stopped \/ peer = 0
       THEN UNCHANGED <<pendingOffer, m_remoteDescriptionInFlight, applying>>
       ELSE handleRemoteDescriptionMessage(Head(toController).of)
    /\ UNCHANGED <<m_allowReconnect, goodbye, reconnect, endedBy, toControlled>>

\* handleSignalingError: what is no access failure is worth another dial.
ParseError ==
    /\ Take("error")
    /\ IF Stopped \/ Head(toController).access
       THEN UNCHANGED <<toControlled, m_disconnectSent, reconnect>>
       ELSE requestSessionReconnect(m_remoteDisconnectReceived)
    /\ UNCHANGED <<applying, m_remoteDescriptionInFlight, pendingOffer, m_allowReconnect,
                   m_remoteDisconnectReceived, endedBy>>

\* What a disconnect that is no transient failure was about.
Ending(msg) ==
    IF msg.reason = "controlled_user" THEN "user"
    ELSE IF msg.connected THEN "failure" ELSE "startup"

ParseDisconnect ==
    /\ Take("disconnect")
    /\ LET msg == Head(toController) IN
       IF Stopped
       THEN UNCHANGED <<m_allowReconnect, goodbye, reconnect, endedBy, toControlled>>
       ELSE /\ m_remoteDisconnectReceived' = TRUE
            /\ IF msg.reason \in Transient
               THEN /\ requestSessionReconnect(TRUE)
                    /\ UNCHANGED <<m_allowReconnect, endedBy>>
               ELSE /\ m_allowReconnect' = FALSE
                    /\ stopReconnect
                    /\ endedBy' = Ending(msg)
                    /\ UNCHANGED <<toControlled, m_disconnectSent>>
    /\ UNCHANGED <<applying, m_remoteDescriptionInFlight, pendingOffer>>

parseWsMsg == ParseOffer \/ ParseError \/ ParseDisconnect

-----------------------------------------------------------------------------
(* The dispatcher runs what libwebrtc's threads posted. *)

\* All of it returns when m_shutdownStarted; otherwise it acts on the peer there
\* is, whichever peer it was posted by.
Run(what) ==
    /\ posted # <<>> /\ Head(posted).what = what
    /\ posted' = Tail(posted)
    /\ mistaken' = (mistaken \/ (what \in {"transport", "connected"}
                                    /\ ~m_shutdownStarted /\ Head(posted).by # peer))
    /\ UNCHANGED <<started, peer, wired, ice, remote, life, m_remoteDisconnectReceived,
                   pathTimer, endedBy, toController, troubles>>

\* onPeerIceStateChanged
RunTransport ==
    /\ Run("transport")
    /\ IF m_shutdownStarted THEN UNCHANGED reconnect ELSE stopReconnect
    /\ UNCHANGED <<applying, answering, negotiation, m_connected, m_disconnectSent,
                   m_peerStartupTimer, toControlled>>

\* onPeerConnectionStateChanged
RunConnected ==
    /\ Run("connected")
    /\ IF m_shutdownStarted
       THEN UNCHANGED <<m_connected, m_peerStartupTimer, reconnect>>
       ELSE m_connected' = TRUE /\ m_peerStartupTimer' = FALSE /\ stopReconnect
    /\ UNCHANGED <<applying, answering, negotiation, m_disconnectSent, toControlled>>

RunDisconnected ==
    /\ Run("disconnected")
    /\ m_connected' = (m_connected /\ m_shutdownStarted)
    /\ UNCHANGED <<applying, answering, negotiation, m_disconnectSent, m_peerStartupTimer,
                   reconnect, toControlled>>

RunFailed ==
    /\ Run("failed")
    /\ m_connected' = (m_connected /\ m_shutdownStarted)
    /\ requestSessionReconnect(m_remoteDisconnectReceived)
    /\ UNCHANGED <<applying, answering, negotiation, m_peerStartupTimer>>

\* A request made on another thread: the transport failed (the peer connection
\* says so later, or not at all), or the heartbeat channel closed.
RunRequest ==
    /\ Run("request")
    /\ requestSessionReconnect(m_remoteDisconnectReceived)
    /\ UNCHANGED <<applying, answering, negotiation, m_connected, m_peerStartupTimer>>

\* The offer that waited is handled now that none is in flight.
NextOffer ==
    /\ pendingOffer' = 0
    /\ m_remoteDescriptionInFlight' = (pendingOffer # 0)
    /\ applying' = IF pendingOffer # 0 THEN pendingOffer ELSE applying

\* setRemoteDescription's success
RunDescribed ==
    /\ Run("described")
    /\ IF m_shutdownStarted \/ peer = 0
       THEN UNCHANGED <<applying, answering, negotiation>>
       ELSE answering' = remote /\ NextOffer
    /\ UNCHANGED <<m_connected, m_disconnectSent, m_peerStartupTimer, reconnect, toControlled>>

\* setRemoteDescription's failure
RunUndescribed ==
    /\ Run("undescribed")
    /\ IF m_shutdownStarted
       THEN UNCHANGED <<applying, negotiation>>
       ELSE NextOffer
    /\ IF m_shutdownStarted \/ pendingOffer # 0
       THEN UNCHANGED <<toControlled, m_disconnectSent, reconnect>>
       ELSE requestSessionReconnect(m_remoteDisconnectReceived)
    /\ UNCHANGED <<answering, m_connected, m_peerStartupTimer>>

\* onPeerLocalDescription
RunAnswer ==
    /\ Run("answer")
    /\ LET e == Head(posted) IN
           toControlled' = IF m_shutdownStarted THEN toControlled
                           ELSE Append(toControlled, [type |-> "answer", of |-> e.by, to |-> e.to])
    /\ UNCHANGED <<applying, answering, negotiation, m_connected, m_disconnectSent,
                   m_peerStartupTimer, reconnect>>

RunPosted ==
    \/ RunTransport \/ RunConnected \/ RunDisconnected \/ RunFailed \/ RunRequest
    \/ RunDescribed \/ RunUndescribed \/ RunAnswer

-----------------------------------------------------------------------------
(* External: the peer connection's own threads.  Its callbacks post while the *)
(* lifetime is open, and the close in destroy waits for them.                 *)

Native(events) ==
    /\ peer # 0
    /\ posted' = posted \o events
    /\ UNCHANGED <<started, peer, wired, m_connected, negotiation, life, goodbye,
                   m_peerStartupTimer, reconnect, pathTimer, history, wires>>

By(what) == [what |-> what, by |-> peer]

\* A second offer may be refused.
AppliesOffer ==
    /\ applying # 0
    /\ applying' = 0
    /\ \/ Native(<<By("described")>>) /\ remote' = applying /\ UNCHANGED troubles
       \/ Native(<<By("undescribed")>>) /\ Unless(remote # 0) /\ UNCHANGED remote
    /\ UNCHANGED <<ice, answering>>

\* No answer is made: nobody is told.
MakesAnswer ==
    /\ answering # 0
    /\ answering' = 0
    /\ \/ /\ Native(IF wired THEN <<[what |-> "answer", by |-> peer, to |-> answering]>> ELSE <<>>)
          /\ UNCHANGED troubles
       \/ Native(<<>>) /\ Trouble
    /\ UNCHANGED <<ice, applying, remote>>

Connects ==
    /\ ice = "idle"
    /\ ice' = "up"
    /\ Native(IF wired THEN <<By("transport"), By("connected")>> ELSE <<>>)
    /\ UNCHANGED <<applying, remote, answering, troubles>>

\* The path is lost and found again.
Flickers ==
    /\ ice = "up" /\ wired
    /\ Trouble
    /\ Native(<<By("disconnected"), By("transport"), By("connected")>>)
    /\ UNCHANGED <<ice, applying, remote, answering>>

\* The connection, or the attempt at one, fails or is closed by the other side.
Fails(expected) ==
    /\ ice # "down" /\ remote # 0 /\ wired
    /\ Unless(expected)
    /\ ice' = "down"
    /\ \E what \in {"failed", "request"} : Native(<<By(what)>>)
    /\ UNCHANGED <<applying, remote, answering>>

AppliesAndAnswers == AppliesOffer \/ MakesAnswer
=============================================================================
