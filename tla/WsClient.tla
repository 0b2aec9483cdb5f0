------------------------------- MODULE WsClient -------------------------------
(***************************************************************************)
(* WsCli, the signalling client: one object on a thread of its own that    *)
(* keeps a QWebSocket connected, retries in phases, holds the messages the *)
(* sessions hand over while it is offline, and asks which devices of the   *)
(* address book are online.  Every handler runs to its end on that thread. *)
(* The QWebSocket is external: abort() on a socket that is not unconnected *)
(* emits disconnected before it returns, so onWsDisconnected runs inside   *)
(* the handler that aborts.                                                *)
(*                                                                         *)
(* m_messageGeneration is only ever compared with the generation kept in a *)
(* queued message: current is the set of queued messages for which they    *)
(* are equal, and incrementing the generation empties it.                  *)
(***************************************************************************)
EXTENDS Positions

CONSTANTS
    Messages,           \* the messages handed over, each once
    SessionMessages,    \* those isWebRtcSessionMessage accepts
    Devices,            \* the devices of the address book
    LocalId,            \* presenceLocalId(), maybe one of them
    Lists,              \* bound: the lists whose presence is asked for
    MaxPending,         \* kMaxPendingMessages, 1024 in the code
    MaxRetry,           \* MAX_RETRY_PER_PHASE, 10 in the code
    MaxResets           \* bound: times the configuration changes the URL

ASSUME WsAssumption ==
    /\ SessionMessages \subseteq Messages
    /\ MaxPending \in Nat \ {0}
    /\ MaxRetry \in Nat \ {0}
    /\ MaxResets \in Nat

ASSUME ListsAssumption == Lists \subseteq SUBSET Devices

VARIABLES
    supported,      \* isSupportedSignalingUrl(m_url)
    started,        \* init was called
    m_shutdownDone,
    resets,
    sock,           \* "none" (m_ws is null) or the state of m_ws
    m_connected,
    m_heart_timer,
    m_reconnect_timer,
    m_reconnect_followup_timer,
    m_socketConnectTimer,   \* "off" (invalid), "young", "old" (10 s or more)
    m_reconnect_phase,
    m_reconnect_count,
    m_pendingMessages,
    current,        \* the queued messages of the current generation
    m_presenceDevices,
    m_presenceRequests,     \* the devices with an outstanding request
    aged,           \* those whose request is 8 s old or more
    m_presence_timer,
    m_presence_query_timer,
    queryWindow,    \* less than 1 s has passed since the last batch
    shown,          \* the last state published for each device
    answers,        \* external: the answers on their way
    wire,           \* history: what the socket accepted, in order
    since,          \* history: what each message has seen since its hand-over
    proof           \* history: what each device answered to the present batch

retry == <<m_reconnect_phase, m_reconnect_count>>
timers == <<m_reconnect_timer, m_reconnect_followup_timer, m_socketConnectTimer>>
link == <<sock, m_connected, m_heart_timer>>
queue == <<m_pendingMessages, current, wire, since>>
batch == <<m_presenceDevices, m_presenceRequests, aged, m_presence_timer,
           m_presence_query_timer, queryWindow>>
presence == <<batch, shown, answers, proof>>
config == <<supported, started, m_shutdownDone, resets>>
vars == <<config, link, timers, retry, queue, presence>>

States == {"none", "unconnected", "connecting", "connected", "closing"}
Alive == {"connecting", "connected", "closing"}

\* An answer says "online"; an error of the server "offline", or nothing of use.
Verdicts == {"online", "offline", "unknown"}

TypeOK ==
    /\ {supported, started, m_shutdownDone, m_connected, m_heart_timer,
        m_reconnect_timer, m_reconnect_followup_timer, m_presence_timer,
        m_presence_query_timer, queryWindow} \subseteq BOOLEAN
    /\ resets \in 0..MaxResets
    /\ sock \in States
    /\ m_socketConnectTimer \in {"off", "young", "old"}
    /\ m_reconnect_phase \in 0..3
    /\ m_reconnect_count \in 0..(MaxRetry - 1)
    /\ m_pendingMessages \in Seq(Messages)
    /\ Len(m_pendingMessages) <= MaxPending
    /\ current \subseteq Messages
    /\ wire \in Seq(Messages)
    /\ since \in [Messages -> {"unsent", "same", "lost", "moved"}]
    /\ m_presenceDevices \subseteq Devices
    /\ m_presenceRequests \subseteq m_presenceDevices
    /\ aged \subseteq m_presenceRequests
    /\ shown \in [Devices -> Verdicts]
    /\ answers \subseteq [device : Devices, says : Verdicts, fresh : BOOLEAN]
    /\ proof \in [Devices -> Verdicts]

Init ==
    /\ supported = FALSE /\ started = FALSE /\ m_shutdownDone = FALSE /\ resets = 0
    /\ sock = "none" /\ m_connected = FALSE /\ m_heart_timer = FALSE
    /\ m_reconnect_timer = FALSE /\ m_reconnect_followup_timer = FALSE
    /\ m_socketConnectTimer = "off"
    /\ m_reconnect_phase = 0 /\ m_reconnect_count = 0
    /\ m_pendingMessages = <<>> /\ current = {} /\ wire = <<>>
    /\ since = [m \in Messages |-> "unsent"]
    /\ m_presenceDevices = {} /\ m_presenceRequests = {} /\ aged = {}
    /\ m_presence_timer = FALSE /\ m_presence_query_timer = FALSE /\ queryWindow = FALSE
    /\ shown = [d \in Devices |-> "unknown"]
    /\ answers = {}
    /\ proof = [d \in Devices |-> "unknown"]

-----------------------------------------------------------------------------
(* Parts of handlers *)

Usable == m_connected /\ sock = "connected"

\* Forgetting the outstanding requests turns their answers stale.
Outdated == {[a EXCEPT !.fresh = FALSE] : a \in answers}

Unknown(ds) == [d \in Devices |-> IF d \in ds THEN "unknown" ELSE shown[d]]

clearPresenceState ==
    /\ m_presence_timer' = FALSE
    /\ m_presence_query_timer' = FALSE
    /\ m_presenceRequests' = {}
    /\ aged' = {}
    /\ m_presenceDevices' = {}
    /\ queryWindow' = FALSE
    /\ shown' = Unknown(m_presenceDevices)
    /\ answers' = Outdated
    /\ proof' = [d \in Devices |-> "unknown"]

AfterLoss(s) == [m \in Messages |-> IF s[m] = "same" THEN "lost" ELSE s[m]]
AfterMove(s) == [m \in Messages |-> IF s[m] = "unsent" THEN "unsent" ELSE "moved"]

\* Mutant: the generation stays.
SameGeneration(s) ==
    /\ sock' = "unconnected" /\ m_connected' = FALSE /\ m_heart_timer' = FALSE
    /\ clearPresenceState
    /\ UNCHANGED <<current, m_reconnect_followup_timer>>
    /\ m_socketConnectTimer' = "off"
    /\ m_reconnect_timer' = (m_reconnect_timer \/ (supported /\ ~m_shutdownDone))
    /\ since' = IF sock \in {"connected", "closing"} THEN AfterLoss(s) ELSE s

\* What abort(), or the network, does to a socket that is not unconnected:
\* onWsDisconnected, called while the hand-over history is s.
onWsDisconnected(s) ==
    /\ sock' = "unconnected"
    /\ m_connected' = FALSE
    /\ m_heart_timer' = FALSE
    /\ clearPresenceState
    /\ current' = {}
    /\ m_socketConnectTimer' = "off"
    /\ m_reconnect_timer' = (m_reconnect_timer \/ (supported /\ ~m_shutdownDone))
    /\ UNCHANGED m_reconnect_followup_timer
    /\ since' = IF sock \in {"connected", "closing"} THEN AfterLoss(s) ELSE s

Stale(m) == m \in SessionMessages /\ m \notin current

\* flushPendingMessages leaves out the stale messages and sends the others;
\* the socket may refuse one, which ends it there.
Refusable(q) == {i \in 1..Len(q) : ~Stale(q[i])}
Fresh(q) == Pick(q, Refusable(q))
From(q, i) == SubSeq(q, i, Len(q))
Before(q, i) == SubSeq(q, 1, i - 1)

\* Offline it drops the stale messages in front and stops at the first other.
DropStale(q) ==
    IF Refusable(q) = {} THEN <<>>
    ELSE From(q, CHOOSE i \in Refusable(q) : \A j \in Refusable(q) : i <= j)

Overflows(q) == Len(q) >= MaxPending

-----------------------------------------------------------------------------
(* The owner's calls *)

openSocket ==
    /\ sock' = "connecting"
    /\ m_socketConnectTimer' = "young"

\* init, called once when the main window or the headless controller starts.
init(url) ==
    /\ ~started /\ ~m_shutdownDone
    /\ started' = TRUE
    /\ supported' = url
    /\ m_connected' = FALSE
    /\ m_reconnect_phase' = 0 /\ m_reconnect_count' = 0
    /\ m_pendingMessages' = <<>> /\ current' = {}
    /\ since' = AfterMove(since)
    /\ clearPresenceState
    /\ IF url THEN openSocket ELSE sock' = "none" /\ m_socketConnectTimer' = "off"
    /\ UNCHANGED <<m_shutdownDone, resets, m_heart_timer, m_reconnect_timer,
                   m_reconnect_followup_timer, wire>>

\* Aborting the old connection runs onWsDisconnected, which starts the
\* reconnect timer that the handler stopped just before.
resetUrlAndReconnect(url) ==
    /\ started /\ ~m_shutdownDone /\ resets < MaxResets
    /\ resets' = resets + 1
    /\ supported' = url
    /\ m_connected' = FALSE
    /\ m_heart_timer' = FALSE
    /\ m_reconnect_phase' = 0 /\ m_reconnect_count' = 0
    /\ m_pendingMessages' = <<>> /\ current' = {}
    /\ since' = AfterMove(since)
    /\ clearPresenceState
    /\ m_reconnect_followup_timer' = FALSE
    /\ m_reconnect_timer' = (url /\ sock \in Alive)
    /\ IF url THEN openSocket
       ELSE /\ sock' = (IF sock = "none" THEN "none" ELSE "unconnected")
            /\ m_socketConnectTimer' = "off"
    /\ UNCHANGED <<started, m_shutdownDone, wire>>

performShutdown ==
    /\ ~m_shutdownDone
    /\ m_shutdownDone' = TRUE
    /\ sock' = "none" /\ m_connected' = FALSE /\ m_heart_timer' = FALSE
    /\ m_reconnect_timer' = FALSE /\ m_reconnect_followup_timer' = FALSE
    /\ m_socketConnectTimer' = (IF sock \in Alive THEN "off" ELSE m_socketConnectTimer)
    /\ m_pendingMessages' = <<>>
    /\ current' = {}
    /\ since' = AfterLoss(since)
    /\ clearPresenceState
    /\ UNCHANGED <<supported, started, resets, retry, wire>>

HandOver(m) == ~m_shutdownDone /\ since[m] = "unsent"
WithNew(m) == [since EXCEPT ![m] = "same"]

\* sendWsCliTextMsg and sendWsCliBinaryMsg: everything that waits goes first.
Send(m) ==
    /\ HandOver(m) /\ Usable
    /\ wire' = Append(wire \o Fresh(m_pendingMessages), m)
    /\ m_pendingMessages' = <<>>
    /\ since' = WithNew(m)
    /\ UNCHANGED <<config, link, timers, retry, current, presence>>

\* The socket refuses a queued message or the new one, which aborts it: the
\* new one is queued with the generation read before the abort.
SendRefused(m) ==
    /\ HandOver(m) /\ Usable
    /\ LET offered == Append(m_pendingMessages, m) IN
       \E i \in Refusable(m_pendingMessages) \cup {Len(offered)} :
           /\ wire' = wire \o Fresh(Before(offered, i))
           /\ m_pendingMessages' = IF i < Len(offered) /\ Overflows(From(m_pendingMessages, i))
                                   THEN <<>> ELSE From(offered, i)
    /\ onWsDisconnected(WithNew(m))
    /\ UNCHANGED <<config, retry>>

SendOffline(m) ==
    /\ HandOver(m) /\ ~Usable
    /\ ~Overflows(DropStale(m_pendingMessages))
    /\ m_pendingMessages' = Append(DropStale(m_pendingMessages), m)
    /\ current' = current \cup {m}
    /\ since' = WithNew(m)
    /\ UNCHANGED <<config, link, timers, retry, wire, presence>>

\* An overflow drops everything, the new message too, and aborts the socket.
SendOverflow(m) ==
    /\ HandOver(m) /\ ~Usable
    /\ Overflows(DropStale(m_pendingMessages))
    /\ m_pendingMessages' = <<>>
    /\ IF sock \in Alive
       THEN onWsDisconnected(WithNew(m))
       ELSE since' = WithNew(m) /\ UNCHANGED <<link, timers, current, presence>>
    /\ UNCHANGED <<config, retry, wire>>

-----------------------------------------------------------------------------
(* What the socket reports *)

\* onWsConnected when the socket takes everything that is still wanted ...
onWsConnected ==
    /\ sock = "connecting"
    /\ sock' = "connected" /\ m_connected' = TRUE /\ m_heart_timer' = TRUE
    /\ m_socketConnectTimer' = "off"
    /\ m_reconnect_timer' = FALSE /\ m_reconnect_followup_timer' = FALSE
    /\ m_reconnect_phase' = 0 /\ m_reconnect_count' = 0
    /\ wire' = wire \o Fresh(m_pendingMessages)
    /\ m_pendingMessages' = <<>>
    /\ UNCHANGED <<config, current, since, presence>>

\* ... and when it refuses a message, which aborts it.
ConnectedRefused ==
    /\ sock = "connecting"
    /\ sock' = "unconnected" /\ m_connected' = FALSE /\ m_heart_timer' = FALSE
    /\ m_socketConnectTimer' = "off"
    /\ m_reconnect_timer' = supported /\ m_reconnect_followup_timer' = FALSE
    /\ m_reconnect_phase' = 0 /\ m_reconnect_count' = 0
    /\ \E i \in Refusable(m_pendingMessages) :
           /\ wire' = wire \o Fresh(Before(m_pendingMessages, i))
           /\ m_pendingMessages' = From(m_pendingMessages, i)
    /\ current' = {} /\ since' = AfterLoss(since)
    /\ clearPresenceState
    /\ UNCHANGED config

\* Mutant: the devices stay as they were shown.
AboutToCloseShown ==
    /\ sock = "connected"
    /\ sock' = "closing" /\ m_connected' = FALSE
    /\ UNCHANGED <<config, m_heart_timer, timers, retry, queue, presence>>

\* onWsAboutToClose: the server's close frame.
onWsAboutToClose ==
    /\ sock = "connected"
    /\ sock' = "closing" /\ m_connected' = FALSE
    /\ clearPresenceState
    /\ UNCHANGED <<config, m_heart_timer, timers, retry, queue>>

\* The network ends a handshake, a connection or a closing handshake.
Disconnected ==
    /\ sock \in Alive
    /\ onWsDisconnected(since)
    /\ UNCHANGED <<config, retry, m_pendingMessages, wire>>

\* An oversized inbound message, or a refused heartbeat, aborts the socket.
AbortedByHandler ==
    /\ Usable
    /\ onWsDisconnected(since)
    /\ UNCHANGED <<config, retry, m_pendingMessages, wire>>

-----------------------------------------------------------------------------
(* Timers *)

HandshakeAges ==
    /\ sock = "connecting" /\ m_socketConnectTimer = "young"
    /\ m_socketConnectTimer' = "old"
    /\ UNCHANGED <<config, link, m_reconnect_timer, m_reconnect_followup_timer,
                   retry, queue, presence>>

Wanted == ~m_shutdownDone /\ supported /\ ~m_connected

\* Mutant: one attempt too many in a phase.
CountPastLimit ==
    LET full == m_reconnect_count + 1 > MaxRetry IN
    /\ m_reconnect_count' = IF full THEN 0 ELSE m_reconnect_count + 1
    /\ m_reconnect_phase' = IF full /\ m_reconnect_phase < 3
                            THEN m_reconnect_phase + 1 ELSE m_reconnect_phase

\* The phases get longer; the last one repeats for ever.
CountAttempt ==
    LET full == m_reconnect_count + 1 >= MaxRetry IN
    /\ m_reconnect_count' = IF full THEN 0 ELSE m_reconnect_count + 1
    /\ m_reconnect_phase' = IF full /\ m_reconnect_phase < 3
                            THEN m_reconnect_phase + 1 ELSE m_reconnect_phase

\* Mutant: an attempt is not followed up.
AttemptUnwatched ==
    /\ m_reconnect_timer
    /\ m_reconnect_timer' = FALSE
    /\ IF Wanted /\ sock = "unconnected"
       THEN openSocket /\ CountAttempt
       ELSE UNCHANGED <<sock, m_socketConnectTimer, retry>>
    /\ UNCHANGED <<config, m_connected, m_heart_timer, m_reconnect_followup_timer,
                   queue, presence>>

attemptReconnect ==
    /\ m_reconnect_timer
    /\ m_reconnect_timer' = FALSE
    /\ IF Wanted
       THEN /\ m_reconnect_followup_timer' = TRUE
            /\ IF sock = "unconnected"
               THEN openSocket /\ CountAttempt
               ELSE UNCHANGED <<sock, m_socketConnectTimer, retry>>
       ELSE UNCHANGED <<m_reconnect_followup_timer, sock, m_socketConnectTimer, retry>>
    /\ UNCHANGED <<config, m_connected, m_heart_timer, queue, presence>>

\* A handshake of 10 s or more is aborted; onWsDisconnected and the handler
\* both start the reconnect timer.
AbortHandshake ==
    /\ m_reconnect_followup_timer
    /\ Wanted /\ sock = "connecting" /\ m_socketConnectTimer = "old"
    /\ m_reconnect_followup_timer' = FALSE
    /\ sock' = "unconnected" /\ m_heart_timer' = FALSE
    /\ m_socketConnectTimer' = "off"
    /\ m_reconnect_timer' = TRUE
    /\ current' = {}
    /\ clearPresenceState
    /\ UNCHANGED <<config, m_connected, retry, m_pendingMessages, wire, since>>

\* Mutant: the first look at a handshake in progress is the last.
LookOnce ==
    /\ m_reconnect_followup_timer
    /\ ~(Wanted /\ sock = "connecting" /\ m_socketConnectTimer = "old")
    /\ m_reconnect_followup_timer' = FALSE
    /\ m_reconnect_timer' = (m_reconnect_timer \/ (Wanted /\ sock \notin Alive))
    /\ UNCHANGED <<config, link, m_socketConnectTimer, retry, queue, presence>>

scheduleNextReconnectIfNeeded ==
    /\ m_reconnect_followup_timer
    /\ ~(Wanted /\ sock = "connecting" /\ m_socketConnectTimer = "old")
    /\ m_reconnect_followup_timer' = (Wanted /\ sock \in Alive)
    /\ m_reconnect_timer' = (m_reconnect_timer \/ (Wanted /\ sock \notin Alive))
    /\ UNCHANGED <<config, link, m_socketConnectTimer, retry, queue, presence>>

-----------------------------------------------------------------------------
(* Presence *)

\* This device needs no answer.
Own(ds, states) == [d \in Devices |-> IF d \in ds /\ d = LocalId THEN "online" ELSE states[d]]

\* queryDevicePresence: a new batch invalidates the old one; within a second
\* of the last batch it is put off, offline it only shows "unknown".
StartBatch(ds, timerFired) ==
    /\ m_presenceDevices' = ds
    /\ aged' = {}
    /\ IF Usable /\ (timerFired \/ ~queryWindow)
       THEN /\ shown' = Own(ds, Unknown(ds))
            /\ proof' = Own(ds, [d \in Devices |-> "unknown"])
            /\ \E sent \in SUBSET (ds \ {LocalId}) : \E verdict \in [sent -> Verdicts] :
                   /\ m_presenceRequests' = sent
                   /\ m_presence_timer' = (sent # {})
                   /\ answers' = Outdated \cup
                       {[device |-> d, says |-> verdict[d], fresh |-> TRUE] : d \in sent}
            /\ m_presence_query_timer' = FALSE
            /\ queryWindow' = TRUE
       ELSE /\ shown' = Unknown(ds)
            /\ proof' = [d \in Devices |-> "unknown"]
            /\ m_presenceRequests' = {}
            /\ answers' = Outdated
            /\ m_presence_timer' = FALSE
            /\ m_presence_query_timer' = Usable
            /\ UNCHANGED queryWindow

queryDevicePresence(ds) ==
    /\ StartBatch(ds, FALSE)
    /\ UNCHANGED <<config, link, timers, retry, queue>>

QueryTimerFires ==
    /\ m_presence_query_timer
    /\ StartBatch(m_presenceDevices, TRUE)
    /\ UNCHANGED <<config, link, timers, retry, queue>>

QueryWindowEnds ==
    /\ queryWindow /\ ~m_presence_query_timer
    /\ queryWindow' = FALSE
    /\ UNCHANGED <<config, link, timers, retry, queue, m_presenceDevices,
                   m_presenceRequests, aged, m_presence_timer,
                   m_presence_query_timer, shown, answers, proof>>

RequestAges(d) ==
    /\ d \in m_presenceRequests \ aged
    /\ aged' = aged \cup {d}
    /\ UNCHANGED <<config, link, timers, retry, queue, m_presenceDevices,
                   m_presenceRequests, m_presence_timer, m_presence_query_timer,
                   queryWindow, shown, answers, proof>>

\* The first tick after the requests are 8 s old forgets them.
expirePresenceRequests ==
    /\ m_presence_timer
    /\ aged # {} \/ m_presenceRequests = {}
    /\ m_presenceRequests' = m_presenceRequests \ aged
    /\ aged' = {}
    /\ m_presence_timer' = (m_presenceRequests \ aged # {})
    /\ shown' = Unknown(aged)
    /\ answers' = {[a EXCEPT !.fresh = @ /\ a.device \notin aged] : a \in answers}
    /\ UNCHANGED <<config, link, timers, retry, queue, m_presenceDevices,
                   m_presence_query_timer, queryWindow, proof>>

\* handlePresenceMessage: an answer to a request that is not outstanding is
\* consumed without effect, one that comes too late shows "unknown".
handlePresenceMessage(a) ==
    /\ Usable
    /\ answers' = answers \ {a}
    /\ LET d == a.device
           verdict == IF d \in aged THEN "unknown" ELSE a.says
       IN  IF a.fresh /\ d \in m_presenceRequests
           THEN /\ m_presenceRequests' = m_presenceRequests \ {d}
                /\ aged' = aged \ {d}
                /\ shown' = [shown EXCEPT ![d] = verdict]
                /\ proof' = [proof EXCEPT ![d] = verdict]
           ELSE UNCHANGED <<m_presenceRequests, aged, shown, proof>>
    /\ UNCHANGED <<config, link, timers, retry, queue, m_presenceDevices,
                   m_presence_timer, m_presence_query_timer, queryWindow>>

-----------------------------------------------------------------------------

Owner ==
    \/ \E url \in BOOLEAN : init(url) \/ resetUrlAndReconnect(url)
    \/ performShutdown
    \/ \E m \in Messages : Send(m) \/ SendRefused(m) \/ SendOffline(m) \/ SendOverflow(m)

Socket ==
    \/ onWsConnected
    \/ ConnectedRefused
    \/ onWsAboutToClose
    \/ Disconnected
    \/ AbortedByHandler

Timer ==
    \/ HandshakeAges
    \/ attemptReconnect
    \/ AbortHandshake
    \/ scheduleNextReconnectIfNeeded

Presence ==
    \/ \E ds \in Lists : queryDevicePresence(ds)
    \/ QueryTimerFires
    \/ QueryWindowEnds
    \/ \E d \in Devices : RequestAges(d)
    \/ expirePresenceRequests
    \/ \E a \in answers : handlePresenceMessage(a)

Next == Owner \/ Socket \/ Timer \/ Presence

Spec == Init /\ [][Next]_vars

-----------------------------------------------------------------------------
(* Properties *)

\* Opened by the retry timer: onWsConnected, init and a reset clear the counters.
Retrying == m_reconnect_phase # 0 \/ m_reconnect_count # 0

\* An offline client that should be online always has a timer that brings it
\* back: no order of losses, resets, refusals and overflows leaves the socket
\* unconnected, or a handshake of a retry unwatched, with both timers off.
RetryArmed ==
    \/ m_reconnect_timer
    \/ m_reconnect_followup_timer
    \/ ~(Wanted /\ (sock = "unconnected" \/ (sock = "connecting" /\ Retrying)))

\* A client that calls itself connected has a connected socket, a running
\* heartbeat and nothing left in the retry queue: what was queued offline does
\* not wait for the next message to push it out.
OnlineIsDrained ==
    m_connected => sock = "connected" /\ m_heart_timer /\ m_pendingMessages = <<>>

\* Nothing waits for an event that no one will make: not the client for its
\* connection, and no message for the connection the client has.
NothingStuck == RetryArmed /\ OnlineIsDrained

\* A device of the list is shown online or offline only while the client is
\* connected, and only if that is what it answered in time to the present
\* batch, or it is this device and the batch was sent: never from an earlier batch, another connection or an overdue answer
\* (doc/my-devices.md:11: a server out of reach or a timeout shows "unknown").
PresenceHonest ==
    \A d \in m_presenceDevices :
        shown[d] # "unknown" => m_connected /\ proof[d] = shown[d]

Link == INSTANCE SignalLink WITH waiting <- m_pendingMessages

\* Queueing, flushing, dropping by generation and overflow implement the
\* promise of SignalLink: order, at most once, no session message across a
\* lost connection, nothing of one server to the next.
ImplementsLink == Link!LinkSpec

FollowupFires == AbortHandshake \/ scheduleNextReconnectIfNeeded

\* Qt's timers fire and the clock goes on.
Fairness ==
    /\ WF_vars(attemptReconnect)
    /\ WF_vars(FollowupFires)
    /\ WF_vars(HandshakeAges)

FairSpec == Spec /\ Fairness

\* A lost connection is retried, and a retry's handshake that hangs is
\* aborted after 10 s, for as long as signalling is configured.
NeverGivesUp ==
    /\ (Wanted /\ sock = "unconnected") ~> (~Wanted \/ sock # "unconnected")
    /\ (Wanted /\ sock = "connecting" /\ Retrying)
           ~> (~Wanted \/ sock # "connecting" \/ ~Retrying)
=============================================================================
