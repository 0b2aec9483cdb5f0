------------------------- MODULE SessionReconnectProofs -------------------------
(***************************************************************************)
(* The types of the controller's worker and of the workers it makes, that  *)
(* its window is never left without a timer, and that it calls again only  *)
(* after a goodbye: for any number of CONNECTs and of troubles.            *)
(***************************************************************************)
EXTENDS SessionReconnect, TLAPS

USE SignalsAssumption

-----------------------------------------------------------------------------
(* Types *)

\* SessionTypeOK, a variable at a time.
SessionTypes ==
  /\ ice \in {"idle", "up", "down"}
  /\ peer \in Dials \cup {0}
  /\ applying \in Dials \cup {0}
  /\ remote \in Dials \cup {0}
  /\ answering \in Dials \cup {0}
  /\ pendingOffer \in Dials \cup {0}
  /\ posted \in Seq(Posted)
  /\ started \in BOOLEAN
  /\ wired \in BOOLEAN
  /\ m_connected \in BOOLEAN
  /\ m_remoteDescriptionInFlight \in BOOLEAN
  /\ m_allowReconnect \in BOOLEAN
  /\ m_shutdownStarted \in BOOLEAN
  /\ m_disconnectSent \in BOOLEAN
  /\ m_remoteDisconnectReceived \in BOOLEAN
  /\ m_peerStartupTimer \in BOOLEAN
  /\ m_reconnectTimer \in BOOLEAN
  /\ m_reconnectPending \in BOOLEAN
  /\ pathTimer \in BOOLEAN
  /\ mistaken \in BOOLEAN
  /\ closing \in {"no", "requested", "done"}
  /\ endedBy \in {"nobody", "user", "failure", "startup"}
  /\ pendingOffer # 0 => m_remoteDescriptionInFlight

LEMMA SessionTypesAre == SessionTypeOK <=> SessionTypes
<1>. DEFINE numbers == {peer, applying, remote, answering, pendingOffer}
            flags == {started, wired, m_connected, m_remoteDescriptionInFlight,
                      m_allowReconnect, m_shutdownStarted, m_disconnectSent,
                      m_remoteDisconnectReceived, m_peerStartupTimer, m_reconnectTimer,
                      m_reconnectPending, pathTimer, mistaken}
<1>1. numbers \subseteq Dials \cup {0} <=>
        /\ peer \in Dials \cup {0} /\ applying \in Dials \cup {0} /\ remote \in Dials \cup {0}
        /\ answering \in Dials \cup {0} /\ pendingOffer \in Dials \cup {0}
  BY Zenon
<1>2. flags \subseteq BOOLEAN <=>
        /\ started \in BOOLEAN /\ wired \in BOOLEAN /\ m_connected \in BOOLEAN
        /\ m_remoteDescriptionInFlight \in BOOLEAN /\ m_allowReconnect \in BOOLEAN
        /\ m_shutdownStarted \in BOOLEAN /\ m_disconnectSent \in BOOLEAN
        /\ m_remoteDisconnectReceived \in BOOLEAN /\ m_peerStartupTimer \in BOOLEAN
        /\ m_reconnectTimer \in BOOLEAN /\ m_reconnectPending \in BOOLEAN
        /\ pathTimer \in BOOLEAN /\ mistaken \in BOOLEAN
  <2>1. \A S : (\A x \in flags : x \in S) <=>
           /\ started \in S /\ wired \in S /\ m_connected \in S
           /\ m_remoteDescriptionInFlight \in S /\ m_allowReconnect \in S
           /\ m_shutdownStarted \in S /\ m_disconnectSent \in S
           /\ m_remoteDisconnectReceived \in S /\ m_peerStartupTimer \in S
           /\ m_reconnectTimer \in S /\ m_reconnectPending \in S
           /\ pathTimer \in S /\ mistaken \in S
    BY SMT
  <2>. HIDE DEF flags
  <2>2. flags \subseteq BOOLEAN <=> \A x \in flags : x \in BOOLEAN
    BY Zenon
  <2> QED
    BY <2>1, <2>2, Zenon
<1> QED
  BY <1>1, <1>2, Zenon DEF SessionTypeOK, SessionTypes

LEMMA SessionTypesAreNext == SessionTypeOK' <=> SessionTypes'
BY SessionTypesAre, PTL
\* What is put on the wire is a message.
LEMMA MessageTypes ==
  /\ \A n \in Dials : [type |-> "connect", dial |-> n] \in ToControlled
  /\ \A n, k \in Dials : [type |-> "answer", of |-> n, to |-> k] \in ToControlled
  /\ [type |-> "disconnect"] \in ToControlled
  /\ \A n \in Dials : [type |-> "offer", of |-> n] \in ToController
  /\ \A access \in BOOLEAN : [type |-> "error", access |-> access] \in ToController
  /\ \A why \in Reasons, n \in Dials : Disconnect(n, why) \in ToController
BY DEF ToControlled, ToController, Disconnect

\* What is read from it tells the receiver what it needs.
LEMMA MessageParts ==
  /\ \A m \in ToControlled : /\ m.type = "connect" => m.dial \in Dials
                             /\ m.type = "answer" => m.of \in Dials /\ m.to \in Dials
  /\ \A m \in ToController : m.type = "offer" => m.of \in Dials
BY DEF ToControlled, ToController

LEMMA PostedTypes ==
  /\ \A what \in Events, n \in Dials : [what |-> what, by |-> n] \in Posted
  /\ \A n, k \in Dials : [what |-> "answer", by |-> n, to |-> k] \in Posted
  /\ \A e \in Posted : e.by \in Dials /\ (e.what = "answer" => e.to \in Dials)
BY DEF Posted, Events

LEMMA DialsNotZero == Dials \subseteq Nat /\ 0 \notin Dials
BY DEF Dials

LEMMA FreeIsDial == Free \subseteq Dials /\ Free \cap InUse = {}
BY DEF Free

LEMMA UnlessTypes ==
  ASSUME SignalsTypeOK, NEW expected, Unless(expected) \/ Trouble
  PROVE  troubles' \in 0..MaxTroubles
BY DEF SignalsTypeOK, Unless, Trouble

LEMMA GoodbyeTypes ==
  ASSUME SignalsTypeOK, SessionTypes, NEW heard, SayGoodbye(heard)
  PROVE  toControlled' \in Seq(ToControlled) /\ m_disconnectSent' \in BOOLEAN
<1>1. Append(toControlled, [type |-> "disconnect"]) \in Seq(ToControlled)
  BY MessageTypes DEF SignalsTypeOK
<1> QED
  BY <1>1, Zenon DEF SignalsTypeOK, SessionTypes, SayGoodbye

LEMMA RequestTypes ==
  ASSUME SignalsTypeOK, SessionTypes, NEW heard, requestSessionReconnect(heard)
  PROVE  /\ toControlled' \in Seq(ToControlled)
         /\ m_disconnectSent' \in BOOLEAN
         /\ m_reconnectTimer' \in BOOLEAN
         /\ m_reconnectPending' \in BOOLEAN
BY GoodbyeTypes
DEF SignalsTypeOK, SessionTypes, requestSessionReconnect, scheduleReconnect, reconnect
-----------------------------------------------------------------------------
(* The controller's steps keep the types. *)

LEMMA ClearedTypes ==
  ASSUME SessionTypes, Cleared
  PROVE  /\ ice' \in {"idle", "up", "down"}
         /\ applying' \in Dials \cup {0} /\ remote' \in Dials \cup {0}
         /\ answering' \in Dials \cup {0} /\ pendingOffer' \in Dials \cup {0}
         /\ m_connected' \in BOOLEAN /\ m_remoteDescriptionInFlight' \in BOOLEAN
         /\ (pendingOffer # 0 => m_remoteDescriptionInFlight)'
BY DEF Cleared

LEMMA InitTypes ==
  ASSUME SignalsTypeOK, SessionTypes, NEW n \in Dials, NEW expected, init(n, expected),
         UNCHANGED endedBy, pathTimer' \in BOOLEAN
  PROVE  SignalsTypeOK' /\ SessionTypes'
<1>1. CASE InitSucceeds(n, expected)
  <2>1. toControlled' \in Seq(ToControlled)
    BY <1>1, MessageTypes DEF SignalsTypeOK, InitSucceeds
  <2>2. SignalsTypeOK'
    BY <1>1, <2>1, UnlessTypes DEF SignalsTypeOK, InitSucceeds, Dial
  <2>3. SessionTypes'
    BY <1>1, ClearedTypes DEF SessionTypes, InitSucceeds, Dial, stopReconnect
  <2> QED
    BY <2>2, <2>3
<1>2. CASE InitFails(n)
  <2>1. SignalsTypeOK'
    BY <1>2, UnlessTypes DEF SignalsTypeOK, InitFails, Dial
  <2>2. SessionTypes'
    BY <1>2, ClearedTypes DEF SessionTypes, InitFails, Dial
  <2> QED
    BY <2>1, <2>2
<1> QED
  BY <1>1, <1>2 DEF init

LEMMA DestroyTypes ==
  ASSUME SessionTypes, destroy, UNCHANGED <<started, posted, history>>,
         m_allowReconnect' \in BOOLEAN, m_disconnectSent' \in BOOLEAN,
         m_remoteDisconnectReceived' \in BOOLEAN, m_reconnectTimer' \in BOOLEAN,
         m_reconnectPending' \in BOOLEAN, pathTimer' \in BOOLEAN,
         closing' \in {"no", "requested", "done"}
  PROVE  SessionTypes'
BY ClearedTypes DEF SessionTypes, destroy, history

LEMMA DialTypes ==
  ASSUME SignalsTypeOK, SessionTypes, NEW n \in Dials, NEW expected,
         FirstDial(n) \/ ReconnectTimeout(n, expected) \/ restartAfterNetworkPathChange(n, expected)
  PROVE  SignalsTypeOK' /\ SessionTypes'
<1>1. CASE FirstDial(n)
  BY <1>1, InitTypes DEF FirstDial, SessionTypes
<1>2. CASE ReconnectTimeout(n, expected)
  <2>1. CASE init(n, expected) /\ UNCHANGED <<pathTimer, endedBy>>
    BY <2>1, InitTypes DEF SessionTypes
  <2>2. CASE ~(init(n, expected) /\ UNCHANGED <<pathTimer, endedBy>>)
    <3>1. SignalsTypeOK'
      BY <1>2, <2>2, UnlessTypes DEF ReconnectTimeout, SignalsTypeOK, wires
    <3>2. SessionTypes'
      BY <1>2, <2>2, DestroyTypes DEF ReconnectTimeout, SessionTypes, stopReconnect, goodbye
    <3> QED
      BY <3>1, <3>2
  <2> QED
    BY <2>1, <2>2
<1>3. CASE restartAfterNetworkPathChange(n, expected)
  <2>1. CASE init(n, expected)
    BY <1>3, <2>1, InitTypes DEF restartAfterNetworkPathChange
  <2>2. CASE ~init(n, expected)
    <3>1. SignalsTypeOK'
      BY <1>3, <2>2, UnlessTypes DEF restartAfterNetworkPathChange, SignalsTypeOK, wires
    <3>2. SessionTypes'
      <4>1. pathTimer' \in BOOLEAN /\ UNCHANGED <<started, peer, native, posted, m_connected,
               negotiation, life, goodbye, m_peerStartupTimer, reconnect, mistaken, endedBy>>
        BY <1>3, <2>2, Zenon DEF restartAfterNetworkPathChange
      <4> QED
        BY <4>1 DEF SessionTypes, native, negotiation, life, goodbye, reconnect
    <3> QED
      BY <3>1, <3>2
  <2> QED
    BY <2>1, <2>2
<1> QED
  BY <1>1, <1>2, <1>3

LEMMA CloseTypes ==
  ASSUME SignalsTypeOK, SessionTypes,
         setNetworkPath \/ requestShutdown \/ performShutdown
  PROVE  SignalsTypeOK' /\ SessionTypes'
<1>1. CASE setNetworkPath
  <2>1. SignalsTypeOK' /\ m_disconnectSent' \in BOOLEAN
    BY <1>1, GoodbyeTypes, UnlessTypes DEF setNetworkPath, SignalsTypeOK
  <2>2. SessionTypes'
    BY <1>1, <2>1, DestroyTypes DEF setNetworkPath, SessionTypes, stopReconnect
  <2> QED
    BY <2>1, <2>2
<1>2. CASE requestShutdown
  BY <1>2 DEF requestShutdown, SignalsTypeOK, SessionTypes, native, negotiation, goodbye,
              reconnect, history, signalVars, wires
<1>3. CASE performShutdown
  <2>1. SignalsTypeOK' /\ m_disconnectSent' \in BOOLEAN
    BY <1>3, GoodbyeTypes DEF performShutdown, SignalsTypeOK
  <2>2. SessionTypes'
    BY <1>3, <2>1, DestroyTypes DEF performShutdown, SessionTypes, stopReconnect
  <2> QED
    BY <2>1, <2>2
<1> QED
  BY <1>1, <1>2, <1>3

\* What the timers and the heartbeat do is a request, or nothing.
LEMMA SilenceTypes ==
  ASSUME SignalsTypeOK, SessionTypes, NEW expected,
         PeerStartupTimeout(expected) \/ HeartbeatSilence(expected)
  PROVE  SignalsTypeOK' /\ SessionTypes'
<1>1. /\ toControlled' \in Seq(ToControlled) /\ m_disconnectSent' \in BOOLEAN
      /\ m_reconnectTimer' \in BOOLEAN /\ m_reconnectPending' \in BOOLEAN
  <2>1. CASE requestSessionReconnect(m_remoteDisconnectReceived)
    BY <2>1, RequestTypes
  <2>2. CASE ~requestSessionReconnect(m_remoteDisconnectReceived)
    <3>1. UNCHANGED <<toControlled, m_disconnectSent, reconnect>>
      BY <2>2, Zenon DEF PeerStartupTimeout, HeartbeatSilence
    <3> QED
      BY <3>1 DEF SignalsTypeOK, SessionTypes, reconnect
  <2> QED
    BY <2>1, <2>2
<1>2. SignalsTypeOK'
  BY <1>1, UnlessTypes DEF PeerStartupTimeout, HeartbeatSilence, SignalsTypeOK
<1>3. m_peerStartupTimer' \in BOOLEAN /\ UNCHANGED <<started, peer, native, posted, m_connected,
         negotiation, life, m_remoteDisconnectReceived, pathTimer, history>>
  BY Zenon DEF PeerStartupTimeout, HeartbeatSilence, SessionTypes
<1> QED
  BY <1>1, <1>2, <1>3 DEF SessionTypes, native, negotiation, life, history

LEMMA MessageTaken ==
  ASSUME SignalsTypeOK, NEW type, Take(type)
  PROVE  /\ Head(toController) \in ToController
         /\ Head(toController).type = type
         /\ toController' \in Seq(ToController)
         /\ UNCHANGED <<started, peer, wired, ice, remote, answering, posted, m_connected,
                   m_shutdownStarted, closing,
                   m_peerStartupTimer, pathTimer, mistaken, troubles>>
BY DEF SignalsTypeOK, Take

LEMMA ParseTypes ==
  ASSUME SignalsTypeOK, SessionTypes, parseWsMsg
  PROVE  SignalsTypeOK' /\ SessionTypes'
<1>1. CASE ParseOffer
  <2>1. Head(toController).of \in Dials
    BY <1>1, MessageTaken, MessageParts DEF ParseOffer
  <2>2. SignalsTypeOK'
    BY <1>1, MessageTaken DEF ParseOffer, SignalsTypeOK
  <2>3. /\ applying' \in Dials \cup {0} /\ pendingOffer' \in Dials \cup {0}
        /\ m_remoteDescriptionInFlight' \in BOOLEAN
        /\ (pendingOffer # 0 => m_remoteDescriptionInFlight)'
    BY <1>1, <2>1, Zenon DEF ParseOffer, handleRemoteDescriptionMessage, SessionTypes
  <2>4. SessionTypes'
    BY <1>1, <2>3, MessageTaken DEF ParseOffer, SessionTypes, goodbye, reconnect
  <2> QED
    BY <2>2, <2>4
<1>2. CASE ParseError
  <2>1. /\ toControlled' \in Seq(ToControlled) /\ m_disconnectSent' \in BOOLEAN
        /\ m_reconnectTimer' \in BOOLEAN /\ m_reconnectPending' \in BOOLEAN
    <3>1. CASE requestSessionReconnect(m_remoteDisconnectReceived)
      BY <3>1, RequestTypes
    <3>2. CASE ~requestSessionReconnect(m_remoteDisconnectReceived)
      <4>1. UNCHANGED <<toControlled, m_disconnectSent, reconnect>>
        BY <1>2, <3>2, Zenon DEF ParseError
      <4> QED
        BY <4>1 DEF SignalsTypeOK, SessionTypes, reconnect
    <3> QED
      BY <3>1, <3>2
  <2>2. SignalsTypeOK'
    BY <1>2, <2>1, MessageTaken DEF ParseError, SignalsTypeOK
  <2>3. SessionTypes'
    BY <1>2, <2>1, MessageTaken DEF ParseError, SessionTypes
  <2> QED
    BY <2>2, <2>3
<1>3. CASE ParseDisconnect
  <2>. DEFINE msg == Head(toController)
  <2>1. CASE Stopped
    <3>1. UNCHANGED <<m_allowReconnect, goodbye, reconnect, endedBy, toControlled>>
      BY <1>3, <2>1, Zenon DEF ParseDisconnect
    <3>2. SignalsTypeOK'
      BY <1>3, <3>1, MessageTaken DEF ParseDisconnect, SignalsTypeOK
    <3>3. SessionTypes'
      BY <1>3, <3>1, MessageTaken DEF ParseDisconnect, SessionTypes, goodbye, reconnect
    <3> QED
      BY <3>2, <3>3
  <2>2. CASE ~Stopped
    <3>1. m_remoteDisconnectReceived' = TRUE
      BY <1>3, <2>2, Zenon DEF ParseDisconnect
    <3>2. \/ requestSessionReconnect(TRUE) /\ UNCHANGED <<m_allowReconnect, endedBy>>
          \/ /\ m_allowReconnect' = FALSE /\ stopReconnect
             /\ endedBy' = Ending(msg)
             /\ UNCHANGED <<toControlled, m_disconnectSent>>
      BY <1>3, <2>2, Zenon DEF ParseDisconnect
    <3>3. /\ toControlled' \in Seq(ToControlled) /\ m_disconnectSent' \in BOOLEAN
          /\ m_reconnectTimer' \in BOOLEAN /\ m_reconnectPending' \in BOOLEAN
      BY <3>2, RequestTypes, Zenon DEF stopReconnect, SignalsTypeOK, SessionTypes
    <3>4. Ending(msg) \in {"nobody", "user", "failure", "startup"}
      BY DEF Ending
    <3>5. m_allowReconnect' \in BOOLEAN /\ endedBy' \in {"nobody", "user", "failure", "startup"}
      BY <3>2, <3>4, Zenon DEF SessionTypes
    <3>6. SignalsTypeOK'
      BY <1>3, <3>3, MessageTaken DEF ParseDisconnect, SignalsTypeOK
    <3>7. SessionTypes'
      BY <1>3, <3>1, <3>3, <3>5, MessageTaken DEF ParseDisconnect, SessionTypes
    <3> QED
      BY <3>6, <3>7
  <2> QED
    BY <2>1, <2>2
<1> QED
  BY <1>1, <1>2, <1>3 DEF parseWsMsg

LEMMA PostedTaken ==
  ASSUME SessionTypes, NEW what, Run(what)
  PROVE  /\ posted # <<>> /\ Head(posted) \in Posted
         /\ Head(posted).what = what
         /\ posted' \in Seq(Posted)
         /\ mistaken' \in BOOLEAN
         /\ UNCHANGED <<started, peer, wired, ice, remote, m_allowReconnect, m_shutdownStarted,
                   closing, m_remoteDisconnectReceived, pathTimer, endedBy, toController, troubles>>
<1>1. posted \in Seq(Posted) /\ posted # <<>> /\ posted' = Tail(posted)
  BY DEF SessionTypes, Run
<1>2. Head(posted) \in Posted /\ posted' \in Seq(Posted)
  BY <1>1
<1>3. mistaken' \in BOOLEAN
  BY Zenon DEF SessionTypes, Run
<1> QED
  BY <1>1, <1>2, <1>3 DEF Run, life

LEMMA NextOfferTypes ==
  ASSUME SessionTypes, NextOffer
  PROVE  /\ applying' \in Dials \cup {0} /\ pendingOffer' \in Dials \cup {0}
         /\ m_remoteDescriptionInFlight' \in BOOLEAN
         /\ (pendingOffer # 0 => m_remoteDescriptionInFlight)'
BY DEF SessionTypes, NextOffer

\* A request, or the goodbye and the timers as they were.
LEMMA MaybeRequestTypes ==
  ASSUME SignalsTypeOK, SessionTypes, NEW heard,
         \/ requestSessionReconnect(heard)
         \/ UNCHANGED <<toControlled, m_disconnectSent, reconnect>>
  PROVE  /\ toControlled' \in Seq(ToControlled)
         /\ m_disconnectSent' \in BOOLEAN
         /\ m_reconnectTimer' \in BOOLEAN
         /\ m_reconnectPending' \in BOOLEAN
<1>1. CASE requestSessionReconnect(heard)
  BY <1>1, RequestTypes
<1>2. CASE UNCHANGED <<toControlled, m_disconnectSent, reconnect>>
  BY <1>2 DEF SignalsTypeOK, SessionTypes, reconnect
<1> QED
  BY <1>1, <1>2

LEMMA RunTypes ==
  ASSUME SignalsTypeOK, SessionTypes, RunPosted
  PROVE  SignalsTypeOK' /\ SessionTypes'
<1>0. CASE RunTransport
  <2>1. m_reconnectTimer' \in BOOLEAN /\ m_reconnectPending' \in BOOLEAN
    BY <1>0, Zenon DEF RunTransport, SessionTypes, stopReconnect, reconnect
  <2> QED
    BY <1>0, <2>1, PostedTaken DEF RunTransport, SignalsTypeOK, SessionTypes, negotiation
<1>1. CASE RunConnected
  <2>1. /\ m_connected' \in BOOLEAN /\ m_peerStartupTimer' \in BOOLEAN
        /\ m_reconnectTimer' \in BOOLEAN /\ m_reconnectPending' \in BOOLEAN
    BY <1>1, Zenon DEF RunConnected, SessionTypes, stopReconnect, reconnect
  <2> QED
    BY <1>1, <2>1, PostedTaken DEF RunConnected, SignalsTypeOK, SessionTypes, negotiation
<1>2. CASE RunDisconnected
  <2>1. m_connected' \in BOOLEAN
    BY <1>2, Zenon DEF RunDisconnected
  <2> QED
    BY <1>2, <2>1, PostedTaken
    DEF RunDisconnected, SignalsTypeOK, SessionTypes, negotiation, reconnect
<1>3. CASE RunFailed
  <2>1. m_connected' \in BOOLEAN
    BY <1>3, Zenon DEF RunFailed
  <2> QED
    BY <1>3, <2>1, PostedTaken, RequestTypes
    DEF RunFailed, SignalsTypeOK, SessionTypes, negotiation
<1>4. CASE RunRequest
  BY <1>4, PostedTaken, RequestTypes DEF RunRequest, SignalsTypeOK, SessionTypes, negotiation
<1>5. CASE RunDescribed
  <2>1. /\ answering' \in Dials \cup {0}
        /\ applying' \in Dials \cup {0} /\ pendingOffer' \in Dials \cup {0}
        /\ m_remoteDescriptionInFlight' \in BOOLEAN
        /\ (pendingOffer # 0 => m_remoteDescriptionInFlight)'
    BY <1>5, NextOfferTypes, Zenon DEF RunDescribed, SessionTypes, negotiation
  <2> QED
    BY <1>5, <2>1, PostedTaken DEF RunDescribed, SignalsTypeOK, SessionTypes, reconnect
<1>6. CASE RunUndescribed
  <2>1. /\ applying' \in Dials \cup {0} /\ pendingOffer' \in Dials \cup {0}
        /\ m_remoteDescriptionInFlight' \in BOOLEAN
        /\ (pendingOffer # 0 => m_remoteDescriptionInFlight)'
    BY <1>6, NextOfferTypes, Zenon DEF RunUndescribed, SessionTypes, negotiation
  <2>2. \/ requestSessionReconnect(m_remoteDisconnectReceived)
        \/ UNCHANGED <<toControlled, m_disconnectSent, reconnect>>
    BY <1>6, Zenon DEF RunUndescribed
  <2>3. /\ toControlled' \in Seq(ToControlled) /\ m_disconnectSent' \in BOOLEAN
        /\ m_reconnectTimer' \in BOOLEAN /\ m_reconnectPending' \in BOOLEAN
    BY <2>2, MaybeRequestTypes
  <2> QED
    BY <1>6, <2>1, <2>3, PostedTaken DEF RunUndescribed, SignalsTypeOK, SessionTypes
<1>7. CASE RunAnswer
  <2>1. toControlled' \in Seq(ToControlled)
    <3>1. [type |-> "answer", of |-> Head(posted).by, to |-> Head(posted).to] \in ToControlled
      BY <1>7, PostedTaken, PostedTypes, MessageTypes DEF RunAnswer
    <3>2. toControlled \in Seq(ToControlled)
      BY DEF SignalsTypeOK
    <3>3. Append(toControlled, [type |-> "answer", of |-> Head(posted).by, to |-> Head(posted).to])
             \in Seq(ToControlled)
      BY <3>1, <3>2
    <3> QED
      BY <1>7, <3>2, <3>3, Zenon DEF RunAnswer
  <2> QED
    BY <1>7, <2>1, PostedTaken DEF RunAnswer, SignalsTypeOK, SessionTypes, negotiation, reconnect
<1> QED
  BY <1>0, <1>1, <1>2, <1>3, <1>4, <1>5, <1>6, <1>7 DEF RunPosted

LEMMA NativeTypes ==
  ASSUME SignalsTypeOK, SessionTypes, NEW events \in Seq(Posted), Native(events),
         ice' \in {"idle", "up", "down"}, applying' \in Dials \cup {0},
         remote' \in Dials \cup {0}, answering' \in Dials \cup {0}, troubles' \in 0..MaxTroubles
  PROVE  SignalsTypeOK' /\ SessionTypes'
<1>1. posted' \in Seq(Posted)
  BY DEF Native, SessionTypes
<1>2. SignalsTypeOK'
  BY DEF Native, SignalsTypeOK, wires
<1>3. UNCHANGED <<started, peer, wired, m_connected, negotiation, life, goodbye,
                  m_peerStartupTimer, reconnect, pathTimer, history>>
  BY Zenon DEF Native
<1> QED
  BY <1>1, <1>2, <1>3 DEF SessionTypes, negotiation, life, goodbye, reconnect, history

\* What a peer connection posts, of itself.
LEMMA OwnPosts ==
  ASSUME SessionTypes, peer # 0
  PROVE  \A what \in Events : By(what) \in Posted
BY PostedTypes DEF SessionTypes, By

LEMMA ExternalTypes ==
  ASSUME SignalsTypeOK, SessionTypes, NEW expected,
         AppliesAndAnswers \/ Connects \/ Flickers \/ Fails(expected)
  PROVE  SignalsTypeOK' /\ SessionTypes'
<1>0. troubles \in 0..MaxTroubles
  BY DEF SignalsTypeOK
<1>1. CASE AppliesOffer
  <2>1. PICK what \in {"described", "undescribed"} :
           Native(<<By(what)>>) /\ remote' \in {applying, remote}
    BY <1>1 DEF AppliesOffer
  <2>2. troubles' \in 0..MaxTroubles
    <3>1. UNCHANGED troubles \/ Unless(remote # 0)
      BY <1>1, Zenon DEF AppliesOffer
    <3> QED
      BY <1>0, <3>1, UnlessTypes
  <2>3. By(what) \in Posted
    BY <2>1, OwnPosts DEF Native, Events
  <2>4. <<By(what)>> \in Seq(Posted)
    BY <2>3
  <2> QED
    BY <1>1, <2>1, <2>2, <2>4, NativeTypes DEF AppliesOffer, SessionTypes
<1>2. CASE MakesAnswer
  <2>. DEFINE events == IF wired THEN <<[what |-> "answer", by |-> peer, to |-> answering]>>
                        ELSE <<>>
  <2>1. peer # 0 /\ (Native(events) \/ Native(<<>>))
    BY <1>2, Zenon DEF MakesAnswer, Native
  <2>2. [what |-> "answer", by |-> peer, to |-> answering] \in Posted
    BY <1>2, <2>1, PostedTypes DEF SessionTypes, MakesAnswer
  <2>3. events \in Seq(Posted) /\ <<>> \in Seq(Posted)
    BY <2>2
  <2>4. troubles' \in 0..MaxTroubles
    <3>1. UNCHANGED troubles \/ Trouble
      BY <1>2, Zenon DEF MakesAnswer
    <3> QED
      BY <1>0, <3>1, UnlessTypes
  <2>5. UNCHANGED <<ice, applying, remote>> /\ answering' = 0
    BY <1>2, Zenon DEF MakesAnswer
  <2> QED
    BY <2>1, <2>3, <2>4, <2>5, NativeTypes DEF SessionTypes
<1>3. CASE Connects
  <2>. DEFINE events == IF wired THEN <<By("transport"), By("connected")>> ELSE <<>>
  <2>1. peer # 0 /\ Native(events)
    BY <1>3, Zenon DEF Connects, Native
  <2>2. By("transport") \in Posted /\ By("connected") \in Posted
    BY <2>1, OwnPosts DEF Events
  <2>3. events \in Seq(Posted)
    BY <2>2
  <2> QED
    BY <1>0, <1>3, <2>1, <2>3, NativeTypes DEF Connects, SessionTypes
<1>4. CASE Flickers
  <2>1. peer # 0 /\ Native(<<By("disconnected"), By("transport"), By("connected")>>)
    BY <1>4, Zenon DEF Flickers, Native
  <2>2. By("disconnected") \in Posted /\ By("transport") \in Posted /\ By("connected") \in Posted
    BY <2>1, OwnPosts DEF Events
  <2>3. <<By("disconnected"), By("transport"), By("connected")>> \in Seq(Posted)
    BY <2>2
  <2>4. troubles' \in 0..MaxTroubles
    BY <1>4, UnlessTypes DEF Flickers
  <2> QED
    BY <1>4, <2>1, <2>3, <2>4, NativeTypes DEF Flickers, SessionTypes
<1>5. CASE Fails(expected)
  <2>1. PICK what \in {"failed", "request"} : Native(<<By(what)>>)
    BY <1>5, Zenon DEF Fails
  <2>2. By(what) \in Posted
    BY <2>1, OwnPosts DEF Native, Events
  <2>3. <<By(what)>> \in Seq(Posted)
    BY <2>2
  <2>4. troubles' \in 0..MaxTroubles
    BY <1>5, UnlessTypes DEF Fails
  <2> QED
    BY <1>5, <2>1, <2>3, <2>4, NativeTypes DEF Fails, SessionTypes
<1> QED
  BY <1>1, <1>2, <1>3, <1>4, <1>5 DEF AppliesAndAnswers
-----------------------------------------------------------------------------
(* The workers' steps keep the types. *)

LEMMA StageTypes ==
  ASSUME WorkersTypeOK, NEW ws
  PROVE  Destroying(ws) \in [Dials -> Stages]
BY DEF WorkersTypeOK, Destroying, Stages

LEMMA GoodbyesTypes ==
  ASSUME SignalsTypeOK, WorkersTypeOK, NEW n \in Dials, NEW why \in Reasons, NEW access \in BOOLEAN
  PROVE  /\ Append(toController, Disconnect(n, why)) \in Seq(ToController)
         /\ toController \o <<[type |-> "error", access |-> access], Disconnect(n, why)>>
               \in Seq(ToController)
BY MessageTypes DEF SignalsTypeOK

LEMMA AdmissionTypes ==
  ASSUME SignalsTypeOK, WorkersTypeOK, NEW n \in Dials,
         \/ CompleteDuplicate(n) \/ CompleteRefused(n) \/ CompleteAdmitted(n)
         \/ WorkerInitFails(n) \/ DestroyWebRtcCli(n)
  PROVE  SignalsTypeOK' /\ WorkersTypeOK'
<1>1. CASE CompleteDuplicate(n)
  BY <1>1 DEF CompleteDuplicate, SignalsTypeOK, WorkersTypeOK, signalVars, wires
<1>2. CASE CompleteRefused(n)
  <2>1. toController' \in Seq(ToController)
    <3>1. [type |-> "error", access |-> TRUE] \in ToController
      BY MessageTypes, Zenon
    <3>2. toController' = Append(toController, [type |-> "error", access |-> TRUE])
      BY <1>2 DEF CompleteRefused
    <3> QED
      BY <3>1, <3>2 DEF SignalsTypeOK
  <2>2. SignalsTypeOK'
    BY <1>2, <2>1, UnlessTypes DEF CompleteRefused, SignalsTypeOK
  <2> QED
    BY <1>2, <2>2 DEF CompleteRefused, WorkersTypeOK
<1>3. CASE CompleteAdmitted(n)
  BY <1>3 DEF CompleteAdmitted, SignalsTypeOK, WorkersTypeOK, Stages, signalVars, wires
<1>4. CASE WorkerInitFails(n)
  <2>1. toController' \in Seq(ToController)
    <3>1. [type |-> "error", access |-> FALSE] \in ToController
      BY MessageTypes, Zenon
    <3>2. toController' = Append(toController, [type |-> "error", access |-> FALSE])
      BY <1>4 DEF WorkerInitFails
    <3> QED
      BY <3>1, <3>2 DEF SignalsTypeOK
  <2>2. SignalsTypeOK'
    BY <1>4, <2>1, UnlessTypes DEF WorkerInitFails, SignalsTypeOK
  <2> QED
    BY <1>4, <2>2 DEF WorkerInitFails, WorkersTypeOK, Stages
<1>5. CASE DestroyWebRtcCli(n)
  BY <1>5 DEF DestroyWebRtcCli, SignalsTypeOK, WorkersTypeOK, Stages, signalVars, wires
<1> QED
  BY <1>1, <1>2, <1>3, <1>4, <1>5

LEMMA WorkerTypes ==
  ASSUME SignalsTypeOK, WorkersTypeOK, NEW n \in Dials, NEW expected,
         \/ SendOffer(n) \/ StartupTimeout(n, expected) \/ PeerFails(n, expected)
         \/ RequestLocalDisconnect(n) \/ PerformDestroy(n)
  PROVE  SignalsTypeOK' /\ WorkersTypeOK'
<1>1. CASE SendOffer(n)
  BY <1>1, MessageTypes DEF SendOffer, SignalsTypeOK, WorkersTypeOK, Stages
<1>2. CASE StartupTimeout(n, expected)
  <2>1. toController' \in Seq(ToController)
    BY <1>2, GoodbyesTypes DEF StartupTimeout, Reasons, Transient
  <2>2. SignalsTypeOK'
    BY <1>2, <2>1, UnlessTypes DEF StartupTimeout, SignalsTypeOK
  <2>3. WorkersTypeOK'
    BY <1>2, StageTypes DEF StartupTimeout, WorkersTypeOK, Reasons, Transient
  <2> QED
    BY <2>2, <2>3
<1>3. CASE PeerFails(n, expected)
  <2>1. SignalsTypeOK'
    BY <1>3, UnlessTypes DEF PeerFails, SignalsTypeOK, wires
  <2>2. WorkersTypeOK'
    BY <1>3, StageTypes DEF PeerFails, WorkersTypeOK, Reasons, Terminal
  <2> QED
    BY <2>1, <2>2
<1>4. CASE RequestLocalDisconnect(n)
  <2>1. toController' \in Seq(ToController)
    BY <1>4, GoodbyesTypes DEF RequestLocalDisconnect, SignalsTypeOK, Reasons, Terminal
  <2>2. SignalsTypeOK'
    BY <1>4, <2>1, UnlessTypes DEF RequestLocalDisconnect, SignalsTypeOK
  <2>3. WorkersTypeOK'
    BY <1>4, StageTypes DEF RequestLocalDisconnect, WorkersTypeOK, Reasons, Terminal
  <2> QED
    BY <2>2, <2>3
<1>5. CASE PerformDestroy(n)
  <2>1. toController' \in Seq(ToController)
    BY <1>5, GoodbyesTypes DEF PerformDestroy, SignalsTypeOK, WorkersTypeOK
  <2>2. SignalsTypeOK'
    BY <1>5, <2>1 DEF PerformDestroy, SignalsTypeOK
  <2>3. WorkersTypeOK'
    BY <1>5 DEF PerformDestroy, Forget, WorkersTypeOK, Stages, Reasons, Terminal
  <2> QED
    BY <2>2, <2>3
<1> QED
  BY <1>1, <1>2, <1>3, <1>4, <1>5

LEMMA HearTypes ==
  ASSUME SignalsTypeOK, WorkersTypeOK, Hear
  PROVE  SignalsTypeOK' /\ WorkersTypeOK'
<1>1. /\ Head(toControlled) \in ToControlled
      /\ Tail(toControlled) \in Seq(ToControlled)
  BY DEF Hear, HearConnect, HearDisconnect, HearAnswer, SignalsTypeOK
<1>2. SignalsTypeOK'
  <2>1. /\ toControlled' = Tail(toControlled)
        /\ UNCHANGED <<troubles, toController>>
    BY Zenon DEF Hear, HearConnect, HearDisconnect, HearAnswer
  <2>2. QED
    BY <1>1, <2>1 DEF SignalsTypeOK
<1>3. CASE HearConnect
  BY <1>1, <1>2, <1>3, MessageParts DEF HearConnect, WorkersTypeOK
<1>4. CASE HearDisconnect
  BY <1>2, <1>4, StageTypes DEF HearDisconnect, WorkersTypeOK, In
<1>5. CASE HearAnswer
  <2>1. Head(toControlled).of \in Dials
    BY <1>1, <1>5, MessageParts DEF HearAnswer
  <2>2. answeredBy' \in [Dials -> Dials \cup {0}]
    BY <1>5, <2>1 DEF HearAnswer, WorkersTypeOK
  <2>3. reason' \in [Dials -> Reasons]
    BY <1>5 DEF HearAnswer, WorkersTypeOK, Reasons, Transient
  <2>4. stage' \in [Dials -> Stages]
    BY <1>5 DEF HearAnswer, WorkersTypeOK, Stages
  <2> QED
    BY <1>2, <1>5, <2>2, <2>3, <2>4 DEF HearAnswer, WorkersTypeOK
<1> QED
  BY <1>3, <1>4, <1>5 DEF Hear

LEMMA LoseTypes ==
  ASSUME SignalsTypeOK, LoseSignal
  PROVE  SignalsTypeOK'
<1>1. troubles' \in 0..MaxTroubles
  BY UnlessTypes DEF LoseSignal
<1>2. toControlled' \in Seq(ToControlled) /\ toController' \in Seq(ToController)
  <2>1. CASE toControlled # <<>> /\ toControlled' = Tail(toControlled) /\ UNCHANGED toController
    BY <2>1 DEF SignalsTypeOK
  <2>2. CASE toController # <<>> /\ toController' = Tail(toController) /\ UNCHANGED toControlled
    BY <2>2 DEF SignalsTypeOK
  <2> QED
    BY <2>1, <2>2, Zenon DEF LoseSignal
<1> QED
  BY <1>1, <1>2 DEF SignalsTypeOK
-----------------------------------------------------------------------------
(* The type invariant *)

\* What a step of the controller's worker is, whoever is bound to take it.
ControllerStep ==
  \/ \E n \in Free, expected \in BOOLEAN :
        FirstDial(n) \/ ReconnectTimeout(n, expected) \/ restartAfterNetworkPathChange(n, expected)
  \/ \E expected \in BOOLEAN :
        PeerStartupTimeout(expected) \/ HeartbeatSilence(expected) \/ Fails(expected)
  \/ setNetworkPath \/ requestShutdown \/ performShutdown
  \/ parseWsMsg \/ RunPosted
  \/ AppliesAndAnswers \/ Connects \/ Flickers

LEMMA ControllerSteps == Controller \/ PeerConnects => ControllerStep /\ UNCHANGED workerVars
<1>1. Quiet \in BOOLEAN /\ Deserted \in BOOLEAN
  BY DEF Quiet, Deserted
<1>2. Controller => ControllerStep /\ UNCHANGED workerVars
  BY <1>1, Zenon DEF Controller, ControllerStep
<1> QED
  BY <1>2, Zenon DEF PeerConnects, ControllerStep

\* Every other step leaves the controller's worker alone.
LEMMA StepKinds ==
  ASSUME [Next]_vars
  PROVE  ControllerStep \/ UNCHANGED sessionVars
BY ControllerSteps, Zenon DEF Next, Worker, WorkerConnects, vars

LEMMA TypesStep ==
  ASSUME TypeOK, [Next]_vars
  PROVE  TypeOK'
<1>0. SignalsTypeOK /\ SessionTypes /\ WorkersTypeOK
  BY SessionTypesAre DEF TypeOK
<1>1. ASSUME ControllerStep, UNCHANGED workerVars
      PROVE  TypeOK'
  <2>1. WorkersTypeOK'
    BY <1>0, <1>1 DEF WorkersTypeOK, workerVars
  <2>2. SignalsTypeOK' /\ SessionTypes'
    <3>1. CASE \E n \in Free, expected \in BOOLEAN :
                 FirstDial(n) \/ ReconnectTimeout(n, expected) \/ restartAfterNetworkPathChange(n, expected)
      BY <1>0, <3>1, FreeIsDial, DialTypes
    <3>2. CASE \E expected \in BOOLEAN : PeerStartupTimeout(expected) \/ HeartbeatSilence(expected)
      BY <1>0, <3>2, SilenceTypes
    <3>3. CASE \E expected \in BOOLEAN : Fails(expected)
      BY <1>0, <3>3, ExternalTypes
    <3>4. CASE setNetworkPath \/ requestShutdown \/ performShutdown
      BY <1>0, <3>4, CloseTypes
    <3>5. CASE parseWsMsg \/ RunPosted
      BY <1>0, <3>5, ParseTypes, RunTypes
    <3>6. CASE AppliesAndAnswers \/ Connects \/ Flickers
      BY <1>0, <3>6, ExternalTypes
    <3> QED
      BY <1>1, <3>1, <3>2, <3>3, <3>4, <3>5, <3>6 DEF ControllerStep
  <2> QED
    BY <2>1, <2>2, SessionTypesAreNext DEF TypeOK
<1>2. ASSUME SignalsTypeOK', WorkersTypeOK', UNCHANGED sessionVars
      PROVE  TypeOK'
  <2>1. SessionTypes'
    BY <1>0, <1>2 DEF SessionTypes, sessionVars, native, negotiation, goodbye, reconnect, life, history
  <2> QED
    BY <1>2, <2>1, SessionTypesAreNext DEF TypeOK
<1>3. ASSUME NEW n \in Dials, Worker(n) \/ WorkerConnects(n)
      PROVE  TypeOK'
  <2>1. CASE Worker(n)
    <3>1. SignalsTypeOK' /\ WorkersTypeOK'
      BY <1>0, <2>1, AdmissionTypes, WorkerTypes DEF Worker, WorkerStep
    <3> QED
      BY <1>2, <2>1, <3>1 DEF Worker
  <2>2. CASE WorkerConnects(n)
    <3>1. SignalsTypeOK' /\ WorkersTypeOK'
      BY <1>0, <2>2 DEF WorkerConnects, SignalsTypeOK, WorkersTypeOK, Stages, signalVars, wires
    <3> QED
      BY <1>2, <2>2, <3>1 DEF WorkerConnects
  <2> QED
    BY <1>3, <2>1, <2>2
<1>4. CASE Hear /\ UNCHANGED sessionVars
  BY <1>0, <1>2, <1>4, HearTypes
<1>5. CASE LoseSignal /\ UNCHANGED <<sessionVars, workerVars>>
  <2>1. SignalsTypeOK' /\ WorkersTypeOK'
    BY <1>0, <1>5, LoseTypes DEF WorkersTypeOK, workerVars
  <2> QED
    BY <1>2, <1>5, <2>1
<1>6. CASE UNCHANGED vars
  <2>1. SignalsTypeOK' /\ WorkersTypeOK'
    BY <1>0, <1>6 DEF vars, WorkersTypeOK, workerVars, SignalsTypeOK, signalVars, wires
  <2> QED
    BY <1>2, <1>6, <2>1 DEF vars
<1> QED
  BY <1>1, <1>3, <1>4, <1>5, <1>6, ControllerSteps, Zenon DEF Next

LEMMA InitTypeOK == Init => TypeOK
<1>. SUFFICES ASSUME Init PROVE TypeOK
  OBVIOUS
<1>1. SignalsTypeOK
  BY DEF Init, SignalsInit, SignalsTypeOK
<1>2. SessionTypes
  <2>1. posted \in Seq(Posted)
    BY DEF Init, SessionInit
  <2> QED
    BY <2>1, Zenon DEF Init, SessionInit, SessionTypes
<1>3. WorkersTypeOK
  BY DEF Init, WorkersInit, WorkersTypeOK, Stages, Reasons, Terminal
<1> QED
  BY <1>1, <1>2, <1>3, SessionTypesAre DEF TypeOK

(* The state of the controller's worker, of its peer connection and of the  *)
(* workers it makes keeps its types, for any number of CONNECTs: an offer   *)
(* waits only behind one in flight (handleRemoteDescriptionMessage).        *)
THEOREM ReconnectTypes == Spec => []TypeOK
BY InitTypeOK, TypesStep, PTL DEF Spec

-----------------------------------------------------------------------------
(* The timers *)

\* The device was called, and neither side has taken the call back.
Open == wired /\ ~m_disconnectSent /\ ~m_remoteDisconnectReceived

\* m_reconnectPending is set only while the timer runs.
PendingIsTimer == m_reconnectPending = m_reconnectTimer

\* After destroy there is no peer connection, and for a window that may still
\* reconnect the single shot of setNetworkPath runs, which runs at no other time.
Dormant ==
  /\ m_shutdownStarted => peer = 0 /\ ~wired
  /\ pathTimer => started /\ m_shutdownStarted
  /\ started /\ m_allowReconnect /\ closing = "no" /\ m_shutdownStarted => pathTimer

\* The startup timer is for a peer connection that is not up yet.
Watched == m_peerStartupTimer => peer # 0 /\ ~m_connected

\* The device is called again only after a goodbye.
TakenBack ==
  /\ ~started => ~wired
  /\ m_reconnectTimer => ~Open

TimerInv == PendingIsTimer /\ Dormant /\ Watched /\ TakenBack

\* A request starts the timer if it may, after a goodbye.
LEMMA RequestStarts ==
  ASSUME SessionTypes, PendingIsTimer, NEW heard, requestSessionReconnect(heard)
  PROVE  /\ PendingIsTimer'
         /\ MayReconnect => m_reconnectTimer'
         /\ m_reconnectTimer => m_reconnectTimer'
         /\ m_reconnectTimer' => m_reconnectTimer \/ m_disconnectSent' \/ heard
         /\ m_disconnectSent => m_disconnectSent'
BY Zenon DEF SessionTypes, PendingIsTimer, requestSessionReconnect, scheduleReconnect, SayGoodbye, reconnect

\* The handlers that only request.
LEMMA RequestTimers ==
  ASSUME SessionTypes, TimerInv, NEW heard,
         \/ requestSessionReconnect(heard)
         \/ UNCHANGED <<toControlled, m_disconnectSent, reconnect>>,
         heard => m_remoteDisconnectReceived', m_remoteDisconnectReceived => m_remoteDisconnectReceived',
         UNCHANGED <<started, peer, wired, m_allowReconnect, m_shutdownStarted, closing, pathTimer>>,
         m_peerStartupTimer' => m_peerStartupTimer,
         m_connected' => m_connected
  PROVE  TimerInv'
<1>1. /\ PendingIsTimer'
      /\ m_reconnectTimer' => m_reconnectTimer \/ m_disconnectSent' \/ heard
      /\ m_disconnectSent => m_disconnectSent'
  <2>1. CASE requestSessionReconnect(heard)
    <3>1. PendingIsTimer
      BY DEF TimerInv
    <3> QED
      BY <2>1, <3>1, RequestStarts
  <2>2. CASE UNCHANGED <<toControlled, m_disconnectSent, reconnect>>
    BY <2>2 DEF TimerInv, PendingIsTimer, reconnect
  <2> QED
    BY <2>1, <2>2
<1>2. Dormant' /\ Watched'
  BY Zenon DEF TimerInv, Dormant, Watched
<1>3. TakenBack'
  BY <1>1, Zenon DEF TimerInv, TakenBack, Open
<1> QED
  BY <1>1, <1>2, <1>3 DEF TimerInv

LEMMA InitTimers ==
  ASSUME SessionTypes, NEW n \in Dials, NEW expected, init(n, expected),
         ~pathTimer'
  PROVE  TimerInv'
<1>1. CASE InitSucceeds(n, expected)
  BY <1>1, DialsNotZero DEF InitSucceeds, Dial, Cleared, stopReconnect, TimerInv, PendingIsTimer,
                            Dormant, Watched, TakenBack
<1>2. CASE InitFails(n)
  BY <1>2 DEF InitFails, Dial, Cleared, TimerInv, PendingIsTimer, Dormant, Watched, TakenBack, Open
<1> QED
  BY <1>1, <1>2 DEF init

LEMMA DestroyTimers ==
  ASSUME destroy, stopReconnect, started,
         UNCHANGED started,
         pathTimer' \/ ~m_allowReconnect' \/ closing' # "no"
  PROVE  TimerInv'
BY DEF destroy, Cleared, stopReconnect, TimerInv, PendingIsTimer, Dormant, Watched, TakenBack

LEMMA TimersStep ==
  ASSUME SessionTypes, TimerInv, ControllerStep
  PROVE  TimerInv'
<1>1. ASSUME NEW n \in Dials, FirstDial(n)
      PROVE  TimerInv'
  BY <1>1, InitTimers DEF FirstDial, TimerInv, Dormant
<1>2. ASSUME NEW n \in Dials, NEW expected, ReconnectTimeout(n, expected)
      PROVE  TimerInv'
  <2>1. CASE init(n, expected) /\ UNCHANGED <<pathTimer, endedBy>>
    BY <1>2, <2>1, InitTimers DEF ReconnectTimeout, TimerInv, Dormant
  <2>2. CASE ~(init(n, expected) /\ UNCHANGED <<pathTimer, endedBy>>)
    <3>1. /\ closing = "requested" /\ stopReconnect /\ destroy
          /\ UNCHANGED <<started, closing, pathTimer>> /\ ~m_shutdownStarted
      BY <1>2, <2>2, Zenon DEF ReconnectTimeout
    <3> QED
      BY <3>1 DEF destroy, Cleared, stopReconnect, TimerInv, PendingIsTimer, Dormant, Watched,
                  TakenBack, Open
  <2> QED
    BY <2>1, <2>2
<1>3. ASSUME NEW n \in Dials, NEW expected, restartAfterNetworkPathChange(n, expected)
      PROVE  TimerInv'
  <2>1. CASE init(n, expected)
    BY <1>3, <2>1, InitTimers DEF restartAfterNetworkPathChange
  <2>2. CASE ~init(n, expected)
    <3>1. /\ ~pathTimer' /\ closing = "requested"
          /\ UNCHANGED <<started, peer, native, posted, m_connected, negotiation, life,
                         goodbye, m_peerStartupTimer, reconnect>>
      BY <1>3, <2>2, Zenon DEF restartAfterNetworkPathChange
    <3> QED
      BY <3>1 DEF TimerInv, PendingIsTimer, Dormant, Watched, TakenBack, Open, native, life,
                  goodbye, reconnect
  <2> QED
    BY <2>1, <2>2
<1>4. ASSUME NEW expected, PeerStartupTimeout(expected) \/ HeartbeatSilence(expected)
      PROVE  TimerInv'
  <2>1. \/ requestSessionReconnect(m_remoteDisconnectReceived)
        \/ UNCHANGED <<toControlled, m_disconnectSent, reconnect>>
    BY <1>4, Zenon DEF PeerStartupTimeout, HeartbeatSilence
  <2>2. /\ UNCHANGED <<started, peer, native, life, m_remoteDisconnectReceived, pathTimer, m_connected>>
        /\ m_peerStartupTimer' = FALSE \/ m_peerStartupTimer' = m_peerStartupTimer
    BY <1>4, Zenon DEF PeerStartupTimeout, HeartbeatSilence
  <2> QED
    BY <2>1, <2>2, RequestTimers DEF native, life
<1>5. CASE setNetworkPath
  BY <1>5, DestroyTimers DEF setNetworkPath
<1>6. CASE requestShutdown
  BY <1>6 DEF requestShutdown, TimerInv, PendingIsTimer, Dormant, Watched, TakenBack, Open, native,
              goodbye, reconnect
<1>7. CASE performShutdown
  <2>1. /\ destroy /\ stopReconnect /\ closing' = "done" /\ ~pathTimer'
        /\ UNCHANGED <<started>>
    BY <1>7 DEF performShutdown
  <2> QED
    BY <2>1 DEF destroy, Cleared, stopReconnect, TimerInv, PendingIsTimer, Dormant, Watched,
                TakenBack, Open
<1>8. CASE parseWsMsg
  <2>1. UNCHANGED <<started, peer, wired, m_connected, m_shutdownStarted, closing,
                    m_peerStartupTimer, pathTimer>>
    BY <1>8, Zenon DEF parseWsMsg, ParseOffer, ParseError, ParseDisconnect, Take
  <2>2. ASSUME m_allowReconnect' = FALSE, stopReconnect
        PROVE  TimerInv'
    BY <2>1, <2>2 DEF stopReconnect, TimerInv, PendingIsTimer, Dormant, Watched, TakenBack, Open
  <2>3. CASE ParseOffer
    <3>1. UNCHANGED <<m_allowReconnect, goodbye, reconnect>>
      BY <2>3 DEF ParseOffer
    <3> QED
      BY <2>1, <3>1 DEF TimerInv, PendingIsTimer, Dormant, Watched, TakenBack, Open, goodbye, reconnect
  <2>4. CASE ParseError
    <3>1. /\ \/ requestSessionReconnect(m_remoteDisconnectReceived)
             \/ UNCHANGED <<toControlled, m_disconnectSent, reconnect>>
          /\ UNCHANGED <<m_allowReconnect, m_remoteDisconnectReceived>>
      BY <2>4, Zenon DEF ParseError
    <3> QED
      BY <2>1, <3>1, RequestTimers
  <2>5. CASE ParseDisconnect
    <3>1. \/ UNCHANGED <<m_allowReconnect, goodbye, reconnect, toControlled>>
          \/ /\ m_remoteDisconnectReceived' = TRUE
             /\ requestSessionReconnect(TRUE) /\ UNCHANGED m_allowReconnect
          \/ m_allowReconnect' = FALSE /\ stopReconnect
      BY <2>5, Zenon DEF ParseDisconnect
    <3>2. CASE UNCHANGED <<m_allowReconnect, goodbye, reconnect, toControlled>>
      BY <2>1, <3>2 DEF TimerInv, PendingIsTimer, Dormant, Watched, TakenBack, Open, goodbye, reconnect
    <3>3. CASE /\ m_remoteDisconnectReceived' = TRUE
               /\ requestSessionReconnect(TRUE) /\ UNCHANGED m_allowReconnect
      BY <2>1, <3>3, RequestTimers
    <3> QED
      BY <2>2, <3>1, <3>2, <3>3
  <2> QED
    BY <1>8, <2>3, <2>4, <2>5 DEF parseWsMsg
<1>9. CASE RunPosted
  <2>1. UNCHANGED <<started, peer, wired, life, m_remoteDisconnectReceived, pathTimer>>
    BY <1>9, Zenon DEF RunPosted, RunTransport, RunConnected, RunDisconnected, RunFailed, RunRequest, RunDescribed,
                       RunUndescribed, RunAnswer, Run
  <2>2. CASE RunTransport \/ RunConnected
    <3>1. /\ \/ UNCHANGED <<m_connected, m_peerStartupTimer, reconnect>>
             \/ UNCHANGED <<m_connected, m_peerStartupTimer>> /\ stopReconnect
             \/ m_peerStartupTimer' = FALSE /\ stopReconnect
          /\ UNCHANGED m_disconnectSent
      BY <2>2, Zenon DEF RunTransport, RunConnected
    <3>2. CASE UNCHANGED <<m_connected, m_peerStartupTimer, reconnect>>
      BY <2>1, <3>1, <3>2 DEF TimerInv, PendingIsTimer, Dormant, Watched, TakenBack, Open, life,
                              reconnect
    <3>3. CASE m_peerStartupTimer' = FALSE /\ stopReconnect
      BY <2>1, <3>1, <3>3 DEF stopReconnect, TimerInv, PendingIsTimer, Dormant, Watched, TakenBack,
                              Open, life
    <3>4. CASE UNCHANGED <<m_connected, m_peerStartupTimer>> /\ stopReconnect
      BY <2>1, <3>1, <3>4 DEF stopReconnect, TimerInv, PendingIsTimer, Dormant, Watched, TakenBack,
                              Open, life
    <3> QED
      BY <3>1, <3>2, <3>3, <3>4
  <2>3. CASE ~RunTransport /\ ~RunConnected
    <3>1. \/ requestSessionReconnect(m_remoteDisconnectReceived)
          \/ UNCHANGED <<toControlled, m_disconnectSent, reconnect>>
          \/ UNCHANGED <<m_disconnectSent, reconnect>>
      BY <1>9, <2>3, Zenon DEF RunPosted, RunDisconnected, RunFailed, RunRequest, RunDescribed,
                         RunUndescribed, RunAnswer
    <3>2. m_peerStartupTimer' => m_peerStartupTimer
      BY <1>9, <2>3, Zenon DEF RunPosted, RunDisconnected, RunFailed, RunRequest, RunDescribed,
                         RunUndescribed, RunAnswer
    <3>3. m_connected' => m_connected
      BY <1>9, <2>3, Zenon DEF RunPosted, RunDisconnected, RunFailed, RunRequest, RunDescribed,
                         RunUndescribed, RunAnswer
    <3>4. CASE requestSessionReconnect(m_remoteDisconnectReceived)
      BY <2>1, <3>2, <3>3, <3>4, RequestTimers DEF life
    <3>5. CASE UNCHANGED <<m_disconnectSent, reconnect>>
      BY <2>1, <3>2, <3>3, <3>5 DEF TimerInv, PendingIsTimer, Dormant, Watched, TakenBack, Open, life,
                                    reconnect
    <3> QED
      BY <3>1, <3>4, <3>5
  <2> QED
    BY <2>2, <2>3
<1>10. ASSUME NEW expected, AppliesAndAnswers \/ Connects \/ Flickers \/ Fails(expected)
       PROVE  TimerInv'
  <2>1. UNCHANGED <<started, peer, wired, m_connected, life, goodbye,
                    m_peerStartupTimer, reconnect, pathTimer>>
    BY <1>10, Zenon DEF AppliesAndAnswers, AppliesOffer, MakesAnswer, Connects, Flickers, Fails, Native
  <2> QED
    BY <2>1 DEF TimerInv, PendingIsTimer, Dormant, Watched, TakenBack, Open, life, goodbye, reconnect
<1> QED
  BY <1>1, <1>2, <1>3, <1>4, <1>5, <1>6, <1>7, <1>8, <1>9, <1>10, FreeIsDial, Zenon DEF ControllerStep

-----------------------------------------------------------------------------
(* What a peer connection has posted *)

\* Entry j says that the peer connection there is has failed.
ToldFailure(j) == posted[j].by = peer /\ posted[j].what \in {"failed", "request"}

FailurePosted == \E j \in 1..Len(posted) : ToldFailure(j)

\* What a peer connection posts when it is up.
Reports == {"transport", "connected"}

\* A connection that is reported is up, or its failure is reported after it.
FailureFollows ==
  \A i \in 1..Len(posted) :
    posted[i].by = peer /\ posted[i].what \in Reports =>
      ice = "up" \/ \E j \in (i + 1)..Len(posted) : ToldFailure(j)

\* A new peer connection has posted nothing.
LEMMA NothingPosted ==
  ASSUME SessionTypes, NEW n \in Free
  PROVE  \A i \in 1..Len(posted) : posted[i].by # n
<1>. SUFFICES ASSUME NEW i \in 1..Len(posted), posted[i].by = n PROVE FALSE
  OBVIOUS
<1>1. posted[i] \in Range(posted)
  BY DEF Range, SessionTypes
<1>2. n \in UNION {{e.by} \cup (IF e.what = "answer" THEN {e.to} ELSE {}) : e \in Range(posted)}
  <2>1. posted[i].by \in {posted[i].by} \cup (IF posted[i].what = "answer" THEN {posted[i].to} ELSE {})
    BY Zenon
  <2> QED
    BY <1>1, <2>1, SMT
<1>3. n \in InUse
  BY <1>2, Zenon DEF InUse
<1> QED
  BY <1>3, FreeIsDial

\* With no post of the peer connection there is, there is nothing to follow.
LEMMA NoneFollow ==
  ASSUME \A i \in 1..Len(posted') : posted'[i].by # peer'
  PROVE  FailureFollows'
BY DEF FailureFollows

LEMMA FollowsFrame ==
  ASSUME FailureFollows, UNCHANGED <<posted, peer, ice>>
  PROVE  FailureFollows'
BY DEF FailureFollows, ToldFailure

\* What one of the dispatcher's turns leaves.
LEMMA TailPosts ==
  ASSUME SessionTypes, posted # <<>>, posted' = Tail(posted), UNCHANGED peer
  PROVE  /\ Len(posted) \in Nat /\ Len(posted) > 0
         /\ Len(posted') = Len(posted) - 1
         /\ \A i \in 1..Len(posted') : posted'[i] = posted[i + 1]
         /\ \A j \in 2..Len(posted) : ToldFailure(j) => ToldFailure(j - 1)' /\ j - 1 \in 1..Len(posted')
<1>1. posted \in Seq(Posted) /\ posted # <<>> /\ posted' = Tail(posted)
  BY DEF SessionTypes
<1>2. /\ Len(posted) \in Nat /\ Len(posted) > 0
      /\ Len(posted') = Len(posted) - 1
      /\ \A i \in 1..Len(posted') : posted'[i] = posted[i + 1]
  BY <1>1
<1>3. ASSUME NEW j \in 2..Len(posted), ToldFailure(j)
      PROVE  ToldFailure(j - 1)' /\ j - 1 \in 1..Len(posted')
  <2>1. j - 1 \in 1..Len(posted') /\ (j - 1) + 1 = j
    BY <1>2
  <2>2. posted'[j - 1] = posted[j]
    BY <1>2, <2>1
  <2> QED
    BY <1>3, <2>1, <2>2 DEF ToldFailure
<1> QED
  BY <1>2, <1>3

LEMMA FollowsTail ==
  ASSUME SessionTypes, FailureFollows, posted # <<>>, posted' = Tail(posted),
         UNCHANGED <<peer, ice>>
  PROVE  FailureFollows'
<1>. SUFFICES ASSUME NEW i \in 1..Len(posted'), posted'[i].by = peer', posted'[i].what \in Reports,
                     ice' # "up"
              PROVE  \E j \in (i + 1)..Len(posted') : ToldFailure(j)'
  BY DEF FailureFollows
<1>1. /\ Len(posted) \in Nat
      /\ Len(posted') = Len(posted) - 1
      /\ posted'[i] = posted[i + 1]
  BY TailPosts
<1>2. i + 1 \in 1..Len(posted)
  BY <1>1
<1>3. PICK j \in (i + 1 + 1)..Len(posted) : ToldFailure(j)
  BY <1>1, <1>2 DEF FailureFollows
<1>4. j - 1 \in (i + 1)..Len(posted') /\ j \in 2..Len(posted)
  BY <1>1, <1>3
<1>5. ToldFailure(j - 1)'
  BY <1>3, <1>4, TailPosts
<1> QED
  BY <1>4, <1>5

\* A peer connection's post comes last.
LEMMA MorePosts ==
  ASSUME SessionTypes, NEW events \in Seq(Posted), posted' = posted \o events, UNCHANGED peer
  PROVE  /\ Len(posted) \in Nat /\ Len(events) \in Nat /\ Len(posted') = Len(posted) + Len(events)
         /\ \A i \in 1..Len(posted) : posted'[i] = posted[i] /\ (ToldFailure(i)' <=> ToldFailure(i))
         /\ \A k \in 1..Len(events) : posted'[Len(posted) + k] = events[k]
<1>1. posted \in Seq(Posted)
  BY DEF SessionTypes
<1>2. /\ Len(posted) \in Nat /\ Len(events) \in Nat /\ Len(posted') = Len(posted) + Len(events)
      /\ \A i \in 1..Len(posted) : posted'[i] = posted[i]
      /\ \A k \in 1..Len(events) : posted'[Len(posted) + k] = events[k]
  BY <1>1
<1> QED
  BY <1>2 DEF ToldFailure

LEMMA LastPost ==
  ASSUME SessionTypes, NEW events \in Seq(Posted), posted' = posted \o events, UNCHANGED peer,
         events # <<>>, events[Len(events)].by = peer,
         events[Len(events)].what \in {"failed", "request"}
  PROVE  \E k \in Nat : k = Len(posted') /\ k > Len(posted) /\ ToldFailure(k)'
<1>1. /\ Len(posted) \in Nat /\ Len(events) \in Nat /\ Len(posted') = Len(posted) + Len(events)
      /\ \A k \in 1..Len(events) : posted'[Len(posted) + k] = events[k]
  BY MorePosts
<1>2. Len(events) \in 1..Len(events)
  BY <1>1
<1>3. PICK k \in Nat : k = Len(posted) + Len(events)
  BY <1>1
<1>4. posted'[k] = events[Len(events)]
  BY <1>1, <1>2, <1>3
<1>5. ToldFailure(k)'
  BY <1>4 DEF ToldFailure
<1> QED
  BY <1>1, <1>2, <1>3, <1>5

\* What is posted says that the connection is up only if it is, and that it is
\* not only at the end.
LEMMA FollowsMore ==
  ASSUME SessionTypes, FailureFollows, NEW events \in Seq(Posted), posted' = posted \o events,
         UNCHANGED peer,
         ice = "up" => \/ ice' = "up"
                       \/ /\ events # <<>>
                          /\ events[Len(events)].by = peer
                          /\ events[Len(events)].what \in {"failed", "request"},
         (\E k \in 1..Len(events) : events[k].what \in Reports) => ice' = "up"
  PROVE  FailureFollows'
<1>. SUFFICES ASSUME NEW i \in 1..Len(posted'), posted'[i].by = peer', posted'[i].what \in Reports,
                     ice' # "up"
              PROVE  \E j \in (i + 1)..Len(posted') : ToldFailure(j)'
  BY DEF FailureFollows
<1>1. /\ Len(posted) \in Nat /\ Len(events) \in Nat /\ Len(posted') = Len(posted) + Len(events)
      /\ \A h \in 1..Len(posted) : posted'[h] = posted[h] /\ (ToldFailure(h)' <=> ToldFailure(h))
      /\ \A k \in 1..Len(events) : posted'[Len(posted) + k] = events[k]
  BY MorePosts
<1>2. i \in 1..Len(posted)
  <2>. SUFFICES ASSUME i \notin 1..Len(posted) PROVE FALSE
    OBVIOUS
  <2>1. i - Len(posted) \in 1..Len(events) /\ Len(posted) + (i - Len(posted)) = i
    BY <1>1
  <2>2. events[i - Len(posted)] = posted'[i]
    BY <1>1, <2>1
  <2> QED
    BY <2>1, <2>2
<1>3. CASE ice = "up"
  <2>1. events # <<>> /\ events[Len(events)].by = peer
           /\ events[Len(events)].what \in {"failed", "request"}
    BY <1>3
  <2>2. PICK k \in Nat : k = Len(posted') /\ k > Len(posted) /\ ToldFailure(k)'
    BY <2>1, LastPost
  <2>3. k \in (i + 1)..Len(posted')
    BY <1>1, <1>2, <2>2
  <2> QED
    BY <2>2, <2>3
<1>4. CASE ice # "up"
  <2>1. PICK j \in (i + 1)..Len(posted) : ToldFailure(j)
    BY <1>1, <1>2, <1>4 DEF FailureFollows
  <2>2. j \in (i + 1)..Len(posted') /\ j \in 1..Len(posted)
    BY <1>1, <1>2, <2>1
  <2> QED
    BY <1>1, <2>1, <2>2
<1> QED
  BY <1>3, <1>4

\* What libwebrtc's threads post: that a connection is up while it is, and the
\* end of one that was.
LEMMA ExternalPosts ==
  ASSUME SessionTypes, NEW expected,
         AppliesAndAnswers \/ Connects \/ Flickers \/ Fails(expected)
  PROVE  \E events \in Seq(Posted) :
           /\ Native(events)
           /\ ice = "up" => \/ ice' = "up"
                           \/ /\ events # <<>>
                              /\ events[Len(events)].by = peer
                              /\ events[Len(events)].what \in {"failed", "request"}
           /\ (\E k \in 1..Len(events) : events[k].what \in Reports) => ice' = "up"
<1>0. peer # 0 /\ \A what \in Events : By(what) \in Posted
  <2>1. peer # 0
    BY Zenon DEF AppliesAndAnswers, AppliesOffer, MakesAnswer, Connects, Flickers, Fails, Native
  <2> QED
    BY <2>1, OwnPosts
<1>1. CASE MakesAnswer
  <2>1. PICK events : /\ Native(events) /\ UNCHANGED ice
                      /\ \/ events = <<[what |-> "answer", by |-> peer, to |-> answering]>>
                         \/ events = <<>>
    BY <1>1, Zenon DEF MakesAnswer
  <2>2. [what |-> "answer", by |-> peer, to |-> answering] \in Posted
    BY <1>0, <1>1, PostedTypes DEF SessionTypes, MakesAnswer
  <2>3. events \in Seq(Posted)
    <3>1. <<>> \in Seq(Posted) /\ <<[what |-> "answer", by |-> peer, to |-> answering]>> \in Seq(Posted)
      BY <2>2
    <3> QED
      BY <2>1, <3>1, Zenon
  <2>4. \A k \in 1..Len(events) : events[k].what \notin Reports
    <3>1. CASE events = <<>>
      BY <3>1
    <3>2. CASE events = <<[what |-> "answer", by |-> peer, to |-> answering]>>
      BY <3>2 DEF Reports
    <3> QED
      BY <2>1, <3>1, <3>2
  <2> QED
    BY <2>1, <2>3, <2>4
<1>2. CASE AppliesOffer
  <2>1. PICK what \in {"described", "undescribed"} : Native(<<By(what)>>) /\ UNCHANGED ice
    BY <1>2, Zenon DEF AppliesOffer
  <2>2. By(what) \in Posted
    BY <1>0 DEF Events
  <2>3. /\ <<By(what)>> \in Seq(Posted)
        /\ \A k \in 1..Len(<<By(what)>>) : <<By(what)>>[k].what \notin Reports
    BY <2>2 DEF By, Reports
  <2> QED
    BY <2>1, <2>3
<1>3. CASE Connects
  <2>1. PICK events : /\ Native(events) /\ ice' = "up"
                      /\ events = IF wired THEN <<By("transport"), By("connected")>> ELSE <<>>
    BY <1>3, Zenon DEF Connects
  <2>2. By("transport") \in Posted /\ By("connected") \in Posted
    BY <1>0 DEF Events
  <2>3. events \in Seq(Posted)
    BY <2>1, <2>2
  <2> QED
    BY <2>1, <2>3
<1>4. CASE Flickers
  <2>1. PICK events : /\ Native(events) /\ ice' = "up"
                      /\ events = <<By("disconnected"), By("transport"), By("connected")>>
    BY <1>4, Zenon DEF Flickers
  <2>2. By("disconnected") \in Posted /\ By("transport") \in Posted /\ By("connected") \in Posted
    BY <1>0 DEF Events
  <2>3. events \in Seq(Posted)
    BY <2>1, <2>2
  <2> QED
    BY <2>1, <2>3
<1>5. CASE Fails(expected)
  <2>1. PICK what \in {"failed", "request"} : Native(<<By(what)>>)
    BY <1>5, Zenon DEF Fails
  <2>2. By(what) \in Posted
    BY <1>0, <2>1 DEF Events
  <2>3. <<By(what)>> \in Seq(Posted)
    BY <2>2
  <2>4. PICK events \in Seq(Posted) : events = <<By(what)>>
    BY <2>3, Zenon
  <2>5. /\ events # <<>> /\ events[Len(events)].by = peer
        /\ events[Len(events)].what \in {"failed", "request"}
        /\ \A k \in 1..Len(events) : events[k].what \notin Reports
    BY <2>1, <2>4 DEF By, Reports
  <2> QED
    BY <2>1, <2>4, <2>5
<1> QED
  BY <1>1, <1>2, <1>3, <1>4, <1>5 DEF AppliesAndAnswers

LEMMA FollowsStep ==
  ASSUME SessionTypes, SessionTypes', FailureFollows, ControllerStep
  PROVE  FailureFollows'
<1>1. ASSUME peer' = 0, UNCHANGED posted
      PROVE  FailureFollows'
  <2>1. \A i \in 1..Len(posted) : posted[i].by # 0
    BY PostedTypes, DialsNotZero DEF SessionTypes
  <2> QED
    BY <1>1, <2>1, NoneFollow
<1>2. ASSUME NEW n \in Free, NEW expected, init(n, expected)
      PROVE  FailureFollows'
  <2>1. (peer' = 0 \/ peer' = n) /\ UNCHANGED posted
    BY <1>2 DEF init, InitSucceeds, InitFails, Dial
  <2>2. \A i \in 1..Len(posted) : posted[i].by # n
    BY NothingPosted
  <2>3. CASE peer' = n
    BY <2>1, <2>2, <2>3, NoneFollow
  <2> QED
    BY <1>1, <2>1, <2>3
<1>3. ASSUME NEW n \in Free, NEW expected,
             FirstDial(n) \/ ReconnectTimeout(n, expected) \/ restartAfterNetworkPathChange(n, expected)
      PROVE  FailureFollows'
  <2>1. \/ \E e \in {TRUE, expected} : init(n, e)
        \/ destroy /\ UNCHANGED posted
        \/ UNCHANGED <<peer, native, posted>>
    BY <1>3, Zenon DEF FirstDial, ReconnectTimeout, restartAfterNetworkPathChange
  <2>2. CASE destroy /\ UNCHANGED posted
    BY <1>1, <2>2 DEF destroy
  <2>3. CASE UNCHANGED <<peer, native, posted>>
    BY <2>3, FollowsFrame DEF native
  <2> QED
    BY <1>2, <2>1, <2>2, <2>3
<1>4. CASE setNetworkPath \/ performShutdown
  BY <1>1, <1>4 DEF setNetworkPath, performShutdown, destroy
<1>5. ASSUME NEW expected,
             PeerStartupTimeout(expected) \/ HeartbeatSilence(expected) \/ requestShutdown \/ parseWsMsg
      PROVE  FailureFollows'
  <2>1. UNCHANGED <<posted, peer, ice>>
    BY <1>5, Zenon DEF PeerStartupTimeout, HeartbeatSilence, requestShutdown, parseWsMsg, ParseOffer,
                       ParseError, ParseDisconnect, Take, native
  <2> QED
    BY <2>1, FollowsFrame
<1>6. CASE RunPosted
  <2>1. posted # <<>> /\ posted' = Tail(posted) /\ UNCHANGED <<peer, ice>>
    BY <1>6, Zenon DEF RunPosted, RunTransport, RunConnected, RunDisconnected, RunFailed, RunRequest, RunDescribed,
                       RunUndescribed, RunAnswer, Run
  <2> QED
    BY <2>1, FollowsTail
<1>7. ASSUME NEW expected, AppliesAndAnswers \/ Connects \/ Flickers \/ Fails(expected)
      PROVE  FailureFollows'
  <2>1. PICK events \in Seq(Posted) :
           /\ Native(events)
           /\ ice = "up" => \/ ice' = "up"
                           \/ /\ events # <<>>
                              /\ events[Len(events)].by = peer
                              /\ events[Len(events)].what \in {"failed", "request"}
           /\ (\E k \in 1..Len(events) : events[k].what \in Reports) => ice' = "up"
    BY <1>7, ExternalPosts
  <2>2. posted' = posted \o events /\ UNCHANGED peer
    BY <2>1 DEF Native
  <2> QED
    BY <2>1, <2>2, FollowsMore
<1> QED
  BY <1>3, <1>4, <1>5, <1>6, <1>7 DEF ControllerStep

-----------------------------------------------------------------------------
(* The window is not stranded. *)

Trying == started /\ m_allowReconnect /\ closing = "no" /\ ~mistaken
Timed == m_peerStartupTimer \/ m_reconnectTimer \/ pathTimer
Awaiting == Timed \/ ice = "up" \/ FailurePosted

LEMMA NeverStrandedIs ==
  SessionTypes => (NeverStranded <=> PendingIsTimer /\ (Trying => Awaiting))
<1>. SUFFICES ASSUME SessionTypes PROVE NeverStranded <=> PendingIsTimer /\ (Trying => Awaiting)
  OBVIOUS
<1>1. (\E e \in Range(posted) : e.by = peer /\ e.what \in {"failed", "request"}) <=> FailurePosted
  BY DEF Range, FailurePosted, ToldFailure, SessionTypes
<1> QED
  BY <1>1, Zenon DEF NeverStranded, PendingIsTimer, Trying, Awaiting, Timed

LEMMA NeverStrandedIsNext ==
  SessionTypes' => (NeverStranded' <=> PendingIsTimer' /\ (Trying' => Awaiting'))
BY NeverStrandedIs, PTL

\* A timer that runs is stopped only for another.
LEMMA PostedStays ==
  ASSUME SessionTypes, NEW events \in Seq(Posted), posted' = posted \o events, UNCHANGED peer,
         FailurePosted
  PROVE  FailurePosted'
<1>1. PICK j \in 1..Len(posted) : ToldFailure(j)
  BY DEF FailurePosted
<1>2. j \in 1..Len(posted') /\ ToldFailure(j)'
  BY <1>1, MorePosts
<1> QED
  BY <1>2 DEF FailurePosted

\* The turns of the dispatcher: the failure is acted upon when it is run, and a
\* connection that is reported when it is gone has its failure still to come.
LEMMA RunAwaiting ==
  ASSUME SessionTypes, TimerInv, FailureFollows, RunPosted, Trying, Awaiting, Trying'
  PROVE  Awaiting'
<1>1. /\ posted # <<>> /\ posted' = Tail(posted)
      /\ UNCHANGED <<peer, ice, pathTimer, m_shutdownStarted, m_allowReconnect, closing>>
      /\ mistaken' = (mistaken \/ (Head(posted).what \in Reports
                                      /\ ~m_shutdownStarted /\ Head(posted).by # peer))
  BY Zenon DEF RunPosted, RunTransport, RunConnected, RunDisconnected, RunFailed, RunRequest,
               RunDescribed, RunUndescribed, RunAnswer, Run, life, Reports
<1>2. CASE m_shutdownStarted
  BY <1>1, <1>2 DEF Trying, Awaiting, Timed, TimerInv, Dormant
<1>3. CASE ~m_shutdownStarted
  <2>0. Len(posted) \in Nat /\ Len(posted) > 0 /\ posted[1] = Head(posted)
    BY <1>1 DEF SessionTypes
  <2>1. \A j \in 2..Len(posted) : ToldFailure(j) => FailurePosted'
    BY <1>1, TailPosts, Zenon DEF FailurePosted
  <2>2. CASE RunTransport \/ RunConnected
    <3>1. Head(posted).what \in Reports
      BY <2>2, Zenon DEF RunTransport, RunConnected, Run, Reports
    <3>2. Head(posted).by = peer
      BY <1>1, <1>3, <3>1, Zenon DEF Trying
    <3>3. ice = "up" \/ \E j \in (1 + 1)..Len(posted) : ToldFailure(j)
      BY <2>0, <3>1, <3>2 DEF FailureFollows
    <3> QED
      BY <1>1, <2>1, <3>3 DEF Awaiting
  <2>3. CASE requestSessionReconnect(m_remoteDisconnectReceived)
    <3>1. MayReconnect
      BY <1>3 DEF MayReconnect, Stopped, Trying
    <3> QED
      BY <2>3, <3>1, RequestStarts DEF Awaiting, Timed, TimerInv
  <2>4. CASE /\ ~RunTransport /\ ~RunConnected
             /\ ~requestSessionReconnect(m_remoteDisconnectReceived)
    <3>1. UNCHANGED <<m_peerStartupTimer, reconnect>>
      BY <2>4, Zenon DEF RunPosted, RunDisconnected, RunFailed, RunRequest, RunDescribed,
                         RunUndescribed, RunAnswer
    <3>2. Head(posted).what \notin {"failed", "request"}
      BY <2>4, Zenon DEF RunPosted, RunDisconnected, RunFailed, RunRequest, RunDescribed,
                         RunUndescribed, RunAnswer, Run
    <3>3. FailurePosted => FailurePosted'
      <4>. SUFFICES ASSUME NEW j \in 1..Len(posted), ToldFailure(j) PROVE FailurePosted'
        BY DEF FailurePosted
      <4>1. j # 1
        BY <2>0, <3>2 DEF ToldFailure
      <4>2. j \in 2..Len(posted)
        BY <2>0, <4>1
      <4> QED
        BY <2>1, <4>2
    <3> QED
      BY <1>1, <3>1, <3>3 DEF Awaiting, Timed, reconnect
  <2> QED
    BY <2>2, <2>3, <2>4
<1> QED
  BY <1>2, <1>3

LEMMA AwaitingStep ==
  ASSUME SessionTypes, TimerInv, FailureFollows, Trying => Awaiting, ControllerStep, Trying'
  PROVE  Awaiting'
<1>1. ASSUME NEW n \in Free, NEW expected, init(n, expected)
      PROVE  Awaiting'
  <2>1. m_peerStartupTimer' \/ m_reconnectTimer' = m_allowReconnect'
    BY <1>1, Zenon DEF init, InitSucceeds, InitFails, Dial
  <2> QED
    BY <2>1, Zenon DEF Trying, Awaiting, Timed
<1>2. ASSUME NEW n \in Free, NEW expected,
             FirstDial(n) \/ ReconnectTimeout(n, expected) \/ restartAfterNetworkPathChange(n, expected)
      PROVE  Awaiting'
  <2>1. \/ \E e \in {TRUE, expected} : init(n, e)
        \/ closing = "requested" /\ UNCHANGED closing
    BY <1>2, Zenon DEF FirstDial, ReconnectTimeout, restartAfterNetworkPathChange, life
  <2> QED
    BY <1>1, <2>1 DEF Trying
<1>3. CASE setNetworkPath \/ requestShutdown \/ performShutdown
  BY <1>3 DEF setNetworkPath, requestShutdown, performShutdown, Trying, Awaiting, Timed
<1>4. ASSUME UNCHANGED <<started, closing, m_allowReconnect, mistaken>>
      PROVE  Trying /\ Awaiting
  BY <1>4 DEF Trying
<1>5. ASSUME UNCHANGED <<posted, peer, ice, pathTimer, m_peerStartupTimer>>,
             Awaiting, m_reconnectTimer => m_reconnectTimer'
      PROVE  Awaiting'
  BY <1>5 DEF Awaiting, Timed, FailurePosted, ToldFailure
<1>6. ASSUME NEW expected, PeerStartupTimeout(expected)
      PROVE  Awaiting'
  <2>1. UNCHANGED <<started, closing, m_allowReconnect, mistaken, m_shutdownStarted, pathTimer>>
    BY <1>6 DEF PeerStartupTimeout, life, history
  <2>2. Trying /\ Awaiting
    BY <1>4, <2>1
  <2>3. CASE m_shutdownStarted
    BY <2>1, <2>2, <2>3 DEF Trying, Awaiting, Timed, TimerInv, Dormant
  <2>4. CASE ~m_shutdownStarted
    <3>1. ~m_connected /\ peer # 0
      BY <1>6 DEF PeerStartupTimeout, TimerInv, Watched
    <3>2. requestSessionReconnect(m_remoteDisconnectReceived)
      BY <1>6, <2>4, <3>1, Zenon DEF PeerStartupTimeout
    <3>3. MayReconnect
      BY <2>2, <2>4 DEF MayReconnect, Stopped, Trying
    <3> QED
      BY <3>2, <3>3, RequestStarts DEF Awaiting, Timed, TimerInv
  <2> QED
    BY <2>3, <2>4
<1>7. ASSUME NEW expected, HeartbeatSilence(expected)
      PROVE  Awaiting'
  <2>1. /\ UNCHANGED <<started, closing, m_allowReconnect, mistaken>>
        /\ UNCHANGED <<posted, peer, ice, pathTimer, m_peerStartupTimer>>
        /\ requestSessionReconnect(m_remoteDisconnectReceived)
    BY <1>7 DEF HeartbeatSilence, native, life, history
  <2> QED
    BY <1>4, <1>5, <2>1, RequestStarts DEF TimerInv
<1>8. CASE parseWsMsg
  <2>1. /\ UNCHANGED <<started, closing, mistaken>>
        /\ UNCHANGED <<posted, peer, ice, pathTimer, m_peerStartupTimer>>
    BY <1>8, Zenon DEF parseWsMsg, ParseOffer, ParseError, ParseDisconnect, Take
  <2>2. \/ \E heard \in {TRUE, m_remoteDisconnectReceived} :
             requestSessionReconnect(heard) /\ UNCHANGED m_allowReconnect
        \/ UNCHANGED <<m_allowReconnect, reconnect>>
        \/ m_allowReconnect' = FALSE
    BY <1>8, Zenon DEF parseWsMsg, ParseOffer, ParseError, ParseDisconnect, reconnect
  <2>3. /\ UNCHANGED m_allowReconnect
        /\ m_reconnectTimer => m_reconnectTimer'
    <3>1. ASSUME NEW heard, requestSessionReconnect(heard)
          PROVE  m_reconnectTimer => m_reconnectTimer'
      BY <3>1, RequestStarts DEF TimerInv
    <3>2. m_allowReconnect'
      BY DEF Trying
    <3>3. CASE UNCHANGED <<m_allowReconnect, reconnect>>
      BY <3>3 DEF reconnect
    <3>4. CASE ~UNCHANGED <<m_allowReconnect, reconnect>>
      <4>1. PICK heard : requestSessionReconnect(heard) /\ UNCHANGED m_allowReconnect
        BY <2>2, <3>2, <3>4, Zenon
      <4> QED
        BY <3>1, <4>1
    <3> QED
      BY <3>3, <3>4
  <2> QED
    BY <1>4, <1>5, <2>1, <2>3
<1>9. CASE RunPosted
  <2>1. UNCHANGED <<started, closing, m_allowReconnect>> /\ (mistaken => mistaken')
    BY <1>9, Zenon DEF RunPosted, RunTransport, RunConnected, RunDisconnected, RunFailed, RunRequest, RunDescribed,
                       RunUndescribed, RunAnswer, Run, life
  <2>2. Trying /\ Awaiting
    BY <2>1 DEF Trying
  <2> QED
    BY <1>9, <2>2, RunAwaiting
<1>10. ASSUME NEW expected, AppliesAndAnswers \/ Connects \/ Flickers \/ Fails(expected)
       PROVE  Awaiting'
  <2>1. PICK events \in Seq(Posted) :
           /\ Native(events)
           /\ ice = "up" => \/ ice' = "up"
                           \/ /\ events # <<>>
                              /\ events[Len(events)].by = peer
                              /\ events[Len(events)].what \in {"failed", "request"}
    BY <1>10, ExternalPosts
  <2>2. posted' = posted \o events /\ UNCHANGED <<started, peer, closing, m_allowReconnect, mistaken>>
    BY <2>1 DEF Native, life, history
  <2>3. UNCHANGED <<m_peerStartupTimer, m_reconnectTimer, pathTimer>>
    BY <2>1 DEF Native, reconnect
  <2>4. Trying /\ Awaiting
    BY <1>4, <2>2
  <2>5. CASE Timed \/ FailurePosted
    BY <2>2, <2>3, <2>5, PostedStays DEF Awaiting, Timed
  <2>6. CASE ice = "up"
    <3>1. CASE ice' = "up"
      BY <3>1 DEF Awaiting
    <3>2. CASE ice' # "up"
      <4>1. PICK k \in Nat : k = Len(posted') /\ k > Len(posted) /\ ToldFailure(k)'
        BY <2>1, <2>2, <2>6, <3>2, LastPost
      <4>2. k \in 1..Len(posted')
        BY <4>1 DEF SessionTypes
      <4> QED
        BY <4>1, <4>2 DEF Awaiting, FailurePosted
    <3> QED
      BY <3>1, <3>2
  <2> QED
    BY <2>4, <2>5, <2>6 DEF Awaiting
<1> QED
  BY <1>2, <1>3, <1>6, <1>7, <1>8, <1>9, <1>10 DEF ControllerStep

SessionInv == TypeOK /\ TimerInv /\ FailureFollows /\ (Trying => Awaiting)

LEMMA SessionInitially == Init => SessionInv
<1>. SUFFICES ASSUME Init PROVE SessionInv
  OBVIOUS
<1>1. TypeOK
  BY InitTypeOK
<1>2. TimerInv
  BY DEF Init, SessionInit, TimerInv, PendingIsTimer, Dormant, Watched, TakenBack
<1>3. FailureFollows
  BY DEF Init, SessionInit, FailureFollows
<1>4. ~Trying
  BY DEF Init, SessionInit, Trying
<1> QED
  BY <1>1, <1>2, <1>3, <1>4 DEF SessionInv

LEMMA SessionKept ==
  ASSUME SessionInv, [Next]_vars
  PROVE  SessionInv'
<1>1. TypeOK' /\ SessionTypes /\ SessionTypes'
  BY TypesStep, SessionTypesAre, SessionTypesAreNext DEF SessionInv, TypeOK
<1>2. CASE ControllerStep
  BY <1>1, <1>2, TimersStep, FollowsStep, AwaitingStep DEF SessionInv
<1>3. CASE UNCHANGED sessionVars
  <2>1. UNCHANGED <<started, peer, wired, ice, posted, m_connected, m_allowReconnect,
                    m_shutdownStarted, closing, m_disconnectSent, m_remoteDisconnectReceived,
                    m_peerStartupTimer, m_reconnectTimer, m_reconnectPending, pathTimer, mistaken>>
    BY <1>3 DEF sessionVars, native, life, goodbye, reconnect, history
  <2>2. TimerInv'
    BY <2>1 DEF SessionInv, TimerInv, PendingIsTimer, Dormant, Watched, TakenBack, Open
  <2>3. FailureFollows'
    BY <2>1, FollowsFrame DEF SessionInv
  <2>4. (Trying => Awaiting)'
    BY <2>1 DEF SessionInv, Trying, Awaiting, Timed, FailurePosted, ToldFailure
  <2> QED
    BY <1>1, <2>2, <2>3, <2>4 DEF SessionInv
<1> QED
  BY <1>2, <1>3, StepKinds

LEMMA SessionThroughout == Spec => []SessionInv
BY SessionInitially, SessionKept, PTL DEF Spec

(* A window that may reconnect is never left with nothing that will make    *)
(* it, for any number of CONNECTs, losses and failures: a timer runs, or    *)
(* the connection is up, or its failure is posted (onPeerStartupTimeout,    *)
(* scheduleReconnect, setNetworkPath, doReconnect).                         *)
THEOREM WindowNeverStranded == Spec => []NeverStranded
<1>1. SessionInv => NeverStranded
  <2>. SUFFICES ASSUME SessionInv PROVE NeverStranded
    OBVIOUS
  <2>1. SessionTypes /\ PendingIsTimer /\ (Trying => Awaiting)
    BY SessionTypesAre DEF SessionInv, TypeOK, TimerInv
  <2> QED
    BY <2>1, NeverStrandedIs
<1> QED
  BY <1>1, SessionThroughout, PTL

-----------------------------------------------------------------------------
(* Calls and goodbyes *)

Over == closing = "done"


LEMMA InitCalls ==
  ASSUME SessionTypes, SessionTypes', ~Open, NEW n \in Dials, NEW expected, init(n, expected)
  PROVE  Dialled!Call
<1>1. closing = "no" /\ UNCHANGED closing
  BY DEF init, InitSucceeds, InitFails, Dial
<1>2. peer' \in Nat
  BY DialsNotZero DEF SessionTypes
<1>3. Open' \in BOOLEAN
  BY DEF Open
<1> QED
  BY <1>1, <1>2, <1>3 DEF Open, Dialled!Call

LEMMA DialStep ==
  ASSUME SessionInv, [Next]_vars
  PROVE  [Dialled!Next]_<<peer, Open, Over>>
<1>0. SessionTypes /\ SessionTypes' /\ TimerInv
  BY TypesStep, SessionTypesAre, SessionTypesAreNext DEF SessionInv, TypeOK
<1>1. ASSUME Open' => Open, UNCHANGED closing, peer' \in {peer, 0}, ~Open' \/ UNCHANGED peer
      PROVE  [Dialled!Next]_<<peer, Open, Over>>
  <2>1. CASE Open'
    <3>1. Open' = Open
      BY <1>1, <2>1, Zenon DEF Open
    <3> QED
      BY <1>1, <2>1, <3>1 DEF Over
  <2>2. CASE ~Open'
    BY <1>1, <2>2 DEF Dialled!Next, Dialled!TakeBack, Open, Over
  <2> QED
    BY <2>1, <2>2
<1>2. ASSUME NEW n \in Free, FirstDial(n)
      PROVE  [Dialled!Next]_<<peer, Open, Over>>
  <2>1. ~Open
    BY <1>0, <1>2 DEF FirstDial, TimerInv, TakenBack, Open
  <2> QED
    BY <1>0, <1>2, <2>1, FreeIsDial, InitCalls DEF FirstDial, Dialled!Next
<1>3. ASSUME NEW n \in Free, NEW expected, ReconnectTimeout(n, expected)
      PROVE  [Dialled!Next]_<<peer, Open, Over>>
  <2>1. ~Open
    BY <1>0, <1>3 DEF ReconnectTimeout, TimerInv, TakenBack
  <2>2. CASE init(n, expected)
    BY <1>0, <2>1, <2>2, FreeIsDial, InitCalls DEF Dialled!Next
  <2>3. CASE ~init(n, expected)
    <3>1. destroy /\ UNCHANGED closing
      BY <1>3, <2>3, Zenon DEF ReconnectTimeout
    <3> QED
      BY <1>1, <3>1 DEF destroy, Open
  <2> QED
    BY <2>2, <2>3
<1>4. ASSUME NEW n \in Free, NEW expected, restartAfterNetworkPathChange(n, expected)
      PROVE  [Dialled!Next]_<<peer, Open, Over>>
  <2>1. ~Open
    BY <1>0, <1>4 DEF restartAfterNetworkPathChange, TimerInv, Dormant, Open
  <2>2. CASE init(n, expected)
    BY <1>0, <2>1, <2>2, FreeIsDial, InitCalls DEF Dialled!Next
  <2>3. CASE ~init(n, expected)
    <3>1. UNCHANGED <<peer, native, life, goodbye>>
      BY <1>4, <2>3, Zenon DEF restartAfterNetworkPathChange
    <3> QED
      BY <1>1, <3>1 DEF native, life, goodbye, Open
  <2> QED
    BY <2>2, <2>3
<1>5. CASE performShutdown
  BY <1>5 DEF performShutdown, destroy, Dialled!Next, Dialled!Close, Open, Over
<1>6. CASE setNetworkPath
  BY <1>1, <1>6 DEF setNetworkPath, destroy, Open
<1>7. CASE requestShutdown
  <2>1. UNCHANGED <<peer, native, goodbye>>
    BY <1>7 DEF requestShutdown
  <2>2. Over' = Over
    BY <1>7 DEF requestShutdown, Over
  <2>3. Open' = Open
    BY <2>1 DEF native, goodbye, Open
  <2> QED
    BY <2>1, <2>2, <2>3
<1>8. ASSUME NEW heard,
             \/ requestSessionReconnect(heard)
             \/ UNCHANGED <<toControlled, m_disconnectSent, reconnect>>
             \/ UNCHANGED m_disconnectSent,
             UNCHANGED <<peer, wired, closing>>,
             m_remoteDisconnectReceived => m_remoteDisconnectReceived'
      PROVE  [Dialled!Next]_<<peer, Open, Over>>
  <2>1. m_disconnectSent' = m_disconnectSent \/ m_disconnectSent'
    BY <1>8, Zenon DEF requestSessionReconnect, SayGoodbye
  <2>2. Open' => Open
    BY <1>8, <2>1, Zenon DEF Open
  <2> QED
    BY <1>1, <1>8, <2>2
<1>9. ASSUME NEW expected, PeerStartupTimeout(expected) \/ HeartbeatSilence(expected)
      PROVE  [Dialled!Next]_<<peer, Open, Over>>
  <2>1. /\ \/ requestSessionReconnect(m_remoteDisconnectReceived)
           \/ UNCHANGED <<toControlled, m_disconnectSent, reconnect>>
        /\ UNCHANGED <<peer, native, life, m_remoteDisconnectReceived>>
    BY <1>9, Zenon DEF PeerStartupTimeout, HeartbeatSilence
  <2> QED
    BY <1>8, <2>1 DEF native, life
<1>10. CASE parseWsMsg
  <2>1. UNCHANGED <<peer, wired, closing>>
    BY <1>10, Zenon DEF parseWsMsg, ParseOffer, ParseError, ParseDisconnect, Take
  <2>2. \E heard \in {TRUE, m_remoteDisconnectReceived} :
           \/ requestSessionReconnect(heard)
           \/ UNCHANGED m_disconnectSent
    BY <1>10, Zenon DEF parseWsMsg, ParseOffer, ParseError, ParseDisconnect, goodbye
  <2>3. m_remoteDisconnectReceived => m_remoteDisconnectReceived'
    BY <1>10, Zenon DEF parseWsMsg, ParseOffer, ParseError, ParseDisconnect, goodbye
  <2> QED
    BY <1>8, <2>1, <2>2, <2>3
<1>11. CASE RunPosted
  <2>1. UNCHANGED <<peer, wired, closing, m_remoteDisconnectReceived>>
    BY <1>11, Zenon DEF RunPosted, RunTransport, RunConnected, RunDisconnected, RunFailed, RunRequest, RunDescribed,
                        RunUndescribed, RunAnswer, Run, life
  <2>2. \/ requestSessionReconnect(m_remoteDisconnectReceived)
        \/ UNCHANGED m_disconnectSent
    BY <1>11, Zenon DEF RunPosted, RunTransport, RunConnected, RunDisconnected, RunFailed, RunRequest, RunDescribed,
                        RunUndescribed, RunAnswer
  <2> QED
    BY <1>8, <2>1, <2>2
<1>12. ASSUME NEW expected, AppliesAndAnswers \/ Connects \/ Flickers \/ Fails(expected)
       PROVE  [Dialled!Next]_<<peer, Open, Over>>
  <2>1. UNCHANGED <<peer, wired, life, goodbye>>
    BY <1>12, Zenon DEF AppliesAndAnswers, AppliesOffer, MakesAnswer, Connects, Flickers, Fails, Native
  <2> QED
    BY <1>1, <2>1 DEF life, goodbye, Open
<1>13. CASE UNCHANGED sessionVars
  BY <1>1, <1>13 DEF sessionVars, native, life, goodbye, Open
<1>14. CASE ControllerStep
  BY <1>2, <1>3, <1>4, <1>5, <1>6, <1>7, <1>9, <1>10, <1>11, <1>12, <1>14, Zenon DEF ControllerStep
<1> QED
  BY <1>13, <1>14, StepKinds

(* The device is called again only after a goodbye of either side to the    *)
(* call before, and never once the window is closed, however many dials,    *)
(* failures and path switches there are (init, requestSessionReconnect,     *)
(* setNetworkPath, shutdownAndMoveToOwnerThread).                           *)
THEOREM CallsAreTakenBack == Spec => ImplementsDial
<1>1. Init => Dialled!Init
  BY DEF Init, SessionInit, Dialled!Init
<1>2. SessionInv /\ [Next]_vars => [Dialled!Next]_<<peer, Open, Over>>
  BY DialStep
<1>3. SessionInv /\ [Next]_vars =>
        [Dialled!Next]_<<peer, wired /\ ~m_disconnectSent /\ ~m_remoteDisconnectReceived, closing = "done">>
  BY <1>2 DEF Open, Over
<1> QED
  BY <1>1, <1>3, SessionThroughout, PTL DEF Spec, ImplementsDial, Dialled!Spec
=============================================================================
