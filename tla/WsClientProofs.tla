----------------------------- MODULE WsClientProofs -----------------------------
(***************************************************************************)
(* The signalling client's invariants, and that its queue implements       *)
(* SignalLink, for any messages, devices, limits and number of resets.     *)
(* First what Pick does to a sequence, by the least element of a set of    *)
(* naturals instead of induction; then the invariant; then the refinement. *)
(***************************************************************************)
EXTENDS WsClient, SequenceTheorems, FiniteSetTheorems, WellFoundedInduction, TLAPS

USE WsAssumption

Less == {ss \in Nat \X Nat : ss[1] < ss[2]}

\* Every non-empty set of naturals has a least element.
LEMMA LeastElement ==
  ASSUME NEW T \in SUBSET Nat, T # {}
  PROVE  \E x \in T : \A y \in T : x <= y
<1>1. IsWellFoundedOn(Less, Nat)
  BY NatLessThanWellFounded DEF OpToRel, Less
<1>2. PICK x \in T : \A y \in T : ~(<<y, x>> \in Less)
  BY <1>1, WFMin
<1>3. \A y \in T : ~(y < x)
  BY <1>2 DEF Less
<1>4. QED
  BY <1>3

UpTo(I, n) == {j \in I : j <= n}

LEMMA UpToFinite ==
  ASSUME NEW I, \A i \in I : i \in Nat /\ i > 0, IsFiniteSet(I), NEW n \in Nat
  PROVE  /\ IsFiniteSet(UpTo(I, n))
         /\ Cardinality(UpTo(I, n)) \in Nat
         /\ Cardinality(UpTo(I, 0)) = 0
         /\ Cardinality(UpTo(I, n + 1)) =
                Cardinality(UpTo(I, n)) + (IF n + 1 \in I THEN 1 ELSE 0)
<1>1. IsFiniteSet(UpTo(I, n))
  BY FS_Subset DEF UpTo
<1>2. Cardinality(UpTo(I, n)) \in Nat
  BY <1>1, FS_CardinalityType
<1>3. UpTo(I, 0) = {}
  BY SMT DEF UpTo
<1>4. Cardinality(UpTo(I, 0)) = 0
  BY <1>3, FS_EmptySet
<1>5. CASE n + 1 \in I
  <2>1. UpTo(I, n + 1) = UpTo(I, n) \cup {n + 1}
    BY <1>5, SMT DEF UpTo
  <2>2. n + 1 \notin UpTo(I, n)
    BY SMT DEF UpTo
  <2>3. Cardinality(UpTo(I, n + 1)) = Cardinality(UpTo(I, n)) + 1
    BY <1>1, <2>1, <2>2, FS_AddElement
  <2>4. QED
    BY <1>1, <1>2, <1>4, <1>5, <2>3
<1>6. CASE n + 1 \notin I
  <2>1. UpTo(I, n + 1) = UpTo(I, n)
    BY <1>6, SMT DEF UpTo
  <2>2. QED
    BY <1>1, <1>2, <1>4, <1>6, <2>1
<1>7. QED
  BY <1>5, <1>6

LEMMA PositionsFinite ==
  ASSUME NEW n \in Nat, NEW I \in SUBSET (1..n)
  PROVE  IsFiniteSet(I) /\ Cardinality(I) \in Nat
<1>1. IsFiniteSet(1..n)
  BY FS_Interval
<1>2. IsFiniteSet(I)
  BY <1>1, FS_Subset, Zenon
<1>3. QED
  BY <1>2, FS_CardinalityType, Zenon

\* Counting the positions from the front, every number up to their count occurs.
LEMMA NthExists ==
  ASSUME NEW n \in Nat, NEW I \in SUBSET (1..n), NEW k \in 1..Cardinality(I)
  PROVE  /\ Nth(I, k) \in I
         /\ Cardinality(UpTo(I, Nth(I, k))) = k
<1>. DEFINE T == {x \in Nat : k <= Cardinality(UpTo(I, x))}
<1>0. \A i \in I : i \in 1..n
  OBVIOUS
<1>1. IsFiniteSet(I) /\ \A i \in I : i \in Nat /\ i > 0
  <2>1. IsFiniteSet(I)
    BY PositionsFinite, Zenon
  <2>2. QED
    BY <1>0, <2>1, SMT
<1>2. UpTo(I, n) = I
  <2>1. \A i \in I : i <= n
    BY <1>0
  <2>2. QED
    BY <2>1, Zenon DEF UpTo
<1>3. Cardinality(I) \in Nat
  BY <1>1, FS_CardinalityType
<1>4. n \in T
  BY <1>2, <1>3
<1>5. PICK x \in T : \A y \in T : x <= y
  BY <1>4, LeastElement
<1>6. x \in Nat \ {0}
  <2>1. Cardinality(UpTo(I, 0)) = 0
    BY <1>1, UpToFinite
  <2>2. QED
    BY <1>5, <2>1, SMT
<1>7. x - 1 \in Nat /\ x - 1 \notin T /\ (x - 1) + 1 = x
  BY <1>5, <1>6
<1>8. /\ Cardinality(UpTo(I, x - 1)) \in Nat
      /\ Cardinality(UpTo(I, x)) = Cardinality(UpTo(I, x - 1)) + (IF x \in I THEN 1 ELSE 0)
  <2>. DEFINE y == x - 1
  <2>1. y \in Nat /\ y + 1 = x
    BY <1>7
  <2>2. /\ Cardinality(UpTo(I, y)) \in Nat
        /\ Cardinality(UpTo(I, y + 1)) = Cardinality(UpTo(I, y)) + (IF y + 1 \in I THEN 1 ELSE 0)
    <3>. HIDE DEF y
    <3>1. QED
      BY <1>1, <2>1, UpToFinite
  <2>3. QED
    BY <2>1, <2>2
<1>9. x \in I /\ Cardinality(UpTo(I, x)) = k
  BY <1>3, <1>5, <1>7, <1>8
<1>10. QED
  BY <1>9 DEF Nth, UpTo

\* Two positions with the same count are the same.
LEMMA CountInjective ==
  ASSUME NEW n \in Nat, NEW I \in SUBSET (1..n), NEW i \in I, NEW j \in I,
         Cardinality(UpTo(I, i)) = Cardinality(UpTo(I, j))
  PROVE  i = j
<1>0. \A x \in I : x \in 1..n
  OBVIOUS
<1>1. IsFiniteSet(I)
  BY PositionsFinite, Zenon
<1>2. ASSUME NEW x \in I, NEW y \in I, x < y
      PROVE  Cardinality(UpTo(I, x)) # Cardinality(UpTo(I, y))
  <2>1. IsFiniteSet(UpTo(I, x)) /\ IsFiniteSet(UpTo(I, y))
    BY <1>1, FS_Subset DEF UpTo
  <2>2. UpTo(I, x) \in SUBSET UpTo(I, y)
    <3>1. \A z \in I : z <= x => z <= y
      BY <1>0, <1>2, SMT
    <3>2. QED
      BY <3>1, Zenon DEF UpTo
  <2>3. y \in UpTo(I, y) /\ y \notin UpTo(I, x)
    BY <1>0, <1>2, SMT DEF UpTo
  <2>4. QED
    BY <2>1, <2>2, <2>3, FS_Subset
<1>3. QED
  BY <1>0, <1>2, SMT

LEMMA NthUnique ==
  ASSUME NEW n \in Nat, NEW I \in SUBSET (1..n), NEW i \in I,
         NEW k \in 1..Cardinality(I), Cardinality(UpTo(I, i)) = k
  PROVE  Nth(I, k) = i
<1>1. Nth(I, k) \in I /\ Cardinality(UpTo(I, Nth(I, k))) = k
  BY NthExists, Zenon
<1>2. QED
  BY <1>1, CountInjective, Zenon

-----------------------------------------------------------------------------
(* Picking *)

LEMMA PickNothing == \A q : Pick(q, {}) = <<>>
<1>1. Cardinality({}) = 0
  BY FS_EmptySet
<1>2. QED
  BY <1>1 DEF Pick

LEMMA PickType ==
  ASSUME NEW S, NEW q \in Seq(S), NEW I \in SUBSET (1..Len(q))
  PROVE  Pick(q, I) \in Seq(S) /\ Len(Pick(q, I)) = Cardinality(I)
<1>0. Len(q) \in Nat
  OBVIOUS
<1>1. Cardinality(I) \in Nat
  BY <1>0, PositionsFinite, Zenon
<1>2. \A k \in 1..Cardinality(I) : q[Nth(I, k)] \in S
  <2>1. TAKE k \in 1..Cardinality(I)
  <2>2. Nth(I, k) \in 1..Len(q)
    BY <1>0, NthExists, Zenon
  <2>3. QED
    BY <2>2, ElementOfSeq
<1>3. QED
  BY <1>1, <1>2 DEF Pick

\* What is picked depends on the picked positions only.
LEMMA PickSame ==
  ASSUME NEW n \in Nat, NEW I \in SUBSET (1..n), NEW p, NEW q, \A i \in I : p[i] = q[i]
  PROVE  Pick(p, I) = Pick(q, I)
<1>1. \A k \in 1..Cardinality(I) : p[Nth(I, k)] = q[Nth(I, k)]
  BY NthExists
<1>2. QED
  BY <1>1, Zenon DEF Pick

\* One more position behind the others is counted last.
LEMMA NthAppend ==
  ASSUME NEW n \in Nat, NEW I \in SUBSET (1..n)
  PROVE  LET J == I \cup {n + 1}
             c == Cardinality(I)
         IN  /\ Cardinality(J) = c + 1
             /\ Nth(J, c + 1) = n + 1
             /\ \A k \in 1..c : Nth(J, k) = Nth(I, k)
<1>. DEFINE J == I \cup {n + 1}
            c == Cardinality(I)
<1>0. \A i \in I : i \in 1..n
  OBVIOUS
<1>1. IsFiniteSet(I) /\ c \in Nat
  BY PositionsFinite, Zenon
<1>2. n + 1 \notin I /\ n + 1 \in Nat
  BY <1>0, SMT
<1>3. J \in SUBSET (1..(n + 1))
  <2>1. \A j \in J : j \in 1..(n + 1)
    BY <1>0, SMT
  <2>2. QED
    BY <2>1, Zenon
<1>4. Cardinality(J) = c + 1
  BY <1>1, <1>2, FS_AddElement
<1>5. ASSUME NEW k \in 1..c
      PROVE  Nth(J, k) = Nth(I, k)
  <2>1. Nth(I, k) \in I /\ Cardinality(UpTo(I, Nth(I, k))) = k
    BY NthExists, Zenon
  <2>2. ~(n + 1 <= Nth(I, k))
    <3>1. Nth(I, k) \in 1..n
      BY <1>0, <2>1, Zenon
    <3>2. QED
      BY <3>1, SMT
  <2>3. UpTo(J, Nth(I, k)) = UpTo(I, Nth(I, k))
    BY <2>2, Zenon DEF UpTo
  <2>4. Nth(I, k) \in J
    BY <2>1, Zenon
  <2>5. k \in 1..Cardinality(J)
    BY <1>1, <1>4, SMT
  <2>6. Cardinality(UpTo(J, Nth(I, k))) = k
    BY <2>1, <2>3
  <2>. HIDE DEF J
  <2>7. QED
    BY <1>2, <1>3, <2>4, <2>5, <2>6, NthUnique, Zenon
<1>6. Nth(J, c + 1) = n + 1
  <2>1. \A j \in J : j <= n + 1
    BY <1>0, SMT
  <2>2. UpTo(J, n + 1) = J
    BY <2>1, Zenon DEF UpTo
  <2>3. n + 1 \in J
    OBVIOUS
  <2>4. c + 1 \in 1..Cardinality(J)
    BY <1>1, <1>4, SMT
  <2>5. Cardinality(UpTo(J, n + 1)) = c + 1
    BY <1>4, <2>2
  <2>. HIDE DEF J
  <2>6. QED
    BY <1>2, <1>3, <2>3, <2>4, <2>5, NthUnique, Zenon
<1>7. QED
  BY <1>4, <1>5, <1>6

LEMMA PickAppend ==
  ASSUME NEW S, NEW q \in Seq(S), NEW x \in S, NEW I \in SUBSET (1..Len(q))
  PROVE  Pick(Append(q, x), I \cup {Len(q) + 1}) = Append(Pick(q, I), x)
<1>1. PICK n \in Nat : n = Len(q)
  OBVIOUS
<1>. DEFINE J == I \cup {n + 1}
            c == Cardinality(I)
<1>2. I \in SUBSET (1..n) /\ c \in Nat
  BY <1>1, PositionsFinite
<1>3. /\ Cardinality(J) = c + 1
      /\ Nth(J, c + 1) = n + 1
      /\ \A k \in 1..c : Nth(J, k) = Nth(I, k)
  BY <1>2, NthAppend, Zenon
<1>4. /\ Pick(q, I) \in Seq(S)
      /\ Len(Pick(q, I)) = c
  BY PickType
<1>5. /\ Append(q, x) \in Seq(S)
      /\ Len(Append(q, x)) = n + 1
      /\ \A i \in 1..n : Append(q, x)[i] = q[i]
      /\ Append(q, x)[n + 1] = x
  BY <1>1
<1>6. J \in SUBSET (1..Len(Append(q, x)))
  <2>1. \A j \in J : j \in 1..(n + 1)
    BY <1>2, SMT
  <2>2. QED
    BY <1>5, <2>1, Zenon
<1>7. /\ Pick(Append(q, x), J) \in Seq(S)
      /\ Len(Pick(Append(q, x), J)) = c + 1
  BY <1>3, <1>5, <1>6, PickType
<1>8. /\ Append(Pick(q, I), x) \in Seq(S)
      /\ Len(Append(Pick(q, I), x)) = c + 1
      /\ \A k \in 1..c : Append(Pick(q, I), x)[k] = Pick(q, I)[k]
      /\ Append(Pick(q, I), x)[c + 1] = x
  BY <1>2, <1>4
<1>9. \A k \in 1..(c + 1) : Pick(Append(q, x), J)[k] = Append(Pick(q, I), x)[k]
  <2>1. TAKE k \in 1..(c + 1)
  <2>2. Pick(Append(q, x), J)[k] = Append(q, x)[Nth(J, k)]
    BY <1>3 DEF Pick
  <2>3. CASE k \in 1..c
    <3>1. Nth(I, k) \in 1..n
      BY <1>2, <2>3, NthExists
    <3>2. Pick(q, I)[k] = q[Nth(I, k)]
      BY <2>3 DEF Pick
    <3>3. QED
      BY <1>3, <1>5, <1>8, <2>2, <2>3, <3>1, <3>2
  <2>4. CASE k = c + 1
    BY <1>3, <1>5, <1>8, <2>2, <2>4
  <2>5. k \in 1..c \/ k = c + 1
    BY <1>2, SMT
  <2>6. QED
    BY <2>3, <2>4, <2>5
<1>10. QED
  BY <1>1, <1>7, <1>8, <1>9, SeqEqual

-----------------------------------------------------------------------------
(* The invariant *)

FlagsType ==
    /\ supported \in BOOLEAN /\ started \in BOOLEAN /\ m_shutdownDone \in BOOLEAN
    /\ m_connected \in BOOLEAN /\ m_heart_timer \in BOOLEAN
    /\ m_reconnect_timer \in BOOLEAN /\ m_reconnect_followup_timer \in BOOLEAN
    /\ m_presence_timer \in BOOLEAN /\ m_presence_query_timer \in BOOLEAN
    /\ queryWindow \in BOOLEAN

LinkType ==
    /\ resets \in 0..MaxResets
    /\ sock \in States
    /\ m_socketConnectTimer \in {"off", "young", "old"}
    /\ m_reconnect_phase \in 0..3
    /\ m_reconnect_count \in 0..(MaxRetry - 1)

QueueType ==
    /\ m_pendingMessages \in Seq(Messages)
    /\ Len(m_pendingMessages) <= MaxPending
    /\ current \subseteq Messages
    /\ wire \in Seq(Messages)
    /\ since \in [Messages -> {"unsent", "same", "lost", "moved"}]

PresenceType ==
    /\ m_presenceDevices \subseteq Devices
    /\ m_presenceRequests \subseteq m_presenceDevices
    /\ aged \subseteq m_presenceRequests
    /\ shown \in [Devices -> Verdicts]
    /\ answers \subseteq [device : Devices, says : Verdicts, fresh : BOOLEAN]
    /\ proof \in [Devices -> Verdicts]

\* The generation is what tells the connections apart: a message of the current
\* generation has seen no loss, and one that still waits no change of server.
QueueSound ==
    /\ \A m \in current : since[m] = "same"
    /\ \A i \in 1..Len(m_pendingMessages) : since[m_pendingMessages[i]] \in {"same", "lost"}

WsInv ==
    /\ FlagsType /\ LinkType /\ QueueType /\ PresenceType
    /\ NothingStuck
    /\ PresenceHonest
    /\ QueueSound

LEMMA TypesAreParts == TypeOK <=> FlagsType /\ LinkType /\ QueueType /\ PresenceType
<1>1. {supported, started, m_shutdownDone, m_connected, m_heart_timer,
       m_reconnect_timer, m_reconnect_followup_timer, m_presence_timer,
       m_presence_query_timer, queryWindow} \subseteq BOOLEAN <=> FlagsType
  BY DEF FlagsType
<1>2. QED
  BY <1>1, Zenon DEF TypeOK, LinkType, QueueType, PresenceType

LEMMA WsInitial == Init => WsInv
<1> SUFFICES ASSUME Init
             PROVE  WsInv
  OBVIOUS
<1>1. FlagsType
  BY Zenon DEF Init, FlagsType
<1>2. LinkType
  BY SMT DEF Init, LinkType, States
<1>3. QueueType /\ QueueSound
  BY SMT DEF Init, QueueType, QueueSound
<1>4. PresenceType /\ PresenceHonest
  BY SMT DEF Init, PresenceType, PresenceHonest, Verdicts
<1>5. NothingStuck
  BY SMT DEF Init, NothingStuck, RetryArmed, OnlineIsDrained, Wanted
<1>6. QED
  BY <1>1, <1>2, <1>3, <1>4, <1>5 DEF WsInv

-----------------------------------------------------------------------------
(* The link *)

LEMMA FlagsKept == WsInv /\ [Next]_vars => FlagsType'
<1> SUFFICES ASSUME WsInv, [Next]_vars
             PROVE  FlagsType'
  OBVIOUS
<1>0. FlagsType
  BY DEF WsInv
<1>1. ASSUME NEW url \in BOOLEAN, init(url)
      PROVE  FlagsType'
  BY <1>0, <1>1, Zenon DEF FlagsType, init, clearPresenceState
<1>2. ASSUME NEW url \in BOOLEAN, resetUrlAndReconnect(url)
      PROVE  FlagsType'
  BY <1>0, <1>2, Zenon DEF FlagsType, resetUrlAndReconnect, clearPresenceState
<1>3. CASE performShutdown
  BY <1>0, <1>3, Zenon DEF FlagsType, performShutdown, clearPresenceState
<1>4. ASSUME NEW s, onWsDisconnected(s), UNCHANGED config
      PROVE  FlagsType'
  BY <1>0, <1>4, Zenon DEF FlagsType, onWsDisconnected, clearPresenceState, config
<1>5. ASSUME NEW m \in Messages, Send(m) \/ SendRefused(m) \/ SendOffline(m) \/ SendOverflow(m)
      PROVE  FlagsType'
  <2>1. CASE Send(m)
    BY <1>0, <2>1, Zenon DEF FlagsType, Send, config, link, timers, presence, batch
  <2>2. CASE SendRefused(m)
    BY <1>4, <2>2, Zenon DEF SendRefused
  <2>3. CASE SendOffline(m)
    BY <1>0, <2>3, Zenon DEF FlagsType, SendOffline, config, link, timers, presence, batch
  <2>4. CASE SendOverflow(m)
    <3>1. CASE sock \in Alive
      BY <1>4, <2>4, <3>1, Zenon DEF SendOverflow
    <3>2. CASE sock \notin Alive
      BY <1>0, <2>4, <3>2, Zenon DEF FlagsType, SendOverflow, config, link, timers, presence, batch
    <3>3. QED
      BY <3>1, <3>2
  <2>5. QED
    BY <1>5, <2>1, <2>2, <2>3, <2>4
<1>6. CASE Socket
  <2>1. CASE onWsConnected
    BY <1>0, <2>1, Zenon DEF FlagsType, onWsConnected, config, presence, batch
  <2>2. CASE ConnectedRefused
    BY <1>0, <2>2, Zenon DEF FlagsType, ConnectedRefused, config, clearPresenceState
  <2>3. CASE onWsAboutToClose
    BY <1>0, <2>3, Zenon DEF FlagsType, onWsAboutToClose, config, timers, clearPresenceState
  <2>4. CASE Disconnected \/ AbortedByHandler
    BY <1>4, <2>4, Zenon DEF Disconnected, AbortedByHandler, config
  <2>5. QED
    BY <1>6, <2>1, <2>2, <2>3, <2>4 DEF Socket
<1>7. CASE Timer
  <2>1. CASE HandshakeAges
    BY <1>0, <2>1, Zenon DEF FlagsType, HandshakeAges, config, link, presence, batch
  <2>2. CASE attemptReconnect
    BY <1>0, <2>2, Zenon DEF FlagsType, attemptReconnect, config, presence, batch
  <2>3. CASE AbortHandshake
    BY <1>0, <2>3, Zenon DEF FlagsType, AbortHandshake, config, clearPresenceState
  <2>4. CASE scheduleNextReconnectIfNeeded
    BY <1>0, <2>4, Zenon DEF FlagsType, scheduleNextReconnectIfNeeded, config, link, presence, batch
  <2>5. QED
    BY <1>7, <2>1, <2>2, <2>3, <2>4 DEF Timer
<1>8. ASSUME NEW ds, NEW fired \in BOOLEAN, StartBatch(ds, fired), UNCHANGED <<config, link, timers>>
      PROVE  FlagsType'
  BY <1>0, <1>8, Zenon DEF FlagsType, StartBatch, Usable, config, link, timers
<1>9. CASE Presence
  <2>1. CASE \E ds \in Lists : queryDevicePresence(ds)
    BY <1>8, <2>1, Zenon DEF queryDevicePresence
  <2>2. CASE QueryTimerFires
    BY <1>8, <2>2, Zenon DEF QueryTimerFires
  <2>3. CASE QueryWindowEnds
    BY <1>0, <2>3, Zenon DEF FlagsType, QueryWindowEnds, config, link, timers
  <2>4. CASE \E d \in Devices : RequestAges(d)
    BY <1>0, <2>4, Zenon DEF FlagsType, RequestAges, config, link, timers
  <2>5. CASE expirePresenceRequests
    BY <1>0, <2>5, Zenon DEF FlagsType, expirePresenceRequests, config, link, timers
  <2>6. CASE \E a \in answers : handlePresenceMessage(a)
    BY <1>0, <2>6, Zenon DEF FlagsType, handlePresenceMessage, config, link, timers
  <2>7. QED
    BY <1>9, <2>1, <2>2, <2>3, <2>4, <2>5, <2>6 DEF Presence
<1>10. CASE UNCHANGED vars
  BY <1>0, <1>10, Zenon DEF FlagsType, vars, config, link, timers, presence, batch
<1>11. QED
  BY <1>1, <1>2, <1>3, <1>5, <1>6, <1>7, <1>9, <1>10 DEF Next, Owner

\* The state of the link and the retry timer after a loss.
LEMMA LossKeepsLink ==
  ASSUME WsInv, NEW s, onWsDisconnected(s), UNCHANGED config, UNCHANGED retry
  PROVE  LinkType' /\ NothingStuck'
BY SMT DEF WsInv, LinkType, FlagsType, NothingStuck, RetryArmed, OnlineIsDrained, Wanted,
           Retrying, States, onWsDisconnected, config, retry

\* A new attempt counts within its phase.
LEMMA CountStaysInPhase ==
  ASSUME LinkType, CountAttempt
  PROVE  m_reconnect_phase' \in 0..3 /\ m_reconnect_count' \in 0..(MaxRetry - 1)
BY SMT DEF LinkType, CountAttempt

LEMMA LinkKept == WsInv /\ [Next]_vars => LinkType' /\ NothingStuck'
<1> SUFFICES ASSUME WsInv, [Next]_vars
             PROVE  LinkType' /\ NothingStuck'
  OBVIOUS
<1>0. LinkType /\ FlagsType /\ NothingStuck
  BY DEF WsInv
<1> USE DEF NothingStuck, RetryArmed, OnlineIsDrained, Wanted, Retrying
<1>1. ASSUME NEW url \in BOOLEAN, init(url)
      PROVE  LinkType' /\ NothingStuck'
  BY <1>0, <1>1, SMT DEF LinkType, States, init, openSocket
<1>2. ASSUME NEW url \in BOOLEAN, resetUrlAndReconnect(url)
      PROVE  LinkType' /\ NothingStuck'
  BY <1>0, <1>2, SMT DEF LinkType, States, Alive, resetUrlAndReconnect, openSocket
<1>3. CASE performShutdown
  BY <1>0, <1>3, SMT DEF LinkType, States, performShutdown, retry
<1>4. ASSUME NEW m \in Messages, Send(m) \/ SendRefused(m) \/ SendOffline(m) \/ SendOverflow(m)
      PROVE  LinkType' /\ NothingStuck'
  <2>1. CASE Send(m)
    BY <1>0, <2>1, SMT DEF LinkType, Send, config, link, timers, retry
  <2>2. CASE SendRefused(m)
    BY <2>2, LossKeepsLink, Zenon DEF SendRefused, config, retry
  <2>3. CASE SendOffline(m)
    <3>1. ~m_connected
      BY <1>0, <2>3, Zenon DEF SendOffline, Usable
    <3>2. QED
      BY <1>0, <2>3, <3>1, SMT DEF LinkType, SendOffline, config, link, timers, retry
  <2>4. CASE SendOverflow(m)
    <3>1. CASE sock \in Alive
      BY <2>4, <3>1, LossKeepsLink, Zenon DEF SendOverflow, config, retry
    <3>2. CASE sock \notin Alive
      BY <1>0, <2>4, <3>2, SMT DEF LinkType, SendOverflow, config, link, timers, retry
    <3>3. QED
      BY <3>1, <3>2
  <2>5. QED
    BY <1>4, <2>1, <2>2, <2>3, <2>4
<1>5. CASE Socket
  <2>1. CASE onWsConnected
    BY <1>0, <2>1, SMT DEF LinkType, States, onWsConnected, config
  <2>2. CASE ConnectedRefused
    BY <1>0, <2>2, SMT DEF LinkType, States, ConnectedRefused, config
  <2>3. CASE onWsAboutToClose
    BY <1>0, <2>3, SMT DEF LinkType, States, onWsAboutToClose, config, timers, retry
  <2>4. CASE Disconnected \/ AbortedByHandler
    BY <2>4, LossKeepsLink, Zenon DEF Disconnected, AbortedByHandler, config, retry
  <2>5. QED
    BY <1>5, <2>1, <2>2, <2>3, <2>4 DEF Socket
<1>6. CASE Timer
  <2>1. CASE HandshakeAges
    BY <1>0, <2>1, SMT DEF LinkType, HandshakeAges, config, link, retry, queue
  <2>2. CASE attemptReconnect
    <3>1. CASE Wanted /\ sock = "unconnected"
      <4>1. m_reconnect_phase' \in 0..3 /\ m_reconnect_count' \in 0..(MaxRetry - 1)
        BY <1>0, <2>2, <3>1, CountStaysInPhase, Zenon DEF attemptReconnect
      <4>2. QED
        BY <1>0, <2>2, <3>1, <4>1, SMT DEF LinkType, States, attemptReconnect, openSocket, config
    <3>2. CASE ~(Wanted /\ sock = "unconnected")
      BY <1>0, <2>2, <3>2, SMT DEF LinkType, attemptReconnect, config, retry, queue
    <3>3. QED
      BY <3>1, <3>2
  <2>3. CASE AbortHandshake
    BY <1>0, <2>3, SMT DEF LinkType, States, AbortHandshake, config, retry
  <2>4. CASE scheduleNextReconnectIfNeeded
    <3>1. /\ m_reconnect_followup_timer' <=> (Wanted /\ sock \in Alive)
          /\ m_reconnect_timer' <=> (m_reconnect_timer \/ (Wanted /\ sock \notin Alive))
      BY <2>4, Zenon DEF scheduleNextReconnectIfNeeded
    <3>2. UNCHANGED <<config, link, m_socketConnectTimer, retry, queue>>
      BY <2>4, Zenon DEF scheduleNextReconnectIfNeeded
    <3>3. QED
      BY <1>0, <3>1, <3>2, SMT DEF LinkType, Alive, config, link, retry, queue
  <2>5. QED
    BY <1>6, <2>1, <2>2, <2>3, <2>4 DEF Timer
<1>7. CASE UNCHANGED <<config, link, timers, retry, queue>>
  BY <1>0, <1>7, SMT DEF LinkType, config, link, timers, retry, queue
<1>8. QED
  <2>1. CASE Presence
    BY <1>7, <2>1, Zenon DEF Presence, queryDevicePresence, QueryTimerFires, QueryWindowEnds,
                             RequestAges, expirePresenceRequests, handlePresenceMessage
  <2>2. CASE UNCHANGED vars
    BY <1>7, <2>2, Zenon DEF vars
  <2>3. QED
    BY <1>1, <1>2, <1>3, <1>4, <1>5, <1>6, <2>1, <2>2 DEF Next, Owner

-----------------------------------------------------------------------------
(* Presence *)

LEMMA UnknownType ==
  ASSUME PresenceType, NEW ds
  PROVE  /\ Unknown(ds) \in [Devices -> Verdicts]
         /\ \A d \in Devices : Unknown(ds)[d] # "unknown" => d \notin ds /\ Unknown(ds)[d] = shown[d]
BY SMT DEF PresenceType, Unknown, Verdicts

LEMMA OwnType ==
  ASSUME NEW ds, NEW states \in [Devices -> Verdicts]
  PROVE  Own(ds, states) \in [Devices -> Verdicts]
BY DEF Own, Verdicts

LEMMA MarkedType ==
  ASSUME NEW a \in [device : Devices, says : Verdicts, fresh : BOOLEAN], NEW b \in BOOLEAN
  PROVE  [a EXCEPT !.fresh = b] \in [device : Devices, says : Verdicts, fresh : BOOLEAN]
OBVIOUS

LEMMA OutdatedType ==
  ASSUME PresenceType
  PROVE  Outdated \subseteq [device : Devices, says : Verdicts, fresh : BOOLEAN]
<1>1. \A a \in answers : [a EXCEPT !.fresh = FALSE] \in [device : Devices, says : Verdicts, fresh : BOOLEAN]
  BY MarkedType, Zenon DEF PresenceType
<1>2. QED
  BY <1>1, Zenon DEF Outdated

LEMMA ClearingKeepsPresence ==
  ASSUME WsInv, clearPresenceState
  PROVE  PresenceType' /\ PresenceHonest'
<1>1. PresenceType
  BY DEF WsInv
<1>2. QED
  BY <1>1, UnknownType, OutdatedType, SMT DEF PresenceType, PresenceHonest, clearPresenceState, Verdicts

LEMMA BatchKeepsPresence ==
  ASSUME WsInv, NEW ds \in SUBSET Devices, NEW fired \in BOOLEAN, StartBatch(ds, fired),
         UNCHANGED m_connected
  PROVE  PresenceType' /\ PresenceHonest'
<1>1. PresenceType
  BY DEF WsInv
<1>2. m_presenceDevices' = ds /\ aged' = {}
  BY DEF StartBatch
<1>3. m_presenceRequests' \in SUBSET ds
  BY SMT DEF StartBatch
<1>4. answers' \subseteq [device : Devices, says : Verdicts, fresh : BOOLEAN]
  <2>1. CASE Usable /\ (fired \/ ~queryWindow)
    <3>0. PICK sent \in SUBSET (ds \ {LocalId}) : \E v \in [sent -> Verdicts] :
              answers' = Outdated \cup
                  {[device |-> d, says |-> v[d], fresh |-> TRUE] : d \in sent}
      BY <2>1, Zenon DEF StartBatch
    <3>1. PICK verdict \in [sent -> Verdicts] :
              answers' = Outdated \cup
                  {[device |-> d, says |-> verdict[d], fresh |-> TRUE] : d \in sent}
      BY <3>0
    <3>2. \A d \in sent : [device |-> d, says |-> verdict[d], fresh |-> TRUE]
                              \in [device : Devices, says : Verdicts, fresh : BOOLEAN]
      BY SMT
    <3>3. QED
      BY <1>1, <3>1, <3>2, OutdatedType, Zenon
  <2>2. CASE ~(Usable /\ (fired \/ ~queryWindow))
    BY <1>1, <2>2, OutdatedType, Zenon DEF StartBatch
  <2>3. QED
    BY <2>1, <2>2
<1>5. /\ shown' \in [Devices -> Verdicts] /\ proof' \in [Devices -> Verdicts]
      /\ \A d \in ds : shown'[d] # "unknown" => m_connected /\ proof'[d] = shown'[d]
  <2>. DEFINE none == [d \in Devices |-> "unknown"]
  <2>1. CASE Usable /\ (fired \/ ~queryWindow)
    <3>1. shown' = Own(ds, Unknown(ds)) /\ proof' = Own(ds, none) /\ m_connected
      BY <2>1 DEF StartBatch, Usable
    <3>2. none \in [Devices -> Verdicts]
      BY DEF Verdicts
    <3> QED
      <4>1. shown' \in [Devices -> Verdicts] /\ proof' \in [Devices -> Verdicts]
        BY <1>1, <3>1, <3>2, UnknownType, OwnType
      <4>2. \A d \in ds : shown'[d] = (IF d = LocalId THEN "online" ELSE "unknown")
                         /\ proof'[d] = shown'[d]
        BY <3>1 DEF Own, Unknown
      <4> QED
        BY <3>1, <4>1, <4>2
  <2>2. CASE ~(Usable /\ (fired \/ ~queryWindow))
    <3>1. shown' = Unknown(ds) /\ proof' = none
      BY <2>2 DEF StartBatch
    <3>2. none \in [Devices -> Verdicts]
      BY DEF Verdicts
    <3>3. \A d \in ds : Unknown(ds)[d] = "unknown"
      BY DEF Unknown
    <3> QED
      BY <1>1, <3>1, <3>2, <3>3, UnknownType
  <2> QED
    BY <2>1, <2>2
<1>6. PresenceType'
  BY <1>2, <1>3, <1>4, <1>5 DEF PresenceType
<1>7. PresenceHonest'
  BY <1>2, <1>5 DEF PresenceHonest
<1>8. QED
  BY <1>6, <1>7

LEMMA PresenceKept == WsInv /\ [Next]_vars => PresenceType' /\ PresenceHonest'
<1> SUFFICES ASSUME WsInv, [Next]_vars
             PROVE  PresenceType' /\ PresenceHonest'
  OBVIOUS
<1>0. PresenceType /\ PresenceHonest
  BY DEF WsInv
<1>1. ASSUME clearPresenceState
      PROVE  PresenceType' /\ PresenceHonest'
  BY <1>1, ClearingKeepsPresence
<1>2. ASSUME UNCHANGED presence, m_connected => m_connected'
      PROVE  PresenceType' /\ PresenceHonest'
  BY <1>0, <1>2, SMT DEF PresenceType, PresenceHonest, presence, batch
<1>3. CASE Owner
  <2>1. ASSUME NEW m \in Messages, Send(m) \/ SendRefused(m) \/ SendOffline(m) \/ SendOverflow(m)
        PROVE  PresenceType' /\ PresenceHonest'
    BY <1>1, <1>2, <2>1, Zenon DEF Send, SendRefused, SendOffline, SendOverflow,
                                   onWsDisconnected, link
  <2>2. CASE \E url \in BOOLEAN : init(url) \/ resetUrlAndReconnect(url)
    BY <1>1, <2>2, Zenon DEF init, resetUrlAndReconnect
  <2>3. CASE performShutdown
    BY <1>1, <2>3, Zenon DEF performShutdown
  <2>4. QED
    BY <1>3, <2>1, <2>2, <2>3 DEF Owner
<1>4. CASE Socket
  BY <1>1, <1>2, <1>4, Zenon DEF Socket, onWsConnected, ConnectedRefused, onWsAboutToClose,
                                 Disconnected, AbortedByHandler, onWsDisconnected
<1>5. CASE Timer
  BY <1>1, <1>2, <1>5, Zenon DEF Timer, HandshakeAges, attemptReconnect, AbortHandshake,
                                 scheduleNextReconnectIfNeeded, link
<1>6. CASE Presence
  <2>0. CASE UNCHANGED link
    <3>1. UNCHANGED m_connected
      BY <2>0 DEF link
    <3>2. CASE \E ds \in Lists : queryDevicePresence(ds)
      <4>1. \A ds \in Lists : ds \in SUBSET Devices
        BY ListsAssumption
      <4> QED
        BY <3>1, <3>2, <4>1, BatchKeepsPresence DEF queryDevicePresence
    <3>3. CASE QueryTimerFires
      <4>1. m_presenceDevices \in SUBSET Devices
        BY <1>0 DEF PresenceType
      <4>2. QED
        BY <3>1, <3>3, <4>1, BatchKeepsPresence DEF QueryTimerFires
    <3>4. CASE QueryWindowEnds
      BY <1>0, <3>1, <3>4, SMT DEF PresenceType, PresenceHonest, QueryWindowEnds
    <3>5. CASE \E d \in Devices : RequestAges(d)
      BY <1>0, <3>1, <3>5, SMT DEF PresenceType, PresenceHonest, RequestAges
    <3>6. CASE expirePresenceRequests
      <4>1. answers' \subseteq [device : Devices, says : Verdicts, fresh : BOOLEAN]
        <5>1. \A a \in answers : [a EXCEPT !.fresh = @ /\ a.device \notin aged]
                                     \in [device : Devices, says : Verdicts, fresh : BOOLEAN]
          BY <1>0, MarkedType, Zenon DEF PresenceType
        <5>2. QED
          BY <3>6, <5>1, Zenon DEF expirePresenceRequests
      <4>2. QED
        BY <1>0, <3>1, <3>6, <4>1, UnknownType, SMT
           DEF PresenceType, PresenceHonest, expirePresenceRequests
    <3>7. CASE \E a \in answers : handlePresenceMessage(a)
      <4>1. PICK a \in answers : handlePresenceMessage(a)
        BY <3>7
      <4>2. /\ m_connected /\ a.device \in Devices
            /\ a.says \in Verdicts /\ "unknown" \in Verdicts
        BY <1>0, <4>1, SMT DEF PresenceType, handlePresenceMessage, Usable, Verdicts
      <4>3. QED
        BY <1>0, <3>1, <4>1, <4>2, SMT DEF PresenceType, PresenceHonest, handlePresenceMessage
    <3>8. QED
      BY <1>6, <3>2, <3>3, <3>4, <3>5, <3>6, <3>7 DEF Presence
  <2>1. QED
    BY <1>6, <2>0, Zenon DEF Presence, queryDevicePresence, QueryTimerFires, QueryWindowEnds,
                             RequestAges, expirePresenceRequests, handlePresenceMessage
<1>7. CASE UNCHANGED vars
  BY <1>2, <1>7, Zenon DEF vars, link
<1>8. QED
  BY <1>3, <1>4, <1>5, <1>6, <1>7 DEF Next

-----------------------------------------------------------------------------
(* The queue: every step is a transfer of SignalLink, or changes nothing of it *)

History == [Messages -> {"unsent", "same", "lost", "moved"}]

LEMMA HistoryType ==
  ASSUME NEW s \in History, NEW m \in Messages
  PROVE  /\ AfterLoss(s) \in History
         /\ AfterMove(s) \in History
         /\ [s EXCEPT ![m] = "same"] \in History
BY SMT DEF History, AfterLoss, AfterMove

LEMMA PartsOfSequence ==
  ASSUME NEW S, NEW q \in Seq(S), NEW c \in 0..Len(q)
  PROVE  /\ SubSeq(q, 1, c) \in Seq(S) /\ Len(SubSeq(q, 1, c)) = c
         /\ \A i \in 1..c : SubSeq(q, 1, c)[i] = q[i]
         /\ SubSeq(q, c + 1, Len(q)) \in Seq(S) /\ Len(SubSeq(q, c + 1, Len(q))) = Len(q) - c
         /\ \A i \in 1..(Len(q) - c) : SubSeq(q, c + 1, Len(q))[i] = q[c + i]
OBVIOUS

LEMMA NothingLeft ==
  ASSUME NEW S, NEW q \in Seq(S)
  PROVE  SubSeq(q, Len(q) + 1, Len(q)) = <<>> /\ SubSeq(q, 1, Len(q)) = q
BY SubSeqEmpty, SubSeqFull

\* SignalLink's copies of the operators are the ones the lemmas above are about.
LEMMA SameCount == \A S : Link!Cardinality(S) = Cardinality(S)
BY Zenon DEF Link!Cardinality, Cardinality

LEMMA SameNth == \A I, k : Link!Nth(I, k) = Nth(I, k)
BY Zenon DEF Link!Nth, Nth, Link!Cardinality, Cardinality

LEMMA SamePick == \A q, I : Link!Pick(q, I) = Pick(q, I)
BY SameCount, SameNth, Zenon DEF Link!Pick, Pick

\* What it takes to show a transfer.
LEMMA TransferBy ==
  ASSUME NEW q, NEW s, NEW c \in 0..Len(q), NEW sent \in SUBSET (1..c),
         \A i \in sent : Link!MaySend(q[i], s),
         wire' = wire \o Pick(SubSeq(q, 1, c), sent),
         m_pendingMessages' = SubSeq(q, c + 1, Len(q)),
         since' \in {s, AfterLoss(s), AfterMove(s)}
  PROVE  Link!Transfer(q, s)
<1>1. wire' = wire \o Link!Pick(SubSeq(q, 1, c), sent)
  BY SamePick, Zenon
<1>2. since' \in {s, Link!AfterLoss(s), Link!AfterMove(s)}
  BY Zenon DEF Link!AfterLoss, Link!AfterMove, AfterLoss, AfterMove
<1>3. QED
  BY <1>1, <1>2, Zenon DEF Link!Transfer

\* Nothing is sent and a front part is dropped.
LEMMA TransferNothing ==
  ASSUME WsInv, NEW q \in Seq(Messages), NEW s, NEW c \in 0..Len(q),
         wire' = wire,
         m_pendingMessages' = SubSeq(q, c + 1, Len(q)),
         since' \in {s, AfterLoss(s), AfterMove(s)}
  PROVE  Link!Transfer(q, s)
<1>. DEFINE none == {}
<1>1. wire' = wire \o Pick(SubSeq(q, 1, c), none)
  BY PickNothing, ConcatEmptySeq DEF WsInv, QueueType
<1>2. none \in SUBSET (1..c) /\ \A i \in none : Link!MaySend(q[i], s)
  OBVIOUS
<1>. HIDE DEF none
<1>3. QED
  BY <1>1, <1>2, TransferBy, Zenon

\* What the client would send of its queue, SignalLink allows it to send.
LEMMA WaitingMayBeSent ==
  ASSUME WsInv, NEW i \in Refusable(m_pendingMessages)
  PROVE  Link!MaySend(m_pendingMessages[i], since)
<1>1. i \in 1..Len(m_pendingMessages) /\ ~Stale(m_pendingMessages[i])
  BY DEF Refusable
<1>2. since[m_pendingMessages[i]] \in {"same", "lost"}
  BY <1>1 DEF WsInv, QueueSound
<1>3. m_pendingMessages[i] \in current => since[m_pendingMessages[i]] = "same"
  BY DEF WsInv, QueueSound
<1>4. QED
  BY <1>1, <1>2, <1>3, Zenon DEF Stale, Link!MaySend

\* The part before position i is transferred, the rest waits: the flush that
\* stops at a refusal, or, for i one past the end, the whole flush.
LEMMA FlushTransfers ==
  ASSUME NEW q \in Seq(Messages), NEW s, NEW c \in 0..Len(q), NEW d \in c..Len(q),
         \A i \in 1..c : ~Stale(q[i]) => Link!MaySend(q[i], s),
         wire' = wire \o Fresh(SubSeq(q, 1, c)),
         m_pendingMessages' = SubSeq(q, d + 1, Len(q)),
         since' \in {s, AfterLoss(s), AfterMove(s)}
  PROVE  Link!Transfer(q, s)
<1>. DEFINE front == SubSeq(q, 1, c)
            sent == Refusable(front)
<1>1. front \in Seq(Messages) /\ Len(front) = c /\ \A i \in 1..c : front[i] = q[i]
  BY PartsOfSequence
<1>2. \A i \in sent : i \in 1..c /\ ~Stale(q[i])
  BY <1>1 DEF Refusable
<1>3. c \in Nat /\ d \in 0..Len(q) /\ sent \in SUBSET (1..c) /\ sent \in SUBSET (1..d)
  <2>1. c \in Nat /\ d \in 0..Len(q) /\ \A i \in 1..c : i \in 1..d
    BY SMT
  <2>2. QED
    BY <1>2, <2>1, Zenon
<1>4. \A i \in sent : SubSeq(q, 1, d)[i] = front[i]
  <2>1. \A i \in 1..d : SubSeq(q, 1, d)[i] = q[i]
    BY <1>3, PartsOfSequence
  <2>2. QED
    BY <1>1, <1>2, <1>3, <2>1
<1>5. Pick(SubSeq(q, 1, d), sent) = Pick(front, sent)
  BY <1>3, <1>4, PickSame, Zenon
<1>6. wire' = wire \o Pick(SubSeq(q, 1, d), sent)
  BY <1>5, Zenon DEF Fresh
<1>7. \A i \in sent : Link!MaySend(q[i], s)
  BY <1>2
<1>. HIDE DEF sent
<1>8. QED
  BY <1>3, <1>6, <1>7, TransferBy, Zenon

\* With a new message behind the queue.
LEMMA NewMayBeSent ==
  ASSUME WsInv, NEW m \in Messages, since[m] = "unsent",
         NEW i \in 1..Len(Append(m_pendingMessages, m)),
         i = Len(m_pendingMessages) + 1 \/ ~Stale(Append(m_pendingMessages, m)[i])
  PROVE  Link!MaySend(Append(m_pendingMessages, m)[i], WithNew(m))
<1>. DEFINE q == m_pendingMessages
<1>1. q \in Seq(Messages) /\ since \in History
  BY DEF WsInv, QueueType, History
<1>2. CASE i = Len(q) + 1
  <2>1. Append(q, m)[i] = m
    BY <1>1, <1>2
  <2>2. WithNew(m)[m] = "same"
    BY <1>1 DEF WithNew, History
  <2>3. QED
    BY <2>1, <2>2 DEF Link!MaySend
<1>3. CASE i \in 1..Len(q)
  <2>1. Append(q, m)[i] = q[i] /\ q[i] \in Messages
    BY <1>1, <1>3
  <2>2. ~Stale(q[i])
    BY <1>1, <1>3, <2>1
  <2>3. Link!MaySend(q[i], since)
    BY <1>3, <2>2, WaitingMayBeSent DEF Refusable
  <2>4. q[i] # m
    BY <2>3 DEF Link!MaySend
  <2>5. WithNew(m)[q[i]] = since[q[i]]
    BY <1>1, <2>1, <2>4 DEF WithNew, History
  <2>6. QED
    BY <2>1, <2>3, <2>5 DEF Link!MaySend
<1>4. QED
  BY <1>1, <1>2, <1>3

LEMMA DropStaleIsRest ==
  ASSUME NEW q \in Seq(Messages)
  PROVE  \E c \in 0..Len(q) : DropStale(q) = SubSeq(q, c + 1, Len(q))
<1>1. CASE Refusable(q) = {}
  BY <1>1, NothingLeft DEF DropStale
<1>2. CASE Refusable(q) # {}
  <2>1. Refusable(q) \in SUBSET Nat
    BY SMT DEF Refusable
  <2>2. PICK i \in Refusable(q) : \A j \in Refusable(q) : i <= j
    BY <1>2, <2>1, LeastElement
  <2>3. PICK n \in Refusable(q) : DropStale(q) = SubSeq(q, n, Len(q))
    BY <1>2, <2>2, Zenon DEF DropStale, From
  <2>4. n \in 1..Len(q) /\ n - 1 \in 0..Len(q) /\ (n - 1) + 1 = n
    BY SMT DEF Refusable
  <2>5. QED
    BY <2>3, <2>4
<1>3. QED
  BY <1>1, <1>2

LEMMA LostHistory ==
  ASSUME NEW s, onWsDisconnected(s)
  PROVE  since' \in {s, AfterLoss(s), AfterMove(s)}
BY Zenon DEF onWsDisconnected

LEMMA SendTransfers ==
  ASSUME WsInv, NEW m \in Messages, Send(m)
  PROVE  Link!Accept(m)
<1>. DEFINE q == m_pendingMessages
            offered == Append(q, m)
            sent == Refusable(q) \cup {Len(q) + 1}
<1>1. q \in Seq(Messages) /\ wire \in Seq(Messages)
  BY DEF WsInv, QueueType
<1>2. since[m] = "unsent" /\ since' = WithNew(m) /\ m_pendingMessages' = <<>>
  BY DEF Send, HandOver
<1>3. offered \in Seq(Messages) /\ Len(offered) = Len(q) + 1 /\ Len(q) \in Nat
      /\ \A i \in 1..Len(q) : offered[i] = q[i]
  BY <1>1
<1>4. Refusable(q) \in SUBSET (1..Len(q))
  BY Zenon DEF Refusable
<1>5. sent \in SUBSET (1..Len(offered))
  <2>1. \A i \in sent : i \in 1..(Len(q) + 1)
    BY <1>3, <1>4, SMT
  <2>2. QED
    BY <1>3, <2>1, Zenon
<1>6. \A i \in sent : Link!MaySend(offered[i], WithNew(m))
  <2>1. TAKE i \in sent
  <2>2. i \in 1..Len(offered)
    BY <1>5
  <2>3. i = Len(q) + 1 \/ ~Stale(offered[i])
    BY <1>3 DEF Refusable
  <2>4. QED
    BY <1>2, <2>2, <2>3, NewMayBeSent, Zenon
<1>7. wire' = wire \o Pick(offered, sent)
  <2>1. Fresh(q) \in Seq(Messages)
    BY <1>1, <1>4, PickType DEF Fresh
  <2>2. Pick(offered, sent) = Append(Fresh(q), m)
    <3>1. Pick(Append(q, m), Refusable(q) \cup {Len(q) + 1}) = Append(Pick(q, Refusable(q)), m)
      BY <1>1, <1>4, PickAppend, ZenonT(40)
    <3>2. QED
      BY <3>1, Zenon DEF Fresh
  <2>3. wire' = Append(wire \o Fresh(q), m)
    BY DEF Send
  <2>4. Append(wire \o Fresh(q), m) = wire \o Append(Fresh(q), m)
    <3>1. \A u, v \in Seq(Messages) : Append(u \o v, m) = u \o Append(v, m)
      BY SMTT(30)
    <3>2. QED
      BY <1>1, <2>1, <3>1, Zenon
  <2>5. QED
    BY <2>2, <2>3, <2>4
<1>8. SubSeq(offered, 1, Len(offered)) = offered
      /\ m_pendingMessages' = SubSeq(offered, Len(offered) + 1, Len(offered))
      /\ Len(offered) \in 0..Len(offered)
  BY <1>2, <1>3, NothingLeft
<1>. HIDE DEF sent, offered
<1>9. Link!Transfer(offered, WithNew(m))
  BY <1>2, <1>5, <1>6, <1>7, <1>8, TransferBy, Zenon
<1>10. QED
  BY <1>2, <1>9, Zenon DEF Link!Accept, WithNew, offered

LEMMA RefusedTransfers ==
  ASSUME WsInv, NEW m \in Messages, SendRefused(m)
  PROVE  Link!Accept(m)
<1>. DEFINE q == m_pendingMessages
            offered == Append(q, m)
<1>1. q \in Seq(Messages)
  BY DEF WsInv, QueueType
<1>2. since[m] = "unsent" /\ since' \in {WithNew(m), AfterLoss(WithNew(m)), AfterMove(WithNew(m))}
  BY LostHistory DEF SendRefused, HandOver
<1>3. offered \in Seq(Messages) /\ Len(offered) = Len(q) + 1 /\ Len(q) \in Nat
  BY <1>1
<1>4. PICK i \in Refusable(q) \cup {Len(offered)} :
          /\ wire' = wire \o Fresh(Before(offered, i))
          /\ m_pendingMessages' = IF i < Len(offered) /\ Overflows(From(q, i))
                                  THEN <<>> ELSE From(offered, i)
  BY Zenon DEF SendRefused
<1>5. i \in 1..Len(offered)
  BY <1>3, SMT DEF Refusable
<1>6. PICK c \in 0..Len(offered) : c = i - 1
  BY <1>5
<1>7. wire' = wire \o Fresh(SubSeq(offered, 1, c))
  BY <1>4, <1>6 DEF Before
<1>8. PICK d \in c..Len(offered) : m_pendingMessages' = SubSeq(offered, d + 1, Len(offered))
  <2>1. CASE i < Len(offered) /\ Overflows(From(q, i))
    BY <1>3, <1>4, <1>6, <2>1, NothingLeft
  <2>2. CASE ~(i < Len(offered) /\ Overflows(From(q, i)))
    <3>1. c + 1 = i /\ c \in c..Len(offered)
      BY <1>5, <1>6
    <3>2. m_pendingMessages' = SubSeq(offered, i, Len(offered))
      BY <1>4, <2>2, Zenon DEF From
    <3>3. QED
      BY <3>1, <3>2
  <2>3. QED
    BY <2>1, <2>2
<1>9. \A j \in 1..c : ~Stale(offered[j]) => Link!MaySend(offered[j], WithNew(m))
  <2>1. TAKE j \in 1..c
  <2>2. j \in 1..Len(offered)
    BY <1>3, <1>6
  <2>3. QED
    BY <1>2, <2>2, NewMayBeSent, Zenon
<1>. HIDE DEF offered
<1>10. Link!Transfer(offered, WithNew(m))
  BY <1>2, <1>3, <1>7, <1>8, <1>9, FlushTransfers, Zenon
<1>11. QED
  BY <1>2, <1>10, Zenon DEF Link!Accept, WithNew, offered

LEMMA OfflineTransfers ==
  ASSUME WsInv, NEW m \in Messages, SendOffline(m) \/ SendOverflow(m)
  PROVE  Link!Accept(m)
<1>. DEFINE q == m_pendingMessages
            offered == Append(q, m)
<1>1. q \in Seq(Messages) /\ Len(q) \in Nat /\ since[m] = "unsent"
  BY DEF WsInv, QueueType, SendOffline, SendOverflow, HandOver
<1>2. offered \in Seq(Messages) /\ Len(offered) = Len(q) + 1
  BY <1>1
<1>3. since' \in {WithNew(m), AfterLoss(WithNew(m)), AfterMove(WithNew(m))} /\ wire' = wire
  BY LostHistory, Zenon DEF SendOffline, SendOverflow
<1>4. PICK c \in 0..Len(offered) : m_pendingMessages' = SubSeq(offered, c + 1, Len(offered))
  <2>1. CASE SendOffline(m)
    <3>1. PICK c \in 0..Len(q) : DropStale(q) = SubSeq(q, c + 1, Len(q))
      BY <1>1, DropStaleIsRest
    <3>2. m_pendingMessages' = Append(SubSeq(q, c + 1, Len(q)), m)
      BY <2>1, <3>1, Zenon DEF SendOffline
    <3>3. Append(SubSeq(q, c + 1, Len(q)), m) = SubSeq(Append(q, m), c + 1, Len(q) + 1)
      BY <1>1
    <3>4. c \in 0..Len(offered) /\ m_pendingMessages' = SubSeq(offered, c + 1, Len(offered))
      BY <1>1, <1>2, <3>2, <3>3
    <3>5. QED
      BY <3>4
  <2>2. CASE SendOverflow(m)
    BY <1>2, <2>2, NothingLeft DEF SendOverflow
  <2>3. QED
    BY <2>1, <2>2
<1>. HIDE DEF offered
<1>5. Link!Transfer(offered, WithNew(m))
  BY <1>2, <1>3, <1>4, TransferNothing, Zenon
<1>6. QED
  BY <1>1, <1>5, Zenon DEF Link!Accept, WithNew, offered

LEMMA FlushOnConnect ==
  ASSUME WsInv, onWsConnected \/ ConnectedRefused
  PROVE  Link!Transfer(m_pendingMessages, since)
<1>. DEFINE q == m_pendingMessages
<1>1. q \in Seq(Messages) /\ Len(q) \in Nat
  BY DEF WsInv, QueueType
<1>2. since' \in {since, AfterLoss(since), AfterMove(since)}
  BY Zenon DEF onWsConnected, ConnectedRefused
<1>3. PICK c \in 0..Len(q) :
          /\ wire' = wire \o Fresh(SubSeq(q, 1, c))
          /\ m_pendingMessages' = SubSeq(q, c + 1, Len(q))
  <2>1. CASE onWsConnected
    <3>1. Len(q) \in 0..Len(q)
      BY <1>1
    <3>2. QED
      BY <1>1, <2>1, <3>1, NothingLeft, Zenon DEF onWsConnected
  <2>2. CASE ConnectedRefused
    <3>1. PICK i \in Refusable(q) :
              wire' = wire \o Fresh(Before(q, i)) /\ m_pendingMessages' = From(q, i)
      BY <2>2, Zenon DEF ConnectedRefused
    <3>2. i - 1 \in 0..Len(q) /\ (i - 1) + 1 = i
      BY <1>1, SMT DEF Refusable
    <3>3. QED
      BY <3>1, <3>2 DEF Before, From
  <2>3. QED
    BY <2>1, <2>2
<1>4. \A i \in 1..c : ~Stale(q[i]) => Link!MaySend(q[i], since)
  <2>1. \A i \in 1..c : i \in 1..Len(q)
    BY <1>1
  <2>2. QED
    BY <2>1, WaitingMayBeSent, Zenon DEF Refusable
<1>5. c \in c..Len(q)
  OBVIOUS
<1>6. QED
  BY <1>1, <1>2, <1>3, <1>4, <1>5, FlushTransfers, Zenon

\* Whatever the client does, SignalLink may do.
LEMMA StepImplements ==
  ASSUME WsInv, [Next]_vars
  PROVE  Link!Next \/ UNCHANGED Link!linkVars
<1>. DEFINE q == m_pendingMessages
            Waits == Link!Transfer(q, since)
<1>0. q \in Seq(Messages) /\ Len(q) \in Nat
  BY DEF WsInv, QueueType
<1>1. ASSUME m_pendingMessages' \in {q, <<>>}, wire' = wire,
             since' \in {since, AfterLoss(since), AfterMove(since)}
      PROVE  Link!Next
  <2>1. PICK c \in 0..Len(q) : m_pendingMessages' = SubSeq(q, c + 1, Len(q))
    <3>1. 0 \in 0..Len(q) /\ Len(q) \in 0..Len(q) /\ SubSeq(q, 0 + 1, Len(q)) = q
      BY <1>0
    <3>2. SubSeq(q, Len(q) + 1, Len(q)) = <<>>
      BY <1>0, NothingLeft
    <3>3. QED
      BY <1>1, <3>1, <3>2, Zenon
  <2>2. QED
    BY <1>0, <1>1, <2>1, TransferNothing, Zenon DEF Link!Next
<1>2. CASE \E m \in Messages : Send(m) \/ SendRefused(m) \/ SendOffline(m) \/ SendOverflow(m)
  BY <1>2, SendTransfers, RefusedTransfers, OfflineTransfers, Zenon DEF Link!Next
<1>3. CASE \E url \in BOOLEAN : init(url) \/ resetUrlAndReconnect(url)
  BY <1>1, <1>3, Zenon DEF init, resetUrlAndReconnect
<1>4. CASE performShutdown
  BY <1>1, <1>4, Zenon DEF performShutdown
<1>5. CASE Socket
  <2>1. CASE onWsConnected \/ ConnectedRefused
    BY <2>1, FlushOnConnect DEF Link!Next
  <2>2. CASE onWsAboutToClose
    BY <2>2, Zenon DEF onWsAboutToClose, queue, Link!linkVars
  <2>3. CASE Disconnected \/ AbortedByHandler
    BY <1>1, <2>3, LostHistory, Zenon DEF Disconnected, AbortedByHandler
  <2>4. QED
    BY <1>5, <2>1, <2>2, <2>3 DEF Socket
<1>6. CASE Timer
  BY <1>1, <1>6, Zenon DEF Timer, HandshakeAges, attemptReconnect, AbortHandshake,
                           scheduleNextReconnectIfNeeded, queue, Link!linkVars
<1>7. CASE Presence
  BY <1>7, Zenon DEF Presence, queryDevicePresence, QueryTimerFires, QueryWindowEnds, RequestAges,
                     expirePresenceRequests, handlePresenceMessage, queue, Link!linkVars
<1>8. CASE UNCHANGED vars
  BY <1>8, Zenon DEF vars, queue, Link!linkVars
<1>9. QED
  BY <1>2, <1>3, <1>4, <1>5, <1>6, <1>7, <1>8 DEF Next, Owner

LEMMA TransferType ==
  ASSUME WsInv, NEW q \in Seq(Messages), NEW s \in History, Link!Transfer(q, s)
  PROVE  /\ m_pendingMessages' \in Seq(Messages)
         /\ wire' \in Seq(Messages)
         /\ since' \in History
         /\ since' \in {s, AfterLoss(s), AfterMove(s)}
         /\ \A i \in 1..Len(m_pendingMessages') :
                \E j \in 1..Len(q) : m_pendingMessages'[i] = q[j]
<1>1. PICK cut \in 0..Len(q) :
          /\ m_pendingMessages' = SubSeq(q, cut + 1, Len(q))
          /\ since' \in {s, AfterLoss(s), AfterMove(s)}
          /\ \E sent \in SUBSET (1..cut) : wire' = wire \o Pick(SubSeq(q, 1, cut), sent)
  BY SamePick, Zenon DEF Link!Transfer, Link!AfterLoss, Link!AfterMove, AfterLoss, AfterMove
<1>2. PICK sent \in SUBSET (1..cut) : wire' = wire \o Pick(SubSeq(q, 1, cut), sent)
  BY <1>1
<1>3. wire' \in Seq(Messages)
  <2>1. SubSeq(q, 1, cut) \in Seq(Messages) /\ Len(SubSeq(q, 1, cut)) = cut
    BY PartsOfSequence
  <2>2. Pick(SubSeq(q, 1, cut), sent) \in Seq(Messages)
    BY <2>1, PickType
  <2>3. wire \in Seq(Messages)
    BY DEF WsInv, QueueType
  <2>4. QED
    BY <1>2, <2>2, <2>3
<1>4. since' \in History
  <2>1. AfterLoss(s) \in History /\ AfterMove(s) \in History
    BY SMT DEF History, AfterLoss, AfterMove
  <2>2. QED
    BY <1>1, <2>1
<1>5. /\ m_pendingMessages' \in Seq(Messages)
      /\ \A i \in 1..Len(m_pendingMessages') :
             \E j \in 1..Len(q) : m_pendingMessages'[i] = q[j]
  <2>1. /\ m_pendingMessages' \in Seq(Messages)
        /\ Len(m_pendingMessages') = Len(q) - cut
        /\ \A i \in 1..(Len(q) - cut) : m_pendingMessages'[i] = q[cut + i]
    BY <1>1, PartsOfSequence
  <2>2. \A i \in 1..(Len(q) - cut) : cut + i \in 1..Len(q)
    OBVIOUS
  <2>3. QED
    BY <2>1, <2>2
<1>6. QED
  BY <1>1, <1>3, <1>4, <1>5

\* A change of server leaves nothing in the queue.
LEMMA NoMoveWaits ==
  ASSUME WsInv, Next, NEW x \in Messages, since[x] # "moved", since'[x] = "moved"
  PROVE  m_pendingMessages' = <<>>
<1>1. since \in History
  BY DEF WsInv, QueueType, History
<1>2. ASSUME NEW s \in History, s[x] # "moved", onWsDisconnected(s)
      PROVE  FALSE
  BY <1>2, SMT DEF onWsDisconnected, AfterLoss, History
<1>3. ASSUME NEW m \in Messages, since' = WithNew(m) \/ onWsDisconnected(WithNew(m))
      PROVE  FALSE
  <2>1. WithNew(m) \in History /\ WithNew(m)[x] # "moved"
    BY <1>1, SMT DEF WithNew, History
  <2>2. QED
    BY <1>2, <1>3, <2>1
<1>4. since' # since /\ ~onWsDisconnected(since) /\ since' # AfterLoss(since)
  <2>1. AfterLoss(since)[x] # "moved"
    BY <1>1, SMT DEF AfterLoss, History
  <2>2. QED
    BY <1>1, <1>2, <2>1
<1>5. \E url \in BOOLEAN : init(url) \/ resetUrlAndReconnect(url)
  BY <1>3, <1>4, Zenon DEF Next, Owner, performShutdown, Send, SendRefused, SendOffline, SendOverflow,
         Socket, onWsConnected, ConnectedRefused, onWsAboutToClose, Disconnected, AbortedByHandler,
         Timer, HandshakeAges, attemptReconnect, AbortHandshake, scheduleNextReconnectIfNeeded,
         Presence, queryDevicePresence, QueryTimerFires, QueryWindowEnds, RequestAges,
         expirePresenceRequests, handlePresenceMessage, queue
<1>6. QED
  BY <1>5, Zenon DEF init, resetUrlAndReconnect

\* A message of the current generation has seen no loss.
LEMMA GenerationKept ==
  ASSUME WsInv, [Next]_vars
  PROVE  current' \subseteq Messages /\ \A m \in current' : since'[m] = "same"
<1>0. /\ since \in History
      /\ current \subseteq Messages
      /\ \A m \in current : since[m] = "same"
  BY DEF WsInv, QueueType, QueueSound, History
<1>1. ASSUME current' = {}
      PROVE  current' \subseteq Messages /\ \A m \in current' : since'[m] = "same"
  BY <1>1
<1>2. ASSUME UNCHANGED <<current, since>>
      PROVE  current' \subseteq Messages /\ \A m \in current' : since'[m] = "same"
  BY <1>0, <1>2
<1>3. ASSUME NEW m \in Messages, since' = WithNew(m), current' \in {current, current \cup {m}}
      PROVE  current' \subseteq Messages /\ \A x \in current' : since'[x] = "same"
  BY <1>0, <1>3, SMT DEF WithNew, History
<1>4. CASE Owner
  BY <1>1, <1>3, <1>4, Zenon DEF Owner, init, resetUrlAndReconnect, performShutdown,
         Send, SendRefused, SendOffline, SendOverflow, onWsDisconnected
<1>5. CASE Socket
  BY <1>1, <1>2, <1>5, Zenon DEF Socket, onWsConnected, ConnectedRefused, onWsAboutToClose,
         Disconnected, AbortedByHandler, onWsDisconnected, queue
<1>6. CASE Timer
  BY <1>1, <1>2, <1>6, Zenon DEF Timer, HandshakeAges, attemptReconnect, AbortHandshake,
         scheduleNextReconnectIfNeeded, queue
<1>7. CASE Presence
  BY <1>2, <1>7, Zenon DEF Presence, queryDevicePresence, QueryTimerFires, QueryWindowEnds,
         RequestAges, expirePresenceRequests, handlePresenceMessage, queue
<1>8. CASE UNCHANGED vars
  BY <1>2, <1>8, Zenon DEF vars, queue
<1>9. QED
  BY <1>4, <1>5, <1>6, <1>7, <1>8 DEF Next

\* The queue never holds more than MaxPending messages: what a refusal leaves
\* of a full queue has no room for the new message, and goes.
LEMMA BoundKept ==
  ASSUME WsInv, [Next]_vars
  PROVE  Len(m_pendingMessages') <= MaxPending
<1>. DEFINE q == m_pendingMessages
            Bounded == Len(m_pendingMessages') <= MaxPending
<1>0. q \in Seq(Messages) /\ Len(q) \in Nat /\ Len(q) <= MaxPending
  BY DEF WsInv, QueueType
<1>1. ASSUME m_pendingMessages' = <<>>
      PROVE  Bounded
  BY <1>1, SMT DEF WsAssumption
<1>2. ASSUME UNCHANGED m_pendingMessages
      PROVE  Bounded
  BY <1>0, <1>2
<1>3. ASSUME NEW m \in Messages, SendRefused(m)
      PROVE  Bounded
  <2>. DEFINE offered == Append(q, m)
  <2>1. offered \in Seq(Messages) /\ Len(offered) = Len(q) + 1
    BY <1>0
  <2>2. PICK i \in Refusable(q) \cup {Len(offered)} :
            m_pendingMessages' = IF i < Len(offered) /\ Overflows(From(q, i))
                                 THEN <<>> ELSE From(offered, i)
    BY <1>3, Zenon DEF SendRefused
  <2>3. i \in 1..Len(offered)
    BY <1>0, <2>1, SMT DEF Refusable
  <2>4. Len(From(offered, i)) = Len(offered) - i + 1
    BY <2>1, <2>3 DEF From
  <2>5. CASE i < Len(offered) /\ Overflows(From(q, i))
    BY <1>1, <2>2, <2>5
  <2>6. CASE i = Len(offered)
    <3>1. m_pendingMessages' = From(offered, i) /\ Len(From(offered, i)) = 1
      BY <1>0, <2>1, <2>2, <2>4, <2>6
    <3>2. QED
      BY <3>1 DEF WsAssumption
  <2>7. CASE i < Len(offered) /\ ~Overflows(From(q, i))
    <3>1. Len(From(q, i)) = Len(q) - i + 1
      BY <1>0, <2>1, <2>3, <2>7 DEF From
    <3>2. QED
      BY <1>0, <2>1, <2>2, <2>3, <2>4, <2>7, <3>1 DEF Overflows, WsAssumption
  <2>8. QED
    BY <2>1, <2>3, <2>5, <2>6, <2>7
<1>4. ASSUME NEW m \in Messages, SendOffline(m)
      PROVE  Bounded
  <2>1. PICK c \in 0..Len(q) : DropStale(q) = SubSeq(q, c + 1, Len(q))
    BY <1>0, DropStaleIsRest
  <2>2. DropStale(q) \in Seq(Messages)
    BY <1>0, <2>1, PartsOfSequence
  <2>3. m_pendingMessages' = Append(DropStale(q), m) /\ ~(Len(DropStale(q)) >= MaxPending)
    BY <1>4, Zenon DEF SendOffline, Overflows
  <2>4. QED
    BY <2>2, <2>3 DEF WsAssumption
<1>5. CASE Owner
  BY <1>1, <1>3, <1>4, <1>5, Zenon DEF Owner, init, resetUrlAndReconnect, performShutdown,
         Send, SendOverflow
<1>6. CASE Socket
  <2>1. CASE ConnectedRefused
    <3>1. PICK i \in Refusable(q) : m_pendingMessages' = From(q, i)
      BY <2>1, Zenon DEF ConnectedRefused
    <3>2. i \in 1..Len(q)
      BY DEF Refusable
    <3>3. QED
      BY <1>0, <3>1, <3>2 DEF From, WsAssumption
  <2>2. CASE ~ConnectedRefused
    BY <1>1, <1>2, <1>6, <2>2, Zenon DEF Socket, onWsConnected, onWsAboutToClose, Disconnected,
           AbortedByHandler, queue
  <2>3. QED
    BY <2>1, <2>2
<1>7. CASE Timer
  BY <1>2, <1>7, Zenon DEF Timer, HandshakeAges, attemptReconnect, AbortHandshake,
         scheduleNextReconnectIfNeeded, queue
<1>8. CASE Presence
  BY <1>2, <1>8, Zenon DEF Presence, queryDevicePresence, QueryTimerFires, QueryWindowEnds,
         RequestAges, expirePresenceRequests, handlePresenceMessage, queue
<1>9. CASE UNCHANGED vars
  BY <1>2, <1>9, Zenon DEF vars, queue
<1>10. QED
  BY <1>5, <1>6, <1>7, <1>8, <1>9 DEF Next

LEMMA QueueKept == WsInv /\ [Next]_vars => QueueType' /\ QueueSound'
<1> SUFFICES ASSUME WsInv, [Next]_vars
             PROVE  QueueType' /\ QueueSound'
  OBVIOUS
<1>0. /\ m_pendingMessages \in Seq(Messages) /\ since \in History
      /\ \A i \in 1..Len(m_pendingMessages) : since[m_pendingMessages[i]] \in {"same", "lost"}
  BY DEF WsInv, QueueType, QueueSound, History
<1>1. ASSUME NEW q \in Seq(Messages), NEW s \in History, Link!Transfer(q, s), Next,
             \A i \in 1..Len(q) : s[q[i]] \in {"same", "lost"},
             \A m \in Messages : s[m] # "moved" => since[m] # "moved"
      PROVE  QueueType' /\ QueueSound'
  <2>1. /\ m_pendingMessages' \in Seq(Messages) /\ wire' \in Seq(Messages)
        /\ since' \in History /\ since' \in {s, AfterLoss(s), AfterMove(s)}
        /\ \A i \in 1..Len(m_pendingMessages') :
               \E j \in 1..Len(q) : m_pendingMessages'[i] = q[j]
    BY <1>1, TransferType
  <2>2. \A i \in 1..Len(m_pendingMessages') : since'[m_pendingMessages'[i]] \in {"same", "lost"}
    <3>1. TAKE i \in 1..Len(m_pendingMessages')
    <3>2. PICK x \in Messages : x = m_pendingMessages'[i]
      BY <2>1
    <3>3. s[x] \in {"same", "lost"}
      BY <1>1, <2>1, <3>2
    <3>4. since'[x] # "moved"
      <4>1. m_pendingMessages' # <<>>
        BY <2>1
      <4>2. since[x] # "moved"
        BY <1>1, <3>3
      <4>3. QED
        BY <1>1, <4>1, <4>2, NoMoveWaits
    <3>5. QED
      BY <1>1, <2>1, <3>2, <3>3, <3>4, SMT DEF AfterLoss, AfterMove, History
  <2>3. QED
    BY <2>1, <2>2, BoundKept, GenerationKept DEF QueueType, QueueSound, History
<1>2. CASE UNCHANGED Link!linkVars
  <2>1. UNCHANGED <<m_pendingMessages, wire, since>>
    BY <1>2 DEF Link!linkVars
  <2>2. QED
    BY <2>1, BoundKept, GenerationKept DEF WsInv, QueueType, QueueSound
<1>3. CASE Next /\ Link!Next
  <2>1. CASE Link!Transfer(m_pendingMessages, since)
    BY <1>0, <1>1, <1>3, <2>1, Zenon
  <2>2. ASSUME NEW m \in Messages, Link!Accept(m)
        PROVE  QueueType' /\ QueueSound'
    <3>. DEFINE q == m_pendingMessages
                offered == Append(q, m)
    <3>1. since[m] = "unsent" /\ Link!Transfer(offered, WithNew(m))
      BY <2>2, Zenon DEF Link!Accept, WithNew
    <3>2. WithNew(m) \in History /\ \A x \in Messages : WithNew(m)[x] # "moved" => since[x] # "moved"
      BY <1>0, <3>1, SMT DEF WithNew, History
    <3>3. offered \in Seq(Messages)
      BY <1>0
    <3>4. \A i \in 1..Len(offered) : WithNew(m)[offered[i]] \in {"same", "lost"}
      BY <1>0 DEF WithNew, History
    <3>. HIDE DEF offered
    <3>5. QED
      BY <1>1, <1>3, <3>1, <3>2, <3>3, <3>4, Zenon
  <2>3. QED
    BY <1>3, <2>1, <2>2 DEF Link!Next
<1>4. QED
  BY <1>2, <1>3, StepImplements DEF WsInv, vars, queue, Link!linkVars

-----------------------------------------------------------------------------
(* The theorems *)

LEMMA WsInvariant == Spec => []WsInv
<1>1. Init => WsInv
  BY WsInitial
<1>2. WsInv /\ [Next]_vars => WsInv'
  BY FlagsKept, LinkKept, PresenceKept, QueueKept DEF WsInv
<1>3. QED
  BY <1>1, <1>2, PTL DEF Spec

\* The state stays in its types: the queue within its bound, the attempts
\* within their phase, and the requests and the aged requests among the devices asked.
THEOREM WsTypeCorrect == Spec => []TypeOK
<1>1. WsInv => TypeOK
  BY TypesAreParts DEF WsInv
<1>2. QED
  BY <1>1, WsInvariant, PTL

\* An offline client that should be online has a timer that brings it back, and
\* a connected one has nothing left to flush (attemptReconnect,
\* scheduleNextReconnectIfNeeded, onWsDisconnected, flushPendingMessages).
THEOREM WsNothingStuck == Spec => []NothingStuck
<1>1. WsInv => NothingStuck
  BY DEF WsInv
<1>2. QED
  BY <1>1, WsInvariant, PTL

\* A device is shown online or offline only while the client is connected and
\* only if that is its timely answer to the present batch.
THEOREM WsPresenceHonest == Spec => []PresenceHonest
<1>1. WsInv => PresenceHonest
  BY DEF WsInv
<1>2. QED
  BY <1>1, WsInvariant, PTL

\* Queueing, flushing, dropping by generation and overflow implement SignalLink:
\* every handler is one of its transfers or leaves the queue alone.
THEOREM WsImplementsLink == Spec => ImplementsLink
<1>1. Init => Link!Init
  BY DEF Init, Link!Init
<1>2. WsInv /\ [Next]_vars => [Link!Next]_(Link!linkVars)
  BY StepImplements
<1>3. QED
  BY <1>1, <1>2, WsInvariant, PTL DEF Spec, ImplementsLink, Link!LinkSpec
=============================================================================
