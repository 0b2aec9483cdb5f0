--------------------------- MODULE FileIngressProofs ---------------------------
(***************************************************************************)
(* That files are written whole, once and only after all of them was sent, *)
(* that the end of a session leaves nothing behind, and that a queued      *)
(* fragment always has a drain coming, for any files, limits and failures. *)
(***************************************************************************)
EXTENDS FileCancel, WellFoundedInduction, TLAPS

-----------------------------------------------------------------------------
(***************************************************************************)
(* The dispatcher's invariants, and that it implements the safety part of  *)
(* CallbackQueue, for any callbacks, threads and limits.                   *)
(***************************************************************************)

USE DispatcherAssumption

\* TakeCallback, and with it the counter's bound, needs to know that a callback
\* runs only below the limit.
BelowLimit == drain = "running" => drained < MaxCallbacksPerDrain

DispatcherInv ==
    /\ DispatcherTypeOK
    /\ BelowLimit
    /\ OneDrainOnItsWay
    /\ NobodyStranded

LEMMA EmptyQueue == <<>> \in Seq(Callbacks)
  OBVIOUS

LEMMA DispatcherInitial == DispatcherInit => DispatcherInv
<1> SUFFICES ASSUME DispatcherInit
             PROVE  DispatcherInv
  OBVIOUS
<1>1. drained \in 0..MaxCallbacksPerDrain /\ drainCalls \in Nat
  BY SMT DEF DispatcherInit
<1>2. DispatcherTypeOK
  BY <1>1, EmptyQueue, Zenon DEF DispatcherInit, DispatcherTypeOK, DrainStates
<1>3. BelowLimit /\ OneDrainOnItsWay /\ NobodyStranded
  BY SMT DEF DispatcherInit, BelowLimit, OneDrainOnItsWay, NobodyStranded
<1>4. QED
  BY <1>2, <1>3 DEF DispatcherInv

LEMMA EnqueueKeeps ==
  ASSUME DispatcherInv, NEW t \in Threads, NEW c \in Callbacks, Enqueue(t, c)
  PROVE  DispatcherInv'
<1>1. CASE drainScheduled
  BY <1>1, SMT DEF DispatcherInv, DispatcherTypeOK, BelowLimit, OneDrainOnItsWay, NobodyStranded,
                   Enqueue, MayPost
<1>2. CASE ~drainScheduled
  <2>1. invoking = {} /\ drainCalls = 0 /\ drain = "away"
    BY <1>2, SMT DEF DispatcherInv, DispatcherTypeOK, OneDrainOnItsWay
  <2>2. QED
    BY <1>2, <2>1, SMT DEF DispatcherInv, DispatcherTypeOK, BelowLimit, OneDrainOnItsWay,
                           NobodyStranded, Enqueue, MayPost
<1>3. QED
  BY <1>1, <1>2 DEF DispatcherInv, DispatcherTypeOK

LEMMA InvokeKeeps ==
  ASSUME DispatcherInv, NEW t \in Threads, InvokeDrain(t) \/ InvokeFails(t)
  PROVE  DispatcherInv'
<1>1. invoking = {t} /\ drainCalls = 0 /\ drain = "away" /\ drainScheduled
  BY SMT DEF DispatcherInv, DispatcherTypeOK, OneDrainOnItsWay, InvokeDrain, InvokeFails
<1>2. CASE InvokeDrain(t)
  BY <1>1, <1>2, SMT DEF DispatcherInv, DispatcherTypeOK, BelowLimit, OneDrainOnItsWay,
                         NobodyStranded, InvokeDrain
<1>3. CASE InvokeFails(t)
  <2>1. DispatcherTypeOK'
    BY <1>3, EmptyQueue, Zenon DEF DispatcherInv, DispatcherTypeOK, InvokeFails
  <2>2. BelowLimit' /\ OneDrainOnItsWay' /\ NobodyStranded'
    BY <1>1, <1>3, SMT DEF DispatcherInv, DispatcherTypeOK, BelowLimit, OneDrainOnItsWay,
                           NobodyStranded, InvokeFails
  <2>3. QED
    BY <2>1, <2>2 DEF DispatcherInv
<1>4. QED
  BY <1>2, <1>3

LEMMA DrainKeeps ==
  ASSUME DispatcherInv, DrainStep \/ InvokeAgainFails
  PROVE  DispatcherInv'
<1> USE DEF DispatcherInv, DispatcherTypeOK, BelowLimit, OneDrainOnItsWay, NobodyStranded, DrainStates
<1>1. CASE StartDrain
  BY <1>1, SMT DEF StartDrain
<1>2. CASE TakeCallback
  BY <1>2, SMT DEF TakeCallback
<1>3. CASE CallbackReturns
  BY <1>3, SMT DEF CallbackReturns
<1>4. CASE FindEmpty
  <2>1. drainCalls = 0 /\ invoking = {}
    BY <1>4, SMT DEF FindEmpty
  <2>2. DispatcherTypeOK'
    BY <1>4, Zenon DEF FindEmpty
  <2>3. BelowLimit' /\ NobodyStranded' /\ OneDrainOnItsWay'
    BY <1>4, <2>1, SMT DEF FindEmpty
  <2>4. QED
    BY <2>2, <2>3
<1>5. CASE EndSlice
  BY <1>5, SMT DEF EndSlice
<1>6. CASE InvokeAgain
  BY <1>6, SMT DEF InvokeAgain
<1>7. CASE InvokeAgainFails
  <2>1. drainCalls = 0 /\ invoking = {}
    BY <1>7, SMT DEF InvokeAgainFails
  <2>2. DispatcherTypeOK'
    BY <1>7, EmptyQueue, Zenon DEF InvokeAgainFails
  <2>3. BelowLimit' /\ NobodyStranded' /\ OneDrainOnItsWay'
    BY <1>7, <2>1, SMT DEF InvokeAgainFails
  <2>4. QED
    BY <2>2, <2>3
<1>8. QED
  BY <1>1, <1>2, <1>3, <1>4, <1>5, <1>6, <1>7 DEF DrainStep

LEMMA DispatcherKept == DispatcherInv /\ [DispatcherNext]_dispatcherVars => DispatcherInv'
<1> SUFFICES ASSUME DispatcherInv, [DispatcherNext]_dispatcherVars
             PROVE  DispatcherInv'
  OBVIOUS
<1>1. CASE UNCHANGED dispatcherVars
  BY <1>1, SMT DEF dispatcherVars, DispatcherInv, DispatcherTypeOK, BelowLimit, OneDrainOnItsWay,
                   NobodyStranded
<1>2. CASE DispatcherNext
  BY <1>2, EnqueueKeeps, InvokeKeeps, DrainKeeps DEF DispatcherNext
<1>3. QED
  BY <1>1, <1>2

\* The dispatcher's invariant: one party and no more owes the queue a look, and
\* a queue nobody looks at is empty.
THEOREM DispatcherInvariant == DispatcherSpec => []DispatcherInv
  BY DispatcherInitial, DispatcherKept, PTL DEF DispatcherSpec

\* Whoever posts, exactly one drain is on its way while the flag is set.
THEOREM OneDrain == DispatcherSpec => []OneDrainOnItsWay
<1>1. DispatcherInv => OneDrainOnItsWay
  BY DEF DispatcherInv
<1>2. QED
  BY <1>1, DispatcherInvariant, PTL

\* No callback waits for a drain that nobody has queued.
THEOREM NoCallbackStranded == DispatcherSpec => []NobodyStranded
<1>1. DispatcherInv => NobodyStranded
  BY DEF DispatcherInv
<1>2. QED
  BY <1>1, DispatcherInvariant, PTL

LEMMA QueueStep == [DispatcherNext]_dispatcherVars => [Queue!Next]_callbacks
<1> SUFFICES ASSUME DispatcherNext
             PROVE  [Queue!Next]_callbacks
  BY DEF dispatcherVars
<1>1. ASSUME NEW t \in Threads, NEW c \in Callbacks, Enqueue(t, c)
      PROVE  Queue!Next
  BY <1>1 DEF Enqueue, Queue!Next, Queue!Join
<1>2. ASSUME NEW t \in Threads, InvokeDrain(t) \/ InvokeFails(t)
      PROVE  [Queue!Next]_callbacks
  BY <1>2 DEF InvokeDrain, InvokeFails, Queue!Next, Queue!Discard
<1>3. ASSUME DrainStep \/ InvokeAgainFails
      PROVE  [Queue!Next]_callbacks
  BY <1>3 DEF DrainStep, StartDrain, TakeCallback, CallbackReturns, FindEmpty, EndSlice, InvokeAgain,
              InvokeAgainFails, Queue!Next, Queue!Serve, Queue!Discard
<1>4. QED
  BY <1>1, <1>2, <1>3 DEF DispatcherNext

\* Callbacks are run in the order in which they were posted, and none is lost
\* unless Qt refuses the queued call, when all are.
THEOREM DispatcherIsQueue == DispatcherSpec => ImplementsQueue
<1>1. DispatcherInit => Queue!Init
  BY DEF DispatcherInit, Queue!Init
<1>2. QED
  BY <1>1, QueueStep, PTL DEF DispatcherSpec, Queue!Spec, ImplementsQueue

-----------------------------------------------------------------------------
(***************************************************************************)
(* The session, for any files, limits and failures.                        *)
(***************************************************************************)

HIDE DispatcherAssumption
USE FilesAssumption

-----------------------------------------------------------------------------
(***************************************************************************)
(* The session uses its dispatcher as the dispatcher allows.               *)
(***************************************************************************)

LEMMA ThreadsOfSession == Network \in Threads /\ Owner \in Threads /\ Network # Owner
  BY DispatcherAssumption DEF FilesAssumption

LEMMA KindsOfCallbacks == Callbacks = {"open", "drain", "error", "closed"}
  BY DEF FilesAssumption

LEMMA StepsOfDispatcher == TypeOK /\ [Next]_vars => [DispatcherNext]_dispatcherVars
<1> SUFFICES ASSUME TypeOK, [Next]_vars
             PROVE  [DispatcherNext]_dispatcherVars
  OBVIOUS
<1>1. CASE UNCHANGED vars
  BY <1>1 DEF vars, dispatcherVars
<1>2. CASE SenderStep
  BY <1>2 DEF SenderStep, SendFragment, CancelTransfer, dispatcherVars
<1>3. CASE NetworkStep
  <2>1. CASE PostNext
    <3>1. Head(toPost) \in Callbacks
      BY <2>1, SMT DEF PostNext, TypeOK
    <3>2. Enqueue(Network, Head(toPost))
      BY <2>1 DEF PostNext
    <3>3. QED
      BY <3>1, <3>2, ThreadsOfSession DEF DispatcherNext
  <2>2. CASE ~PostNext
    BY <1>3, <2>2 DEF NetworkStep, Accept, Overflow, CloseAfterOverflow, ClearAfterOverflow, ChannelOpens,
                      ChannelCloses, HandleCancel, dispatcherVars
  <2>3. QED
    BY <2>1, <2>2
<1>4. CASE OwnerStep
  <2>1. CASE RunOpen \/ RunError \/ RunClosed \/ RunDrain
    <3>1. TakeCallback
      BY <2>1 DEF RunOpen, RunError, RunClosed, RunDrain, NextCallback
    <3>2. QED
      BY <3>1 DEF DispatcherNext, DrainStep
  <2>2. CASE IgnoreFragment \/ DiscardBuffer \/ KeepFragment
    BY <2>2 DEF IgnoreFragment, DiscardBuffer, KeepFragment, NextFragment, dispatcherVars
  <2>3. CASE CheckCancelled \/ WriteFile \/ WriteFails
    BY <2>3 DEF CheckCancelled, WriteFile, WriteFails, dispatcherVars
  <2>4. CASE PostAgain
    <3>1. Enqueue(Owner, "drain")
      BY <2>4 DEF PostAgain
    <3>2. QED
      BY <3>1, ThreadsOfSession, KindsOfCallbacks DEF DispatcherNext
  <2>5. CASE Return
    <3>1. CallbackReturns
      BY <2>5 DEF Return
    <3>2. QED
      BY <3>1 DEF DispatcherNext, DrainStep
  <2>6. QED
    BY <1>4, <2>1, <2>2, <2>3, <2>4, <2>5 DEF OwnerStep
<1>5. CASE DispatcherStep
  BY <1>5, ThreadsOfSession DEF DispatcherStep, DispatcherNext, DrainStep
<1>6. CASE PeerCloses \/ StartShutdown \/ FinishShutdown \/ RetentionPasses
  BY <1>6 DEF PeerCloses, StartShutdown, FinishShutdown, RetentionPasses, dispatcherVars
<1>7. QED
  BY <1>1, <1>2, <1>3, <1>4, <1>5, <1>6 DEF Next

-----------------------------------------------------------------------------
(***************************************************************************)
(* Types.                                                                  *)
(***************************************************************************)
QueueTypes ==
    /\ sent \in [Packets -> Nat]
    /\ channel \in {"connecting", "open", "closing", "closed"}
    /\ wire \in Seq(Fragments)
    /\ toPost \in Seq(Callbacks)
    /\ overflowing \in {"no", "close", "clear"}
    /\ ingress \in Seq(Fragments)
    /\ ingressScheduled \in BOOLEAN
    /\ ingressOverflowed \in BOOLEAN
    /\ batch \in Seq(Fragments)
    /\ again \in BOOLEAN

FileTypes ==
    /\ DOMAIN buffers \subseteq Packets
    /\ \A p \in DOMAIN buffers : buffers[p] \in Seq(Nat)
    /\ stale \subseteq Packets
    /\ packet \in Reassembled \cup {NoPacket}
    /\ written \in [Packets -> Seq(Seq(Nat))]

OtherTypes ==
    /\ cancelRequested \subseteq Transfers
    /\ cancelOnWire \subseteq Transfers
    /\ cancelled \subseteq Transfers
    /\ cancelledAt \in [Transfers -> Nat]
    /\ staleCancels \subseteq Transfers
    /\ cancelTime \in Nat
    /\ destroyRequested \in BOOLEAN
    /\ shutdown \in {"no", "closing", "done"}
    /\ retentions \in Nat

LEMMA TypesSplit == TypeOK <=> DispatcherTypeOK /\ QueueTypes /\ FileTypes /\ OtherTypes
  BY DEF TypeOK, QueueTypes, FileTypes, OtherTypes

LEMMA Empties ==
  /\ \A S : <<>> \in Seq(S)
  /\ DOMAIN NoBuffers = {} /\ NoPacket \notin Reassembled
<1>1. \A S : <<>> \in Seq(S)
  OBVIOUS
<1>2. DOMAIN NoBuffers = {}
  BY DEF NoBuffers
<1>3. NoPacket \notin Reassembled
  BY DEF NoPacket, Reassembled
<1>4. QED
  BY <1>1, <1>2, <1>3

LEMMA TypesInitially == Init => TypeOK
<1> SUFFICES ASSUME Init
             PROVE  TypeOK
  OBVIOUS
<1>1. DispatcherTypeOK
  BY DispatcherInitial DEF Init, DispatcherInv
<1>2. QueueTypes
  BY Empties, Zenon DEF Init, QueueTypes
<1>3. FileTypes
  BY Empties, Zenon DEF Init, FileTypes
<1>4. OtherTypes
  BY DEF Init, OtherTypes
<1>5. QED
  BY <1>1, <1>2, <1>3, <1>4, TypesSplit

LEMMA OtherTypesKept == OtherTypes /\ [Next]_vars => OtherTypes'
<1> SUFFICES ASSUME OtherTypes, [Next]_vars
             PROVE  OtherTypes'
  OBVIOUS
<1> USE DEF OtherTypes, vars, dispatcherVars, senderVars, cancelVars, sessionVars
<1>1. CASE UNCHANGED vars
  BY <1>1
<1>2. CASE SenderStep
  BY <1>2 DEF SenderStep, SendFragment, CancelTransfer
<1>3. CASE NetworkStep
  <2>1. ASSUME NEW t \in Transfers, HandleCancel(t)
        PROVE  OtherTypes'
    BY <2>1 DEF HandleCancel, Cleaned, Unexpired
  <2>2. QED
    BY <1>3, <2>1 DEF NetworkStep, Accept, Overflow, CloseAfterOverflow, ClearAfterOverflow, ChannelOpens,
                      ChannelCloses, PostNext
<1>4. CASE OwnerStep
  <2>1. CASE CheckCancelled
    BY <2>1 DEF CheckCancelled, Cleaned, Unexpired
  <2>2. CASE RunOpen \/ RunError \/ RunClosed \/ RunDrain
    BY <2>2, Zenon DEF RunOpen, RunError, RunClosed, RunDrain
  <2>3. QED
    BY <1>4, <2>1, <2>2 DEF OwnerStep, IgnoreFragment, DiscardBuffer, KeepFragment, NextFragment, WriteFile,
                      WriteFails, PostAgain, Return
<1>5. CASE DispatcherStep \/ PeerCloses
  BY <1>5 DEF DispatcherStep, PeerCloses
<1>6. CASE StartShutdown \/ FinishShutdown \/ RetentionPasses
  BY <1>6 DEF StartShutdown, FinishShutdown, RetentionPasses
<1>7. QED
  BY <1>1, <1>2, <1>3, <1>4, <1>5, <1>6 DEF Next

LEMMA SeqTypes ==
  ASSUME NEW S, NEW s \in Seq(S)
  PROVE  /\ s # <<>> => Head(s) \in S /\ Tail(s) \in Seq(S)
         /\ \A x \in S : Append(s, x) \in Seq(S)
         /\ \A k \in 0..Len(s) : SubSeq(s, 1, k) \in Seq(S) /\ SubSeq(s, k + 1, Len(s)) \in Seq(S)
  BY SMT

\* What drainFileIngress takes when the session is not shutting down.
Drains(k) ==
    /\ batch' = SubSeq(ingress, 1, k)
    /\ ingress' = SubSeq(ingress, k + 1, Len(ingress))
    /\ ingressBytes' = ingressBytes - BytesOf(SubSeq(ingress, 1, k))
    /\ ingressScheduled' = (k < Len(ingress))
    /\ again' = (k < Len(ingress))

LEMMA DrainTakes ==
  ASSUME QueueTypes, RunDrain, shutdown = "no"
  PROVE  \E k \in 0..Len(ingress) : Drains(k)
<1> DEFINE k == IF Len(ingress) < IngressBatchSize THEN Len(ingress) ELSE IngressBatchSize
<1>1. Len(ingress) \in Nat
  BY DEF QueueTypes
<1>2. k \in 0..Len(ingress)
  BY <1>1, SMT DEF FilesAssumption
<1>3. batch' = SubSeq(ingress, 1, k) /\ ingress' = SubSeq(ingress, k + 1, Len(ingress))
      /\ ingressBytes' = ingressBytes - BytesOf(SubSeq(ingress, 1, k))
  BY Zenon DEF RunDrain
<1>4. ingressScheduled' = (k < Len(ingress)) /\ again' = (k < Len(ingress))
  BY Zenon DEF RunDrain
<1>5. Drains(k)
  BY <1>3, <1>4, Zenon DEF Drains
<1>6. QED
  BY <1>2, <1>5, Zenon

LEMMA QueueTypesKept == QueueTypes /\ [Next]_vars => QueueTypes'
<1> SUFFICES ASSUME QueueTypes, [Next]_vars
             PROVE  QueueTypes'
  OBVIOUS
<1> USE DEF QueueTypes, vars, dispatcherVars, senderVars, networkVars, ingressVars, drainVars
<1>1. CASE UNCHANGED vars
  BY <1>1
<1>2. CASE SenderStep
  <2>1. ASSUME NEW p \in Packets, SendFragment(p)
        PROVE  QueueTypes'
    <3>1. [packet |-> p, index |-> sent[p]] \in Fragments
      BY <2>1 DEF Fragments
    <3>2. wire' \in Seq(Fragments)
      BY <2>1, <3>1, SeqTypes DEF SendFragment
    <3>3. sent' \in [Packets -> Nat]
      BY <2>1, SMT DEF SendFragment
    <3>4. QED
      BY <2>1, <3>2, <3>3 DEF SendFragment
  <2>2. QED
    BY <1>2, <2>1 DEF SenderStep, CancelTransfer
<1>3. CASE NetworkStep
  <2>1. CASE Accept
    <3>1. wire' \in Seq(Fragments) /\ ingress' \in Seq(Fragments)
      BY <2>1, SeqTypes DEF Accept
    <3>2. toPost' \in Seq(Callbacks)
      <4>1. "drain" \in Callbacks
        BY KindsOfCallbacks
      <4>2. <<"drain">> \in Seq(Callbacks)
        BY <4>1, SMT
      <4>3. QED
        BY <2>1, <4>2, Empties DEF Accept
    <3>3. QED
      BY <2>1, <3>1, <3>2 DEF Accept
  <2>2. CASE Overflow
    <3>1. wire' \in Seq(Fragments)
      BY <2>2, SeqTypes DEF Overflow
    <3>2. QED
      BY <2>2, <3>1, Zenon DEF Overflow
  <2>3. CASE CloseAfterOverflow \/ ClearAfterOverflow
    BY <2>3, Zenon DEF CloseAfterOverflow, ClearAfterOverflow
  <2>4. CASE ChannelOpens \/ ChannelCloses
    <3>1. "open" \in Callbacks /\ "error" \in Callbacks /\ "closed" \in Callbacks
      BY KindsOfCallbacks
    <3>2. <<"open">> \in Seq(Callbacks) /\ <<"closed">> \in Seq(Callbacks)
          /\ <<"error", "closed">> \in Seq(Callbacks)
      BY <3>1, SMT
    <3>3. toPost' \in Seq(Callbacks)
      BY <2>4, <3>2, Empties, Zenon DEF ChannelOpens, ChannelCloses
    <3>4. wire' \in Seq(Fragments) /\ channel' \in {"connecting", "open", "closing", "closed"}
      BY <2>4, Empties, Zenon DEF ChannelOpens, ChannelCloses
    <3>5. QED
      BY <2>4, <3>3, <3>4 DEF ChannelOpens, ChannelCloses
  <2>5. CASE PostNext
    <3>1. toPost' \in Seq(Callbacks)
      BY <2>5, SeqTypes DEF PostNext
    <3>2. QED
      BY <2>5, <3>1 DEF PostNext
  <2>6. CASE \E t \in Transfers : HandleCancel(t)
    BY <2>6 DEF HandleCancel
  <2>7. QED
    BY <1>3, <2>1, <2>2, <2>3, <2>4, <2>5, <2>6 DEF NetworkStep
<1>4. CASE OwnerStep
  <2>1. CASE RunOpen \/ RunError
    BY <2>1, Zenon DEF RunOpen, RunError
  <2>2. CASE RunClosed
    BY <2>2, Empties, Zenon DEF RunClosed, ClearIngress
  <2>3. CASE RunDrain
    <3>1. CASE shutdown # "no"
      BY <2>3, <3>1, Empties, Zenon DEF RunDrain, ClearIngress
    <3>2. CASE shutdown = "no"
      <4>1. PICK k \in 0..Len(ingress) : Drains(k)
        BY <2>3, <3>2, DrainTakes
      <4>2. batch' \in Seq(Fragments) /\ ingress' \in Seq(Fragments)
        BY <4>1, SeqTypes DEF Drains
      <4>3. ingressScheduled' \in BOOLEAN /\ again' \in BOOLEAN
        BY <4>1, SMT DEF Drains
      <4>4. QED
        BY <2>3, <4>2, <4>3, Zenon DEF RunDrain
    <3>3. QED
      BY <3>1, <3>2
  <2>4. CASE IgnoreFragment \/ DiscardBuffer \/ KeepFragment
    <3>1. NextFragment
      BY <2>4 DEF IgnoreFragment, DiscardBuffer, KeepFragment
    <3>2. batch' \in Seq(Fragments)
      BY <3>1, SeqTypes DEF NextFragment, AtFragment
    <3>3. QED
      BY <3>1, <3>2 DEF NextFragment
  <2>5. CASE CheckCancelled \/ WriteFile \/ WriteFails \/ PostAgain \/ Return
    BY <2>5 DEF CheckCancelled, WriteFile, WriteFails, PostAgain, Return
  <2>6. QED
    BY <1>4, <2>1, <2>2, <2>3, <2>4, <2>5 DEF OwnerStep
<1>5. CASE DispatcherStep \/ PeerCloses \/ StartShutdown \/ RetentionPasses
  BY <1>5 DEF DispatcherStep, PeerCloses, StartShutdown, RetentionPasses
<1>6. CASE FinishShutdown
  BY <1>6, Empties, Zenon DEF FinishShutdown, ClearIngress
<1>7. QED
  BY <1>1, <1>2, <1>3, <1>4, <1>5, <1>6 DEF Next

LEMMA BuffersTyped ==
  ASSUME QueueTypes, FileTypes, NEW p \in Packets
  PROVE  /\ DOMAIN Kept \subseteq Packets /\ \A q \in DOMAIN Kept : Kept[q] \in Seq(Nat)
         /\ Held(p) \in Seq(Nat)
         /\ DOMAIN Without(p) \subseteq Packets
         /\ \A q \in DOMAIN Without(p) : Without(p)[q] \in Seq(Nat)
         /\ \A c \in Seq(Nat) : /\ DOMAIN With(p, c) \subseteq Packets
                                /\ \A q \in DOMAIN With(p, c) : With(p, c)[q] \in Seq(Nat)
<1>1. DOMAIN Kept \subseteq Packets /\ \A q \in DOMAIN Kept : Kept[q] \in Seq(Nat)
  BY DEF FileTypes, Kept
<1>2. Held(p) \in Seq(Nat)
  BY <1>1, Empties DEF Held
<1>3. DOMAIN Without(p) \subseteq Packets /\ \A q \in DOMAIN Without(p) : Without(p)[q] \in Seq(Nat)
  BY <1>1 DEF Without
<1>4. ASSUME NEW c \in Seq(Nat)
      PROVE  DOMAIN With(p, c) \subseteq Packets /\ \A q \in DOMAIN With(p, c) : With(p, c)[q] \in Seq(Nat)
  BY <1>1 DEF With
<1>5. QED
  BY <1>1, <1>2, <1>3, <1>4

LEMMA FileTypesKept == QueueTypes /\ FileTypes /\ [Next]_vars => FileTypes'
<1> SUFFICES ASSUME QueueTypes, FileTypes, [Next]_vars
             PROVE  FileTypes'
  OBVIOUS
<1>1. CASE UNCHANGED <<buffers, packet, written>> /\ stale' \in SUBSET Packets
  BY <1>1 DEF FileTypes
<1>2. CASE ClearBuffers /\ UNCHANGED <<packet, written>>
  BY <1>2, Empties DEF FileTypes, ClearBuffers
<1>3. CASE IgnoreFragment \/ DiscardBuffer \/ KeepFragment
  <2> DEFINE f == Head(batch)
  <2>1. NextFragment /\ f \in Fragments /\ f.packet \in Packets /\ f.index \in Nat
    <3>1. NextFragment
      BY <1>3 DEF IgnoreFragment, DiscardBuffer, KeepFragment
    <3>2. f \in Fragments
      BY <3>1, SeqTypes DEF NextFragment, AtFragment, QueueTypes
    <3>3. QED
      BY <3>1, <3>2 DEF Fragments
  <2>2. stale' = {} /\ written' = written
    BY <2>1 DEF NextFragment
  <2>3. Append(Held(f.packet), f.index) \in Seq(Nat)
    BY <2>1, BuffersTyped, SeqTypes
  <2>4. CASE IgnoreFragment
    <3>1. buffers' = Kept /\ packet' = packet
      BY <2>4 DEF IgnoreFragment
    <3>2. QED
      BY <2>1, <2>2, <3>1, BuffersTyped DEF FileTypes
  <2>5. CASE DiscardBuffer
    <3>1. buffers' = Without(f.packet) /\ packet' = packet
      BY <2>5 DEF DiscardBuffer
    <3>2. QED
      BY <2>1, <2>2, <3>1, BuffersTyped DEF FileTypes
  <2>6. CASE KeepFragment
    <3> DEFINE c == Append(Held(f.packet), f.index)
    <3>1. buffers' = Without(f.packet) \/ buffers' = With(f.packet, c)
      BY <2>6 DEF KeepFragment
    <3>2. packet' = packet \/ packet' = [packet |-> f.packet, content |-> c, step |-> "complete"]
      BY <2>6 DEF KeepFragment
    <3>3. packet' \in Reassembled \cup {NoPacket}
      <4>1. c \in Seq(Nat) /\ f.packet \in Packets
        BY <2>1, <2>3
      <4> HIDE DEF f, c
      <4>2. [packet |-> f.packet, content |-> c, step |-> "complete"] \in Reassembled
        BY <4>1, SMT DEF Reassembled
      <4>3. QED
        BY <3>2, <4>2, Zenon DEF FileTypes
    <3>4. DOMAIN buffers' \subseteq Packets /\ \A p \in DOMAIN buffers' : buffers'[p] \in Seq(Nat)
      <4> HIDE DEF f, c
      <4>1. c \in Seq(Nat) /\ f.packet \in Packets
        BY <2>1, <2>3 DEF c
      <4>2. QED
        BY <3>1, <4>1, BuffersTyped
    <3>5. QED
      BY <2>2, <3>3, <3>4 DEF FileTypes
  <2>7. QED
    BY <1>3, <2>4, <2>5, <2>6
<1>4. CASE CheckCancelled \/ WriteFile \/ WriteFails
  <2>1. packet \in Reassembled /\ UNCHANGED <<buffers, stale>>
    BY <1>4 DEF CheckCancelled, WriteFile, WriteFails, FileTypes, reassemblyVars
  <2>2. packet' \in Reassembled \cup {NoPacket}
    BY <1>4, <2>1 DEF CheckCancelled, WriteFile, WriteFails, Reassembled
  <2>3. written' \in [Packets -> Seq(Seq(Nat))]
    <3>1. CASE WriteFile
      <4>1. packet.packet \in Packets /\ packet.content \in Seq(Nat)
        BY <2>1 DEF Reassembled
      <4>2. Append(written[packet.packet], packet.content) \in Seq(Seq(Nat))
        BY <4>1, SeqTypes DEF FileTypes
      <4>3. \A x \in Seq(Seq(Nat)) :
              [written EXCEPT ![packet.packet] = x] \in [Packets -> Seq(Seq(Nat))]
        BY DEF FileTypes
      <4>4. QED
        BY <3>1, <4>2, <4>3 DEF WriteFile
    <3>2. QED
      BY <1>4, <3>1 DEF CheckCancelled, WriteFails, FileTypes
  <2>4. QED
    BY <2>1, <2>2, <2>3 DEF FileTypes
<1>5. QED
  <2>1. CASE RetentionPasses
    BY <1>1, <2>1 DEF RetentionPasses, FileTypes, drainVars
  <2>2. CASE RunOpen \/ RunClosed
    <3>1. (ClearBuffers \/ UNCHANGED reassemblyVars) /\ UNCHANGED <<packet, written>>
      BY <2>2, Zenon DEF RunOpen, RunClosed, drainVars
    <3>2. QED
      BY <3>1, <1>1, <1>2 DEF reassemblyVars, FileTypes
  <2>3. CASE ClearAfterOverflow \/ FinishShutdown
    BY <1>2, <2>3 DEF ClearAfterOverflow, FinishShutdown, drainVars
  <2>4. CASE UNCHANGED <<buffers, stale, packet, written>>
    BY <1>1, <2>4 DEF FileTypes
  <2>5. QED
    BY <1>3, <1>4, <2>1, <2>2, <2>3, <2>4
       DEF Next, vars, SenderStep, SendFragment, CancelTransfer, NetworkStep, Accept, Overflow,
           CloseAfterOverflow, ChannelOpens, ChannelCloses, PostNext, HandleCancel, OwnerStep, RunError,
           RunDrain, PostAgain, Return, DispatcherStep, PeerCloses, StartShutdown, reassemblyVars,
           drainVars

LEMMA TypesKept == DispatcherInv /\ TypeOK /\ [Next]_vars => DispatcherInv' /\ TypeOK'
<1> SUFFICES ASSUME DispatcherInv, TypeOK, [Next]_vars
             PROVE  DispatcherInv' /\ TypeOK'
  OBVIOUS
<1>1. DispatcherInv'
  BY StepsOfDispatcher, DispatcherKept
<1>2. QueueTypes' /\ FileTypes' /\ OtherTypes'
  BY TypesSplit, QueueTypesKept, FileTypesKept, OtherTypesKept
<1>3. QED
  BY <1>1, <1>2 DEF DispatcherInv, TypeOK, QueueTypes, FileTypes, OtherTypes

LEMMA TypesThroughout == Spec => [](DispatcherInv /\ TypeOK)
<1>1. Init => DispatcherInv /\ TypeOK
  BY TypesInitially, DispatcherInitial DEF Init
<1>2. QED
  BY <1>1, TypesKept, PTL DEF Spec

\* Every variable of the session keeps its type.
THEOREM SessionTypes == Spec => []TypeOK
  BY TypesThroughout, PTL

\* The session is a user of the dispatcher of CallbackDispatcher: what is proved
\* of that one (OneDrain, NoCallbackStranded, DispatcherIsQueue) holds here.
THEOREM SessionIsDispatcher == Spec => DispatcherSpec
<1>1. Init => DispatcherInit
  BY DEF Init
<1>2. QED
  BY <1>1, TypesThroughout, StepsOfDispatcher, PTL DEF Spec, DispatcherSpec

-----------------------------------------------------------------------------
(***************************************************************************)
(* The bytes of a queue.  BytesOf adds them up in a function of its own;   *)
(* that there is one function that does, and that cutting a queue in two   *)
(* cuts its bytes in two, is shown for the shortest prefix, or the first   *)
(* place, at which it could be otherwise.                                  *)
(***************************************************************************)
\* The order of the naturals, as a relation.
Less == {ss \in Nat \X Nat : ss[1] < ss[2]}

\* Every non-empty set of naturals has a least element.
LEMMA LeastElement ==
  ASSUME NEW T \in SUBSET Nat, T # {}
  PROVE  \E x \in T : \A y \in T : x <= y
<1>1. IsWellFoundedOn(Less, Nat)
  BY NatLessThanWellFounded DEF OpToRel, Less
<1>2. PICK x \in T : \A y \in T : ~(<<y, x>> \in Less)
  BY <1>1, WFMin
<1>3. \A y \in T : ~(y < x)
  BY <1>2 DEF Less
<1>4. QED
  BY <1>3

\* f adds up the bytes of q, fragment by fragment.
AddsUp(f, q, n) ==
    /\ f \in [0..n -> Nat]
    /\ f[0] = 0
    /\ \A i \in 1..n : f[i] = f[i - 1] + Bytes(q[i])

LEMMA BytesType == \A f \in Fragments : Bytes(f) \in Nat
  BY DEF Bytes, Fragments

LEMMA SumExists ==
  ASSUME NEW q \in Seq(Fragments), NEW n \in 0..Len(q)
  PROVE  \E f : AddsUp(f, q, n)
<1>. DEFINE T == {m \in Nat : m <= Len(q) /\ ~\E f : AddsUp(f, q, m)}
<1>0. Len(q) \in Nat
  OBVIOUS
<1>1. SUFFICES ASSUME T # {}
               PROVE  FALSE
  BY <1>0
<1>2. PICK m \in T : \A y \in T : m <= y
  BY <1>1, LeastElement
<1>3. CASE m = 0
  <2>. DEFINE zero == [i \in {0} |-> 0]
  <2>1. 0..0 = {0} /\ 1..0 = {}
    BY SMT
  <2>2. zero \in [{0} -> Nat] /\ zero[0] = 0
    OBVIOUS
  <2>3. AddsUp(zero, q, 0)
    BY <2>1, <2>2, Zenon DEF AddsUp
  <2>4. QED
    BY <1>2, <1>3, <2>3
<1>4. CASE m # 0
  <2>1. m - 1 \in Nat /\ m - 1 <= Len(q) /\ ~(m <= m - 1) /\ m \in 1..Len(q)
    BY <1>0, <1>2, <1>4
  <2>2. PICK f : AddsUp(f, q, m - 1)
    BY <1>2, <2>1, Zenon
  <2>3. Bytes(q[m]) \in Nat /\ \A i \in 1..m : i \in 1..Len(q)
    BY <2>1, BytesType
  <2>. DEFINE h == [i \in 0..m |-> IF i = m THEN f[m - 1] + Bytes(q[m]) ELSE f[i]]
  <2>4. f[m - 1] \in Nat /\ \A i \in 0..(m - 1) : f[i] \in Nat
    BY <2>1, <2>2 DEF AddsUp
  <2>5. \A i \in 0..m : h[i] = IF i = m THEN f[m - 1] + Bytes(q[m]) ELSE f[i]
    OBVIOUS
  <2>6. h[0] = 0
    BY <2>1, <2>2, <2>5 DEF AddsUp
  <2>7. h \in [0..m -> Nat]
    BY <2>1, <2>3, <2>4
  <2>. HIDE DEF h
  <2>8. \A i \in 1..m : h[i] = h[i - 1] + Bytes(q[i])
    <3>1. TAKE i \in 1..m
    <3>2. i \in 0..m /\ i - 1 \in 0..m /\ i - 1 # m
      BY <2>1
    <3>3. CASE i = m
      BY <2>5, <3>2, <3>3
    <3>4. CASE i # m
      <4>1. i \in 1..(m - 1)
        BY <2>1, <3>4
      <4>2. f[i] = f[i - 1] + Bytes(q[i])
        BY <2>2, <4>1, Zenon DEF AddsUp
      <4>3. h[i] = f[i] /\ h[i - 1] = f[i - 1]
        BY <2>5, <3>2, <3>4
      <4>4. QED
        BY <4>2, <4>3
    <3>5. QED
      BY <3>3, <3>4
  <2>9. AddsUp(h, q, m)
    BY <2>6, <2>7, <2>8, Zenon DEF AddsUp
  <2>10. QED
    BY <1>2, <2>9
<1>5. QED
  BY <1>3, <1>4

Sums(f, q, n) == [i \in 0..n |-> IF i = 0 THEN 0 ELSE f[i - 1] + Bytes(q[i])]

LEMMA SumUnique ==
  ASSUME NEW q, NEW n \in Nat, NEW f, NEW g, AddsUp(f, q, n), g = Sums(g, q, n)
  PROVE  f = g
<1>. DEFINE T == {m \in Nat : m <= n /\ f[m] # g[m]}
<1>0. /\ DOMAIN g = 0..n /\ g[0] = 0
      /\ \A i \in 1..n : g[i] = g[i - 1] + Bytes(q[i])
  <2>1. DOMAIN g = 0..n
    BY DEF Sums
  <2>2. \A i \in 0..n : g[i] = IF i = 0 THEN 0 ELSE g[i - 1] + Bytes(q[i])
    BY Zenon DEF Sums
  <2>3. QED
    BY <2>1, <2>2, SMT
<1>1. T = {}
  <2>1. SUFFICES ASSUME T # {}
                 PROVE  FALSE
    OBVIOUS
  <2>2. PICK m \in T : \A y \in T : m <= y
    BY <2>1, LeastElement
  <2>3. CASE m = 0
    BY <1>0, <2>2, <2>3 DEF AddsUp
  <2>4. CASE m # 0
    <3>1. m - 1 \in Nat /\ m - 1 \notin T /\ m \in 1..n
      BY <2>2, <2>4
    <3>2. f[m] = f[m - 1] + Bytes(q[m]) /\ g[m] = g[m - 1] + Bytes(q[m])
      BY <1>0, <3>1 DEF AddsUp
    <3>3. QED
      BY <2>2, <3>1, <3>2
  <2>5. QED
    BY <2>3, <2>4
<1>2. \A i \in 0..n : f[i] = g[i]
  BY <1>1
<1>3. g = [i \in 0..n |-> g[i]]
  BY Zenon DEF Sums
<1>4. f = [i \in 0..n |-> f[i]]
  BY Zenon DEF AddsUp
<1>5. QED
  BY <1>2, <1>3, <1>4, Zenon

LEMMA AddsUpIsFixed ==
  ASSUME NEW q, NEW n \in Nat, NEW f, AddsUp(f, q, n)
  PROVE  f = Sums(f, q, n)
BY DEF AddsUp, Sums

\* BytesOf(q) is the last of the sums, whatever adds them up.
LEMMA BytesOfIs ==
  ASSUME NEW q \in Seq(Fragments), NEW f, AddsUp(f, q, Len(q))
  PROVE  BytesOf(q) = f[Len(q)]
<1>. DEFINE up == CHOOSE g : g = [n \in 0..Len(q) |-> IF n = 0 THEN 0 ELSE g[n - 1] + Bytes(q[n])]
<1>0. Len(q) \in Nat
  OBVIOUS
<1>1. f = Sums(f, q, Len(q))
  BY <1>0, AddsUpIsFixed
<1>2. up = Sums(up, q, Len(q))
  BY <1>1, Zenon DEF Sums
<1>3. up = f
  <2>. HIDE DEF up
  <2>1. QED
    BY <1>0, <1>2, SumUnique, Zenon
<1>4. BytesOf(q) = up[Len(q)]
  BY Zenon DEF BytesOf
<1>5. QED
  BY <1>3, <1>4

LEMMA WholeSumExists ==
  ASSUME NEW q \in Seq(Fragments)
  PROVE  \E f : AddsUp(f, q, Len(q))
<1>1. Len(q) \in 0..Len(q)
  OBVIOUS
<1>2. QED
  BY <1>1, SumExists, Zenon

LEMMA SumsAre ==
  ASSUME NEW q, NEW n \in Nat, NEW f, AddsUp(f, q, n)
  PROVE  /\ f[0] = 0 /\ \A i \in 0..n : f[i] \in Nat
         /\ \A i \in 1..n : f[i] = f[i - 1] + Bytes(q[i])
BY DEF AddsUp

LEMMA NoBytes == BytesOf(<<>>) = 0
<1>1. <<>> \in Seq(Fragments) /\ Len(<<>>) = 0
  OBVIOUS
<1>2. PICK f : AddsUp(f, <<>>, Len(<<>>))
  BY <1>1, WholeSumExists, Zenon
<1>3. BytesOf(<<>>) = f[0]
  BY <1>1, <1>2, BytesOfIs
<1>4. QED
  BY <1>2, <1>3 DEF AddsUp

LEMMA BytesAppend ==
  ASSUME NEW q \in Seq(Fragments), NEW x \in Fragments
  PROVE  BytesOf(q) \in Nat /\ BytesOf(Append(q, x)) = BytesOf(q) + Bytes(x)
<1>1. PICK n \in Nat : n = Len(q)
  OBVIOUS
<1>2. Append(q, x) \in Seq(Fragments) /\ Len(Append(q, x)) = n + 1
      /\ (\A i \in 1..n : Append(q, x)[i] = q[i]) /\ Append(q, x)[n + 1] = x
  BY <1>1
<1>3. PICK f : AddsUp(f, Append(q, x), n + 1)
  BY <1>2, WholeSumExists
<1>4. f[n] \in Nat /\ f[n + 1] = f[n] + Bytes(x)
  BY <1>2, <1>3 DEF AddsUp
<1>. DEFINE g == [i \in 0..n |-> f[i]]
<1>5. AddsUp(g, q, n)
  BY <1>1, <1>2, <1>3 DEF AddsUp
<1>6. BytesOf(q) = g[n]
  <2>. HIDE DEF g
  <2>1. QED
    BY <1>1, <1>5, BytesOfIs
<1>7. BytesOf(Append(q, x)) = f[n + 1]
  BY <1>2, <1>3, BytesOfIs
<1>8. QED
  BY <1>4, <1>6, <1>7

LEMMA BytesSplit ==
  ASSUME NEW q \in Seq(Fragments), NEW k \in 0..Len(q)
  PROVE  /\ BytesOf(SubSeq(q, 1, k)) \in Nat
         /\ BytesOf(SubSeq(q, k + 1, Len(q))) \in Nat
         /\ BytesOf(q) = BytesOf(SubSeq(q, 1, k)) + BytesOf(SubSeq(q, k + 1, Len(q)))
<1>1. PICK n \in Nat : n = Len(q)
  OBVIOUS
<1>front. PICK front : front = SubSeq(q, 1, k)
  OBVIOUS
<1>rest. PICK rest : rest = SubSeq(q, k + 1, Len(q))
  OBVIOUS
<1>2. /\ front \in Seq(Fragments) /\ Len(front) = k /\ \A i \in 1..k : front[i] = q[i]
      /\ rest \in Seq(Fragments) /\ Len(rest) = n - k /\ \A i \in 1..(n - k) : rest[i] = q[k + i]
  <2>1. front \in Seq(Fragments) /\ Len(front) = k /\ \A i \in 1..k : front[i] = q[i]
    BY <1>1, <1>front
  <2>2. rest \in Seq(Fragments) /\ Len(rest) = n - k /\ \A i \in 1..(n - k) : rest[i] = q[k + i]
    BY <1>1, <1>rest
  <2>3. QED
    BY <2>1, <2>2
<1>3. PICK f : AddsUp(f, q, n)
  BY <1>1, WholeSumExists
<1>4. PICK g : AddsUp(g, rest, n - k)
  BY <1>2, WholeSumExists
<1>fSums. /\ f[0] = 0 /\ \A i \in 0..n : f[i] \in Nat
      /\ \A i \in 1..n : f[i] = f[i - 1] + Bytes(q[i])
  BY <1>3, SumsAre
<1>gSums. /\ g[0] = 0 /\ \A i \in 0..(n - k) : g[i] \in Nat
      /\ \A i \in 1..(n - k) : g[i] = g[i - 1] + Bytes(rest[i])
  <2>0. n - k \in Nat
    BY <1>1, SMT
  <2>1. PICK d \in Nat : d = n - k
    BY <2>0, Zenon
  <2>2. AddsUp(g, rest, d)
    BY <1>4, <2>1, Zenon
  <2>3. /\ g[0] = 0 /\ \A i \in 0..d : g[i] \in Nat
        /\ \A i \in 1..d : g[i] = g[i - 1] + Bytes(rest[i])
    BY <2>2, Zenon DEF AddsUp
  <2>4. QED
    BY <2>1, <2>3, Zenon
<1>5. AddsUp([i \in 0..k |-> f[i]], front, k)
  <2>. DEFINE h == [i \in 0..k |-> f[i]]
  <2>1. k \in 0..n
    BY <1>1
  <2>2. h \in [0..k -> Nat] /\ h[0] = 0
    BY <1>fSums, <2>1
  <2>3. \A i \in 1..k : h[i] = f[i] /\ h[i - 1] = f[i - 1] /\ front[i] = q[i] /\ i \in 1..n
    BY <1>2, <2>1
  <2>4. \A i \in 1..k : h[i] = h[i - 1] + Bytes(front[i])
    BY <1>fSums, <2>3
  <2>. HIDE DEF h
  <2>5. QED
    BY <2>2, <2>4, Zenon DEF AddsUp, h
<1>6. BytesOf(q) = f[n] /\ BytesOf(rest) = g[n - k] /\ BytesOf(front) = f[k]
  <2>. DEFINE h == [i \in 0..k |-> f[i]]
  <2>1. h[k] = f[k]
    OBVIOUS
  <2>. HIDE DEF h
  <2>2. BytesOf(front) = h[k]
    BY <1>2, <1>5, BytesOfIs DEF h
  <2>3. QED
    BY <1>1, <1>2, <1>3, <1>4, <2>1, <2>2, BytesOfIs
\* The sums of the rest are those of the whole, less what stands before it.
<1>. DEFINE whole == [i \in 0..n |-> IF i <= k THEN f[i] ELSE f[k] + g[i - k]]
<1>7. AddsUp(whole, q, n)
  <2>1. k \in 0..n
    BY <1>1
  <2>2. whole \in [0..n -> Nat] /\ whole[0] = 0
    BY <1>fSums, <1>gSums, <2>1
  <2>3. \A i \in 0..n : whole[i] = IF i <= k THEN f[i] ELSE f[k] + g[i - k]
    OBVIOUS
  <2>. HIDE DEF whole
  <2>4. ASSUME NEW i \in 1..n
        PROVE  whole[i] = whole[i - 1] + Bytes(q[i])
    <3>1. CASE i <= k
      BY <1>fSums, <2>1, <2>3, <3>1
    <3>2. CASE ~(i <= k)
      <4>1. PICK j \in 1..(n - k) : i = k + j
        BY <2>1, <3>2
      <4>2. whole[i] = f[k] + g[j]
        BY <2>1, <2>3, <3>2, <4>1
      <4>3. whole[i - 1] = f[k] + g[j - 1]
        BY <1>fSums, <1>gSums, <2>1, <2>3, <3>2, <4>1
      <4>4. g[j] = g[j - 1] + Bytes(q[i])
        BY <1>2, <1>gSums, <4>1
      <4>5. q[i] \in Fragments
        BY <1>1
      <4>6. Bytes(q[i]) \in Nat
        BY <4>5, BytesType, Zenon
      <4>8. f[k] \in Nat
        BY <1>fSums, <2>1
      <4>9. g[j - 1] \in Nat
        <5>1. j - 1 \in 0..(n - k)
          BY <2>1, <4>1
        <5>2. QED
          BY <5>1, <1>gSums, Zenon
      <4>7. QED
        BY <4>2, <4>3, <4>4, <4>6, <4>8, <4>9
    <3>3. QED
      BY <3>1, <3>2
  <2>5. QED
    BY <2>2, <2>4, Zenon DEF AddsUp
<1>8. whole[n] = f[k] + g[n - k]
  BY <1>1, <1>fSums, <1>gSums
<1>9. f[k] \in Nat /\ g[n - k] \in Nat
  BY <1>1, <1>fSums, <1>gSums
<1>10. BytesOf(q) = whole[n]
  <2>. HIDE DEF whole
  <2>1. QED
    BY <1>1, <1>7, BytesOfIs
<1>11. QED
  BY <1>6, <1>8, <1>9, <1>10, <1>front, <1>rest

-----------------------------------------------------------------------------
(***************************************************************************)
(* The account of the queue.                                               *)
(***************************************************************************)
LEMMA AccountInitially == Init => IngressAccounted
<1> SUFFICES ASSUME Init
             PROVE  IngressAccounted
  OBVIOUS
<1>1. ingress = <<>> /\ ingressBytes = 0
  BY DEF Init
<1>2. BytesOf(ingress) = 0
  BY <1>1, NoBytes, Zenon
<1>3. Len(ingress) = 0
  BY <1>1
<1>4. QED
  BY <1>1, <1>2, <1>3 DEF IngressAccounted, FilesAssumption

LEMMA ClearedAccount == ClearIngress => IngressAccounted'
<1> SUFFICES ASSUME ClearIngress
             PROVE  IngressAccounted'
  OBVIOUS
<1>1. ingress' = <<>> /\ ingressBytes' = 0
  BY DEF ClearIngress
<1>2. BytesOf(ingress') = 0
  BY <1>1, NoBytes, Zenon
<1>3. Len(ingress') = 0
  BY <1>1
<1>4. QED
  BY <1>1, <1>2, <1>3 DEF IngressAccounted, FilesAssumption

LEMMA AccountKept == QueueTypes /\ IngressAccounted /\ [Next]_vars => IngressAccounted'
<1> SUFFICES ASSUME QueueTypes, IngressAccounted, [Next]_vars
             PROVE  IngressAccounted'
  OBVIOUS
<1>1. ingress \in Seq(Fragments) /\ wire \in Seq(Fragments) /\ Len(ingress) \in Nat
  BY DEF QueueTypes
<1>2. ingressBytes = BytesOf(ingress) /\ ingressBytes <= MaxIngressBytes /\ Len(ingress) <= MaxIngressFragments
  BY DEF IngressAccounted
<1>3. ASSUME UNCHANGED <<ingress, ingressBytes>>
      PROVE  IngressAccounted'
  BY <1>2, <1>3 DEF IngressAccounted
<1>4. CASE Accept
  <2>1. Head(wire) \in Fragments
    BY <1>1, <1>4, SeqTypes DEF Accept
  <2>. DEFINE x == Head(wire)
  <2>2. /\ ingress' = Append(ingress, x) /\ ingressBytes' = ingressBytes + Bytes(x)
        /\ ~Overflows(x)
    BY <1>4 DEF Accept
  <2>. HIDE DEF x
  <2>3. x \in Fragments
    BY <2>1 DEF x
  <2>4. BytesOf(ingress) \in Nat /\ BytesOf(ingress') = BytesOf(ingress) + Bytes(x)
    BY <1>1, <2>2, <2>3, BytesAppend
  <2>5. Bytes(x) \in Nat
    BY <2>3, BytesType, Zenon
  <2>6. Len(ingress') = Len(ingress) + 1
    BY <1>1, <2>2
  <2>7. ingressBytes + Bytes(x) <= MaxIngressBytes /\ Len(ingress) + 1 <= MaxIngressFragments
    BY <1>1, <1>2, <2>2, <2>4, <2>5 DEF Overflows, FilesAssumption
  <2>8. QED
    BY <1>2, <2>2, <2>4, <2>6, <2>7 DEF IngressAccounted
<1>5. CASE RunDrain
  <2>1. CASE shutdown # "no"
    BY <1>5, <2>1, ClearedAccount, Zenon DEF RunDrain
  <2>2. CASE shutdown = "no"
    <3>1. PICK k \in 0..Len(ingress) : Drains(k)
      BY <1>5, <2>2, DrainTakes
    <3>2. /\ ingress' = SubSeq(ingress, k + 1, Len(ingress))
          /\ ingressBytes' = ingressBytes - BytesOf(SubSeq(ingress, 1, k))
      BY <3>1 DEF Drains
    <3>3. /\ BytesOf(SubSeq(ingress, 1, k)) \in Nat /\ BytesOf(ingress') \in Nat
          /\ BytesOf(ingress) = BytesOf(SubSeq(ingress, 1, k)) + BytesOf(ingress')
      BY <1>1, <3>2, BytesSplit, Zenon
    <3>4. Len(ingress') <= Len(ingress) /\ Len(ingress') \in Nat
      BY <1>1, <3>2
    <3>5. QED
      BY <1>1, <1>2, <3>2, <3>3, <3>4 DEF IngressAccounted, FilesAssumption
  <2>3. QED
    BY <2>1, <2>2
<1>6. CASE RunClosed
  <2>1. CASE shutdown = "no"
    BY <1>6, <2>1, ClearedAccount, Zenon DEF RunClosed
  <2>2. CASE shutdown # "no"
    BY <1>3, <1>6, <2>2, Zenon DEF RunClosed
  <2>3. QED
    BY <2>1, <2>2
<1>7. CASE FinishShutdown
  BY <1>7, ClearedAccount DEF FinishShutdown
<1>8. CASE UNCHANGED vars
  BY <1>3, <1>8 DEF vars, ingressVars
<1>9. CASE SenderStep
  BY <1>3, <1>9 DEF SenderStep, SendFragment, CancelTransfer, ingressVars
<1>10. CASE NetworkStep
  BY <1>3, <1>4, <1>10 DEF NetworkStep, Overflow, CloseAfterOverflow, ClearAfterOverflow, ChannelOpens,
                         ChannelCloses, PostNext, HandleCancel, ingressVars
<1>11. CASE OwnerStep
  BY <1>3, <1>5, <1>6, <1>11, Zenon
     DEF OwnerStep, RunOpen, RunError, IgnoreFragment, DiscardBuffer, KeepFragment, NextFragment,
         CheckCancelled, WriteFile, WriteFails, PostAgain, Return, ingressVars
<1>12. CASE DispatcherStep \/ PeerCloses \/ StartShutdown \/ RetentionPasses
  BY <1>3, <1>12 DEF DispatcherStep, PeerCloses, StartShutdown, RetentionPasses, ingressVars
<1>13. QED
  BY <1>7, <1>8, <1>9, <1>10, <1>11, <1>12 DEF Next

\* m_fileIngressBytes is always the sum of the queued fragments' bytes, and the
\* queue keeps within kMaxFileIngressBytes and kMaxFileIngressFragments, for any
\* files, limits and batch size: what drainFileIngress subtracts, what an accepted
\* message adds, and what close and shutdown reset leave no byte behind.
THEOREM IngressIsAccounted == Spec => []IngressAccounted
<1>1. Init => IngressAccounted
  BY AccountInitially
<1>2. TypeOK /\ IngressAccounted /\ [Next]_vars => IngressAccounted'
  BY AccountKept, TypesSplit
<1>3. Spec => []TypeOK
  BY SessionTypes
<1>4. QED
  BY <1>1, <1>2, <1>3, PTL DEF Spec

-----------------------------------------------------------------------------
(***************************************************************************)
(* The end of the session.  The owner has fragments in its hands only      *)
(* inside a callback, and it shuts down outside every callback.            *)
(***************************************************************************)
HandsEmpty == batch = <<>> /\ packet = NoPacket /\ again = FALSE

OwnerInv ==
    /\ drain # "running" \/ shutdown # "no" => HandsEmpty
    /\ shutdown = "closing" => drain = "away"

EndInv == OwnerInv /\ NothingAfterShutdown

LEMMA EndInitially == Init => EndInv
  BY DEF Init, DispatcherInit, EndInv, OwnerInv, HandsEmpty, NothingAfterShutdown

LEMMA EndKept == TypeOK /\ EndInv /\ [Next]_vars => EndInv'
<1> SUFFICES ASSUME TypeOK, EndInv, [Next]_vars
             PROVE  EndInv'
  OBVIOUS
<1> USE DEF EndInv, OwnerInv, HandsEmpty, NothingAfterShutdown, NetworkIdle
<1>1. CASE UNCHANGED vars
  BY <1>1 DEF vars, dispatcherVars, networkVars, ingressVars, drainVars, reassemblyVars, sessionVars
<1>2. CASE SenderStep
  BY <1>2 DEF SenderStep, SendFragment, CancelTransfer, dispatcherVars, networkVars, ingressVars,
              drainVars, reassemblyVars, sessionVars
<1>3. CASE NetworkStep
  <2>1. CASE Accept \/ Overflow \/ \E t \in Transfers : HandleCancel(t)
    BY <2>1 DEF Accept, Overflow, HandleCancel, dispatcherVars, networkVars, drainVars, sessionVars
  <2>2. CASE CloseAfterOverflow \/ ClearAfterOverflow
    BY <2>2 DEF CloseAfterOverflow, ClearAfterOverflow, dispatcherVars, drainVars, sessionVars
  <2>3. CASE ChannelOpens \/ ChannelCloses
    BY <2>3 DEF ChannelOpens, ChannelCloses, dispatcherVars, ingressVars, drainVars, reassemblyVars,
                sessionVars
  <2>4. CASE PostNext
    BY <2>4 DEF PostNext, Enqueue, drainVars, sessionVars
  <2>5. QED
    BY <1>3, <2>1, <2>2, <2>3, <2>4 DEF NetworkStep
<1>4. CASE OwnerStep
  <2>1. CASE RunOpen \/ RunError \/ RunClosed
    <3>1. drain = "looking" /\ drain' = "running" /\ invoking' = invoking /\ shutdown' = shutdown
          /\ UNCHANGED networkVars /\ UNCHANGED drainVars
      BY <2>1 DEF RunOpen, RunError, RunClosed, NextCallback, TakeCallback, sessionVars
    <3>2. shutdown # "no" => UNCHANGED <<ingress, buffers>>
      BY <2>1 DEF RunOpen, RunError, RunClosed, ingressVars, reassemblyVars
    <3>3. QED
      BY <3>1, <3>2 DEF networkVars, drainVars
  <2>2. CASE RunDrain
    <3>1. drain = "looking" /\ drain' = "running" /\ invoking' = invoking
          /\ UNCHANGED <<networkVars, packet, buffers, shutdown>>
      BY <2>2 DEF RunDrain, NextCallback, TakeCallback, sessionVars, reassemblyVars
    <3>2. shutdown # "no" => ingress' = <<>> /\ UNCHANGED <<batch, again>>
      BY <2>2 DEF RunDrain, ClearIngress
    <3>3. QED
      BY <3>1, <3>2 DEF networkVars
  <2>3. CASE IgnoreFragment \/ DiscardBuffer \/ KeepFragment
    BY <2>3 DEF IgnoreFragment, DiscardBuffer, KeepFragment, NextFragment, AtFragment, dispatcherVars,
                sessionVars
  <2>4. CASE CheckCancelled \/ WriteFile \/ WriteFails
    BY <2>4 DEF CheckCancelled, WriteFile, WriteFails, dispatcherVars, sessionVars
  <2>5. CASE PostAgain
    BY <2>5 DEF PostAgain, Enqueue, sessionVars
  <2>6. CASE Return
    BY <2>6 DEF Return, CallbackReturns, networkVars, ingressVars, drainVars, reassemblyVars, sessionVars
  <2>7. QED
    BY <1>4, <2>1, <2>2, <2>3, <2>4, <2>5, <2>6 DEF OwnerStep
<1>5. CASE DispatcherStep
  <2>1. UNCHANGED <<shutdown, batch, packet, again, ingress, buffers, toPost, overflowing>>
    BY <1>5 DEF DispatcherStep, networkVars, ingressVars, drainVars, reassemblyVars, sessionVars
  <2>2. invoking' \subseteq invoking /\ (drain' = "running" => drain = "running")
        /\ (shutdown = "closing" => drain' = "away") /\ (drain # "running" => drain' # "running")
        /\ (drain = "running" => drain' = "running")
    BY <1>5 DEF DispatcherStep, StartDrain, FindEmpty, EndSlice, InvokeAgain, InvokeDrain, InvokeFails,
                InvokeAgainFails
  <2>3. QED
    BY <2>1, <2>2
<1>6. CASE PeerCloses \/ RetentionPasses
  BY <1>6 DEF PeerCloses, RetentionPasses, dispatcherVars, networkVars, ingressVars, drainVars,
              reassemblyVars, sessionVars
<1>7. CASE StartShutdown
  BY <1>7 DEF StartShutdown, dispatcherVars, drainVars
<1>8. CASE FinishShutdown
  BY <1>8 DEF FinishShutdown, ClearIngress, ClearBuffers, NoBuffers, dispatcherVars, networkVars,
              drainVars
<1>9. QED
  BY <1>1, <1>2, <1>3, <1>4, <1>5, <1>6, <1>7, <1>8 DEF Next

LEMMA EndThroughout == Spec => []EndInv
  BY EndInitially, EndKept, TypesThroughout, PTL DEF Spec

\* After performDestroy the queue and the reassembly are empty and stay so,
\* whatever libwebrtc's thread was doing when the shutdown began.
THEOREM ShutdownLeavesNothing == Spec => []NothingAfterShutdown
<1>1. EndInv => NothingAfterShutdown
  BY DEF EndInv
<1>2. QED
  BY <1>1, EndThroughout, PTL
-----------------------------------------------------------------------------
(***************************************************************************)
(* A queued fragment has a drain coming, as long as Qt takes the calls.    *)
(***************************************************************************)
Queued == Range(callbacks) \cup Range(toPost)

FlagKept ==
    /\ ingress # <<>> => ingressScheduled
    /\ ingressScheduled => "drain" \in Queued \/ again

LEMMA Ranges ==
  ASSUME NEW S, NEW s \in Seq(S)
  PROVE  /\ s # <<>> => Range(s) = {Head(s)} \cup Range(Tail(s))
         /\ \A x \in S : Range(Append(s, x)) = Range(s) \cup {x}
<1>1. ASSUME s # <<>>
      PROVE  Range(s) = {Head(s)} \cup Range(Tail(s))
  <2>1. Head(s) = s[1] /\ 1 \in DOMAIN s
    BY <1>1
  <2>2. \A i \in DOMAIN Tail(s) : Tail(s)[i] = s[i + 1] /\ i + 1 \in DOMAIN s
    BY <1>1
  <2>3. \A i \in DOMAIN s : i = 1 \/ (i - 1 \in DOMAIN Tail(s) /\ s[i] = Tail(s)[i - 1])
    BY <1>1
  <2>4. ASSUME NEW i \in DOMAIN s
        PROVE  s[i] = Head(s) \/ s[i] \in Range(Tail(s))
    <3>1. i = 1 \/ (i - 1 \in DOMAIN Tail(s) /\ s[i] = Tail(s)[i - 1])
      BY <2>3, Zenon
    <3>2. QED
      BY <2>1, <3>1, Zenon DEF Range
  <2>5. ASSUME NEW i \in DOMAIN Tail(s)
        PROVE  Tail(s)[i] \in Range(s)
    <3>1. Tail(s)[i] = s[i + 1] /\ i + 1 \in DOMAIN s
      BY <2>2, Zenon
    <3>2. QED
      BY <3>1, Zenon DEF Range
  <2>6. Head(s) \in Range(s)
    BY <2>1, Zenon DEF Range
  <2>7. QED
    <3>1. \A y \in Range(s) : y = Head(s) \/ y \in Range(Tail(s))
      BY <2>4, Zenon DEF Range
    <3>2. \A y \in Range(Tail(s)) : y \in Range(s)
      BY <2>5, Zenon DEF Range
    <3>3. QED
      BY <2>6, <3>1, <3>2
<1>2. ASSUME NEW x \in S
      PROVE  Range(Append(s, x)) = Range(s) \cup {x}
  <2>1. DOMAIN Append(s, x) = DOMAIN s \cup {Len(s) + 1}
    OBVIOUS
  <2>2. \A i \in DOMAIN s : Append(s, x)[i] = s[i]
    OBVIOUS
  <2>3. Append(s, x)[Len(s) + 1] = x
    OBVIOUS
  <2>4. \A y \in Range(Append(s, x)) : y \in Range(s) \/ y = x
    BY <2>1, <2>2, <2>3, Zenon DEF Range
  <2>5. \A y : y \in Range(s) \/ y = x => y \in Range(Append(s, x))
    BY <2>1, <2>2, <2>3, Zenon DEF Range
  <2>6. QED
    BY <2>4, <2>5
<1>3. QED
  BY <1>1, <1>2

LEMMA RangesOfFew == Range(<<>>) = {} /\ Range(<<"drain">>) = {"drain"}
<1>1. Range(<<>>) = {}
  BY DEF Range
<1>2. DOMAIN <<"drain">> = {1} /\ <<"drain">>[1] = "drain"
  OBVIOUS
<1>3. QED
  BY <1>1, <1>2 DEF Range

LEMMA FlagInitially == Init => FlagKept
  BY DEF Init, FlagKept

LEMMA FlagStep ==
  ASSUME "invoke" \notin Failures, TypeOK, OwnerInv, FlagKept, [Next]_vars
  PROVE  FlagKept'
<1>1. CASE UNCHANGED <<callbacks, toPost, again, ingress, ingressScheduled>>
  BY <1>1, Zenon DEF FlagKept, Queued
<1>2. CASE NetworkStep
  <2>1. CASE Accept
    <3>1. ingressScheduled' = TRUE /\ UNCHANGED <<callbacks, again>> /\ toPost = <<>>
      BY <2>1 DEF Accept, dispatcherVars, drainVars, NetworkIdle
    <3>2. CASE ingressScheduled
      <4>1. toPost' = <<>>
        BY <2>1, <3>2, Zenon DEF Accept
      <4>2. QED
        BY <3>1, <3>2, <4>1, Zenon DEF FlagKept, Queued
    <3>3. CASE ~ingressScheduled
      <4>1. toPost' = <<"drain">>
        BY <2>1, <3>3, Zenon DEF Accept
      <4>2. "drain" \in Range(toPost')
        BY <4>1, RangesOfFew
      <4>3. QED
        BY <3>1, <4>2, Zenon DEF FlagKept, Queued
    <3>4. QED
      BY <3>2, <3>3
  <2>2. CASE ChannelOpens \/ ChannelCloses
    <3>1. toPost = <<>> /\ UNCHANGED <<callbacks, again, ingress, ingressScheduled>>
      BY <2>2 DEF ChannelOpens, ChannelCloses, dispatcherVars, drainVars, ingressVars, NetworkIdle
    <3>2. Range(toPost) = {}
      BY <3>1, RangesOfFew
    <3>3. QED
      BY <3>1, <3>2, Zenon DEF FlagKept, Queued
  <2>3. CASE PostNext
    <3>1. toPost # <<>> /\ callbacks' = Append(callbacks, Head(toPost)) /\ toPost' = Tail(toPost)
          /\ UNCHANGED <<again, ingress, ingressScheduled>>
      BY <2>3 DEF PostNext, Enqueue, ingressVars, drainVars
    <3>2. Head(toPost) \in Callbacks
      BY <3>1, SMT DEF TypeOK
    <3>3. Range(toPost) = {Head(toPost)} \cup Range(toPost')
      BY <3>1, Ranges DEF TypeOK
    <3>4. Range(callbacks') = Range(callbacks) \cup {Head(toPost)}
      BY <3>1, <3>2, Ranges DEF TypeOK, DispatcherTypeOK
    <3>5. Queued' = Queued
      BY <3>3, <3>4 DEF Queued
    <3>6. QED
      BY <3>1, <3>5, Zenon DEF FlagKept
  <2>4. CASE Overflow \/ \E t \in Transfers : HandleCancel(t)
    BY <1>1, <2>4 DEF Overflow, HandleCancel, dispatcherVars, networkVars, drainVars, ingressVars
  <2>5. CASE CloseAfterOverflow \/ ClearAfterOverflow
    BY <1>1, <2>5 DEF CloseAfterOverflow, ClearAfterOverflow, dispatcherVars, drainVars, ingressVars
  <2>6. QED
    BY <1>2, <2>1, <2>2, <2>3, <2>4, <2>5 DEF NetworkStep
<1>3. CASE OwnerStep
  <2>1. ASSUME NEW c, NextCallback(c)
        PROVE  /\ HandsEmpty /\ drain = "looking"
               /\ c # "drain" => ("drain" \in Range(callbacks) => "drain" \in Range(callbacks'))
    <3>1. callbacks # <<>> /\ Head(callbacks) = c /\ callbacks' = Tail(callbacks) /\ drain = "looking"
      BY <2>1 DEF NextCallback, TakeCallback
    <3>2. Range(callbacks) = {c} \cup Range(callbacks')
      BY <3>1, Ranges DEF TypeOK, DispatcherTypeOK
    <3>3. QED
      BY <3>1, <3>2 DEF OwnerInv
  <2>2. CASE RunOpen \/ RunError
    <3>1. "drain" \in Range(callbacks) => "drain" \in Range(callbacks')
      BY <2>1, <2>2 DEF RunOpen, RunError
    <3>2. UNCHANGED <<toPost, again, ingress, ingressScheduled>>
      BY <2>2 DEF RunOpen, RunError, networkVars, ingressVars, drainVars
    <3>3. QED
      BY <3>1, <3>2, Zenon DEF FlagKept, Queued
  <2>3. CASE RunClosed
    <3>1. CASE shutdown = "no"
      BY <2>3, <3>1 DEF RunClosed, ClearIngress, FlagKept
    <3>2. CASE shutdown # "no"
      <4>1. "drain" \in Range(callbacks) => "drain" \in Range(callbacks')
        BY <2>1, <2>3 DEF RunClosed
      <4>2. UNCHANGED <<toPost, again, ingress, ingressScheduled>>
        BY <2>3, <3>2 DEF RunClosed, networkVars, drainVars
      <4>3. QED
        BY <4>1, <4>2, Zenon DEF FlagKept, Queued
    <3>3. QED
      BY <3>1, <3>2
  <2>4. CASE RunDrain
    <3>1. CASE shutdown # "no"
      BY <2>4, <3>1 DEF RunDrain, ClearIngress, FlagKept
    <3>2. CASE shutdown = "no"
      <4>1. PICK k \in 0..Len(ingress) : Drains(k)
        BY <2>4, <3>2, TypesSplit, DrainTakes
      <4>2. k = Len(ingress) => ingress' = <<>>
        BY <4>1, SMT DEF Drains, TypeOK
      <4>3. CASE k = Len(ingress)
        BY <4>1, <4>2, <4>3, SMT DEF Drains, FlagKept, TypeOK
      <4>4. CASE k < Len(ingress)
        BY <4>1, <4>4, SMT DEF Drains, FlagKept, TypeOK
      <4>5. QED
        BY <4>3, <4>4, SMT DEF TypeOK
    <3>3. QED
      BY <3>1, <3>2
  <2>5. CASE PostAgain
    <3>1. callbacks' = Append(callbacks, "drain") /\ UNCHANGED <<toPost, ingress, ingressScheduled>>
      BY <2>5 DEF PostAgain, Enqueue, networkVars, ingressVars
    <3>2. "drain" \in Range(callbacks')
      <4>1. callbacks \in Seq(Callbacks) /\ "drain" \in Callbacks
        BY KindsOfCallbacks DEF TypeOK, DispatcherTypeOK
      <4>2. Range(Append(callbacks, "drain")) = Range(callbacks) \cup {"drain"}
        BY <4>1, Ranges
      <4>3. QED
        BY <3>1, <4>2
    <3>3. QED
      BY <3>1, <3>2, Zenon DEF FlagKept, Queued
  <2>6. QED
    BY <1>1, <1>3, <2>2, <2>3, <2>4, <2>5 DEF OwnerStep, IgnoreFragment, DiscardBuffer, KeepFragment,
       NextFragment, CheckCancelled, WriteFile, WriteFails, Return, CallbackReturns, dispatcherVars,
       networkVars, ingressVars, drainVars
<1>4. CASE DispatcherStep
  BY <1>1, <1>4 DEF DispatcherStep, StartDrain, FindEmpty, EndSlice, InvokeAgain, InvokeDrain,
     networkVars, ingressVars, drainVars
<1>5. CASE FinishShutdown
  BY <1>5 DEF FinishShutdown, ClearIngress, FlagKept
<1>6. QED
  BY <1>1, <1>2, <1>3, <1>4, <1>5 DEF Next, vars, SenderStep, SendFragment, CancelTransfer, PeerCloses,
     StartShutdown, RetentionPasses, dispatcherVars, networkVars, ingressVars, drainVars

\* No fragment lies in the queue without a drain on its way to it, from whichever
\* side of the queue the flag was last changed, if Qt never refuses a call.
THEOREM FragmentsHaveADrain == "invoke" \notin Failures => (Spec => []DrainComing)
<1> SUFFICES ASSUME "invoke" \notin Failures
             PROVE  Spec => []DrainComing
  OBVIOUS
<1>1. FlagKept => DrainComing
  BY Zenon DEF FlagKept, DrainComing, Queued
<1>2. EndInv => OwnerInv
  BY DEF EndInv
<1>3. TypeOK /\ OwnerInv /\ FlagKept /\ [Next]_vars => FlagKept'
  BY FlagStep
<1>4. QED
  BY <1>1, <1>2, <1>3, FlagInitially, TypesThroughout, EndThroughout, PTL DEF Spec
-----------------------------------------------------------------------------
(***************************************************************************)
(* Delivery.  The fragments on their way stand in one line, the batch      *)
(* first and the channel last, and in it those of a packet are in          *)
(* ascending order, whatever is lost at either end of the queue.           *)
(***************************************************************************)
Ahead(s, t) == \A i \in DOMAIN s, j \in DOMAIN t : s[i].packet = t[j].packet => s[i].index < t[j].index

Ascending(s) ==
    \A i, j \in DOMAIN s : i < j /\ s[i].packet = s[j].packet => s[i].index < s[j].index

Line(b, g, w) ==
    /\ Ascending(b) /\ Ascending(g) /\ Ascending(w)
    /\ Ahead(b, g) /\ Ahead(b, w) /\ Ahead(g, w)

InLine(b, g, w) == Range(b) \cup Range(g) \cup Range(w)

LEMMA Elements ==
  ASSUME NEW S, NEW s \in Seq(S), NEW x \in S
  PROVE  /\ Len(s) \in Nat /\ DOMAIN s = 1..Len(s)
         /\ s # <<>> => /\ DOMAIN Tail(s) = 1..(Len(s) - 1)
                        /\ \A i \in DOMAIN Tail(s) : Tail(s)[i] = s[i + 1]
                        /\ Head(s) = s[1] /\ Len(s) > 0
         /\ DOMAIN Append(s, x) = 1..(Len(s) + 1)
         /\ \A i \in DOMAIN s : Append(s, x)[i] = s[i]
         /\ Append(s, x)[Len(s) + 1] = x
         /\ \A k \in 0..Len(s) : /\ DOMAIN SubSeq(s, 1, k) = 1..k
                                 /\ \A i \in 1..k : SubSeq(s, 1, k)[i] = s[i]
                                 /\ DOMAIN SubSeq(s, k + 1, Len(s)) = 1..(Len(s) - k)
                                 /\ \A i \in 1..(Len(s) - k) : SubSeq(s, k + 1, Len(s))[i] = s[k + i]
  BY SMT

LEMMA Nothing == DOMAIN <<>> = {}
  OBVIOUS

\* What is lost leaves the rest in order.
LEMMA LineLoses ==
  ASSUME NEW b, NEW g, NEW w, Line(b, g, w)
  PROVE  Line(b, g, <<>>) /\ Line(b, <<>>, w) /\ Line(<<>>, g, w)
  BY Nothing, Zenon DEF Line, Ascending, Ahead

LEMMA LineDrops ==
  ASSUME NEW b, NEW g, NEW w \in Seq(Fragments), w # <<>>, Line(b, g, w)
  PROVE  Line(b, g, Tail(w))
<1>1. /\ Len(w) \in Nat /\ DOMAIN w = 1..Len(w) /\ DOMAIN Tail(w) = 1..(Len(w) - 1)
      /\ \A i \in DOMAIN Tail(w) : Tail(w)[i] = w[i + 1]
  BY Elements
<1>2. Ascending(Tail(w))
  BY <1>1, SMT DEF Line, Ascending
<1>3. Ahead(b, Tail(w)) /\ Ahead(g, Tail(w))
  BY <1>1, SMT DEF Line, Ahead
<1>4. QED
  BY <1>2, <1>3 DEF Line

LEMMA LineProcesses ==
  ASSUME NEW b \in Seq(Fragments), NEW g, NEW w, b # <<>>, Line(b, g, w)
  PROVE  /\ Line(Tail(b), g, w)
         /\ \A f \in InLine(Tail(b), g, w) : f.packet = Head(b).packet => Head(b).index < f.index
<1>1. /\ Len(b) \in Nat /\ DOMAIN b = 1..Len(b) /\ DOMAIN Tail(b) = 1..(Len(b) - 1)
      /\ \A i \in DOMAIN Tail(b) : Tail(b)[i] = b[i + 1]
      /\ Head(b) = b[1] /\ Len(b) > 0
  BY Elements
<1>2. Ascending(Tail(b))
  BY <1>1, SMT DEF Line, Ascending
<1>3. Ahead(Tail(b), g) /\ Ahead(Tail(b), w)
  BY <1>1, SMT DEF Line, Ahead
<1>4. \A i \in DOMAIN Tail(b) : Tail(b)[i].packet = Head(b).packet => Head(b).index < Tail(b)[i].index
  BY <1>1, SMT DEF Line, Ascending
<1>5. /\ \A i \in DOMAIN g : g[i].packet = Head(b).packet => Head(b).index < g[i].index
      /\ \A i \in DOMAIN w : w[i].packet = Head(b).packet => Head(b).index < w[i].index
  BY <1>1, SMT DEF Line, Ahead
<1>6. \A f \in InLine(Tail(b), g, w) : f.packet = Head(b).packet => Head(b).index < f.index
  BY <1>4, <1>5, Zenon DEF InLine, Range
<1>7. QED
  BY <1>2, <1>3, <1>6 DEF Line

LEMMA LineAccepts ==
  ASSUME NEW b, NEW g \in Seq(Fragments), NEW w \in Seq(Fragments), w # <<>>, Line(b, g, w)
  PROVE  Line(b, Append(g, Head(w)), Tail(w))
<1> DEFINE h == Append(g, Head(w))
<1>1. /\ Len(w) \in Nat /\ DOMAIN w = 1..Len(w) /\ DOMAIN Tail(w) = 1..(Len(w) - 1)
      /\ \A i \in DOMAIN Tail(w) : Tail(w)[i] = w[i + 1]
      /\ Head(w) = w[1] /\ Len(w) > 0
  BY Elements
<1>2. Head(w) \in Fragments
  BY SeqTypes
<1>3. /\ Len(g) \in Nat /\ DOMAIN g = 1..Len(g) /\ DOMAIN h = 1..(Len(g) + 1)
      /\ \A i \in DOMAIN g : h[i] = g[i]
      /\ h[Len(g) + 1] = w[1]
  BY <1>1, <1>2, Elements
<1> HIDE DEF h
<1>4. \A i \in DOMAIN h : (i \in DOMAIN g /\ h[i] = g[i]) \/ (i = Len(g) + 1 /\ h[i] = w[1])
  BY <1>3, SMT
<1>5. 1 \in DOMAIN w
  BY <1>1, SMT
<1> DEFINE t == Tail(w)
<1>12. /\ DOMAIN t = 1..(Len(w) - 1)
       /\ \A i \in DOMAIN t : i + 1 \in DOMAIN w /\ t[i] = w[i + 1]
  BY <1>1
<1> HIDE DEF t
<1>6. Ascending(t)
  <2>1. SUFFICES ASSUME NEW i \in DOMAIN t, NEW j \in DOMAIN t, i < j, t[i].packet = t[j].packet
                 PROVE  t[i].index < t[j].index
    BY DEF Ascending
  <2>2. i + 1 \in DOMAIN w /\ j + 1 \in DOMAIN w /\ i + 1 < j + 1
    BY <1>1, <1>12, <2>1, SMT
  <2>3. w[i + 1].packet = w[j + 1].packet /\ t[i] = w[i + 1] /\ t[j] = w[j + 1]
    BY <1>12, <2>1
  <2>4. QED
    BY <2>2, <2>3 DEF Line, Ascending
<1>7. Ahead(b, t)
  BY <1>12, Zenon DEF Line, Ahead
<1>8. Ahead(b, h)
  BY <1>4, <1>5, Zenon DEF Line, Ahead
<1>9. Ascending(h)
  <2>1. SUFFICES ASSUME NEW i \in DOMAIN h, NEW j \in DOMAIN h, i < j, h[i].packet = h[j].packet
                 PROVE  h[i].index < h[j].index
    BY DEF Ascending
  <2>2. i \in DOMAIN g /\ h[i] = g[i]
    BY <1>3, <2>1, SMT
  <2>3. CASE j \in DOMAIN g
    <3>1. g[i].packet = g[j].packet /\ h[j] = g[j]
      BY <1>3, <2>1, <2>2, <2>3
    <3>2. QED
      BY <2>1, <2>2, <2>3, <3>1, Zenon DEF Line, Ascending
  <2>4. CASE j = Len(g) + 1
    BY <1>3, <1>5, <2>1, <2>2, <2>4 DEF Line, Ahead
  <2>5. QED
    BY <1>4, <2>3, <2>4
<1>10. Ahead(h, t)
  <2>1. SUFFICES ASSUME NEW i \in DOMAIN h, NEW j \in DOMAIN t, h[i].packet = t[j].packet
                 PROVE  h[i].index < t[j].index
    BY DEF Ahead
  <2>2. j + 1 \in DOMAIN w /\ t[j] = w[j + 1] /\ 1 < j + 1
    BY <1>1, <1>12, <2>1, SMT
  <2>3. CASE i \in DOMAIN g /\ h[i] = g[i]
    BY <2>1, <2>2, <2>3 DEF Line, Ahead
  <2>4. CASE h[i] = w[1]
    BY <1>5, <2>1, <2>2, <2>4 DEF Line, Ascending
  <2>5. QED
    BY <1>4, <2>3, <2>4
<1>11. QED
  BY <1>6, <1>7, <1>8, <1>9, <1>10 DEF Line, h, t

LEMMA LineIsTaken ==
  ASSUME NEW g \in Seq(Fragments), NEW w, NEW k \in 0..Len(g), Line(<<>>, g, w)
  PROVE  Line(SubSeq(g, 1, k), SubSeq(g, k + 1, Len(g)), w)
<1> DEFINE b == SubSeq(g, 1, k)
           r == SubSeq(g, k + 1, Len(g))
<1>1. /\ Len(g) \in Nat /\ DOMAIN g = 1..Len(g)
      /\ DOMAIN b = 1..k /\ \A i \in 1..k : b[i] = g[i]
      /\ DOMAIN r = 1..(Len(g) - k) /\ \A i \in 1..(Len(g) - k) : r[i] = g[k + i]
  <2>1. CASE Fragments = {}
    BY <2>1, SMT
  <2>2. CASE Fragments # {}
    <3>1. PICK x \in Fragments : TRUE
      BY <2>2
    <3>2. QED
      BY <3>1, Elements
  <2>3. QED
    BY <2>1, <2>2
<1> HIDE DEF b, r
<1>2. k \in Nat /\ k <= Len(g)
  BY <1>1, SMT
<1>3. /\ \A i \in DOMAIN b : i \in DOMAIN g /\ b[i] = g[i] /\ i <= k
      /\ \A i \in DOMAIN r : i \in Nat /\ k + i \in DOMAIN g /\ r[i] = g[k + i] /\ k < k + i
  BY <1>1, <1>2, SMT
<1>4. Ascending(b)
  <2>1. \A i, j \in DOMAIN b : i < j /\ g[i].packet = g[j].packet => g[i].index < g[j].index
    BY <1>3, Zenon DEF Line, Ascending
  <2>2. QED
    BY <1>3, <2>1, Zenon DEF Ascending
<1>5. Ascending(r)
  <2>1. SUFFICES ASSUME NEW i \in DOMAIN r, NEW j \in DOMAIN r, i < j, r[i].packet = r[j].packet
                 PROVE  r[i].index < r[j].index
    BY DEF Ascending
  <2>2. k + i \in DOMAIN g /\ k + j \in DOMAIN g /\ r[i] = g[k + i] /\ r[j] = g[k + j]
    BY <1>3
  <2>3. k + i < k + j
    BY <1>2, <1>3, <2>1, SMT
  <2>4. QED
    BY <2>1, <2>2, <2>3, Zenon DEF Line, Ascending
<1>6. Ahead(b, r)
  <2>1. SUFFICES ASSUME NEW i \in DOMAIN b, NEW j \in DOMAIN r, b[i].packet = r[j].packet
                 PROVE  b[i].index < r[j].index
    BY DEF Ahead
  <2>2. i \in DOMAIN g /\ k + j \in DOMAIN g /\ b[i] = g[i] /\ r[j] = g[k + j]
    BY <1>3
  <2>3. i < k + j
    BY <1>1, <1>2, <1>3, SMT
  <2>4. QED
    BY <2>1, <2>2, <2>3, Zenon DEF Line, Ascending
<1>7. Ahead(b, w)
  BY <1>3, Zenon DEF Line, Ahead
<1>8. Ahead(r, w)
  <2>1. SUFFICES ASSUME NEW i \in DOMAIN r, NEW j \in DOMAIN w, r[i].packet = w[j].packet
                 PROVE  r[i].index < w[j].index
    BY Zenon DEF Ahead
  <2>2. PICK l : l = k + i
    OBVIOUS
  <2>3. l \in DOMAIN g /\ r[i] = g[l]
    BY <1>3, <2>2
  <2>4. QED
    BY <2>1, <2>3, Zenon DEF Line, Ahead
<1>9. QED
  BY <1>4, <1>5, <1>6, <1>7, <1>8 DEF Line, b, r

LEMMA LineGrows ==
  ASSUME NEW b, NEW g, NEW w \in Seq(Fragments), NEW f \in Fragments, Line(b, g, w),
         \A h \in InLine(b, g, w) : h.packet = f.packet => h.index < f.index
  PROVE  Line(b, g, Append(w, f))
<1> DEFINE v == Append(w, f)
<1>1. /\ Len(w) \in Nat /\ DOMAIN w = 1..Len(w) /\ DOMAIN v = 1..(Len(w) + 1)
      /\ \A i \in DOMAIN w : v[i] = w[i]
      /\ v[Len(w) + 1] = f
  BY Elements
<1> HIDE DEF v
<1>2. \A i \in DOMAIN v : (i \in DOMAIN w /\ v[i] = w[i]) \/ (i = Len(w) + 1 /\ v[i] = f)
  BY <1>1, SMT
<1>3. /\ \A i \in DOMAIN b : b[i].packet = f.packet => b[i].index < f.index
      /\ \A i \in DOMAIN g : g[i].packet = f.packet => g[i].index < f.index
      /\ \A i \in DOMAIN w : w[i].packet = f.packet => w[i].index < f.index
  <2>1. /\ \A i \in DOMAIN b : b[i] \in InLine(b, g, w)
        /\ \A i \in DOMAIN g : g[i] \in InLine(b, g, w)
        /\ \A i \in DOMAIN w : w[i] \in InLine(b, g, w)
    BY Zenon DEF InLine, Range
  <2>2. QED
    BY <2>1, Zenon
<1>4. Ahead(b, v) /\ Ahead(g, v)
  BY <1>2, <1>3, Zenon DEF Line, Ahead
<1>5. Ascending(v)
  <2>1. SUFFICES ASSUME NEW i \in DOMAIN v, NEW j \in DOMAIN v, i < j, v[i].packet = v[j].packet
                 PROVE  v[i].index < v[j].index
    BY DEF Ascending
  <2>2. i \in DOMAIN w /\ v[i] = w[i]
    BY <1>1, <2>1, SMT
  <2>3. CASE j \in DOMAIN w /\ v[j] = w[j]
    BY <2>1, <2>2, <2>3, Zenon DEF Line, Ascending
  <2>4. CASE v[j] = f
    BY <1>3, <2>1, <2>2, <2>4
  <2>5. QED
    BY <1>2, <2>3, <2>4
<1>6. QED
  BY <1>4, <1>5 DEF Line, v

LEMMA RangeOfParts ==
  ASSUME NEW S, NEW s \in Seq(S), NEW k \in 0..Len(s)
  PROVE  Range(SubSeq(s, 1, k)) \subseteq Range(s) /\ Range(SubSeq(s, k + 1, Len(s))) \subseteq Range(s)
<1> DEFINE b == SubSeq(s, 1, k)
           r == SubSeq(s, k + 1, Len(s))
<1>1. /\ \A i \in DOMAIN b : i \in DOMAIN s /\ b[i] = s[i]
      /\ \A i \in DOMAIN r : k + i \in DOMAIN s /\ r[i] = s[k + i]
  <2>1. Len(s) \in Nat /\ DOMAIN s = 1..Len(s) /\ k \in Nat /\ k =< Len(s)
    BY SMT
  <2>2. DOMAIN b = 1..k /\ \A i \in 1..k : b[i] = s[i]
    BY SMT
  <2>3. DOMAIN r = 1..(Len(s) - k) /\ \A i \in 1..(Len(s) - k) : r[i] = s[k + i]
    BY SMT
  <2> HIDE DEF b, r
  <2>4. QED
    BY <2>1, <2>2, <2>3, SMT
<1> HIDE DEF b, r
<1>2. \A i \in DOMAIN b : b[i] \in Range(s)
  BY <1>1, Zenon DEF Range
<1>4. \A i \in DOMAIN r : r[i] \in Range(s)
  BY <1>1, Zenon DEF Range
<1>5. Range(b) \subseteq Range(s) /\ Range(r) \subseteq Range(s)
  BY <1>2, <1>4 DEF Range
<1>3. QED
  BY <1>5 DEF b, r

Pipe == InLine(batch, ingress, wire)

\* A step that does not send leaves the line in order and adds nothing to it.
LEMMA FragmentsMove ==
  ASSUME TypeOK, OwnerInv, Line(batch, ingress, wire), [Next]_vars,
         \A p \in Packets : ~SendFragment(p)
  PROVE  /\ Line(batch', ingress', wire')
         /\ InLine(batch', ingress', wire') \subseteq Pipe
         /\ sent' = sent
<1>1. CASE UNCHANGED <<batch, ingress, wire, sent>>
  BY <1>1, Zenon DEF Pipe
<1>2. CASE NetworkStep
  <2>1. CASE Accept
    <3>1. wire # <<>> /\ ingress' = Append(ingress, Head(wire)) /\ wire' = Tail(wire)
          /\ UNCHANGED <<batch, sent>>
      BY <2>1 DEF Accept, drainVars
    <3>2. Line(batch', ingress', wire')
      BY <3>1, LineAccepts DEF TypeOK
    <3>3. Head(wire) \in Fragments
      BY <3>1, SeqTypes DEF TypeOK
    <3>4. Range(wire) = {Head(wire)} \cup Range(wire') /\ Range(ingress') = Range(ingress) \cup {Head(wire)}
      BY <3>1, <3>3, Ranges DEF TypeOK
    <3>5. QED
      BY <3>1, <3>2, <3>4 DEF Pipe, InLine
  <2>2. CASE Overflow
    <3>1. wire # <<>> /\ wire' = Tail(wire) /\ UNCHANGED <<batch, ingress, sent>>
      BY <2>2 DEF Overflow, drainVars
    <3>2. Line(batch', ingress', wire')
      BY <3>1, LineDrops DEF TypeOK
    <3>3. Range(wire) = {Head(wire)} \cup Range(wire')
      BY <3>1, Ranges DEF TypeOK
    <3>4. QED
      BY <3>1, <3>2, <3>3 DEF Pipe, InLine
  <2>3. CASE ChannelCloses
    <3>1. wire' = <<>> /\ UNCHANGED <<batch, ingress, sent>>
      BY <2>3 DEF ChannelCloses, drainVars, ingressVars
    <3>2. QED
      BY <3>1, LineLoses, RangesOfFew DEF Pipe, InLine
  <2>4. CASE CloseAfterOverflow \/ ClearAfterOverflow \/ ChannelOpens
    BY <1>1, <2>4 DEF CloseAfterOverflow, ClearAfterOverflow, ChannelOpens, senderVars, drainVars, ingressVars
  <2>5. CASE PostNext \/ \E t \in Transfers : HandleCancel(t)
    BY <1>1, <2>5 DEF PostNext, HandleCancel, senderVars, drainVars, ingressVars
  <2>6. QED
    BY <1>2, <2>1, <2>2, <2>3, <2>4, <2>5 DEF NetworkStep
<1>3. CASE OwnerStep
  <2>1. CASE RunDrain
    <3>1. UNCHANGED <<wire, sent>> /\ batch = <<>>
      BY <2>1 DEF RunDrain, NextCallback, TakeCallback, senderVars, OwnerInv, HandsEmpty
    <3>2. CASE shutdown # "no"
      <4>1. ingress' = <<>> /\ batch' = batch
        BY <2>1, <3>2 DEF RunDrain, ClearIngress
      <4>2. QED
        BY <3>1, <4>1, LineLoses, RangesOfFew DEF Pipe, InLine
    <3>3. CASE shutdown = "no"
      <4>1. PICK k \in 0..Len(ingress) : Drains(k)
        BY <2>1, <3>3, TypesSplit, DrainTakes
      <4>2. Line(batch', ingress', wire')
        BY <3>1, <4>1, LineIsTaken DEF Drains, TypeOK
      <4>3. Range(batch') \subseteq Range(ingress) /\ Range(ingress') \subseteq Range(ingress)
        BY <4>1, RangeOfParts DEF Drains, TypeOK
      <4>4. QED
        BY <3>1, <4>2, <4>3 DEF Pipe, InLine
    <3>4. QED
      BY <3>2, <3>3
  <2>2. CASE RunClosed
    <3>1. UNCHANGED <<wire, sent, batch>> /\ (ingress' = <<>> \/ ingress' = ingress)
      BY <2>2, Zenon DEF RunClosed, ClearIngress, senderVars, drainVars
    <3>2. CASE ingress' = <<>>
      BY <3>1, <3>2, LineLoses, RangesOfFew DEF Pipe, InLine
    <3>3. QED
      BY <1>1, <3>1, <3>2
  <2>3. CASE IgnoreFragment \/ DiscardBuffer \/ KeepFragment
    <3>1. batch # <<>> /\ batch' = Tail(batch) /\ UNCHANGED <<ingress, wire, sent>>
      BY <2>3 DEF IgnoreFragment, DiscardBuffer, KeepFragment, NextFragment, AtFragment, senderVars,
                  ingressVars
    <3>2. Line(batch', ingress', wire')
      BY <3>1, LineProcesses DEF TypeOK
    <3>3. Range(batch) = {Head(batch)} \cup Range(batch')
      BY <3>1, Ranges DEF TypeOK
    <3>4. QED
      BY <3>1, <3>2, <3>3 DEF Pipe, InLine
  <2>4. CASE RunOpen \/ RunError \/ PostAgain \/ Return
    BY <1>1, <2>4 DEF RunOpen, RunError, PostAgain, Return, senderVars, ingressVars, drainVars
  <2>5. CASE CheckCancelled \/ WriteFile \/ WriteFails
    BY <1>1, <2>5 DEF CheckCancelled, WriteFile, WriteFails, senderVars, ingressVars
  <2>6. QED
    BY <1>3, <2>1, <2>2, <2>3, <2>4, <2>5 DEF OwnerStep
<1>4. CASE FinishShutdown
  <2>1. ingress' = <<>> /\ wire' = <<>> /\ UNCHANGED <<batch, sent>>
    BY <1>4 DEF FinishShutdown, ClearIngress, drainVars
  <2>2. Line(batch, <<>>, <<>>)
    BY LineLoses
  <2>3. QED
    BY <2>1, <2>2, RangesOfFew DEF Pipe, InLine
<1>5. QED
  <2>1. SenderStep => UNCHANGED <<batch, ingress, wire, sent>>
    BY DEF SenderStep, CancelTransfer, ingressVars, drainVars
  <2>2. DispatcherStep \/ PeerCloses \/ StartShutdown \/ RetentionPasses \/ UNCHANGED vars
          => UNCHANGED <<batch, ingress, wire, sent>>
    BY DEF DispatcherStep, PeerCloses, StartShutdown, RetentionPasses, vars, senderVars, ingressVars,
           drainVars
  <2>3. QED
    BY <1>1, <1>2, <1>3, <1>4, <2>1, <2>2 DEF Next

(***************************************************************************)
(* What is on its way was sent, a packet that is complete or written has   *)
(* nothing on its way any more, and what is assembled is a beginning.      *)
(***************************************************************************)
PipeInv ==
    /\ Line(batch, ingress, wire)
    /\ \A f \in Pipe : f.index < sent[f.packet]
    /\ \A p \in Packets : sent[p] <= fragmentsOf[p]

Finished(p) == (packet # NoPacket /\ packet.packet = p) \/ written[p] # <<>>

OnceInv ==
    /\ \A p \in Packets : Finished(p) => sent[p] = fragmentsOf[p] /\ \A f \in Pipe : f.packet # p
    /\ packet # NoPacket => written[packet.packet] = <<>>

Beginning(content) == \A i \in DOMAIN content : content[i] = i - 1

ContentInv ==
    /\ \A p \in DOMAIN buffers : Beginning(buffers[p])
    /\ packet # NoPacket => packet.content = Delivery!Whole(packet.packet)

LEMMA PipeElements == TypeOK => \A f \in Pipe : f \in Fragments /\ f.packet \in Packets /\ f.index \in Nat
<1> SUFFICES ASSUME TypeOK
             PROVE  \A f \in Pipe : f \in Fragments /\ f.packet \in Packets /\ f.index \in Nat
  OBVIOUS
<1>1. ASSUME NEW s \in Seq(Fragments)
      PROVE  Range(s) \subseteq Fragments
  BY <1>1 DEF Range
<1>2. Pipe \subseteq Fragments
  BY <1>1 DEF Pipe, InLine, TypeOK
<1>3. QED
  BY <1>2 DEF Fragments

LEMMA PipeKept == TypeOK /\ OwnerInv /\ PipeInv /\ [Next]_vars => PipeInv'
<1> SUFFICES ASSUME TypeOK, OwnerInv, PipeInv, [Next]_vars
             PROVE  PipeInv'
  OBVIOUS
<1>1. ASSUME NEW p \in Packets, SendFragment(p)
      PROVE  PipeInv'
  <2> DEFINE f == [packet |-> p, index |-> sent[p]]
  <2>1. f \in Fragments /\ f.packet = p /\ f.index = sent[p]
    BY DEF TypeOK, Fragments
  <2>2. wire' = Append(wire, f) /\ UNCHANGED <<batch, ingress>> /\ sent[p] < fragmentsOf[p]
        /\ sent' = [sent EXCEPT ![p] = @ + 1]
    BY <1>1 DEF SendFragment, ingressVars, drainVars
  <2> HIDE DEF f
  <2>3. \A h \in InLine(batch, ingress, wire) : h.packet = f.packet => h.index < f.index
    BY <2>1 DEF PipeInv, Pipe
  <2>4. Line(batch, ingress, Append(wire, f))
    BY <2>1, <2>3, LineGrows DEF TypeOK, PipeInv
  <2>5. Range(wire') = Range(wire) \cup {f}
    BY <2>1, <2>2, Ranges DEF TypeOK
  <2>6. Pipe' = Pipe \cup {f}
    BY <2>2, <2>5 DEF Pipe, InLine
  <2>7. \A q \in Packets : sent[q] \in Nat /\ sent'[q] \in Nat /\ sent[q] <= sent'[q] /\ sent[p] < sent'[p]
    BY <2>2, SMT DEF TypeOK
  <2>8. \A h \in Pipe' : h.index < sent'[h.packet]
    BY <2>1, <2>6, <2>7, PipeElements, SMT DEF PipeInv
  <2>9. \A q \in Packets : sent'[q] <= fragmentsOf[q]
    BY <2>2, SMT DEF PipeInv, TypeOK
  <2>10. QED
    BY <2>2, <2>4, <2>8, <2>9 DEF PipeInv
<1>2. CASE \A p \in Packets : ~SendFragment(p)
  BY <1>2, FragmentsMove DEF PipeInv, Pipe
<1>3. QED
  BY <1>1, <1>2

\* The three steps by which a packet comes to be finished, or leaves the hands of
\* the owner; every other leaves packet and written alone.
LEMMA HandsChange ==
  ASSUME TypeOK, [Next]_vars
  PROVE  \/ UNCHANGED <<packet, written>>
         \/ KeepFragment
         \/ CheckCancelled \/ WriteFile \/ WriteFails
<1>1. CASE NetworkStep \/ SenderStep
  BY <1>1 DEF NetworkStep, Accept, Overflow, CloseAfterOverflow, ClearAfterOverflow, ChannelOpens,
              ChannelCloses, PostNext, HandleCancel, SenderStep, SendFragment, CancelTransfer, drainVars
<1>2. CASE OwnerStep
  <2>1. CASE RunOpen \/ RunError \/ RunClosed \/ PostAgain \/ Return
    BY <2>1 DEF RunOpen, RunError, RunClosed, PostAgain, Return, drainVars
  <2>2. CASE RunDrain
    BY <2>2 DEF RunDrain
  <2>3. CASE IgnoreFragment \/ DiscardBuffer
    BY <2>3 DEF IgnoreFragment, DiscardBuffer, NextFragment
  <2>4. QED
    BY <1>2, <2>1, <2>2, <2>3 DEF OwnerStep
<1>3. QED
  BY <1>1, <1>2 DEF Next, vars, drainVars, DispatcherStep, PeerCloses, StartShutdown, FinishShutdown,
                    RetentionPasses

LEMMA Completing ==
  ASSUME TypeOK, PipeInv, OnceInv, ContentInv, KeepFragment
  PROVE  /\ packet = NoPacket
         /\ \/ UNCHANGED <<packet, written>>
            \/ /\ packet' # NoPacket
               /\ written' = written
               /\ packet'.packet \in Packets
               /\ packet'.content = Delivery!Whole(packet'.packet)
               /\ written[packet'.packet] = <<>>
               /\ sent[packet'.packet] = fragmentsOf[packet'.packet]
               /\ \A f \in InLine(batch', ingress', wire') : f.packet # packet'.packet
<1> DEFINE f == Head(batch)
           p == f.packet
           held == Held(p)
           content == Append(held, f.index)
<1>1. NextFragment /\ f.index = Len(held)
      /\ (UNCHANGED packet \/
          (Len(content) = fragmentsOf[p] /\ packet' = [packet |-> p, content |-> content, step |-> "complete"]))
  BY Zenon DEF KeepFragment
<1>2. batch # <<>> /\ batch' = Tail(batch) /\ packet = NoPacket /\ UNCHANGED <<ingress, wire, written, sent>>
  BY <1>1 DEF NextFragment, AtFragment, ingressVars, senderVars
<1>3. f \in Fragments /\ f \in Pipe
  <2>1. Range(batch) = {f} \cup Range(Tail(batch))
    BY <1>2, Ranges DEF TypeOK
  <2>2. f \in Pipe
    BY <2>1 DEF Pipe, InLine
  <2>3. QED
    BY <2>2, PipeElements
<1>4. p \in Packets /\ f.index \in Nat /\ f.index < sent[p] /\ sent[p] <= fragmentsOf[p]
      /\ sent[p] \in Nat /\ fragmentsOf[p] \in Nat
  <2>1. p \in Packets /\ f.index \in Nat
    BY <1>3, PipeElements
  <2>2. f.index < sent[p] /\ sent[p] <= fragmentsOf[p]
    BY <1>3, <2>1 DEF PipeInv
  <2>3. QED
    BY <2>1, <2>2 DEF TypeOK, FilesAssumption
<1>5. held \in Seq(Nat) /\ Beginning(held)
  <2>1. held \in Seq(Nat)
    BY <1>4, TypesSplit, BuffersTyped
  <2>2. CASE p \in DOMAIN Kept
    <3>1. held = buffers[p] /\ p \in DOMAIN buffers
      BY <2>2 DEF Held, Kept
    <3>2. QED
      BY <2>1, <3>1 DEF ContentInv
  <2>3. CASE p \notin DOMAIN Kept
    <3>1. held = <<>>
      BY <2>3 DEF Held
    <3>2. QED
      BY <2>1, <3>1, Nothing DEF Beginning
  <2>4. QED
    BY <2>2, <2>3
<1>6. CASE UNCHANGED packet
  BY <1>2, <1>6
<1>7. CASE ~UNCHANGED packet
  <2> HIDE DEF f, p, held, content
  <2>1. Len(content) = fragmentsOf[p] /\ packet' = [packet |-> p, content |-> content, step |-> "complete"]
    BY <1>1, <1>7
  <2>2. packet'.packet = p /\ packet'.content = content
    BY <2>1
  <2>3. /\ Len(held) \in Nat /\ DOMAIN held = 1..Len(held) /\ DOMAIN content = 1..(Len(held) + 1)
        /\ \A i \in DOMAIN held : content[i] = held[i]
        /\ content[Len(held) + 1] = f.index
        /\ content \in Seq(Nat) /\ Len(content) = Len(held) + 1
    <3>1. content \in Seq(Nat) /\ Len(content) = Len(held) + 1
      BY <1>4, <1>5, SMT DEF content
    <3>2. QED
      BY <1>4, <1>5, <3>1, Elements DEF content
  <2>4. \A i \in 1..fragmentsOf[p] : content[i] = i - 1
    <3>1. fragmentsOf[p] = Len(held) + 1 /\ f.index = Len(held)
      BY <1>1, <2>1, <2>3
    <3>2. \A i \in DOMAIN held : content[i] = i - 1
      BY <1>5, <2>3 DEF Beginning
    <3>3. \A i \in 1..(Len(held) + 1) : i \in DOMAIN held \/ i = Len(held) + 1
      BY <2>3, SMT
    <3>4. content[Len(held) + 1] = (Len(held) + 1) - 1
      BY <2>3, <3>1, SMT
    <3>5. QED
      BY <3>1, <3>2, <3>3, <3>4, Zenon
  <2>5. content = Delivery!Whole(p)
    <3>1. DOMAIN content = 1..fragmentsOf[p] /\ content = [i \in DOMAIN content |-> content[i]]
      BY <2>1, <2>3
    <3>2. QED
      BY <2>4, <3>1 DEF Delivery!Whole
  <2>6. sent[p] = fragmentsOf[p] /\ f.index + 1 = fragmentsOf[p]
    BY <1>1, <1>4, <2>1, <2>3, SMT
  <2>7. \A h \in InLine(batch', ingress', wire') : h.packet # p
    <3>1. SUFFICES ASSUME NEW h \in InLine(batch', ingress', wire'), h.packet = p
                   PROVE  FALSE
      OBVIOUS
    <3>2. f.index < h.index
      BY <1>2, <3>1, LineProcesses DEF TypeOK, PipeInv, f, p
    <3>3. h \in Pipe
      <4>1. Range(batch) = {Head(batch)} \cup Range(batch')
        BY <1>2, Ranges DEF TypeOK
      <4>2. QED
        BY <1>2, <3>1, <4>1 DEF Pipe, InLine
    <3>4. h.index < sent[p] /\ h.index \in Nat
      BY <3>1, <3>3, PipeElements DEF PipeInv
    <3>5. QED
      BY <1>4, <2>6, <3>2, <3>4, SMT
  <2>8. written[p] = <<>>
    <3>1. f.packet = p
      BY DEF p
    <3>2. QED
      BY <1>3, <1>4, <3>1 DEF OnceInv, Finished
  <2>9. packet' # NoPacket
    <3>1. packet'.step = "complete" /\ NoPacket.step = "none"
      BY <2>1 DEF NoPacket
    <3>2. QED
      BY <3>1
  <2>10. QED
    BY <1>2, <1>4, <2>2, <2>5, <2>6, <2>7, <2>8, <2>9
<1>8. QED
  BY <1>6, <1>7

LEMMA OnceKept == TypeOK /\ OwnerInv /\ PipeInv /\ OnceInv /\ ContentInv /\ [Next]_vars => OnceInv'
<1> SUFFICES ASSUME TypeOK, OwnerInv, PipeInv, OnceInv, ContentInv, [Next]_vars
             PROVE  OnceInv'
  OBVIOUS
<1>1. ASSUME NEW p \in Packets, SendFragment(p)
      PROVE  OnceInv'
  <2>1. UNCHANGED <<batch, ingress, packet, written>> /\ sent[p] < fragmentsOf[p]
        /\ sent' = [sent EXCEPT ![p] = @ + 1]
        /\ wire' = Append(wire, [packet |-> p, index |-> sent[p]])
    BY <1>1 DEF SendFragment, ingressVars, drainVars
  <2>2. ~Finished(p)
    BY <2>1, SMT DEF OnceInv, TypeOK
  <2>3. Pipe' = Pipe \cup {[packet |-> p, index |-> sent[p]]}
    <3>1. [packet |-> p, index |-> sent[p]] \in Fragments
      BY DEF TypeOK, Fragments
    <3>2. Range(wire') = Range(wire) \cup {[packet |-> p, index |-> sent[p]]}
      BY <2>1, <3>1, Ranges DEF TypeOK
    <3>3. QED
      BY <2>1, <3>2 DEF Pipe, InLine
  <2>4. ASSUME NEW q \in Packets, Finished(q)'
        PROVE  sent'[q] = fragmentsOf[q] /\ \A f \in Pipe' : f.packet # q
    <3>1. Finished(q) /\ q # p
      BY <2>1, <2>2, <2>4 DEF Finished
    <3>2. sent'[q] = sent[q]
      BY <2>1, <3>1 DEF TypeOK
    <3>3. QED
      BY <2>3, <3>1, <3>2 DEF OnceInv
  <2>5. QED
    BY <2>1, <2>4 DEF OnceInv
<1>2. ASSUME \A p \in Packets : ~SendFragment(p), UNCHANGED <<packet, written>>
      PROVE  OnceInv'
  <2>1. Pipe' \subseteq Pipe /\ sent' = sent
    BY <1>2, FragmentsMove DEF PipeInv, Pipe
  <2>2. QED
    BY <1>2, <2>1 DEF OnceInv, Finished
<1>3. ASSUME KeepFragment, ~UNCHANGED <<packet, written>>
      PROVE  OnceInv'
  <2>1. /\ packet = NoPacket /\ packet' # NoPacket /\ written' = written
        /\ packet'.packet \in Packets
        /\ written[packet'.packet] = <<>>
        /\ sent[packet'.packet] = fragmentsOf[packet'.packet]
        /\ \A f \in Pipe' : f.packet # packet'.packet
    BY <1>3, Completing DEF Pipe
  <2>2. \A p \in Packets : ~SendFragment(p)
    BY <1>3, <2>1 DEF SendFragment, drainVars
  <2>3. Pipe' \subseteq Pipe /\ sent' = sent
    BY <2>2, FragmentsMove DEF PipeInv, Pipe
  <2>4. ASSUME NEW q \in Packets, Finished(q)'
        PROVE  sent'[q] = fragmentsOf[q] /\ \A f \in Pipe' : f.packet # q
    <3>1. CASE packet'.packet = q
      BY <2>1, <2>3, <3>1
    <3>2. CASE packet'.packet # q
      BY <2>1, <2>3, <2>4, <3>2 DEF OnceInv, Finished
    <3>3. QED
      BY <3>1, <3>2
  <2>5. QED
    BY <2>1, <2>4 DEF OnceInv
<1>4. CASE CheckCancelled \/ WriteFile \/ WriteFails
  <2>1. packet # NoPacket /\ packet \in Reassembled /\ packet.packet \in Packets
    BY <1>4 DEF CheckCancelled, WriteFile, WriteFails, TypeOK, Reassembled
  <2>2. Pipe' = Pipe /\ sent' = sent
    BY <1>4 DEF CheckCancelled, WriteFile, WriteFails, Pipe, senderVars, ingressVars
  <2>3. \A q \in Packets \ {packet.packet} : written'[q] = written[q]
    BY <1>4 DEF CheckCancelled, WriteFile, WriteFails, TypeOK
  <2>4. packet' = NoPacket
        \/ (packet' # NoPacket /\ packet'.packet = packet.packet /\ written' = written)
    BY <1>4, <2>1 DEF CheckCancelled, WriteFile, WriteFails, Reassembled, NoPacket
  <2>5. \A q \in Packets : Finished(q)' => Finished(q)
    BY <2>1, <2>3, <2>4 DEF Finished
  <2>6. QED
    BY <2>1, <2>2, <2>4, <2>5 DEF OnceInv
<1>5. QED
  BY <1>1, <1>2, <1>3, <1>4, HandsChange

LEMMA ContentKept == TypeOK /\ OwnerInv /\ PipeInv /\ OnceInv /\ ContentInv /\ [Next]_vars => ContentInv'
<1> SUFFICES ASSUME TypeOK, OwnerInv, PipeInv, OnceInv, ContentInv, [Next]_vars
             PROVE  ContentInv'
  OBVIOUS
<1>1. \A p \in DOMAIN buffers' : Beginning(buffers'[p])
  <2>1. DOMAIN Kept \subseteq DOMAIN buffers /\ \A q \in DOMAIN Kept : Kept[q] = buffers[q]
    BY DEF Kept
  <2>2. CASE KeepFragment
    <3> DEFINE f == Head(batch)
               p == f.packet
               held == Held(p)
               content == Append(held, f.index)
    <3>1. (buffers' = Without(p) \/ buffers' = With(p, content)) /\ f.index = Len(held)
      BY <2>2, Zenon DEF KeepFragment
    <3>2. f \in Fragments /\ p \in Packets /\ f.index \in Nat
      <4>1. batch # <<>>
        BY <2>2 DEF KeepFragment, NextFragment, AtFragment
      <4>2. f \in Fragments
        BY <4>1, SeqTypes DEF TypeOK
      <4>3. QED
        BY <4>2 DEF Fragments
    <3>3. held \in Seq(Nat)
      BY <3>2, TypesSplit, BuffersTyped
    <3>4. Beginning(held)
      BY <2>1, Nothing DEF Held, ContentInv, Beginning
    <3> HIDE DEF f, p, held
    <3>5. Beginning(content)
      <4>1. /\ Len(held) \in Nat /\ DOMAIN held = 1..Len(held) /\ DOMAIN content = 1..(Len(held) + 1)
            /\ \A i \in DOMAIN held : content[i] = held[i]
            /\ content[Len(held) + 1] = f.index
        BY <3>2, <3>3, Elements
      <4> HIDE DEF content
      <4>2. \A i \in DOMAIN content : i \in DOMAIN held \/ i = Len(held) + 1
        BY <4>1, SMT
      <4>3. content[Len(held) + 1] = (Len(held) + 1) - 1
        BY <3>1, <4>1, SMT
      <4>4. QED
        BY <3>4, <4>1, <4>2, <4>3, Zenon DEF Beginning
    <3> HIDE DEF content
    <3>6. CASE buffers' = Without(p)
      BY <2>1, <3>6 DEF Without, ContentInv
    <3>7. CASE buffers' = With(p, content)
      BY <2>1, <3>5, <3>7 DEF With, ContentInv
    <3>8. QED
      BY <3>1, <3>6, <3>7
  <2>3. CASE IgnoreFragment \/ DiscardBuffer
    BY <2>1, <2>3 DEF IgnoreFragment, DiscardBuffer, Without, ContentInv
  <2>4. CASE DOMAIN buffers' = {} \/ buffers' = buffers
    BY <2>4 DEF ContentInv
  <2>5. ClearBuffers => DOMAIN buffers' = {}
    BY DEF ClearBuffers, NoBuffers
  <2>6. CASE NetworkStep
    BY <2>4, <2>5, <2>6 DEF NetworkStep, Accept, Overflow, CloseAfterOverflow, ClearAfterOverflow,
       ChannelOpens, ChannelCloses, PostNext, HandleCancel, reassemblyVars
  <2>7. CASE OwnerStep
    <3>1. CASE RunOpen \/ RunClosed
      BY <2>4, <2>5, <3>1, Zenon DEF RunOpen, RunClosed, reassemblyVars
    <3>2. QED
      BY <2>2, <2>3, <2>4, <2>7, <3>1 DEF OwnerStep, RunError, RunDrain, CheckCancelled, WriteFile,
         WriteFails, PostAgain, Return, reassemblyVars
  <2>8. QED
    BY <2>4, <2>5, <2>6, <2>7 DEF Next, vars, SenderStep, SendFragment, CancelTransfer, DispatcherStep,
       PeerCloses, StartShutdown, FinishShutdown, RetentionPasses, reassemblyVars
<1>2. packet' # NoPacket => packet'.content = Delivery!Whole(packet'.packet)
  <2>1. CASE KeepFragment
    BY <2>1, Completing DEF ContentInv
  <2>2. CASE CheckCancelled \/ WriteFile \/ WriteFails
    <3>1. packet # NoPacket /\ packet \in Reassembled
      BY <2>2 DEF CheckCancelled, WriteFile, WriteFails, TypeOK
    <3>2. packet' = NoPacket \/ (packet'.packet = packet.packet /\ packet'.content = packet.content)
      BY <2>2, <3>1 DEF CheckCancelled, WriteFile, WriteFails, Reassembled
    <3>3. QED
      BY <3>1, <3>2 DEF ContentInv
  <2>3. CASE UNCHANGED <<packet, written>>
    BY <2>3 DEF ContentInv
  <2>4. QED
    BY <2>1, <2>2, <2>3, HandsChange
<1>3. QED
  BY <1>1, <1>2 DEF ContentInv

DeliveryInv == PipeInv /\ OnceInv /\ ContentInv

LEMMA DeliveryInitially == Init => DeliveryInv
<1> SUFFICES ASSUME Init
             PROVE  DeliveryInv
  OBVIOUS
<1>1. batch = <<>> /\ ingress = <<>> /\ wire = <<>> /\ packet = NoPacket /\ DOMAIN buffers = {}
  BY DEF Init, NoBuffers
<1>2. Pipe = {}
  BY <1>1, RangesOfFew DEF Pipe, InLine
<1>3. Line(batch, ingress, wire)
  BY <1>1, Nothing, Zenon DEF Line, Ascending, Ahead
<1>4. \A p \in Packets : sent[p] = 0 /\ written[p] = <<>> /\ sent[p] <= fragmentsOf[p]
  BY SMT DEF Init, FilesAssumption
<1>5. QED
  BY <1>1, <1>2, <1>3, <1>4 DEF DeliveryInv, PipeInv, OnceInv, ContentInv, Finished

LEMMA DeliveryThroughout == Spec => []DeliveryInv
<1>1. TypeOK /\ OwnerInv /\ DeliveryInv /\ [Next]_vars => DeliveryInv'
  BY PipeKept, OnceKept, ContentKept DEF DeliveryInv
<1>2. EndInv => OwnerInv
  BY DEF EndInv
<1>3. QED
  BY <1>1, <1>2, DeliveryInitially, TypesThroughout, EndThroughout, PTL DEF Spec

\* Each step of the session is a step of FileDelivery or none of its business.
LEMMA DeliverySteps ==
  TypeOK /\ OwnerInv /\ DeliveryInv /\ [Next]_vars => [Delivery!Next]_<<sent, written>>
<1> SUFFICES ASSUME TypeOK, OwnerInv, DeliveryInv, [Next]_vars
             PROVE  [Delivery!Next]_<<sent, written>>
  OBVIOUS
<1>1. ASSUME NEW p \in Packets, SendFragment(p)
      PROVE  Delivery!Next
  BY <1>1 DEF SendFragment, Delivery!Next, Delivery!Send
<1>2. CASE WriteFile
  <2>1. packet # NoPacket /\ packet \in Reassembled /\ packet.packet \in Packets
    BY <1>2 DEF WriteFile, TypeOK, Reassembled
  <2>2. /\ written[packet.packet] = <<>> /\ sent[packet.packet] = fragmentsOf[packet.packet]
        /\ packet.content = Delivery!Whole(packet.packet)
    BY <2>1 DEF DeliveryInv, OnceInv, ContentInv, Finished
  <2>3. written' = [written EXCEPT ![packet.packet] = Append(@, packet.content)] /\ sent' = sent
    BY <1>2 DEF WriteFile, senderVars
  <2>4. Append(<<>>, packet.content) = <<packet.content>>
    OBVIOUS
  <2>5. written' = [written EXCEPT ![packet.packet] = <<Delivery!Whole(packet.packet)>>]
    BY <2>2, <2>3, <2>4
  <2>6. QED
    BY <2>1, <2>2, <2>3, <2>5 DEF Delivery!Next, Delivery!Write
<1>3. CASE ~WriteFile /\ \A p \in Packets : ~SendFragment(p)
  <2>1. sent' = sent
    BY <1>3, FragmentsMove DEF DeliveryInv, PipeInv
  <2>2. written' = written
    BY <1>3, HandsChange DEF KeepFragment, NextFragment, CheckCancelled, WriteFails
  <2>3. QED
    BY <2>1, <2>2
<1>4. QED
  BY <1>1, <1>2, <1>3

\* A file is written at most once, whole, and after the controller has sent all
\* of it: whatever the queue drops, the reassembly discards, the disk refuses,
\* Qt refuses, ten minutes expire or the shutdown interrupts.
THEOREM FilesAreDelivered == Spec => ImplementsDelivery
<1>1. Init => Delivery!Init
  BY DEF Init, Delivery!Init
<1>2. EndInv => OwnerInv
  BY DEF EndInv
<1>3. QED
  BY <1>1, <1>2, DeliverySteps, DeliveryThroughout, TypesThroughout, EndThroughout, PTL
     DEF Spec, ImplementsDelivery, Delivery!Spec, Delivery!vars

-----------------------------------------------------------------------------
(***************************************************************************)
(* Cancellations: the one look at the table comes after the reassembly and *)
(* before the copy, so that a remembered cancellation is always heeded.    *)
(***************************************************************************)

BarredInv ==
    \A p \in barred : p \in Packets /\ transferOf[p] \in Unexpired /\ written[p] = <<>> /\ ~Copying(p)

\* A copy begins for nothing that is remembered as cancelled.
LEMMA NoCopyBegins ==
  ASSUME TypeOK, [Next]_vars, NEW p \in Packets, written[p] = <<>>, ~Copying(p),
         transferOf[p] \in Unexpired'
  PROVE  written'[p] = <<>> /\ ~Copying(p)'
<1>1. CASE written' = written /\ (packet' = packet \/ packet' = NoPacket \/ packet'.step = "complete")
  BY <1>1 DEF Copying
<1>2. CASE CheckCancelled
  <2>1. Unexpired' = Cleaned
    BY <1>2 DEF CheckCancelled, Unexpired, Cleaned
  <2>2. written' = written
    BY <1>2 DEF CheckCancelled
  <2>3. CASE packet.packet = p
    BY <1>2, <2>1, <2>2, <2>3 DEF CheckCancelled, Copying
  <2>4. CASE packet.packet # p
    <3>1. packet' = NoPacket \/ packet' = [packet EXCEPT !.step = "copying"]
      BY <1>2 DEF CheckCancelled
    <3>2. packet \in Reassembled
      BY <1>2 DEF CheckCancelled, TypeOK
    <3>3. packet' = NoPacket \/ packet'.packet = packet.packet
      BY <3>1, <3>2 DEF Reassembled
    <3>4. QED
      BY <2>2, <2>4, <3>3 DEF Copying
  <2>5. QED
    BY <2>3, <2>4
<1>3. CASE WriteFile
  <2>1. packet.packet # p /\ packet' = NoPacket
    BY <1>3 DEF WriteFile, Copying
  <2>2. written \in [Packets -> Seq(Seq(Nat))]
    BY DEF TypeOK
  <2>3. written'[p] = written[p]
    BY <1>3, <2>1, <2>2 DEF WriteFile
  <2>4. QED
    BY <2>1, <2>3 DEF Copying
<1>4. CASE ~CheckCancelled /\ ~WriteFile
  <2>1. CASE KeepFragment
    BY <1>1, <2>1 DEF KeepFragment, NextFragment
  <2>2. CASE WriteFails
    BY <1>1, <2>2 DEF WriteFails
  <2>3. CASE ~KeepFragment /\ ~WriteFails
    BY <1>1, <1>4, <2>3, HandsChange
  <2>4. QED
    BY <2>1, <2>2, <2>3
<1>5. QED
  BY <1>2, <1>3, <1>4

LEMMA CancelStepIsStep ==
  /\ CancelInit => Init /\ barred = {}
  /\ [CancelNext]_<<vars, barred>> => [Next]_vars
<1>1. CancelNext => Next
  BY DEF CancelNext, Next, NetworkStep, SenderStep
<1>2. QED
  BY <1>1 DEF CancelInit

LEMMA BarredKept == TypeOK /\ BarredInv /\ [CancelNext]_<<vars, barred>> => BarredInv'
<1> SUFFICES ASSUME TypeOK, BarredInv, [CancelNext]_<<vars, barred>>
             PROVE  BarredInv'
  OBVIOUS
<1>1. [Next]_vars
  BY CancelStepIsStep
<1>2. ASSUME NEW files, Bars(files),
             \A p \in files : p \in Packets /\ written[p] = <<>> /\ ~Copying(p)
      PROVE  BarredInv'
  <2>1. barred' = {p \in barred \cup files : transferOf[p] \in Unexpired'}
    BY <1>2 DEF Bars
  <2>2. ASSUME NEW p \in barred'
        PROVE  p \in Packets /\ transferOf[p] \in Unexpired' /\ written'[p] = <<>> /\ ~Copying(p)'
    <3>1. /\ p \in Packets /\ written[p] = <<>> /\ ~Copying(p)
          /\ transferOf[p] \in Unexpired'
      BY <1>2, <2>1, <2>2, Zenon DEF BarredInv
    <3>2. QED
      BY <1>1, <3>1, NoCopyBegins
  <2>3. QED
    BY <2>2 DEF BarredInv
<1>3. CASE UNCHANGED <<vars, barred>>
  <2>1. UNCHANGED <<cancelled, staleCancels, written, packet, barred>>
    BY <1>3 DEF vars, cancelVars, drainVars
  <2>2. QED
    BY <2>1 DEF BarredInv, Unexpired, Copying
<1>4. CASE \E t \in Transfers : HandleCancel(t) /\ Bars(BarredBy(t))
  BY <1>2, <1>4 DEF BarredBy
<1>5. CASE Bars({})
  BY <1>2, <1>5
<1>6. QED
  BY <1>3, <1>4, <1>5 DEF CancelNext

\* A file whose cancellation was handled before its copy began is not written as
\* long as the cancellation is remembered, for any size of the table and however
\* often ten minutes pass.
THEOREM CancellationIsHeeded == CancelSpec => []CancelledIsNotWritten
<1>1. CancelSpec => Spec
  BY CancelStepIsStep, PTL DEF CancelSpec, Spec
<1>2. CancelInit => BarredInv
  BY CancelStepIsStep DEF BarredInv
<1>3. BarredInv => CancelledIsNotWritten
  BY DEF BarredInv, CancelledIsNotWritten
<1>4. QED
  BY <1>1, <1>2, <1>3, BarredKept, TypesThroughout, PTL DEF CancelSpec
=============================================================================
