------------------------------ MODULE FileIngress ------------------------------
(***************************************************************************)
(* Files on their way from the controller to the controlled machine: the   *)
(* pool tasks that cut them into fragments, the data channel, the ingress  *)
(* queue that libwebrtc's thread fills and the session's thread empties,   *)
(* the reassembly, the cancellation that overtakes the data on another     *)
(* channel, and the shutdown of the session in the middle of it all.       *)
(*                                                                         *)
(* Sources: webrtc/cli/channel/webrtc_cli_channels.cpp, util/file,         *)
(* webrtc/cli/lifecycle/webrtc_cli_cleanup.cpp.  The controller receives   *)
(* downloads by the same queue (webrtc_ctl_file_channel.cpp).              *)
(*                                                                         *)
(* The callbacks of the channels run on libwebrtc's thread, so the branch  *)
(* for messages delivered on the session's own thread is not taken.        *)
(***************************************************************************)
EXTENDS CallbackDispatcher, FiniteSets, SequencesExt

CONSTANTS
    Network,                \* libwebrtc's thread
    Packets,                \* files on their way, with their headers
    Transfers,              \* transfer ids; a directory's files share one
    transferOf,             \* the transfer of each packet
    fragmentsOf,            \* the number of fragments of each packet
    FullBytes,              \* FRAGMENT_SIZE; a last fragment has one byte here
    MaxIngressBytes,        \* kMaxFileIngressBytes
    MaxIngressFragments,    \* kMaxFileIngressFragments
    IngressBatchSize,       \* kFileIngressBatchSize
    MaxReassemblies,        \* kMaxActiveReassemblies
    MaxCancelled,           \* kMaxCancelledTransfers
    Failures,               \* what may fail: "disk", "invoke" (Qt refuses a call)
    MaxOnWire,              \* bound: fragments the channel has buffered
    MaxRetentions           \* bound: times ten minutes pass

ASSUME FilesAssumption ==
    /\ Network \in Threads /\ Network # Owner
    /\ Callbacks = {"open", "drain", "error", "closed"}
    /\ transferOf \in [Packets -> Transfers]
    /\ fragmentsOf \in [Packets -> Nat \ {0}]
    /\ FullBytes \in Nat /\ MaxIngressBytes \in Nat
    /\ MaxIngressFragments \in Nat /\ IngressBatchSize \in Nat \ {0}
    /\ MaxReassemblies \in Nat /\ MaxCancelled \in Nat \ {0}
    /\ MaxOnWire \in Nat /\ MaxRetentions \in Nat
    /\ Failures \subseteq {"disk", "invoke"}

VARIABLES
    sent,               \* fragments of each packet handed to the channel
    channel,            \* the state of the file channel
    wire,               \* fragments in the channel
    cancelRequested,    \* transfers the controller has cancelled
    cancelOnWire,       \* cancellations in the file-text channel
    toPost,             \* callbacks the network thread is about to post
    overflowing,        \* where it is after an overflow
    ingress,            \* m_fileIngress
    ingressBytes,       \* m_fileIngressBytes
    ingressScheduled,   \* m_fileIngressScheduled
    ingressOverflowed,  \* m_fileIngressOverflowed
    batch,              \* drainFileIngress: the fragments it has taken
    again,              \* drainFileIngress: scheduleNext
    buffers,            \* m_reassemblyBuffers: what each temporary file holds
    stale,              \* buffers untouched for ten minutes
    packet,             \* the reassembled packet being processed
    cancelled,          \* the keys of m_cancelledTransfers
    cancelledAt,        \* and when each was entered
    staleCancels,       \* the keys entered ten minutes ago
    cancelTime,         \* counts the cancellations, for the times
    written,            \* what has been committed to each target file
    destroyRequested,   \* destroyCli was emitted
    shutdown,           \* where the session is in performDestroy
    retentions          \* times ten minutes have passed

senderVars == <<sent, channel, wire, cancelRequested, cancelOnWire>>
networkVars == <<toPost, overflowing>>
ingressVars == <<ingress, ingressBytes, ingressScheduled, ingressOverflowed>>
drainVars == <<batch, again, packet>>
reassemblyVars == <<buffers, stale>>
cancelVars == <<cancelled, cancelledAt, staleCancels, cancelTime>>
sessionVars == <<destroyRequested, shutdown>>
vars == <<dispatcherVars, senderVars, networkVars, ingressVars, drainVars, reassemblyVars,
          cancelVars, written, sessionVars, retentions>>

Fragments == [packet : Packets, index : Nat]
NoPacket == [step |-> "none"]
Reassembled == [packet : Packets, content : Seq(Nat), step : {"complete", "copying"}]

Bytes(f) == IF f.index + 1 < fragmentsOf[f.packet] THEN FullBytes ELSE 1

BytesOf(q) ==
    LET upTo[n \in 0..Len(q)] == IF n = 0 THEN 0 ELSE upTo[n - 1] + Bytes(q[n])
    IN  upTo[Len(q)]

TypeOK ==
    /\ DispatcherTypeOK
    /\ sent \in [Packets -> Nat]
    /\ channel \in {"connecting", "open", "closing", "closed"}
    /\ wire \in Seq(Fragments)
    /\ cancelRequested \subseteq Transfers
    /\ cancelOnWire \subseteq Transfers
    /\ toPost \in Seq(Callbacks)
    /\ overflowing \in {"no", "close", "clear"}
    /\ ingress \in Seq(Fragments)
    /\ ingressScheduled \in BOOLEAN
    /\ ingressOverflowed \in BOOLEAN
    /\ batch \in Seq(Fragments)
    /\ again \in BOOLEAN
    /\ DOMAIN buffers \subseteq Packets
    /\ \A p \in DOMAIN buffers : buffers[p] \in Seq(Nat)
    /\ stale \subseteq Packets
    /\ packet \in Reassembled \cup {NoPacket}
    /\ cancelled \subseteq Transfers
    /\ cancelledAt \in [Transfers -> Nat]
    /\ staleCancels \subseteq Transfers
    /\ cancelTime \in Nat
    /\ written \in [Packets -> Seq(Seq(Nat))]
    /\ destroyRequested \in BOOLEAN
    /\ shutdown \in {"no", "closing", "done"}
    /\ retentions \in Nat

NoBuffers == [p \in {} |-> <<>>]

Init ==
    /\ DispatcherInit
    /\ sent = [p \in Packets |-> 0]
    /\ channel = "connecting"
    /\ wire = <<>>
    /\ cancelRequested = {}
    /\ cancelOnWire = {}
    /\ toPost = <<>>
    /\ overflowing = "no"
    /\ ingress = <<>>
    /\ ingressBytes = 0
    /\ ingressScheduled = FALSE
    /\ ingressOverflowed = FALSE
    /\ batch = <<>>
    /\ again = FALSE
    /\ buffers = NoBuffers
    /\ stale = {}
    /\ packet = NoPacket
    /\ cancelled = {}
    /\ cancelledAt = [t \in Transfers |-> 0]
    /\ staleCancels = {}
    /\ cancelTime = 0
    /\ written = [p \in Packets |-> <<>>]
    /\ destroyRequested = FALSE
    /\ shutdown = "no"
    /\ retentions = 0

(***************************************************************************)
(* The controller.  One pool task per packet sends its fragments in order  *)
(* while the channel is open and the transfer not cancelled.               *)
(***************************************************************************)
SendFragment(p) ==
    /\ channel = "open"
    /\ transferOf[p] \notin cancelRequested
    /\ sent[p] < fragmentsOf[p]
    /\ Len(wire) < MaxOnWire
    /\ wire' = Append(wire, [packet |-> p, index |-> sent[p]])
    /\ sent' = [sent EXCEPT ![p] = @ + 1]
    /\ UNCHANGED <<dispatcherVars, channel, cancelRequested, cancelOnWire, networkVars, ingressVars,
                   drainVars, reassemblyVars, cancelVars, written, sessionVars, retentions>>

CancelTransfer(t) ==
    /\ t \notin cancelRequested
    /\ cancelRequested' = cancelRequested \cup {t}
    /\ cancelOnWire' = cancelOnWire \cup {t}
    /\ UNCHANGED <<dispatcherVars, sent, channel, wire, networkVars, ingressVars,
                   drainVars, reassemblyVars, cancelVars, written, sessionVars, retentions>>

(***************************************************************************)
(* libwebrtc's thread.  A callback that has nothing to do returns at once; *)
(* one that posts, or ends an overflow, does so in steps of its own.  Once *)
(* the shutdown has begun the callbacks return at their first line.        *)
(***************************************************************************)
NetworkIdle == toPost = <<>> /\ Network \notin invoking /\ overflowing = "no"

Overflows(f) ==
    \/ ingressBytes + Bytes(f) > MaxIngressBytes
    \/ Len(ingress) >= MaxIngressFragments

\* onFileChannelMessage, for a fragment that fits.
Accept ==
    /\ NetworkIdle /\ shutdown = "no" /\ channel \in {"open", "closing"}
    /\ wire # <<>>
    /\ ~Overflows(Head(wire))
    /\ wire' = Tail(wire)
    /\ ingress' = Append(ingress, Head(wire))
    /\ ingressBytes' = ingressBytes + Bytes(Head(wire))
    /\ ingressScheduled' = TRUE
    /\ toPost' = IF ingressScheduled THEN <<>> ELSE <<"drain">>
    /\ UNCHANGED <<dispatcherVars, sent, channel, cancelRequested, cancelOnWire, overflowing,
                   ingressOverflowed, drainVars, reassemblyVars, cancelVars, written, sessionVars,
                   retentions>>

\* onFileChannelMessage, for a fragment that does not: it is lost, and the
\* first such fragment has the channel closed.
Overflow ==
    /\ NetworkIdle /\ shutdown = "no" /\ channel \in {"open", "closing"}
    /\ wire # <<>>
    /\ Overflows(Head(wire))
    /\ wire' = Tail(wire)
    /\ ingressOverflowed' = TRUE
    /\ overflowing' = IF ingressOverflowed THEN "no" ELSE "close"
    /\ UNCHANGED <<dispatcherVars, sent, channel, cancelRequested, cancelOnWire, toPost,
                   ingress, ingressBytes, ingressScheduled, drainVars, reassemblyVars, cancelVars,
                   written, sessionVars, retentions>>

CloseAfterOverflow ==
    /\ overflowing = "close"
    /\ channel' = IF channel = "open" THEN "closing" ELSE channel
    /\ overflowing' = "clear"
    /\ UNCHANGED <<dispatcherVars, sent, wire, cancelRequested, cancelOnWire, toPost, ingressVars,
                   drainVars, reassemblyVars, cancelVars, written, sessionVars, retentions>>

\* clearPendingReassemblies
ClearBuffers == buffers' = NoBuffers /\ stale' = {}

ClearAfterOverflow ==
    /\ overflowing = "clear"
    /\ overflowing' = "no"
    /\ ClearBuffers
    /\ UNCHANGED <<dispatcherVars, senderVars, toPost, ingressVars, drainVars, cancelVars, written,
                   sessionVars, retentions>>

\* onFileChannelOpen, onFileChannelError and onFileChannelClosed, called on the
\* network thread, only post themselves to the session's thread.
ChannelOpens ==
    /\ channel = "connecting" /\ NetworkIdle
    /\ channel' = "open"
    /\ toPost' = IF shutdown = "no" THEN <<"open">> ELSE <<>>
    /\ UNCHANGED <<dispatcherVars, sent, wire, cancelRequested, cancelOnWire, overflowing, ingressVars,
                   drainVars, reassemblyVars, cancelVars, written, sessionVars, retentions>>

PeerCloses ==
    /\ channel = "open"
    /\ channel' = "closing"
    /\ UNCHANGED <<dispatcherVars, sent, wire, cancelRequested, cancelOnWire, networkVars, ingressVars,
                   drainVars, reassemblyVars, cancelVars, written, sessionVars, retentions>>

ChannelCloses ==
    /\ channel = "closing" /\ NetworkIdle
    /\ channel' = "closed"
    /\ wire' = <<>>
    /\ toPost' \in IF shutdown = "no" THEN {<<"closed">>, <<"error", "closed">>} ELSE {<<>>}
    /\ UNCHANGED <<dispatcherVars, sent, cancelRequested, cancelOnWire, overflowing, ingressVars,
                   drainVars, reassemblyVars, cancelVars, written, sessionVars, retentions>>

PostNext ==
    /\ toPost # <<>>
    /\ Enqueue(Network, Head(toPost))
    /\ toPost' = Tail(toPost)
    /\ UNCHANGED <<senderVars, overflowing, ingressVars, drainVars, reassemblyVars, cancelVars, written,
                   sessionVars, retentions>>

(***************************************************************************)
(* Cancellation: consumeImmediateTransferCancel, on the network thread,    *)
(* ahead of everything that is queued.  The table forgets what is ten      *)
(* minutes old and, when full, the oldest.                                 *)
(***************************************************************************)
Unexpired == cancelled \ staleCancels
NewerThan(t) == {u \in Unexpired : cancelledAt[u] > cancelledAt[t]}

\* cleanupExpiredCancelledTransfersLocked leaves room for one more entry.
Cleaned == {t \in Unexpired : Cardinality(NewerThan(t)) + 1 < MaxCancelled}

HandleCancel(t) ==
    /\ NetworkIdle /\ shutdown = "no"
    /\ t \in cancelOnWire
    /\ cancelOnWire' = cancelOnWire \ {t}
    /\ cancelled' = Cleaned \cup {t}
    /\ cancelledAt' = [cancelledAt EXCEPT ![t] = cancelTime + 1]
    /\ cancelTime' = cancelTime + 1
    /\ staleCancels' = {}
    /\ UNCHANGED <<dispatcherVars, sent, channel, wire, cancelRequested, networkVars, ingressVars,
                   drainVars, reassemblyVars, written, sessionVars, retentions>>

(***************************************************************************)
(* The session's thread: drain of the dispatcher runs the callbacks.       *)
(* Their first line is the test of m_shutdownStarted.                      *)
(***************************************************************************)
NextCallback(c) == callbacks # <<>> /\ Head(callbacks) = c /\ TakeCallback

\* onFileChannelOpen
RunOpen ==
    /\ NextCallback("open")
    /\ IF shutdown = "no"
       THEN ingressOverflowed' = FALSE /\ ClearBuffers
       ELSE UNCHANGED <<ingressOverflowed, reassemblyVars>>
    /\ UNCHANGED <<senderVars, networkVars, ingress, ingressBytes, ingressScheduled, drainVars,
                   cancelVars, written, sessionVars, retentions>>

\* onFileChannelError
RunError ==
    /\ NextCallback("error")
    /\ destroyRequested' = (destroyRequested \/ shutdown = "no")
    /\ UNCHANGED <<senderVars, networkVars, ingressVars, drainVars, reassemblyVars, cancelVars, written,
                   shutdown, retentions>>

\* Mutant.
ClearIngress_KeepsBytes ==
    /\ ingress' = <<>>
    /\ ingressScheduled' = FALSE
    /\ UNCHANGED ingressBytes

ClearIngress ==
    /\ ingress' = <<>>
    /\ ingressBytes' = 0
    /\ ingressScheduled' = FALSE

\* onFileChannelClosed
RunClosed ==
    /\ NextCallback("closed")
    /\ IF shutdown = "no"
       THEN ClearIngress /\ ClearBuffers /\ destroyRequested' = TRUE
       ELSE UNCHANGED <<ingress, ingressBytes, ingressScheduled, reassemblyVars, destroyRequested>>
    /\ UNCHANGED <<senderVars, networkVars, ingressOverflowed, drainVars, cancelVars, written, shutdown,
                   retentions>>

\* drainFileIngress, up to the end of its critical section.
RunDrain ==
    /\ NextCallback("drain")
    /\ IF shutdown # "no"
       THEN ClearIngress /\ UNCHANGED <<batch, again>>
       ELSE LET k == IF Len(ingress) < IngressBatchSize THEN Len(ingress) ELSE IngressBatchSize
            IN  /\ batch' = SubSeq(ingress, 1, k)
                /\ ingress' = SubSeq(ingress, k + 1, Len(ingress))
                /\ ingressBytes' = ingressBytes - BytesOf(SubSeq(ingress, 1, k))
                /\ ingressScheduled' = (k < Len(ingress))
                /\ again' = (k < Len(ingress))
    /\ UNCHANGED <<senderVars, networkVars, ingressOverflowed, packet, reassemblyVars, cancelVars,
                   written, sessionVars, retentions>>

(***************************************************************************)
(* reassembleFragment, for the next fragment of the batch.                 *)
(***************************************************************************)
AtFragment == drain = "running" /\ batch # <<>> /\ packet = NoPacket

Kept == [p \in DOMAIN buffers \ stale |-> buffers[p]]
Held(p) == IF p \in DOMAIN Kept THEN Kept[p] ELSE <<>>
\* Mutant.
Room_OffByOne(p) == p \in DOMAIN Kept \/ Cardinality(DOMAIN Kept) + 1 < MaxReassemblies

Room(p) == p \in DOMAIN Kept \/ Cardinality(DOMAIN Kept) < MaxReassemblies
Without(p) == [q \in DOMAIN Kept \ {p} |-> Kept[q]]
With(p, content) == [q \in DOMAIN Kept \cup {p} |-> IF q = p THEN content ELSE Kept[q]]

NextFragment ==
    /\ AtFragment
    /\ batch' = Tail(batch)
    /\ stale' = {}
    /\ UNCHANGED <<dispatcherVars, senderVars, networkVars, ingressVars, again, cancelVars, written,
                   sessionVars, retentions>>

\* Too many reassemblies are under way, or a fragment comes again.
IgnoreFragment ==
    /\ NextFragment
    /\ ~Room(Head(batch).packet) \/ Head(batch).index < Len(Held(Head(batch).packet))
    /\ buffers' = Kept
    /\ UNCHANGED packet

\* A fragment is missing before this one, or the temporary file fails.
DiscardBuffer ==
    /\ NextFragment
    /\ Room(Head(batch).packet)
    /\ \/ Head(batch).index > Len(Held(Head(batch).packet))
       \/ "disk" \in Failures /\ Head(batch).index = Len(Held(Head(batch).packet))
    /\ buffers' = Without(Head(batch).packet)
    /\ UNCHANGED packet

\* Mutant: fragments are counted, not placed.
KeepFragment_Counts ==
    LET f == Head(batch)
        content == Append(Held(f.packet), f.index)
    IN  /\ NextFragment
        /\ Room(f.packet)
        /\ IF f.index + 1 = fragmentsOf[f.packet]
           THEN /\ buffers' = Without(f.packet)
                /\ packet' = [packet |-> f.packet, content |-> content, step |-> "complete"]
           ELSE buffers' = With(f.packet, content) /\ UNCHANGED packet

KeepFragment ==
    LET f == Head(batch)
        content == Append(Held(f.packet), f.index)
    IN  /\ NextFragment
        /\ Room(f.packet)
        /\ f.index = Len(Held(f.packet))
        /\ IF Len(content) = fragmentsOf[f.packet]
           THEN /\ buffers' = Without(f.packet)
                /\ packet' = [packet |-> f.packet, content |-> content, step |-> "complete"]
           ELSE buffers' = With(f.packet, content) /\ UNCHANGED packet

(***************************************************************************)
(* processFileDataPacket: one look at the cancelled transfers, then the    *)
(* copy, which takes its time outside the mutex and is committed at once.  *)
(***************************************************************************)
\* Mutant: looks before the reassembly is complete, and not again.
CheckCancelled_Skipped ==
    /\ packet # NoPacket /\ packet.step = "complete"
    /\ packet' = [packet EXCEPT !.step = "copying"]
    /\ UNCHANGED <<dispatcherVars, senderVars, networkVars, ingressVars, batch, again, reassemblyVars,
                   cancelVars, written, sessionVars, retentions>>

CheckCancelled ==
    /\ packet # NoPacket /\ packet.step = "complete"
    /\ cancelled' = Cleaned
    /\ staleCancels' = {}
    /\ packet' = IF transferOf[packet.packet] \in Cleaned THEN NoPacket
                 ELSE [packet EXCEPT !.step = "copying"]
    /\ UNCHANGED <<dispatcherVars, senderVars, networkVars, ingressVars, batch, again, reassemblyVars,
                   cancelledAt, cancelTime, written, sessionVars, retentions>>

WriteFile ==
    /\ packet # NoPacket /\ packet.step = "copying"
    /\ written' = [written EXCEPT ![packet.packet] = Append(@, packet.content)]
    /\ packet' = NoPacket
    /\ UNCHANGED <<dispatcherVars, senderVars, networkVars, ingressVars, batch, again, reassemblyVars,
                   cancelVars, sessionVars, retentions>>

WriteFails ==
    /\ "disk" \in Failures
    /\ packet # NoPacket /\ packet.step = "copying"
    /\ packet' = NoPacket
    /\ UNCHANGED <<dispatcherVars, senderVars, networkVars, ingressVars, batch, again, reassemblyVars,
                   cancelVars, written, sessionVars, retentions>>

\* The end of drainFileIngress: it posts itself if fragments were left.
\* Mutant: what is left waits for the next message to schedule a drain.
PostAgain_Never ==
    /\ drain = "running" /\ batch = <<>> /\ packet = NoPacket
    /\ again
    /\ again' = FALSE
    /\ UNCHANGED <<dispatcherVars, senderVars, networkVars, ingressVars, batch, packet,
                   reassemblyVars, cancelVars, written, sessionVars, retentions>>

PostAgain ==
    /\ drain = "running" /\ batch = <<>> /\ packet = NoPacket
    /\ again
    /\ Enqueue(Owner, "drain")
    /\ again' = FALSE
    /\ UNCHANGED <<senderVars, networkVars, ingressVars, batch, packet, reassemblyVars, cancelVars,
                   written, sessionVars, retentions>>

Return ==
    /\ batch = <<>> /\ packet = NoPacket /\ ~again
    /\ CallbackReturns
    /\ UNCHANGED <<senderVars, networkVars, ingressVars, drainVars, reassemblyVars, cancelVars, written,
                   sessionVars, retentions>>

\* Everything else the dispatcher does, on either thread.
DispatcherStep ==
    /\ \/ shutdown # "closing" /\ StartDrain
       \/ FindEmpty
       \/ EndSlice
       \/ InvokeAgain
       \/ InvokeDrain(Network)
       \/ "invoke" \in Failures /\ (InvokeFails(Network) \/ InvokeAgainFails)
    /\ UNCHANGED <<senderVars, networkVars, ingressVars, drainVars, reassemblyVars, cancelVars, written,
                   sessionVars, retentions>>

(***************************************************************************)
(* performDestroy, an event of its own on the session's thread: after      *)
(* m_shutdownStarted and closeAndWait, which waits for the network thread  *)
(* to leave, the queue is cleared and the reassembly deleted.              *)
(***************************************************************************)
StartShutdown ==
    /\ shutdown = "no"
    /\ drain = "away"
    /\ shutdown' = "closing"
    /\ UNCHANGED <<dispatcherVars, senderVars, networkVars, ingressVars, drainVars, reassemblyVars,
                   cancelVars, written, destroyRequested, retentions>>

\* Mutant: does not wait for the callbacks.
FinishShutdown_Hasty ==
    /\ shutdown = "closing"
    /\ shutdown' = "done"
    /\ ClearIngress
    /\ ClearBuffers
    /\ channel' = "closed"
    /\ wire' = <<>>
    /\ UNCHANGED <<dispatcherVars, sent, cancelRequested, cancelOnWire, networkVars,
                   ingressOverflowed, drainVars, cancelVars, written, destroyRequested, retentions>>

FinishShutdown ==
    /\ shutdown = "closing"
    /\ NetworkIdle
    /\ shutdown' = "done"
    /\ ClearIngress
    /\ ClearBuffers
    /\ channel' = "closed"
    /\ wire' = <<>>
    /\ UNCHANGED <<dispatcherVars, sent, cancelRequested, cancelOnWire, networkVars,
                   ingressOverflowed, drainVars, cancelVars, written, destroyRequested, retentions>>

\* kReassemblyTimeoutMs and kCancelledTransferRetentionMs are both ten minutes.
RetentionPasses ==
    /\ retentions < MaxRetentions
    /\ retentions' = retentions + 1
    /\ stale' = DOMAIN buffers
    /\ staleCancels' = cancelled
    /\ UNCHANGED <<dispatcherVars, senderVars, networkVars, ingressVars, drainVars, buffers, cancelled,
                   cancelledAt, cancelTime, written, sessionVars>>

SenderStep ==
    \/ \E p \in Packets : SendFragment(p)
    \/ \E t \in Transfers : CancelTransfer(t)

NetworkStep ==
    \/ Accept \/ Overflow \/ CloseAfterOverflow \/ ClearAfterOverflow
    \/ ChannelOpens \/ ChannelCloses \/ PostNext
    \/ \E t \in Transfers : HandleCancel(t)

OwnerStep ==
    \/ RunOpen \/ RunError \/ RunClosed \/ RunDrain
    \/ IgnoreFragment \/ DiscardBuffer \/ KeepFragment
    \/ CheckCancelled \/ WriteFile \/ WriteFails
    \/ PostAgain \/ Return

Next ==
    \/ SenderStep
    \/ NetworkStep
    \/ OwnerStep
    \/ DispatcherStep
    \/ PeerCloses
    \/ StartShutdown
    \/ FinishShutdown
    \/ RetentionPasses

\* libwebrtc delivers what the channel holds and ends a closing, both event
\* loops run, and slices are not forever over before they take a callback.  The
\* controller need not send, nor anybody cancel or close.
Fairness ==
    /\ WF_vars(NetworkStep)
    /\ WF_vars(DispatcherStep)
    /\ SF_vars(OwnerStep)

Spec == Init /\ [][Next]_vars
FairSpec == Spec /\ Fairness

-----------------------------------------------------------------------------
(***************************************************************************)
(* Properties.                                                             *)
(***************************************************************************)

\* m_fileIngressBytes is what the queue holds, through drains, overflow and the
\* clearings of close and shutdown, and neither limit is exceeded.
IngressAccounted ==
    /\ ingressBytes = BytesOf(ingress)
    /\ ingressBytes <= MaxIngressBytes
    /\ Len(ingress) <= MaxIngressFragments

\* A fragment in the queue has a drain coming: in the dispatcher's queue, about
\* to be posted by one thread or the other, or running.  (If Qt refuses a queued
\* call, the dispatcher drops the drain and the flag stays up for good.)
DrainComing ==
    ingress # <<>> =>
        /\ ingressScheduled
        /\ \/ "drain" \in Range(callbacks) \cup Range(toPost)
           \/ again

\* When performDestroy has ended nothing is left in the queue or half assembled
\* and nothing comes into either again.
NothingAfterShutdown ==
    shutdown = "done" => ingress = <<>> /\ DOMAIN buffers = {} /\ batch = <<>> /\ NetworkIdle

\* Each file is written at most once, after the controller has sent all of it.
Delivery == INSTANCE FileDelivery
ImplementsDelivery == Delivery!Spec

\* A file that was sent completely is written, unless the channel failed under
\* it (an overflow closes it), somebody cancelled or the session ended.
SentIsWritten ==
    \A p \in Packets :
        (sent[p] = fragmentsOf[p]) ~>
            \/ written[p] # <<>>
            \/ channel # "open"
            \/ transferOf[p] \in cancelRequested
            \/ shutdown # "no"

\* An overflow does not go unnoticed: the channel's closing ends the session.
OverflowEndsSession == ingressOverflowed ~> (destroyRequested \/ shutdown # "no")

\* Either way a transfer comes to its end: it is written, or its session ends.
TransfersEnd == SentIsWritten /\ OverflowEndsSession

=============================================================================
