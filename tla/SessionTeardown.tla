---------------------------- MODULE SessionTeardown ----------------------------
(***************************************************************************)
(* A controlled session (WebRtcCli) taken apart while callbacks of other   *)
(* threads are in it.  The dangerous callback is the one that blocks: the  *)
(* clipboard's reader of a promised file asks the peer for one chunk after *)
(* another and sleeps, Permit in hand, until the owner's event loop brings *)
(* the answer.  The shutdown runs on that same owner, which is about to    *)
(* wait for the reader.                                                    *)
(*                                                                         *)
(* Sources: webrtc/cli/channel/webrtc_cli_clipboard_channel.cpp,           *)
(* webrtc/cli/lifecycle/webrtc_cli_cleanup.cpp.  The controller's side     *)
(* (webrtc_ctl_clipboard_channel.cpp, webrtc_ctl_cleanup.cpp) has the same *)
(* structure.                                                              *)
(***************************************************************************)
EXTENDS CallbackLifetime, Sequences

CONSTANTS
    Readers,        \* the calls that are readControllerClipboardFileChunk
    MaxChunks,      \* chunks one read needs
    MaxInbox,       \* bound: answers on their way at once
    NoChunk         \* an id with no chunk stored

\* Promised files are read on threads of the system's clipboard, never on the
\* session's own thread.
ASSUME ReadersAssumption ==
    /\ Readers \subseteq {c \in Calls : threadOf[c] # Owner}
    /\ MaxChunks \in Nat \ {0}
    /\ MaxInbox \in Nat

VARIABLES
    shutdownStarted,    \* m_shutdownStarted
    ownerAt,            \* where the owner is in the shutdown
    at,                 \* where each reader is
    asked,              \* the chunk each reader is at
    got,                \* the chunks each reader has appended to its result
    pending,            \* m_pendingClipboardStreamRequests
    chunk,              \* m_clipboardStreamChunks
    failed,             \* the keys of m_clipboardStreamErrors
    outbox,             \* requests queued on the owner's event loop
    atPeer,             \* requests the peer has
    inbox               \* answers posted to the owner's dispatcher

transfer == <<pending, chunk, failed>>
wire == <<outbox, atPeer, inbox>>
readerVars == <<at, asked, got>>
vars == <<lifetimeVars, shutdownStarted, ownerAt, readerVars, transfer, wire>>

Offsets == Readers \X (1..MaxChunks)

\* Mutant: the requests share the id of the clipboard offer.
RequestId_OfOffer(c, k) == <<CHOOSE r \in Readers : TRUE, k>>

\* Each request gets a fresh uuid.
RequestId(c, k) == <<c, k>>

Ids == Offsets

\* A full chunk, the last (short) one of the file, or the peer's failure.
Parts == {"full", "last", "error"}
Requests == [id : Ids, offset : Offsets]
Answers == [id : Ids, offset : Offsets, part : Parts]
Chunks == [offset : Offsets, part : {"full", "last"}]

ReaderStates == {"out", "entered", "asking", "posting", "checking", "asleep", "leaving"}
OwnerStates == {"running", "stopping", "woken", "closing", "cleared", "deleted"}

TypeOK ==
    /\ LifetimeTypeOK
    /\ shutdownStarted \in BOOLEAN
    /\ ownerAt \in OwnerStates
    /\ at \in [Readers -> ReaderStates]
    /\ asked \in [Readers -> 1..MaxChunks]
    /\ got \in [Readers -> Seq(Offsets)]
    /\ pending \subseteq Ids
    /\ chunk \in [Ids -> Chunks \cup {NoChunk}]
    /\ failed \subseteq Ids
    /\ outbox \subseteq Requests
    /\ atPeer \subseteq Requests
    /\ inbox \subseteq Answers

Init ==
    /\ LifetimeInit
    /\ shutdownStarted = FALSE
    /\ ownerAt = "running"
    /\ at = [c \in Readers |-> "out"]
    /\ asked = [c \in Readers |-> 1]
    /\ got = [c \in Readers |-> <<>>]
    /\ pending = {}
    /\ chunk = [i \in Ids |-> NoChunk]
    /\ failed = {}
    /\ outbox = {}
    /\ atPeer = {}
    /\ inbox = {}

Current(c) == RequestId(c, asked[c])

\* The owner's thread takes events except while it is inside the shutdown.
OwnerFree == ownerAt \in {"running", "cleared"}

MayRun(c) == threadOf[c] = Owner => OwnerFree

\* m_clipboardStreamWait.wakeAll()
WakeReaders == at' = [c \in Readers |-> IF at[c] = "asleep" THEN "checking" ELSE at[c]]

(***************************************************************************)
(* Callbacks that enter and leave; a reader first looks at                 *)
(* m_shutdownStarted, after it has its Permit.                             *)
(***************************************************************************)
Enter(c) ==
    /\ MayRun(c)
    /\ TryEnter(c)
    /\ at' = IF c \in Readers /\ c \in inside' THEN [at EXCEPT ![c] = "entered"] ELSE at
    /\ UNCHANGED <<shutdownStarted, ownerAt, asked, got, transfer, wire>>

Return(c) ==
    /\ MayRun(c)
    /\ c \in Readers => at[c] = "leaving"
    /\ Leave(c)
    /\ at' = IF c \in Readers THEN [at EXCEPT ![c] = "out"] ELSE at
    /\ UNCHANGED <<shutdownStarted, ownerAt, asked, got, transfer, wire>>

Admit(c) ==
    /\ at[c] = "entered"
    /\ at' = [at EXCEPT ![c] = IF shutdownStarted THEN "leaving" ELSE "asking"]
    /\ UNCHANGED <<lifetimeVars, shutdownStarted, ownerAt, asked, got, transfer, wire>>

(***************************************************************************)
(* readControllerClipboardFileChunk, once per chunk: the request is        *)
(* entered as pending, then queued on the owner's thread, which may fail.  *)
(***************************************************************************)
Register(c) ==
    /\ at[c] = "asking"
    /\ pending' = pending \cup {Current(c)}
    /\ at' = [at EXCEPT ![c] = "posting"]
    /\ UNCHANGED <<lifetimeVars, shutdownStarted, ownerAt, asked, got, chunk, failed, wire>>

Post(c) ==
    /\ at[c] = "posting"
    /\ \/ /\ outbox' = outbox \cup {[id |-> Current(c), offset |-> <<c, asked[c]>>]}
          /\ at' = [at EXCEPT ![c] = "checking"]
          /\ UNCHANGED pending
       \/ /\ pending' = pending \ {Current(c)}
          /\ at' = [at EXCEPT ![c] = "leaving"]
          /\ UNCHANGED outbox
    /\ UNCHANGED <<lifetimeVars, shutdownStarted, ownerAt, asked, got, chunk, failed,
                   atPeer, inbox>>

\* Mutant: the loop does not look at the shutdown.
MustWait_NoShutdown(c) ==
    /\ chunk[Current(c)] = NoChunk
    /\ Current(c) \notin failed

\* The conditions on which the loop around the wait goes on waiting, read
\* under m_transferMutex.
MustWait(c) ==
    /\ chunk[Current(c)] = NoChunk
    /\ Current(c) \notin failed
    /\ ~shutdownStarted

Sleep(c) ==
    /\ at[c] = "checking"
    /\ MustWait(c)
    /\ at' = [at EXCEPT ![c] = "asleep"]
    /\ UNCHANGED <<lifetimeVars, shutdownStarted, ownerAt, asked, got, transfer, wire>>

\* A slice of at most a second has passed: the loop looks again.
SliceEnds(c) ==
    /\ at[c] = "asleep"
    /\ at' = [at EXCEPT ![c] = "checking"]
    /\ UNCHANGED <<lifetimeVars, shutdownStarted, ownerAt, asked, got, transfer, wire>>

\* The end of the wait takes chunk and error and withdraws the request.
Withdraw(c) ==
    /\ pending' = pending \ {Current(c)}
    /\ chunk' = [chunk EXCEPT ![Current(c)] = NoChunk]
    /\ failed' = failed \ {Current(c)}

\* Mutant: goes on when nothing remains.
MoreToAsk_OffByOne(c) ==
    /\ chunk[Current(c)] # NoChunk
    /\ chunk[Current(c)].part = "full"
    /\ asked[c] <= MaxChunks

MoreToAsk(c) ==
    /\ chunk[Current(c)] # NoChunk
    /\ chunk[Current(c)].part = "full"
    /\ asked[c] < MaxChunks

\* With a chunk the read goes on, unless it was short or the last one asked
\* for; without one (an error, the session's end, or 15 seconds gone) it fails.
Collect(c) ==
    /\ Withdraw(c)
    /\ got' = IF chunk[Current(c)] = NoChunk THEN got
              ELSE [got EXCEPT ![c] = Append(@, chunk[Current(c)].offset)]
    /\ asked' = IF MoreToAsk(c) THEN [asked EXCEPT ![c] = @ + 1] ELSE asked
    /\ at' = [at EXCEPT ![c] = IF MoreToAsk(c) THEN "asking" ELSE "leaving"]
    /\ UNCHANGED <<lifetimeVars, shutdownStarted, ownerAt, wire>>

Finish(c) == at[c] = "checking" /\ ~MustWait(c) /\ Collect(c)

\* Mutant: every slice starts the 15 seconds again.
DeadlinePasses_Restarted(c) == at[c] = "checking" /\ ~MustWait(c) /\ Collect(c)

DeadlinePasses(c) == at[c] = "checking" /\ MustWait(c) /\ Collect(c)

(***************************************************************************)
(* The owner's event loop, the data channel and the peer.  An answer comes *)
(* in a callback of its own, which posts it to the dispatcher.             *)
(***************************************************************************)
SendRequest(r) ==
    /\ OwnerFree
    /\ r \in outbox
    /\ outbox' = outbox \ {r}
    /\ atPeer' = IF shutdownStarted THEN atPeer ELSE atPeer \cup {r}
    /\ UNCHANGED <<lifetimeVars, shutdownStarted, ownerAt, readerVars, transfer, inbox>>

\* A peer may answer twice, or never.
PeerAnswers(r) ==
    /\ r \in atPeer
    /\ atPeer' \in {atPeer, atPeer \ {r}}
    /\ ~closed
    /\ ~shutdownStarted
    /\ Cardinality(inbox) < MaxInbox
    /\ \E p \in Parts : inbox' = inbox \cup {[id |-> r.id, offset |-> r.offset, part |-> p]}
    /\ UNCHANGED <<lifetimeVars, shutdownStarted, ownerAt, readerVars, transfer, outbox>>

Expected(a) ==
    /\ a.id \in pending
    /\ chunk[a.id] = NoChunk
    /\ a.id \notin failed

\* onClipboardChannelMessage on the owner, handleClipboardStreamReadResult.
HandleAnswer(a) ==
    /\ OwnerFree
    /\ a \in inbox
    /\ inbox' = inbox \ {a}
    /\ IF ~shutdownStarted /\ Expected(a)
       THEN /\ chunk' = IF a.part = "error" THEN chunk
                        ELSE [chunk EXCEPT ![a.id] = [offset |-> a.offset, part |-> a.part]]
            /\ failed' = IF a.part = "error" THEN failed \cup {a.id} ELSE failed
            /\ WakeReaders
       ELSE UNCHANGED <<chunk, failed, at>>
    /\ UNCHANGED <<lifetimeVars, shutdownStarted, ownerAt, asked, got, pending, outbox, atPeer>>

(***************************************************************************)
(* performDestroy on the owner: the flag, the wake-up of the readers, the  *)
(* end of the callbacks, the members.  It may be reached from a callback   *)
(* on the owner's own stack; a second call returns at the exchange.        *)
(***************************************************************************)
StartShutdown ==
    /\ ownerAt = "running"
    /\ shutdownStarted' = TRUE
    /\ ownerAt' = "stopping"
    /\ UNCHANGED <<lifetimeVars, readerVars, transfer, wire>>

WakeClipboardWaiters ==
    /\ ownerAt = "stopping"
    /\ failed' = failed \cup pending
    /\ WakeReaders
    /\ ownerAt' = "woken"
    /\ UNCHANGED <<lifetimeVars, shutdownStarted, asked, got, pending, chunk, wire>>

CloseLifetime ==
    /\ ownerAt = "woken"
    /\ Close
    /\ ownerAt' = "closing"
    /\ UNCHANGED <<shutdownStarted, readerVars, transfer, wire>>

CloserWakes ==
    /\ WakeUp \/ SpuriousWakeUp
    /\ UNCHANGED <<shutdownStarted, ownerAt, readerVars, transfer, wire>>

ClearTransfers ==
    /\ ownerAt = "closing"
    /\ closer = "returned"
    /\ pending' = {}
    /\ failed' = failed \cup {i \in Ids : chunk[i] # NoChunk}
    /\ chunk' = [i \in Ids |-> NoChunk]
    /\ WakeReaders
    /\ ownerAt' = "cleared"
    /\ UNCHANGED <<lifetimeVars, shutdownStarted, asked, got, wire>>

\* The owner's thread ends when its stack has unwound, and with it go the
\* events it did not take; the object is deleted after the thread.
Delete ==
    /\ ownerAt = "cleared"
    /\ InsideOf(Owner) = {}
    /\ ownerAt' = "deleted"
    /\ outbox' = {}
    /\ inbox' = {}
    /\ UNCHANGED <<lifetimeVars, shutdownStarted, readerVars, transfer, atPeer>>

ReaderStep(c) ==
    \/ Admit(c)
    \/ Register(c)
    \/ Post(c)
    \/ Sleep(c)
    \/ Finish(c)

OwnerShutdown ==
    \/ WakeClipboardWaiters
    \/ CloseLifetime
    \/ ClearTransfers
    \/ Delete

Deleted == ownerAt = "deleted" /\ UNCHANGED vars

Next ==
    \/ \E c \in Calls : Enter(c) \/ Return(c)
    \/ \E c \in Readers : ReaderStep(c) \/ SliceEnds(c) \/ DeadlinePasses(c)
    \/ \E r \in outbox : SendRequest(r)
    \/ \E r \in atPeer : PeerAnswers(r)
    \/ \E a \in inbox : HandleAnswer(a)
    \/ StartShutdown
    \/ OwnerShutdown
    \/ CloserWakes
    \/ Deleted

Spec == Init /\ [][Next]_vars

\* Threads run, callbacks return.  Nothing about the peer, and no clock.
ThreadsRun ==
    /\ \A c \in Calls : WF_vars(Return(c))
    /\ \A c \in Readers : WF_vars(ReaderStep(c))
    /\ WF_vars(OwnerShutdown)
    /\ WF_vars(CloserWakes /\ closer = "notified")

FairSpec == Spec /\ ThreadsRun

\* Slices end, and a deadline passes.  No part of the specification, but what
\* ReadReturns assumes.
ClockRuns == \A c \in Readers : WF_vars(SliceEnds(c)) /\ SF_vars(DeadlinePasses(c))

-----------------------------------------------------------------------------
(***************************************************************************)
(* Properties.                                                             *)
(***************************************************************************)

\* Every answer that is kept, and every pending request, has a reader inside
\* that waits for it: a late answer to a read that gave up leaves nothing in
\* the maps.  (The shutdown's own error for a read whose request then cannot
\* be queued stays behind, until the object goes.)
Waited == {Current(c) : c \in {r \in Readers : at[r] \in {"posting", "checking", "asleep"}}}

NothingUnclaimed ==
    /\ pending = Waited
    /\ ~shutdownStarted => failed \subseteq pending
    /\ {i \in Ids : chunk[i] # NoChunk} \subseteq pending

\* A read's bytes are its own: the answers it appends are those to its own
\* offsets, in order, although reads of one file overlap and answers come late.
ReadsItsOwnFile ==
    \A c \in Readers : \A n \in 1..Len(got[c]) : got[c][n] = <<c, n>>

\* Overlapping reads do not disturb one another, whatever comes late.
ReadsSound == NothingUnclaimed /\ ReadsItsOwnFile

\* After the wake-up of the shutdown no reader sleeps: not one that was about
\* to sleep when the flag was set, and not one that registered after it.
NobodyOversleeps ==
    ownerAt \in {"woken", "closing", "cleared", "deleted"} =>
        \A c \in Readers : at[c] # "asleep"

\* Members are taken apart and the object is deleted with no callback inside
\* that could see it.
DeletedUnseen ==
    /\ ownerAt = "cleared" => inside = InsideOf(Owner)
    /\ ownerAt = "deleted" => inside = {}

\* performDestroy and destroyWebRtcCli in the order they must have: every
\* reader is woken, then every callback is out, then the members and the
\* object go.
TeardownSound == NobodyOversleeps /\ DeletedUnseen

\* The shutdown does not hang on a reader: it is through even if the peer
\* never answers and no time passes.
ShutdownReturns == (ownerAt = "stopping") ~> (ownerAt = "deleted")

\* A read of a silent peer comes back to the program that pasted, if the clock
\* runs: its deadline counts over all slices.
ReadReturns == ClockRuns => \A c \in Readers : (at[c] = "entered") ~> (at[c] = "out")

\* Whoever waits, the owner in the shutdown or a reader for its peer, is not
\* left waiting.
WaitsEnd == ShutdownReturns /\ ReadReturns
=============================================================================
