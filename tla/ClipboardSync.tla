----------------------------- MODULE ClipboardSync -----------------------------
(***************************************************************************)
(* Clipboard synchronisation, for texts: the controller's window, which    *)
(* remembers what it has sent; the workers of both sides (WebRtcCtl and    *)
(* WebRtcCli), whose sending and receiving halves are the same code twice; *)
(* the channel between them; and the controlled device's window thread,    *)
(* the only one that may touch its clipboard.                              *)
(*   ctl   webrtc_ctl_clipboard_channel.cpp, control_window_input_*.cpp    *)
(*   cli   webrtc_cli_clipboard_channel.cpp, clipboard_util.cpp            *)
(* A text of up to 128 KiB is one message of the control queue.  A longer  *)
(* one is cut into chunks, sent from a queue of its own by a timer: step 0 *)
(* announces it, steps 1..Chunks carry it, step Chunks + 1 ends it.        *)
(* When the channel is lost the window's worker calls the device again and *)
(* gets a channel to a worker made anew; see SessionReconnect.             *)
(* External: the users, the two clipboards, the channel.                   *)
(***************************************************************************)
EXTENDS Naturals, FiniteSets, Sequences, SequencesExt

CONSTANTS
    Short, Long,    \* texts
    NoText,         \* the empty clipboard
    Torn,           \* a text that is not what was sent
    Chunks,         \* of a long text
    BatchMessages,  \* kClipboardChunkSendBatchMessages
    HighWatermark,  \* kClipboardChunkSendHighWatermark, in messages
    MaxPending,     \* kMaxPendingClipboardControlMessages
    FaultKinds,     \* what may go wrong, once each
    MaxFaults,      \* bound: how many of them in one behaviour
    MaxExpansions,  \* kMaxPendingClipboardExpansionTasks
    MaxGestures     \* bound: copies, pastes and copy shortcuts of the two users

Sides == {"ctl", "cli"}
Other(s) == IF s = "ctl" THEN "cli" ELSE "ctl"
Texts == Short \cup Long

ASSUME ClipboardAssumption ==
    /\ NoText \notin Texts /\ Torn \notin Texts /\ Torn # NoText
    /\ {Chunks, BatchMessages, HighWatermark, MaxPending, MaxExpansions,
        MaxGestures} \subseteq Nat \ {0}
    /\ FaultKinds \subseteq {"loss", "renewal", "refusal", "timeout", "expiry", "write"}
    /\ MaxFaults \in Nat

VARIABLES
    channel,    \* "dialling", "open" or "lost"
    inbox,      \* what each worker has still to hear of the channel
    pending,    \* m_pendingClipboardControlMessages
    chunks,     \* m_clipboardChunkSendQueue: the steps still to send
    scheduled,  \* m_clipboardChunkSendScheduled
    timers,     \* its single shots under way
    dated,      \* the head of the queue has its deadline
    partial,    \* m_clipboardInboundText...: the chunks received
    asked,      \* the sides whose worker wants the session over
    win,        \* the window: observed, synced, dirty; noted: dataChanged is due
    requests,   \* signals of the window to its worker
    applies,    \* localClipboardPayloadReceived, to the window
    clipboard,  \* [text, from]; from is history
    gui,        \* controlled side: tasks for the window thread
    done,       \* and their completions, for the worker
    expanding,  \* what the thread pool reads more of
    cli,        \* lastSent, applied, monitored, changed (dataChanged is due), timer
    applied,    \* g_lastRemoteAppliedClipboardPayloadSignature
    issued,     \* history: numbers the texts sent
    faults,     \* what has gone wrong
    gestures    \* of the users

lanes == <<inbox, pending, chunks, scheduled, timers, dated, partial>>
window == <<win, requests, applies>>
device == <<gui, done, expanding, cli, applied>>
bounds == <<faults, gestures>>
vars == <<channel, lanes, asked, window, clipboard, device, issued, bounds>>

-----------------------------------------------------------------------------
(* Messages *)

\* from: whose text it is; of the controlled side's, "asked" if the controller
\* asked for it, else "user", "peer" or, by an earlier session's peer, "former".
Item(t, f) == [id |-> issued + 1, text |-> t, from |-> f]
Inline(i) == [type |-> "inline", item |-> i]
Step(i, n) == [type |-> "step", item |-> i, n |-> n]
Result == [type |-> "result"]
Capabilities == [type |-> "capabilities"]
Request == [type |-> "request"]
Open == [type |-> "open"]
Closed == [type |-> "closed"]

IsEnd(m) == m.type = "step" /\ m.n = Chunks + 1
Steps(i) == [n \in 1..Chunks + 2 |-> Step(i, n - 1)]
NoPartial == [i \in {} |-> <<>>]
FreshCli == [lastSent |-> NoText, applied |-> NoText, monitored |-> FALSE, changed |-> FALSE,
             timer |-> FALSE]

Init ==
    /\ channel = "dialling"
    /\ inbox = [s \in Sides |-> <<>>]
    /\ pending = [s \in Sides |-> <<>>]
    /\ chunks = [s \in Sides |-> <<>>]
    /\ scheduled = [s \in Sides |-> FALSE]
    /\ timers = [s \in Sides |-> 0]
    /\ dated = [s \in Sides |-> FALSE]
    /\ partial = [s \in Sides |-> NoPartial]
    /\ asked = {}
    /\ requests = <<>> /\ applies = <<>>
    /\ \E t \in Texts \cup {NoText} :
           /\ clipboard = [s \in Sides |->
                              [text |-> IF s = "ctl" THEN t ELSE NoText, from |-> "user"]]
           /\ win = [observed |-> t, synced |-> NoText, dirty |-> t # NoText, noted |-> FALSE]
           /\ gestures = IF t = NoText THEN 0 ELSE 1
    /\ gui = <<>> /\ done = <<>> /\ expanding = <<>>
    /\ cli = FreshCli
    /\ applied = NoText
    /\ issued = 0
    /\ faults = {}

-----------------------------------------------------------------------------
(* The sending half, for either side *)

Fault(f) ==
    /\ f \in FaultKinds \ faults /\ Cardinality(faults) < MaxFaults
    /\ faults' = faults \cup {f}

\* The channel takes the first k of the messages q, offered in turn.
Accepts(q, k) ==
    \/ channel = "open" /\ k = Len(q) /\ UNCHANGED faults
    \/ channel = "open" /\ k < Len(q) /\ Fault("refusal")
    \/ channel # "open" /\ k = 0 /\ UNCHANGED faults

Arrive(s, q) == inbox' = [inbox EXCEPT ![Other(s)] = @ \o q]

\* Mutant: room is tested before the message is counted.
SendFrom_OffByOne(s, box, m) ==
    LET q == Append(pending[s], m) IN
    \E k \in 0..Len(q) :
        LET rest == SubSeq(q, k + 1, Len(q)) IN
        /\ pending' = [pending EXCEPT ![s] =
                           IF Len(rest) > MaxPending + 1 THEN Front(rest) ELSE rest]
        /\ asked' = IF Len(rest) > MaxPending + 1 THEN asked \cup {s} ELSE asked
        /\ inbox' = [box EXCEPT ![Other(s)] = @ \o SubSeq(q, 1, k)]
        /\ Accepts(q, k)

\* Mutant: what waits is not sent first.
SendFrom_OutOfTurn(s, box, m) ==
    \E k \in 0..1 :
        LET rest == pending[s] \o SubSeq(<<m>>, k + 1, 1) IN
        /\ pending' = [pending EXCEPT ![s] = IF Len(rest) > MaxPending THEN Front(rest) ELSE rest]
        /\ asked' = IF Len(rest) > MaxPending THEN asked \cup {s} ELSE asked
        /\ inbox' = [box EXCEPT ![Other(s)] = @ \o SubSeq(<<m>>, 1, k)]
        /\ Accepts(<<m>>, k)

\* sendClipboardChannelObject, sendClipboardChannelMessage: first what waits,
\* then m; what is refused waits, if there is room.
SendFrom(s, box, m) ==
    LET q == Append(pending[s], m) IN
    \E k \in 0..Len(q) :
        LET rest == SubSeq(q, k + 1, Len(q)) IN
        /\ pending' = [pending EXCEPT ![s] = IF Len(rest) > MaxPending THEN Front(rest) ELSE rest]
        /\ asked' = IF Len(rest) > MaxPending THEN asked \cup {s} ELSE asked
        /\ inbox' = [box EXCEPT ![Other(s)] = @ \o SubSeq(q, 1, k)]
        /\ Accepts(q, k)

Send(s, m) == SendFrom(s, inbox, m)

\* What was sent last did not have to wait.
WasSent(s) == pending'[s] = <<>>

scheduleClipboardChunkSend(s) ==
    /\ scheduled' = [scheduled EXCEPT ![s] = TRUE]
    /\ timers' = [timers EXCEPT ![s] = IF scheduled[s] THEN @ ELSE @ + 1]

\* enqueueClipboardChunkTransfer
EnqueueChunks(s, i) ==
    /\ chunks' = [chunks EXCEPT ![s] = @ \o Steps(i)]
    /\ scheduleClipboardChunkSend(s)

\* A text is sent inline or in chunks.
SendText(s, i) ==
    /\ issued' = i.id
    /\ IF i.text \in Long
       THEN EnqueueChunks(s, i) /\ UNCHANGED <<inbox, pending, asked, faults>>
       ELSE Send(s, Inline(i)) /\ UNCHANGED <<chunks, scheduled, timers>>
    /\ UNCHANGED dated

\* failClipboardChunkSendQueue: single shots under way stay under way.
FailChunks(s) ==
    /\ chunks' = [chunks EXCEPT ![s] = <<>>]
    /\ scheduled' = [scheduled EXCEPT ![s] = FALSE]
    /\ dated' = [dated EXCEPT ![s] = FALSE]

\* The head has had its 45 seconds; the one behind it gets its own only now,
\* so the loop over expired heads drops one.
WithoutHead(q) ==
    LET own == Cardinality({n \in DOMAIN q : q[n].item = Head(q).item})
    IN  SubSeq(q, own + 1, Len(q))

Ends(q) == {n \in DOMAIN q : IsEnd(q[n])}

\* drainClipboardChunkSendQueue of the queue q over the open channel: the
\* control queue first, then as many chunks as the batch and the watermark
\* allow; b messages are still in the channel's buffer.
DrainOpen(s, q, b) ==
    LET n == IF b < HighWatermark THEN Min({Len(q), BatchMessages, HighWatermark - b}) ELSE 0
        first == IF n = 0 THEN <<>> ELSE pending[s]
        all == first \o SubSeq(q, 1, n)
    IN  \E k \in 0..Len(all) :
            LET left == IF k < Len(first) THEN q ELSE SubSeq(q, k - Len(first) + 1, Len(q))
                sent == SubSeq(all, 1, k)
            IN  /\ Arrive(s, sent)
                /\ pending' = [pending EXCEPT ![s] =
                                   IF n = 0 THEN @ ELSE SubSeq(@, k + 1, Len(@))]
                /\ k < Len(all) <=> "refusal" \in faults' \ faults
                /\ chunks' = [chunks EXCEPT ![s] = left]
                /\ dated' = [dated EXCEPT ![s] =
                                 left # <<>> /\ (left[1].n > 0 \/ left[1].item = q[1].item)]
                /\ scheduled' = [scheduled EXCEPT ![s] = left # <<>>]
                /\ timers' = [timers EXCEPT ![s] = IF left # <<>> THEN @ ELSE @ - 1]
                /\ cli' = IF s = "cli" /\ Ends(sent) # {}
                          THEN [cli EXCEPT !.lastSent = sent[Max(Ends(sent))].item.text] ELSE cli

\* A single shot fires.
ChunkTimer(s) ==
    /\ timers[s] > 0
    /\ IF channel # "open"
       THEN /\ FailChunks(s)
            /\ timers' = [timers EXCEPT ![s] = @ - 1]
            /\ UNCHANGED <<inbox, pending, faults, cli>>
       ELSE \E b \in 0..Len(inbox[Other(s)]) :
                \/ (UNCHANGED faults \/ Fault("refusal")) /\ DrainOpen(s, chunks[s], b)
                \/ /\ dated[s] /\ Fault("timeout")
                   /\ DrainOpen(s, WithoutHead(chunks[s]), b)
    /\ UNCHANGED <<channel, partial, asked, window, clipboard, gui, done, expanding, applied,
                   issued, gestures>>

-----------------------------------------------------------------------------
(* The receiving half, for either side *)

Hears(s, type) ==
    /\ inbox[s] # <<>> /\ Head(inbox[s]).type = type

\* clearClipboardPayloadTransferState
ClearPartial(s) == partial' = [partial EXCEPT ![s] = NoPartial]

\* A received text goes to the thread that may write the clipboard.
HandOver(s, i) ==
    IF s = "ctl"
    THEN applies' = Append(applies, i) /\ UNCHANGED gui
    ELSE gui' = Append(gui, [do |-> "write", item |-> i, live |-> TRUE]) /\ UNCHANGED applies

\* CLIPBOARD_SET, or CLIPBOARD_SNAPSHOT
HearInline(s) ==
    /\ Hears(s, "inline")
    /\ inbox' = [inbox EXCEPT ![s] = Tail(@)]
    /\ HandOver(s, Head(inbox[s]).item)
    /\ UNCHANGED <<channel, pending, chunks, scheduled, timers, dated, partial, asked, win,
                   requests, clipboard, done, expanding, cli, applied, issued, bounds>>

Ids(s) == DOMAIN partial[s]
Put(f, x, y) == [z \in DOMAIN f \cup {x} |-> IF z = x THEN y ELSE f[z]]
Drop(f, x) == [z \in DOMAIN f \ {x} |-> f[z]]

\* handleClipboardTextBegin, handleClipboardTextChunk; the limits on texts in
\* progress (eight, and their bytes) are left out.
Keeps(got, m) ==
    IF m.n = 0 THEN IF m.item.id \in DOMAIN got THEN got ELSE Put(got, m.item.id, <<>>)
    ELSE IF m.item.id \notin DOMAIN got THEN got
    ELSE IF m.n = Len(got[m.item.id]) + 1 THEN Put(got, m.item.id, Append(got[m.item.id], m.n))
    ELSE Drop(got, m.item.id)

HearChunk(s) ==
    /\ Hears(s, "step") /\ ~IsEnd(Head(inbox[s]))
    /\ inbox' = [inbox EXCEPT ![s] = Tail(@)]
    /\ partial' = [partial EXCEPT ![s] = Keeps(@, Head(inbox[s]))]
    /\ UNCHANGED <<channel, pending, chunks, scheduled, timers, dated, asked, window,
                   clipboard, device, issued, bounds>>

Whole == [n \in 1..Chunks |-> n]
Complete(s, i) == i.id \in Ids(s) /\ Len(partial[s][i.id]) = Chunks

\* handleClipboardTextEnd
HearEnd(s) ==
    /\ Hears(s, "step") /\ IsEnd(Head(inbox[s]))
    /\ inbox' = [inbox EXCEPT ![s] = Tail(@)]
    /\ LET i == Head(inbox[s]).item IN
           /\ partial' = [partial EXCEPT ![s] = Drop(@, i.id)]
           /\ IF Complete(s, i)
              THEN HandOver(s, [i EXCEPT !.text = IF partial[s][i.id] = Whole THEN @ ELSE Torn])
              ELSE UNCHANGED <<applies, gui>>
    /\ UNCHANGED <<channel, pending, chunks, scheduled, timers, dated, asked, win, requests,
                   clipboard, done, expanding, cli, applied, issued, bounds>>

\* expireClipboardTextRequests: 15 seconds without the next chunk.
Expire(s) ==
    /\ Fault("expiry")
    /\ \E x \in Ids(s) : partial' = [partial EXCEPT ![s] = Drop(@, x)]
    /\ UNCHANGED <<channel, inbox, pending, chunks, scheduled, timers, dated, asked, window,
                   clipboard, device, issued, gestures>>

\* onClipboardChannelOpen: the control queue goes out, and what this side can
\* do; and the controlled side begins to watch its clipboard.
HearOpen(s) ==
    /\ Hears(s, "open")
    /\ ClearPartial(s)
    /\ SendFrom(s, [inbox EXCEPT ![s] = Tail(@)], Capabilities)
    /\ gui' = IF s = "cli" THEN Append(gui, [do |-> "monitor", live |-> TRUE]) ELSE gui
    /\ UNCHANGED <<channel, chunks, scheduled, timers, dated, window, clipboard, done, expanding,
                   cli, applied, issued, gestures>>

\* onClipboardChannelClosed: the controller asks for a new session, the
\* controlled side ends its own, whichever channel it was that closed.
\* onClipboardChannelError leaves the snapshot's timer running.
HearClosed(s) ==
    /\ Hears(s, "closed")
    /\ inbox' = [inbox EXCEPT ![s] = Tail(@)]
    /\ pending' = [pending EXCEPT ![s] = <<>>]
    /\ FailChunks(s)
    /\ ClearPartial(s)
    /\ asked' = asked \cup {s}
    /\ cli' \in IF s = "cli" THEN {cli, [cli EXCEPT !.timer = FALSE]} ELSE {cli}
    /\ UNCHANGED <<channel, timers, window, clipboard, gui, done, expanding, applied, issued,
                   bounds>>

\* handleClipboardApplyResult sends the paste shortcut, on another channel;
\* the capabilities only matter to images.
HearOther(s) ==
    /\ Hears(s, "result") \/ Hears(s, "capabilities")
    /\ inbox' = [inbox EXCEPT ![s] = Tail(@)]
    /\ UNCHANGED <<channel, pending, chunks, scheduled, timers, dated, partial, asked, window,
                   clipboard, device, issued, bounds>>

\* What the channel has brought is heard, up to some message; then it is closed.
CutOff(s) == {Append(SubSeq(inbox[s], 1, n), Closed) : n \in 0..Len(inbox[s])}

\* The channel is lost, by itself or because the controlled side has ended the
\* session.
Lose ==
    /\ channel = "open"
    /\ ("cli" \in asked /\ UNCHANGED faults) \/ Fault("loss")
    /\ channel' = "lost"
    /\ asked' = asked \ {"cli"}
    /\ \E m \in CutOff("ctl"), n \in CutOff("cli") :
           inbox' = [s \in Sides |-> IF s = "ctl" THEN m ELSE n]
    /\ UNCHANGED <<pending, chunks, scheduled, timers, dated, partial, window, clipboard, device,
                   issued, gestures>>

\* doReconnect of the controller: destroy and init, in one go, because this
\* channel closed or for another reason (SessionReconnect has them all, and the
\* case that it is done twice for one loss).  What the old channel has posted is
\* still to be heard.
Redial ==
    /\ \/ "ctl" \in asked /\ UNCHANGED faults
       \/ channel = "open" /\ Fault("renewal")
    /\ channel' = "dialling"
    /\ asked' = {}
    /\ IF channel = "open"
       THEN \E m \in CutOff("ctl"), n \in CutOff("cli") :
                inbox' = [s \in Sides |-> IF s = "ctl" THEN Front(m) ELSE n]
       ELSE UNCHANGED inbox
    /\ pending' = [pending EXCEPT !["ctl"] = <<>>]
    /\ FailChunks("ctl")
    /\ ClearPartial("ctl")
    /\ UNCHANGED <<timers, window, clipboard, device, issued, gestures>>

\* The new channel opens, to a worker of the controlled side made for it.  The
\* tasks of the worker before run, but nobody hears of them.
Connect ==
    /\ channel = "dialling"
    /\ channel' = "open"
    /\ inbox' = [inbox EXCEPT !["ctl"] = Append(@, Open), !["cli"] = <<Open>>]
    /\ pending' = [pending EXCEPT !["cli"] = <<>>]
    /\ FailChunks("cli")
    /\ timers' = [timers EXCEPT !["cli"] = 0]
    /\ ClearPartial("cli")
    /\ cli' = FreshCli
    /\ done' = <<>> /\ expanding' = <<>>
    /\ gui' = [n \in DOMAIN gui |-> [gui[n] EXCEPT !.live = FALSE]]
    /\ asked' = asked \ {"cli"}
    /\ UNCHANGED <<window, clipboard, applied, issued, bounds>>

-----------------------------------------------------------------------------
(* The controller's window *)

MarkSynced(t) == [win EXCEPT !.synced = t, !.observed = t, !.dirty = FALSE]

Gesture == gestures < MaxGestures /\ gestures' = gestures + 1

UserCopies(s, t) ==
    /\ Gesture
    /\ clipboard' = [clipboard EXCEPT ![s] = [text |-> t, from |-> "user"]]
    /\ win' = IF s = "ctl" THEN [win EXCEPT !.noted = TRUE] ELSE win
    /\ cli' = IF s = "cli" THEN [cli EXCEPT !.changed = @ \/ cli.monitored] ELSE cli
    /\ UNCHANGED <<channel, lanes, asked, requests, applies, gui, done, expanding, applied, issued,
                   faults>>

LocalText == clipboard["ctl"].text

\* noteLocalClipboardChanged
noteLocalClipboardChanged ==
    /\ win.noted
    /\ win' = [win EXCEPT !.noted = FALSE,
                          !.observed = LocalText,
                          !.synced = IF LocalText = NoText /\ win.observed # NoText
                                     THEN NoText ELSE @,
                          !.dirty = IF LocalText = win.observed THEN @
                                    ELSE LocalText \notin {NoText, win.synced}]
    /\ UNCHANGED <<channel, lanes, asked, requests, applies, clipboard, device, issued, bounds>>

\* syncLocalClipboardToRemoteIfNeeded, before any other input is forwarded.
syncLocalClipboardToRemoteIfNeeded ==
    /\ win.dirty
    /\ IF LocalText \in {NoText, win.synced}
       THEN win' = [win EXCEPT !.observed = LocalText, !.dirty = FALSE] /\ UNCHANGED requests
       ELSE /\ win' = MarkSynced(LocalText)
            /\ requests' = Append(requests, [type |-> "set", text |-> LocalText])
    /\ UNCHANGED <<channel, lanes, asked, applies, clipboard, device, issued, bounds>>

PasteShortcut ==
    /\ Gesture
    /\ IF LocalText = NoText THEN UNCHANGED <<win, requests>>
       ELSE /\ win' = MarkSynced(LocalText)
            /\ requests' = Append(requests, [type |-> "set", text |-> LocalText])
    /\ UNCHANGED <<channel, lanes, asked, applies, clipboard, device, issued, faults>>

\* requestRemoteClipboardSnapshot, 200 ms after the copy shortcut.
CopyShortcut ==
    /\ Gesture
    /\ requests' = Append(requests, Request)
    /\ UNCHANGED <<channel, lanes, asked, win, applies, clipboard, device, issued, faults>>

\* applyLocalClipboardPayload
applyLocalClipboardPayload ==
    /\ applies # <<>>
    /\ applies' = Tail(applies)
    /\ \/ /\ clipboard' = [clipboard EXCEPT !["ctl"] =
                               [text |-> Head(applies).text, from |-> "peer"]]
          /\ win' = [MarkSynced(Head(applies).text) EXCEPT !.noted = TRUE]
          /\ UNCHANGED faults
       \/ Fault("write") /\ UNCHANGED <<clipboard, win>>
    /\ UNCHANGED <<channel, lanes, asked, requests, device, issued, gestures>>

\* sendClipboardPayloadToRemote, requestRemoteClipboardSnapshot: the worker.
HandleRequest ==
    /\ requests # <<>>
    /\ requests' = Tail(requests)
    /\ LET r == Head(requests) IN
       IF r.type = "set" THEN SendText("ctl", Item(r.text, "user"))
       ELSE Send("ctl", Request) /\ UNCHANGED <<chunks, scheduled, timers, dated, issued>>
    /\ UNCHANGED <<channel, partial, win, applies, clipboard, device, gestures>>

-----------------------------------------------------------------------------
(* The controlled side *)

\* CLIPBOARD_REQUEST: the clipboard is read on the window thread.
HearRequest ==
    /\ Hears("cli", "request")
    /\ inbox' = [inbox EXCEPT !["cli"] = Tail(@)]
    /\ gui' = IF channel = "open"
              THEN Append(gui, [do |-> "read", explicit |-> TRUE, live |-> TRUE]) ELSE gui
    /\ UNCHANGED <<channel, pending, chunks, scheduled, timers, dated, partial, asked, window,
                   clipboard, done, expanding, cli, applied, issued, bounds>>

\* connectClipboardMonitor
ConnectMonitor ==
    /\ gui # <<>> /\ Head(gui).do = "monitor"
    /\ gui' = Tail(gui)
    /\ cli' = IF Head(gui).live THEN [cli EXCEPT !.monitored = TRUE] ELSE cli
    /\ UNCHANGED <<channel, lanes, asked, window, clipboard, done, expanding, applied, issued,
                   bounds>>

\* scheduleLocalClipboardSnapshot: only for ten seconds after the session's
\* last input, and only if no other session had input since.
scheduleLocalClipboardSnapshot ==
    /\ cli.changed
    /\ \E recent \in BOOLEAN :
           cli' = [cli EXCEPT !.changed = FALSE, !.timer = @ \/ (recent /\ channel = "open")]
    /\ UNCHANGED <<channel, lanes, asked, window, clipboard, gui, done, expanding, applied, issued,
                   bounds>>

\* sendLocalClipboardSnapshot, 250 ms after the last change.
SnapshotTimer ==
    /\ cli.timer
    /\ cli' = [cli EXCEPT !.timer = FALSE]
    /\ gui' = IF channel = "open"
              THEN Append(gui, [do |-> "read", explicit |-> FALSE, live |-> TRUE]) ELSE gui
    /\ UNCHANGED <<channel, lanes, asked, window, clipboard, done, expanding, applied, issued,
                   bounds>>

Completes(task, completion) == done' = IF task.live THEN Append(done, completion) ELSE done

\* The window thread: readClipboardPayloadAsync.
ReadClipboard ==
    /\ gui # <<>> /\ Head(gui).do = "read"
    /\ gui' = Tail(gui)
    /\ Completes(Head(gui),
                 [did |-> "read", explicit |-> Head(gui).explicit, saw |-> clipboard["cli"]])
    /\ UNCHANGED <<channel, lanes, asked, window, clipboard, expanding, cli, applied, issued,
                   bounds>>

\* writeClipboardPayloadAsync
WriteClipboard ==
    /\ gui # <<>> /\ Head(gui).do = "write"
    /\ gui' = Tail(gui)
    /\ LET i == Head(gui).item IN
       \/ /\ clipboard' = [clipboard EXCEPT !["cli"] =
                 [text |-> i.text, from |-> IF Head(gui).live THEN "peer" ELSE "former"]]
          /\ cli' = [cli EXCEPT !.changed = @ \/ cli.monitored]
          /\ Completes(Head(gui), [did |-> "wrote", text |-> i.text, ok |-> TRUE])
          /\ UNCHANGED faults
       \/ /\ Fault("write")
          /\ Completes(Head(gui), [did |-> "wrote", text |-> i.text, ok |-> FALSE])
          /\ UNCHANGED <<clipboard, cli>>
    /\ UNCHANGED <<channel, lanes, asked, window, expanding, applied, issued, gestures>>

\* Mutant: that the text came from a controller is not noted down.
FinishApply_Forgets ==
    /\ done # <<>> /\ Head(done).did = "wrote"
    /\ done' = Tail(done)
    /\ Send("cli", Result)
    /\ UNCHANGED <<channel, chunks, scheduled, timers, dated, partial, window, clipboard, gui,
                   expanding, cli, applied, issued, gestures>>

\* finishApply of applyClipboardPayload, and its twin in handleClipboardTextEnd.
FinishApply ==
    /\ done # <<>> /\ Head(done).did = "wrote"
    /\ done' = Tail(done)
    /\ IF Head(done).ok
       THEN cli' = [cli EXCEPT !.applied = Head(done).text] /\ applied' = Head(done).text
       ELSE UNCHANGED <<cli, applied>>
    /\ Send("cli", Result)
    /\ UNCHANGED <<channel, chunks, scheduled, timers, dated, partial, window, clipboard, gui,
                   expanding, issued, gestures>>

\* The end of sendLocalClipboardSnapshotPayload.
Answer(t, from) ==
    /\ SendText("cli", Item(t, from))
    /\ cli' = IF t \in Short /\ WasSent("cli") THEN [cli EXCEPT !.lastSent = t] ELSE cli

Silent == UNCHANGED <<inbox, pending, chunks, scheduled, timers, dated, asked, issued, faults>>

\* sendLocalClipboardSnapshotPayload of what nobody asked for: not what was sent
\* before, and not what came from a controller.
SendSnapshot ==
    /\ done # <<>> /\ Head(done).did = "read" /\ ~Head(done).explicit
    /\ done' = Tail(done)
    /\ LET saw == Head(done).saw IN
       IF saw.text \in {NoText, cli.lastSent} THEN Silent /\ UNCHANGED cli
       ELSE IF saw.text \in {cli.applied, applied}
       THEN Silent /\ cli' = [cli EXCEPT !.lastSent = saw.text]
       ELSE Answer(saw.text, saw.from)
    /\ UNCHANGED <<channel, partial, window, clipboard, gui, expanding, applied, gestures>>

\* Of what was asked for: files are looked up on the thread pool.
StartExpansion ==
    /\ done # <<>> /\ Head(done).did = "read" /\ Head(done).explicit
    /\ done' = Tail(done)
    /\ expanding' = IF Len(expanding) < MaxExpansions
                    THEN Append(expanding, Head(done).saw.text) ELSE expanding
    /\ UNCHANGED <<channel, lanes, asked, window, clipboard, gui, cli, applied, issued, bounds>>

FinishExpansion ==
    /\ \E n \in DOMAIN expanding :
           /\ expanding' = RemoveAt(expanding, n)
           /\ IF expanding[n] = NoText THEN Silent /\ UNCHANGED cli
              ELSE Answer(expanding[n], "asked")
    /\ UNCHANGED <<channel, partial, window, clipboard, gui, done, applied, gestures>>

-----------------------------------------------------------------------------
Users ==
    \/ \E s \in Sides, t \in Texts \cup {NoText} : UserCopies(s, t)
    \/ syncLocalClipboardToRemoteIfNeeded
    \/ PasteShortcut
    \/ CopyShortcut

Receives(s) ==
    HearInline(s) \/ HearChunk(s) \/ HearEnd(s) \/ HearOpen(s) \/ HearClosed(s) \/ HearOther(s)

ControlledWorker ==
    \/ HearRequest
    \/ scheduleLocalClipboardSnapshot \/ SnapshotTimer
    \/ FinishApply \/ SendSnapshot \/ StartExpansion \/ FinishExpansion

Worker(s) ==
    \/ Receives(s)
    \/ s = "ctl" /\ HandleRequest
    \/ s = "cli" /\ ControlledWorker

WindowThread(s) ==
    \/ s = "ctl" /\ (noteLocalClipboardChanged \/ applyLocalClipboardPayload)
    \/ s = "cli" /\ (ConnectMonitor \/ ReadClipboard \/ WriteClipboard)

Session == Lose \/ Redial \/ Connect

Next ==
    \/ Users
    \/ \E s \in Sides : Worker(s) \/ ChunkTimer(s) \/ Expire(s) \/ WindowThread(s)
    \/ Session

Spec == Init /\ [][Next]_vars

-----------------------------------------------------------------------------
Origins == {"user", "peer", "former", "asked"}
Items == [id : Nat \ {0}, text : Texts, from : Origins]
StepMessages == [type : {"step"}, item : Items, n : 0..Chunks + 1]
ControlMessages ==
    [type : {"inline"}, item : Items] \cup {Result, Capabilities, Request}
Holdings == [text : Texts \cup {NoText}, from : Origins]

\* Every variable has its type, a text is what was sent, and both bounded queues
\* keep their bound.
TypeOK ==
    /\ channel \in {"dialling", "open", "lost"}
    /\ inbox \in [Sides -> Seq(ControlMessages \cup StepMessages \cup {Open, Closed})]
    /\ pending \in [Sides -> Seq(ControlMessages)]
    /\ \A s \in Sides : Len(pending[s]) <= MaxPending
    /\ chunks \in [Sides -> Seq(StepMessages)]
    /\ scheduled \in [Sides -> BOOLEAN] /\ dated \in [Sides -> BOOLEAN]
    /\ timers \in [Sides -> Nat]
    /\ \A s \in Sides : \A x \in Ids(s) : partial[s][x] \in Seq(1..Chunks)
    /\ asked \subseteq Sides
    /\ win \in [observed : Texts \cup {NoText}, synced : Texts \cup {NoText},
                dirty : BOOLEAN, noted : BOOLEAN]
    /\ requests \in Seq({Request} \cup [type : {"set"}, text : Texts])
    /\ applies \in Seq(Items)
    /\ clipboard \in [Sides -> Holdings]
    /\ gui \in Seq([do : {"monitor"}, live : BOOLEAN]
                   \cup [do : {"read"}, explicit : BOOLEAN, live : BOOLEAN]
                   \cup [do : {"write"}, item : Items, live : BOOLEAN])
    /\ done \in Seq([did : {"read"}, explicit : BOOLEAN, saw : Holdings]
                    \cup [did : {"wrote"}, text : Texts, ok : BOOLEAN])
    /\ expanding \in Seq(Texts \cup {NoText}) /\ Len(expanding) <= MaxExpansions
    /\ cli \in [lastSent : Texts \cup {NoText}, applied : Texts \cup {NoText},
                monitored : BOOLEAN, changed : BOOLEAN, timer : BOOLEAN]
    /\ applied \in Texts \cup {NoText}
    /\ issued \in Nat /\ faults \subseteq FaultKinds /\ gestures \in 0..MaxGestures

InFlight(s) == inbox[Other(s)] \o pending[s] \o chunks[s]

\* A text the controller sent never comes back to it unasked: not by the
\* notification of the write itself, and not by a later one.  (A write left over
\* from an earlier session is the exception: nobody hears that it was done.)
NoEcho ==
    \A m \in Range(InFlight("cli")) : m.type \in {"inline", "step"} => m.item.from # "peer"

\* What the user of the controller has copied is sent before the next input
\* unless it has been sent: the window has it down as changed, or is about to.
ChangeRemembered ==
    LocalText \notin {win.synced, NoText} => win.dirty \/ win.noted

\* Nothing waits for ever: a queue of chunks has a single shot under way that
\* will serve it, and a control message waits for a channel to open, or because
\* it was refused.
NoneStranded ==
    \A s \in Sides :
        /\ chunks[s] # <<>> => scheduled[s] /\ timers[s] > 0
        /\ pending[s] # <<>> => channel # "open" \/ Open \in Range(inbox[s]) \/ "refusal" \in faults

ClipboardSound == NoEcho /\ ChangeRemembered /\ NoneStranded

\* The two queues of each way are what is under way of short texts, and of the long
\* ones whose beginning has come or is to come: an end alone brings nothing.
UnderWay(s) == Range(inbox[Other(s)]) \cup Range(pending[s]) \cup Range(chunks[s])
Outline(i) == [id |-> i.id, text |-> i.text]
ShortLane(s) == {Outline(m.item) : m \in {x \in UnderWay(s) : x.type = "inline"}}
Begun(s, i) == i.id \in Ids(Other(s)) \/ Step(i, 0) \in UnderWay(s)
LongLane(s) == {Outline(m.item) : m \in {x \in UnderWay(s) : IsEnd(x) /\ Begun(s, x.item)}}
LaneOf(s, k) == IF k = "short" THEN ShortLane(s) ELSE LongLane(s)

Job(g) == IF g.do = "write" THEN Outline(g.item) ELSE [id |-> 0]
Jobs(s) ==
    IF s = "ctl" THEN [n \in DOMAIN applies |-> Outline(applies[n])]
    ELSE [n \in DOMAIN gui |-> Job(gui[n])]

L == INSTANCE ClipboardLanes WITH
        Lanes <- {"short", "long"},
        lane <- [s \in Sides |-> [k \in {"short", "long"} |-> LaneOf(s, k)]],
        out <- [s \in Sides |-> Jobs(s)],
        sound <- channel = "open" /\ asked = {}

ImplementsLanes == L!LanesSpec
=============================================================================
