# AiRan Desk: TLA+ models, model checking and proofs

AiRan Desk is a peer-to-peer remote desktop program written in C++ with Qt and
libwebrtc. One executable plays two roles. As *controlled side* it registers
with a signaling server, admits CONNECT requests and serves desktop, file and
terminal sessions. As *controller* it opens such sessions on other devices.
This directory models the part of the program in which order matters: who may
open a session, how the session's threads, timers and queues agree on when it
starts and ends, how a controller's window gets its connection back, what the
signaling client does with messages while it is offline, what a remote terminal
shows, how two clipboards are kept alike, and what is written to the audit log.

All paths below are relative to the repository.

## 1. Inventory

| Component | State it keeps | Operations | Talks to |
|---|---|---|---|
| Admission: `MainWindow` (`src/ui/main/websocket/main_window_ws_sessions.cpp`) with `ControlledAccessGate` | pending evaluations, policy generation, overflow counter and flag | CONNECT arrives; evaluation in the pool; completion on the main thread | `WsCli` (signals), thread pool, `AuditLogger`, `WebRtcCli` |
| Session registry (`src/ui/main/session/main_window_sessions.cpp`) and tray (`src/ui/main/events/main_window_events.cpp`) | `m_rtcCliSessions`, `m_rtcCliShutdownPending`, `m_controlledTraySessions` | register, destroy, thread finished, disconnect one/one peer/all, quit | `WebRtcCli` by queued calls, `QThread` |
| `WebRtcCli`, the controlled worker (`src/webrtc/cli`) | peer connection, channels, timers, shutdown flags, heartbeat, pending descriptions and candidates | init, signaling messages, peer states, channel messages, performDestroy | main thread by queued signals, libwebrtc threads by callbacks |
| `WebRtcCtl`, the controller's worker (`src/webrtc/ctl`) | the same, with the reconnect timer, attempt count, network path | init, reconnect, path change, signaling, heartbeat, shutdown | its window, `WsCli` |
| `WsCli`, the signaling client (`src/websocket`) | socket, phase, retry counters, message queue with generations, presence requests | init, reset URL, reconnect, send, flush, heartbeat, presence query | all of the above by signals |
| `CallbackLifetime` and `QtCallbackDispatcher` (`src/util/qt`) | active permits per thread, closing flag; queue and scheduled flag | enter, leave, close and wait; post, drain | libwebrtc threads and every worker |
| `AuditLogger`, `AuditSession` (`src/security`) | open log file, ready flag, failure handler; session counters, finished flag | append, terminal logs, finish | gate, workers, main thread |
| Data channels (`src/webrtc/cli/channel`, `src/webrtc/ctl/channel`) | ingress queue with byte bound and scheduled flag, chunk windows | message, drain, close, overflow | file transfer, clipboard, terminal, input |
| File transfer (`src/webrtc/*/file_transfer`, `src/util/file`) | transfers under way, offsets, temporary files | open, write chunk, finish, cancel | data channel, disk |
| Terminal (`src/webrtc/cli/terminal`, `src/terminal/session`, `webrtc_ctl_file_text_terminal.cpp`, `src/ui/terminal`) | shell process, pending output on both sides, three kinds of pauses, the request in force, the end to be told | start, fall back, write, resize, output, flow control, acknowledgement, end | file-text channel, emulator, audit |
| Clipboard (`src/util/clipboard`, `webrtc_*_clipboard_channel.cpp`, `control_window_input_keyboard.cpp`) | what the window has synced, control and chunk queues, texts half received, what was sent and applied last; waiters for remote chunks | sync, paste, snapshot, request, answer, time out | data channel, window threads, operating system |
| Device vault (`src/devices`) | device list, encrypted file | unlock, save | UI |
| Headless controlled application (`src/app`) | registry of its own | same as the window, without tray | `WsCli`, gate, workers |
| Worker shutdown (`src/common`) | none beyond the thread's | queue shutdown, wait, take the object back | every worker |
| Desktop capture, codecs, audio, RTC facade, input injection, UI, settings | (numeric or platform state) | | operating system |

### How they interact

There are four kinds of threads. The *main thread* owns the window, the
registry and the tray, and handles one event at a time. The *pool* runs
evaluations, audit closings and the overflow report. Each `WebRtcCli`,
`WebRtcCtl` and `WsCli` lives on a *worker thread* of its own and is called
through queued invocations. *libwebrtc's threads* call back through weak
callbacks guarded by `CallbackLifetime`. Almost everything that crosses a
thread is a queued event, so what a handler finds may be older or newer than
what its sender saw.

### What is hard

- A CONNECT is decided in three steps on two threads (policy read, evaluation,
  completion), and the local user may change the policy, or quit, between any
  two of them.
- A session's end has many causes (timer, peer state, remote message, local
  user, audit failure, quit). Each posts the same request; exactly one shutdown
  must come out of it, and the registry, the tray and the audit session must
  all agree.
- The registry is keyed by object and the tray by session identifier, and the
  identifier is chosen by the other side.
- Two atomics and a re-check stand for a lock in the overflow report.
- The controller reuses its worker object for a new peer connection
  (reconnect): callbacks, timers and messages of the old one may still arrive.
- Pending messages, presence requests and retries of `WsCli` outlive sockets.
- A terminal's output goes through two buffers that may overflow, in the middle
  of an escape sequence, while pauses go the other way; either may belong to a
  shell that has been replaced meanwhile.
- A clipboard written for the peer raises the same notification as one the user
  has changed, on another thread and some timers later.
- The callback lifetime blocks the closing thread until callbacks leave, and
  some callbacks wait for an answer that only the closing thread's peer sends.

### What makes each component correct

| Component | Properties |
|---|---|
| Overflow report | no refused CONNECT is lost or reported twice, one reporter at a time, no lost wake-up |
| Admission | only the password and the switch of the moment of admission admit; limits hold; nothing is registered after quitting; the pending counter is exact; every CONNECT is answered |
| Registry and tray | a shutdown under way always finishes and unregisters; tray entries are registered sessions; a connected session is in the tray |
| Audit sessions | open exactly while somebody will close them |
| Callback lifetime | no foreign callback runs after close returned; close returns; the counters are exact however permits nest |
| Dispatcher | exactly one drain is on its way while the flag is up; callbacks run in order; the line moves |
| Clipboard reads | a read gets its own file's bytes; no reader outsleeps a shutdown, and the shutdown returns |
| Clipboard texts | a text comes out whole, once and in its queue's order; it is not sent back; a change of the user's is sent before the next input; no queue waits without a timer |
| File channel | a file is written at most once, whole and after it was sent; the queue's count is exact; nothing survives the shutdown; a cancellation that overtook the data holds |
| Controller session | a window that may reconnect always has something that makes it; a new call only after the call before was taken back; a closed window leaves no worker behind |
| Terminal | the screen shows the shell called last, in order, with a clear screen where text is missing; whoever pauses the shell resumes it; the end is told after the text, and is told |
| `WsCli` | no message twice, out of order, or on a connection it was not meant for; a lost connection is retried for ever; a device is shown online only on a timely answer of this batch |

## 2. Plan

| Order | Module | Abstract specification | Theorems | State |
|---|---|---|---|---|
| 1 | `OverflowAudit` | `OverflowLedger` | `OverflowAuditProofs`: all safety, the refinement | done |
| 2 | `ControlledAccess` | `ControlledAdmission` | `ControlledAccessProofs`: all safety, the refinement | done |
| 3 | `CallbackLifetime` | `CallbackScope` | `SessionTeardownProofs`: all safety, the refinement | done |
| 4 | `SessionTeardown`, which composes `CallbackLifetime` with the blocking clipboard reads and `performDestroy` | the lifetime's scope | `SessionTeardownProofs`: all safety | done |
| 5 | `CallbackDispatcher` | `CallbackQueue` | `FileIngressProofs`: all safety, the refinement's safety part | done |
| 6 | `FileIngress`, which composes `CallbackDispatcher` with the file channel, its queue, the reassembly and the shutdown | `FileDelivery` | `FileIngressProofs`: all safety, the refinement | done |
| 7 | `ControllerSession` and `ControlledWorkers` over `SessionSignals`, composed in `SessionReconnect` | `DialledSession` | `SessionReconnectProofs`: all safety, the refinement | done |
| 8 | `WsClient` with its presence requests | `SignalLink` | `WsClientProofs`: all safety, the refinement | done |
| 9 | `TerminalStream` | `TerminalTranscript` | `TerminalStreamProofs`: all safety, the refinement | done |
| 10 | `ClipboardSync` | `ClipboardLanes` | `ClipboardSyncProofs`: all safety, the refinement | done |
| 11 | `RemoteNegotiation` (candidates and the second description), `SessionHeartbeat` | | candidates follow their description | planned |
| 12 | the file-text queue and transfer protocol, clipboard images and files | bounded queue | | planned |
| 13 | `WorkerShutdown`, `AuditTrail`, headless application, device vault | | | planned |

## 3. Modules

### `OverflowAudit`, `OverflowLedger`

`scheduleAccessQueueOverflowAudit`
(`src/ui/main/websocket/main_window_ws_sessions.cpp:70-107`) counts a refused
CONNECT in one atomic, and starts a pool task when an exchange on a second
atomic says that none is running. The task takes the count with an exchange,
appends one record for all of it, stores `false`, and looks at the counter
again. Each atomic access is an action; a task is a program counter; task
slots are re-used. `OverflowLedger` is the promise: rejections are counted and
later reported, each at most once.

Bounds: `MaxCalls` rejections (4 in the run), three task slots. Two
tasks can be alive at once only between one task's store and its re-check, so
the third slot is enough for a new task to start while two old ones linger.

### `ControlledAccess`, `ControlledAdmission`

The controlled side's admission, registry, tray and workers. A request `r` is
one CONNECT; if it is admitted, `r` is also its `WebRtcCli`.

| Variable | Code |
|---|---|
| `allowRemote`, `password`, `policyGeneration` | `ConfigUtil->allow_remote`, the verification code (a number per renewal), `m_accessPolicyGeneration` |
| `callbacksAlive` | `m_asyncCallbacksAlive`; false once `~MainWindow` runs |
| `auditReady` | `AuditLogger::m_ready` |
| `pendingEvaluations`, `snapshot`, `accepted`, `audit` | the counter, and the fields of the decision a task carries |
| `stage` | where the request is: pool, posted, registered, or in the copy that `cleanupWebRtcCliSessions` works through |
| `shutdownPending`, `tray` | `m_rtcCliShutdownPending`, `m_controlledTraySessions` |
| `mainQueue`, `inbox` | events queued to the main thread, calls queued to each worker |
| `running`, `peer`, `startupTimer`, `connectionAudited`, `shutdownRequested`, `shutdownStarted` | the worker |

Every handler is one action, since its thread runs it without interruption.
Two things are split because another thread can come between: an evaluation
(pool) from its publication and completion, and `performDestroy` at
`closeAndWait`, where the worker stops and waits. The zero timer that
completes a decision belongs to the application object and is not ordered with
the events of `mainQueue`, so completions are taken in any order.

`ControlledAdmission` says what admission promises, with none of the threads:
the set of active sessions grows by one request at a time, only while access
is allowed and only for a request that offered the password current at that
very moment, within both limits, never twice for one session of one peer.

### `CallbackLifetime`, `CallbackScope`

`src/util/qt/qt_callback_util.h:18-130`: `tryEnter`, `leave` and
`closeAndWait`. Each runs under `m_mutex` and is one action; `wait` is two
states, asleep and notified, and a wake-up may be spurious. `inside` holds the
permits; `active` and `activeByThread` are the code's counters. A thread's
calls nest. The closing thread runs no callback while it is blocked.
`CallbackScope` is a set of callbacks that is open, then refuses, then is
quiet: from then on only the closing thread's own calls are inside.

### `SessionTeardown`

Composes `CallbackLifetime` with what makes its end difficult: callbacks that
block. `readControllerClipboardFileChunk`
(`src/webrtc/cli/channel/webrtc_cli_clipboard_channel.cpp:1252-1342`), called
on the system's threads, posts a request to the session's thread and sleeps in
slices until an answer comes, the deadline passes or the shutdown starts;
`performDestroy` (`webrtc_cli_cleanup.cpp`) sets the flag, wakes the sleepers,
closes the lifetime and waits, clears the transfers; the window deletes the
object after its thread ended.

A reader's states are the places where it holds or awaits
`m_clipboardStreamMutex`. Its `inbox` holds what is queued to the session's
thread: requests to send and answers to handle. The callback that receives an
answer on libwebrtc's thread and the event it posts are one step. The peer may
answer late, twice or never; `invokeMethod` may fail. Readers are foreign
threads: the branch for a read on the session's own thread is not taken. The
controller's side has the same structure with a limit on pending reads.
`MaxInbox` bounds the queued events.

The header's comment (`qt_callback_util.h:97-100`) allows a callback on the
owner's own stack while the owner closes; this is modelled as a call of the
owner inside when the shutdown starts.

### `CallbackDispatcher`, `CallbackQueue`

`src/util/qt/qt_callback_util.cpp:33-96`. The mutex protects the queue and its
flag but not the call of `invokeMethod`, so `post` is an `Enqueue` and, for the
thread that raised the flag, an `InvokeDrain` or `InvokeFails` later. `drain`
takes callbacks one by one; a slice may be over at any callback (four
milliseconds) and is over at the limit. `CallbackQueue` is one line, served
from its front, thrown away only when Qt refuses a call. `MaxWaiting` bounds
the queue.

### `FileIngress`, `FileDelivery`

An upload from the controller's pool tasks to the committed file, on the
threads it crosses.

| Variable | Code |
|---|---|
| `sent`, `wire`, `channel` | `sendPacketStream`'s position in each packet, the data channel's buffer and state |
| `cancelRequested`, `cancelOnWire` | the controller's `markTransferCancelled`, the message on the file-text channel |
| `toPost`, `overflowing` | where libwebrtc's thread is in `onFileChannelMessage` and the other callbacks |
| `ingress`, `ingressBytes`, `ingressScheduled`, `ingressOverflowed` | `m_fileIngress...` |
| `batch`, `again` | locals of `drainFileIngress` |
| `buffers`, `stale` | `m_reassemblyBuffers`; which are ten minutes old |
| `packet`, `written` | the packet in `processFileDataPacket`; what `QSaveFile` committed |
| `cancelled`, `cancelledAt`, `staleCancels` | `m_cancelledTransfers` |
| `shutdown`, `destroyRequested` | `m_shutdownStarted` and the stages of `performDestroy`; `destroyCli` was emitted |

The module extends `CallbackDispatcher`: its callbacks are the four that the
file channel posts. A fragment is its packet and index; a packet's bytes are
its fragments' indices, so "whole" can be said. A full fragment has
`FullBytes`, a last one has one. Clock values are replaced by "ten minutes
have passed", which makes everything present stale; the cancellations keep the
order in which they came, since a full table drops the oldest. Invalid
fragments are left out, the sender makes none. After `close` libwebrtc may
deliver what it had buffered or not. The two tests of `m_shutdownStarted` in
`onFileChannelMessage` are one. Callbacks come on libwebrtc's thread, and the
branch for the session's own thread is not taken. The controller receives
downloads by the same queue.

`FileCancel` adds `barred`, the files whose cancellation was handled before their
copy began and has been remembered since; it constrains nothing.

### `SessionSignals`, `ControlledWorkers`, `ControllerSession`, `SessionReconnect`, `DialledSession`

A controller's window and the workers it makes on the controlled device, over a
signaling service that may lose any message. `SessionSignals` has the messages
of both directions; all of them carry the window's one session identifier, so a
message says nothing of the connection it was meant for, and the model has no
identifier. What it has instead are numbers: each CONNECT has one, and so have
the peer connection it was sent for and the worker it makes. No guard of a
handler looks at a number; they say which offer, answer and worker belong
together, which libwebrtc knows and the program does not. A number nothing
mentions any more is used again.

`ControllerSession` is `WebRtcCtl` (`src/webrtc/ctl/lifecycle`, `signaling`,
`peer`):

| Variable | Code |
|---|---|
| `peer`, `wired` | `m_peerConnection`; whether its callbacks were set (`init` can end between the two) |
| `ice`, `applying`, `remote`, `answering` | external: the transport, the offer `SetRemoteDescription` works on, the offer it has, the offer `CreateAnswer` works on |
| `posted` | the queue of `m_peerCallbackDispatcher`; it survives the peer connection |
| `m_remoteDescriptionInFlight`, `pendingOffer` | the flag and `m_pendingRemoteDescriptionData` |
| `m_allowReconnect`, `m_shutdownStarted`, `closing` | the same; `m_shutdownRequested` and `m_shutdownDone` |
| `m_peerStartupTimer`, `m_reconnectTimer`, `m_reconnectPending`, `pathTimer` | the timers, the flag of `scheduleReconnect`, the single shot of `setNetworkPath` |
| `mistaken`, `endedBy` | history: since the last dial, a former peer's report that it is up was taken for this one's; what ended the window |

A handler of the worker's thread is one action; `doReconnect`'s `destroy` and
`init` are one step because nothing runs between them, and `init` ends in one of
two ways (`InitSucceeds`, `InitFails`). What libwebrtc's threads do is two steps:
they post, and the dispatcher runs it later, on whatever peer connection there
is then. `ControlledWorkers` is the other device as this window sees it:
evaluation, admission, one worker per CONNECT with its offer, answer, startup
timer, failures and end. Every worker of the session hears every message.
`DialledSession` is the promise: a new call only after the old one was taken
back, none after the window is closed.

Left out: candidates and `m_remoteDescriptionSet`, the measured path, the
heartbeat's arithmetic (`ice # "idle"` stands for a negotiated heartbeat
channel), tracks and data channels. On the controlled side applying a
description is one step. A worker that ends because its heartbeat channel closed
or fell silent sends a final reason like one whose peer connection failed, and is
that step.

### `WsClient`, `SignalLink`

`WsCli` (`src/websocket`): one socket, two timers and the phases of the retries,
the queue of messages handed over while offline, and the presence requests.

| Variable | Code |
|---|---|
| `supported`, `started`, `m_shutdownDone` | whether the URL can be used, whether `init` ran, the end |
| `sock`, `m_connected`, `m_heart_timer` | the state of `m_ws` (`"none"` when null), the client's own flag, the heartbeat |
| `m_reconnect_timer`, `m_reconnect_followup_timer`, `m_socketConnectTimer` | the two timers; the clock of the handshake, as off, young or 10 s old |
| `m_reconnect_phase`, `m_reconnect_count` | the same |
| `m_pendingMessages`, `current` | the queue; which of it has the generation of `m_messageGeneration` |
| `m_presenceDevices`, `m_presenceRequests`, `aged`, `queryWindow` | the list, the outstanding requests, those 8 s old, the second between two batches |
| `shown`, `answers` | what was published for each device; external: answers on their way |
| `wire`, `since`, `proof` | history: what was sent, what each message has seen, what a device answered in time |

`QWebSocket::abort` emits `disconnected` before it returns, so
`onWsDisconnected` is a part of every handler that aborts: a refused message, a
full queue, a change of server, a handshake that hangs, the shutdown. The order
of its assignments and the caller's is kept: `resetUrlAndReconnect` stops the
retry timer and the abort starts it again. `SignalLink` is the promise: a
message is sent at most once and in the order of hand-over; a message of a
WebRTC session never after the connection it was handed over for was lost;
nothing of one server on another. Left out: this device's answers to others'
presence requests and their rate limit, message sizes and an empty local identifier.
`Verdicts` are the states a device can be shown in: an answer or a server's
error about it makes it online, offline or unknown again. This device itself,
`LocalId`, is shown online at once, without a request.
`Positions` has the one operator on sequences the queue needs: what a loop keeps
when it skips entries (`Pick`), defined by counting so that it can be reasoned about.

The first handshake of `init` and of a change of server has no follow-up timer,
only a retry's has (the comment at
`src/websocket/ws_cli_reconnect.cpp:161` explains why a retry's has one), so
`RetryArmed`, a part of `NothingStuck`, and `NeverGivesUp` speak of a retry's handshake: `Retrying`.

### `TerminalStream`, `TerminalTranscript`

The output of a remote shell on its way to the screen, and the pauses sent the
other way, over one connection: `WebRtcCli` and its `TerminalSession`
(`src/webrtc/cli/terminal`, `src/terminal/session`), the terminal part of
`WebRtcCtl` (`src/webrtc/ctl/channel/webrtc_ctl_file_text_terminal.cpp`) and
`TerminalWindow` (`src/ui/terminal`).

| Variable | Code |
|---|---|
| `win` | `m_started`, `m_terminalFallbackRequested`, the start timer, `m_terminalStartGeneration` |
| `signals` | `terminalInfo`, `terminalClosed`, `terminalError` queued to the window |
| `ctl` | `m_terminalStartRequestId`, `m_pendingTerminalOutput`, `m_terminalOutputNeedsReset`, `m_terminalOutputInFlight`, `m_terminalFlowPaused` |
| `ingress`, `batch` | `m_fileTextIngress` and the local queue of `drainFileTextIngress` |
| `emulator` | what the emulator has still to consume and acknowledge |
| `toCli`, `toCtl` | the two directions of the file-text channel |
| `cli` | `m_terminalSession` and its `m_outputPaused`, `m_terminalStartRequestId`, `m_terminalChannelPaused`, `m_terminalRemotePaused`, the poll timer, the pending chunks, `m_terminalOutputNeedsReset`, `m_pendingTerminalEnd...`, `m_connected`; `emitted` holds the session's signals of the current generation |
| `flickers`, `shown`, `torn` | history: interruptions, what was handed to the emulator or said to have ended, chunks refused for their size |

A chunk of output is the unit of every buffer. A mark stands for
`kTerminalOutputResync`, which cancels an escape sequence and clears the screen.
Signals of a session are queued in the model although most are direct calls: a
paused session may have read something before the pause. A shell may write a
chunk over the limit of one message only after QProcess has hoarded output during
a pause. `bufferedAmount()` is any part of what is under way. The window's call of
`WebRtcCtl` is queued; what the window could hear before the call is handled is of
an older request and ignored, so the call and its handling are one step.
`TerminalTranscript` is the promise: of the shell called last, each chunk at most
once and in order, a mark wherever chunks are missing and between two shells, and
the end after the last of its text; a chunk refused for its size is the only one
that may be missing unmarked.

Left out: input and resizing, the audit parser, messages without a request
identifier (older peers), the backlog of the log writer (a fourth summand in
`updateTerminalFlowControl`), the overflow of the file-text queue (which closes the
channel), and reconnection, which makes a new worker on the other side.

### `ClipboardSync`, `ClipboardLanes`

Texts on their way between the two clipboards: the controller's window, which
notes what it has sent (`src/ui/control/input/control_window_input_keyboard.cpp`),
the clipboard channel of both workers
(`src/webrtc/ctl/channel/webrtc_ctl_clipboard_channel.cpp` and its twin
`src/webrtc/cli/channel/webrtc_cli_clipboard_channel.cpp`), and the controlled
side's window thread, which alone reads and writes its clipboard
(`src/util/clipboard/clipboard_util.cpp`). The sending and the receiving half are
the same code twice, so their actions take the side as a parameter.

| Variable | Code |
|---|---|
| `win` | `m_lastObservedClipboardSignature`, `m_lastSyncedClipboardSignature`, `m_localClipboardDirty`, and a `dataChanged` still to come |
| `requests`, `applies` | the window's signals to its worker, and `localClipboardPayloadReceived` |
| `inbox`, `asked` | what the channel has posted to each worker; who wants the session over |
| `pending` | `m_pendingClipboardControlMessages` |
| `chunks`, `scheduled`, `timers`, `dated` | `m_clipboardChunkSendQueue` as the steps left to send, `m_clipboardChunkSendScheduled`, the single shots under way, the deadline of the head |
| `partial` | `m_clipboardInboundText...` |
| `gui`, `done`, `expanding` | tasks of the controlled side's window thread, their completions, the pool's expansions |
| `cli`, `applied` | `m_lastSentClipboardPayloadSignature`, `m_lastRemoteAppliedClipboardPayloadSignature`, the monitor and the snapshot timer; the signature all sessions of the process share |
| `issued`, `faults`, `gestures`, and `from` in a text | history and bounds |

A text is sent inline or in chunks, by its size; the chunk queue is emptied by a
timer that sends the control queue first. Clearing the flag does not stop a single
shot that is under way: it still fires, into whatever queue there is by then, which
is why `timers` counts them. `bufferedAmount()` is any part of what is under way.
`ClipboardLanes` is the promise: each way two queues, short and long, out of which
texts come whole, once and in order, and which lose something only while the
channel is not open or by a fault. A queue of it is the set of the numbered texts
under way (`LaneOf`), wherever they are: in a queue of the sender, chunk by chunk, or
posted to the receiver. A long text counts as under way only while its beginning has
come or is to come (`Begun`): the end alone of a text cut off brings nothing. What
comes out are the tasks of the thread that writes the clipboard; its reads are the
chores of the promise.

Left out: images, files and their promises (`SessionTeardown` has the blocking
reads), the paste shortcut after a result, the selection clipboard, the limits on
bytes and on the texts in reassembly (eight),
and the window that closes. A worker of the controller that redials twice
for one loss is left to `SessionReconnect`.

## 4. Runs

| Run | Configuration | Shows |
|---|---|---|
| `overflow_audit` | 4 rejections, 3 tasks | nothing lost, doubled or forgotten, one reporter; implements the ledger; everything counted is eventually reported |
| `access` | 2 CONNECTs (desktop, file) of one controller, or one and an audit failure; queue of 1, 2 policy changes (the second before the second CONNECT) | exact counter, sessions and their audits sound, tray and registry agree, nothing registered after quit, implements `ControlledAdmission`; CONNECTs are settled, shutdowns and negotiations end, disconnects end the worker, quitting ends every worker and closes its audit |
| `teardown` | 2 readers of 1 chunk, 2 queued events, a silent or late peer | no unclaimed answers, reads get their own bytes, the teardown keeps its order; the shutdown returns without the clock, and where the clock runs a read returns; the lifetime underneath implements `CallbackScope` |
| `file_ingress` | files of 2 and 1 fragments, queue of 2 fragments or 3 bytes, batch of 1, 1 reassembly, disk and Qt failures, 1 expiry | byte count exact, nothing after shutdown; implements `FileDelivery` and, underneath, `CallbackQueue` |
| `file_live` | the same with 2 reassemblies and without failures and expiry, a history variable for cancellations (`FileCancel`; with expiry the property is proved) | drains come, what is sent is written, an overflow ends the session, a cancellation handled before the copy began keeps the file from being written |
| `session_reconnect` | 3 numbers of CONNECTs, 2 troubles | the window never waits for nothing, is connected again and again, leaves no worker behind; implements `DialledSession` |
| `terminal` | 2 calls of a shell of 3 chunks and 1, buffers of 1 and 2, 1 interruption | pauses end, a window learns of the end; implements `TerminalTranscript` |
| `clipboard` | a short and a long text of 1 chunk, batches of 2, 1 message may wait, 2 gestures, 1 fault | no echo, no change forgotten, no queue without its timer; implements `ClipboardLanes` |
| `ws_link` | 2 session messages, 1 other, queue of 2, a list of 1 device and this one, 1 change of server, phases of 1 attempt | the retry is armed and online means drained, presence is honest, a lost connection is retried; implements `SignalLink` |
| `access_session_id_reuse` | 2 CONNECTs with one identifier | **violated**: see findings |
| `access_audit_lost` | 1 audit failure | **violated**: see findings |
| `reconnect_startup` | as `session_reconnect` | **violated**: see findings |

The bounds: two requests make a queue of one overflow, and an old and a new
session of one controller overlap; every property relates at most two requests.
The limits on sessions are two in `access`, so that sessions overlap, and
refuse nothing there; that they hold is part of `AdmissionRefined`, which is
proved for every limit. Two policy changes give off-and-on again and two
passwords. One audit failure is followed by its repair (saving
the settings opens the log again); `MCNext` of `MCControlledAccess` allows it or a
second CONNECT, not both in one behaviour, and lets the policy change a second
time only while the second CONNECT is still to come: with the first session on its
way the switch goes off and on again and the second meets what is left of it. The counters that bound the
behaviours are `MaxPolicyChanges` and `MaxAuditFailures`.

For the callbacks: a call on the closing thread, foreign ones and a nested one
are what distinguishes the two counters. Two overlapping reads of one
promised file are what a late answer can confuse; more than one chunk per read is
left to the proofs, which hold for any number. A
queue of two fragments and three bytes overflows by either limit, and two
files are in the reassembly together; a batch of one leaves fragments behind
at every drain, so that `scheduleNext` is used.

For the reconnect: `MaxTroubles` bounds, in one behaviour, the lost messages,
failures, refusals, path switches, local disconnects and timers that fire while
something they wait for is still on its way. Two of them let one hit the
recovery from the other. A dial that finds none of the `MaxDials` numbers free
would be put off until one is; one put off for ever would violate `Recovers`.
For the signaling client a queue of two overflows with three messages, phases of
one attempt pass through all four phases, and `MaxResets` bounds the changes of
server. `Lists` are the lists whose presence is asked for; the one of the run has this
device and another, and no property relates two others.

For the terminal: three chunks of the first shell overflow the pending chunk of
`WebRtcCli` (one) or the two of `WebRtcCtl` while one is with the emulator; the
watermarks are such that one chunk is below the upper and above the lower one. A drain
takes two messages (`MaxDrain`), so that it leaves some behind and posts itself again. The
second shell, called while the first still runs, by the fallback or after its end,
needs one chunk and its end to be confused with the first. `MaxEmitted` bounds the
signals a session may have under way.

For the clipboard: a long text of one chunk has three messages, so that a batch of
two leaves one behind, and the short text can overtake it. `MaxGestures` bounds the
copies, pastes and requests of the two users; the text the clipboard held at the
start counts as one. `MaxFaults` is one of a lost or renewed session, a refused
message, a time-out of either end and a failed write; a lost session brings with it
a redial and a second worker, so old tasks, timers and messages meet the new ones.

Fairness: the main thread's and the workers' event loops run, the pool runs
its tasks, an active timer fires, `~MainWindow` goes through its copy (all
weak fairness of a handler that stays enabled). Peers, the local user and the
disk owe nothing. In `teardown` the reader's steps and the owner's shutdown
are weakly fair; the peer and the clock owe nothing. `ReadReturns` assumes, in
its premise `ClockRuns`, that slices end and that a deadline that can pass
again and again does (strong fairness, since between two slices the reader is
awake). The dispatcher's threads leave `post`, the event loop runs, and a slice is not
forever over before its first callback (strong fairness of `TakeCallback`). In
`file_live` libwebrtc's thread and the session's thread run; the controller
need not send anything. In `ws_link` the timers fire and the clock goes on; the
server may refuse every handshake. In `session_reconnect` every thread goes on
with what it was given, a timer fires once nothing is under way that it would
have waited for (`Quiet`), and libwebrtc connects two peers that have each
other's description and notices a counterpart that is gone; the user owes
nothing but the end of a shutdown that was asked for. In `terminal` one weak
fairness covers all of `Forced`: some event loop, timer, delivery or acknowledgement
goes on while any can. That is less than each of them being fair, and enough because
whatever they do uses up something finite; the shell, the user and the window's
timeout owe nothing, and an interrupted connection returns (one that does not
ends the session). Deadlock is checked in
the run of the teardown; in the others a behaviour may be finished and stop.

`TypeOK` of `SessionTeardown` and `FileIngress` contains the type invariants of
the modules they extend, whose own properties are checked in the runs of their
users. `OverflowAudit`'s type invariant, `OneDrainOnItsWay`, `NobodyStranded` and
`NeverAsleepForNothing` have no run of their own: they are proved, and the
refinement and liveness properties fail when they do.

## 5. Findings

1. `access_session_id_reuse`. The controller's window keeps one session
   identifier for all its reconnects
   (`src/webrtc/ctl/lifecycle/webrtc_ctl_lifecycle.cpp:36`). The registry
   accepts the new CONNECT while the old worker is being shut down. The old
   worker's `controlledSessionDisconnected`, handled after the new worker's
   `controlledSessionConnected`, removes the tray entry by identifier
   (`src/ui/main/events/main_window_events.cpp:379`): the session stays
   connected, but the local user neither sees it nor can disconnect it, and
   switching access off does not reach it.
2. `access_audit_lost`. The log becomes unavailable after a request was
   evaluated. `handleAuditFailure` disconnects the sessions registered at that
   moment; the request completes afterwards, is admitted and connects, without
   an audit log.
3. `reconnect_startup`. A worker of the controlled device whose `init` fails
   reports an error, which the controller answers with a reconnect, and then, from
   `performDestroy`, a disconnect for its default reason `remote_or_network`
   (`src/webrtc/cli/webrtc_cli.h:118`); a connection that fails before it was
   ever up sends `network_error`. `parseWsMsg` takes both for the end of the
   session, disables the reconnect and the window closes. Its comment
   (`src/webrtc/ctl/signaling/webrtc_ctl_signaling.cpp:76-78`) says that a
   startup failure keeps the window alive.

Smaller observations, which no text contradicts. A second path switch within
1.2 s of the first is dropped. A disconnect that arrives during that delay is
dropped too, and the switch dials again; `setNetworkPath` does not look at
`m_allowReconnect`. The late `network_error` of an old worker ends the session
its window has dialled since. A late answer refused by a worker that is
connected already destroys that worker. A second CONNECT of a session that still
has a worker is dropped without a word; the window recovers by its startup
timer. A CONNECT refused for a wrong password is an access error, which leaves
the startup timer running: the window asks again after 15 s. A callback posted
by the former peer connection acts on the new one. Most of it does no harm: a
stale failure makes the window dial again. A stale report that the connection is
up stops the timers of one that is not (`mistaken`), and the window then waits
for something else to happen: without its `~mistaken`, `NeverStranded` fails
after fourteen steps, in which a connection comes up as the reconnect timer
fires, the next `init` finds no peer connection, and the old report stops its retry.

Of the terminal. A message over one MiB is refused with a pause that
`m_terminalFlowPaused` does not record, so nothing sends the resumption until more
text fills the queue, which a paused shell does not write; a shell in pipe mode
can come to it, since QProcess reads on during a pause and `readAll` returns it
all as one message. If the refused message carried a mark, the mark is lost. A
process that ends while its output is paused loses what QProcess had read
(`onFallbackFinished`). Acknowledgements of an older shell's text are counted for
the new one, which delays a pause and no more.

Of the clipboard. A short text overtakes a long one in chunks, and the older is
applied last. A text emitted while the worker has no channel is cleared by the
redial, and the window, which has noted it as synced, does not send it again. A
write left over from an earlier session is not known to the next worker, which may
send the text back. The receiver gives a transfer up after 15 s without a chunk, the
sender after 45 s.

## 6. Proofs

`OverflowAuditProofs` proves, for any number of tasks and rejections, type
correctness, the exact accounting of rejections, the single reporter, the
absence of a lost wake-up, and that every step is a step of the ledger. The
inductive invariant `IInv` adds to the checked properties that a task that
holds a count is in the reporting section, and that the flag is set exactly
while some party owns it.

`ControlledAccessProofs` proves, for any finite set of CONNECTs, any limits
and any number of policy changes (assumptions `RequestsAssumption` and
`LimitsAssumption`):

- `AccessTypes` and `PendingCountExact`. Neither is inductive alone: that the
  counter stays exact when a thread's end is handled needs to know that the
  request was admitted. `RegistryInv` adds `WorkersAdmitted`: running workers,
  pending shutdowns and queued `finished` events belong to admitted requests,
  which by `AdmittedStays` remain admitted.
- `QuitIsFinal`, from the same invariant, action by action.
- `AdmissionRefined`: `Spec => Admission!Spec`. The strengthening `PolicyInv`
  says why comparing generations is enough: a decision under way whose
  generation is the current one was taken on the current password, and an
  accepted decision's request supplied the password of its snapshot.
- `SessionsAreSound`. `SessionInv` adds what a worker's flags say of each other
  (`WorkerFlags`), that a request stays accepted only until its completion
  (`AcceptedPending`), and, while the window is there, for each worker the life it
  leads (`Living`): a session has a worker or a pending shutdown, a shutdown that a
  worker was told of or has begun is pending, and the end of its thread is
  announced only once it no longer runs. Afterwards nothing is registered and the
  main thread's queue is gone (`WindowState`).
- `TrayEntriesLive` and `TrayIsRegistry`. `TrayInv` adds the order of a worker's
  signals in the main thread's queue (`Ordered`: connected before disconnected
  before finished) and what each of them finds when it is handled
  (`Announced`). That an entry is a registered session holds whatever the
  identifiers are. That a connected session has its entry is proved only under
  `IdsDiffer` (no two CONNECTs share an identifier), a hypothesis the code does
  not enforce: without it the claim is false, and the run
  `access_session_id_reuse` shows how.

The first part of `SessionTeardownProofs` proves all four safety properties of
`CallbackLifetime` and its refinement for any calls and threads. `LifetimeInv` ties `m_active` to the cardinality of
the permits and each thread's count to its own, and says that a sleeping owner
has a foreign call inside that has not left.

Its second part proves the safety properties of the session for any readers and
sizes;
`ReadsAreSound` puts together that nothing is unclaimed and that reads are their
own, `TeardownIsSound` that readers are woken, callbacks leave and members go in
this order.
`SessionIsLifetime` shows that a session's steps are steps of its lifetime, so
that the lifetime's theorems apply. `ShutdownInv` relates the owner's stage to
the flag, the wake-up and the sleepers; `ClaimInv` relates the pending requests
to the waiting readers (with `UnissuedUnseen`: no answer is on its way to a
request that was never made); `OwnInv` says that what a reader has collected is
a beginning of its file, with at most one chunk on its way.

The first part of `FileIngressProofs` proves the dispatcher's properties and
`Spec => Queue!Spec` for any threads, callbacks and slice limit. The invariant
adds only that a callback is run below the limit.

Its second part proves, for any number and size of files, any limits and
any set of failures (`FilesAssumption`):

- `SessionTypes`, and `SessionIsDispatcher`, by which the dispatcher's theorems
  hold of the session.
- `ShutdownLeavesNothing`. The owner has fragments in its hands only inside a
  callback (`OwnerInv`), and it shuts down outside every callback.
- `FragmentsHaveADrain`, under the assumption that Qt refuses no call: the flag
  is up only while a drain is queued, about to be posted or about to be posted
  again. Without the assumption it is false, see the hazards.
- `FilesAreDelivered`: `Spec => Delivery!Spec`. The fragments on their way form
  one line (batch, queue, channel) in which those of a packet ascend, whatever
  is lost (`PipeInv`); a packet that is complete or written has nothing left in
  the line, so it is not written twice (`OnceInv`); what is assembled is a
  beginning of its packet (`ContentInv`).
- `IngressIsAccounted`. The count is a sum over the queue (`BytesOf`), taken apart
  where a drain, an overflow or a clearing cuts it: `BytesAppend` and `BytesSplit`
  say what the sum of a longer and of a cut queue is. `AccountKept` then needs
  nothing but the sum.
- `CancellationIsHeeded`. The code looks at the table once per file, between the
  last fragment and the copy, and the look itself forgets what is old; `NoCopyBegins`
  says that what the look leaves in the table is what it goes by.

`WsClientProofs` proves, for any messages, devices, queue limit, number of attempts
per phase and changes of server:

- `WsTypeCorrect`, `WsNothingStuck` and `WsPresenceHonest`, from the one invariant
  `WsInv`. Its part about the queue, `QueueSound`, says that the generation is what
  tells the connections apart: a message of the current one has seen no loss, and
  one that still waits no change of server.
- `WsImplementsLink`: `Spec => SignalLink`. Most of the work is in what a flush or
  a change of server keeps of the queue: `Pick` of an ascending queue ascends and
  has only what its positions say.

`SessionReconnectProofs` proves, for any number of CONNECTs and of troubles
(`SignalsAssumption`):

- `ReconnectTypes`, also of the messages both ways and of the workers.
- `WindowNeverStranded`. `SessionInv` adds to it what every timer presupposes
  (`TimerInv`): after `destroy` there is no peer connection, and for a window that
  may still reconnect the single shot of `setNetworkPath` runs (`Dormant`); the
  startup timer is only for a peer connection that is there and not up (`Watched`).
  And `FailureFollows`: a posted "connected" is true, or the failure is posted
  behind it. This is why `RunConnected`, which stops both timers, strands nobody;
  it holds because a new peer connection has posted nothing yet.
- `CallsAreTakenBack`: `Spec => Dialled!Spec`, from `TakenBack`: the reconnect timer
  runs only after a goodbye.

`TerminalStreamProofs` proves `StreamTypes`, `PausesEnd` and `TranscriptImplemented` for
any starts, texts, limits and any order of the wires. The first two come from one
invariant, `StreamInv`. A pause has an end
for two reasons, one per side. The controller's is lifted by an acknowledgement, so
`Heavy` says that it pauses only while text is unacknowledged whose acknowledgement
will lift it. The controlled side's is lifted by its poll, so `Armed` says that a full
channel leaves the poll timer running, and `Watched` that what it keeps has someone who
sends it. `Loaded` ties them together: a full buffer means that the controller already holds
the shell paused, so that the pause sent with a dropped chunk is one it knows of.
Most of the steps are about sums (`Units`) over queues that are cut, appended to and
filtered; they are stated by counting positions, one lemma per way a queue changes.

`TranscriptImplemented` is `Spec => TerminalTranscript`: the screen shows each call of
the shell after the ones before it, in the shell's order, and a clear screen wherever
text is missing. Nothing on the screen alone says that the next chunk fits, so
`TranscriptOK` looks at everything between the shell and the screen as two sequences.
`Page` is what is shown and what the controller still keeps; `Line` is everything behind
it, from the batch being drained to the chunk the shell will print next, with the mark
that a `needsReset` on the controlled side will put on its first chunk:

- `LineOK`: the line is in the order the shells printed (`InTurn`), brings nothing the
  page has already (`IsNew`), and, for the call the controller follows, a chunk
  continues the one before it, carries a mark, or is the first and joins the page
  (`Linked`). A step of the controlled side only moves the boundary between the
  wires and what it keeps, or drops what it keeps and marks what is left, so that one
  lemma per operation on a sequence covers all its handlers. `Joins` is also true
  over a chunk refused for its size (`torn`), which the code neither shows nor marks.
- `PageOK`: the page keeps the promise also where it is not shown yet, and ends with
  the call the controller follows or with a mark, or a mark is due. This is what makes a
  START safe: the chunk 1 of the new call finds a page it may follow.
- `RequestsGrow`: STARTs under way are newer than the shell and in order. Without
  it a late START could bring back an old call whose text is on the page.
- `ShellTidy`: what the controlled side keeps is of its own shell, and an exit is the
  last thing the shell signals.

`ClipboardSyncProofs` proves `ClipTypes` and `ClipIsSound` for any texts, numbers of
chunks, limits, faults and gestures, from one invariant, `ClipInv`:

- No echo. Everything the controlled side holds for the channel is none of its
  controller's texts (`Lane`, with `SentBy`). It sends unasked what it has read, and
  compares it with what it has noted down as applied; it need not have noted down
  the last write yet when it reads. `EchoOK` says that it will have: completions of
  the window thread are handled in order, so that a read comes after the write it saw
  (`KnownAt`), and as long as something may still lead to a read (`Watching`) the text
  in the clipboard is, once what has been completed is handled, the one noted down.
  What excludes a write left over from an earlier session is `live`.
- No change forgotten. `WindowOK` adds that a text the window has observed and not
  synced is down as changed, without which the `IF` of `noteLocalClipboardChanged`
  could leave one behind.
- Nothing stranded. `Lane` ties the three facts of a chunk queue together: chunks are
  left only while the flag is up, and the flag is up only while a single shot is under
  way. The reverse is false, since a flag is put down without stopping the shot, and
  nothing needs it.
- Nothing torn. `PartialOK`: what has come of a text is a beginning of it, so that a
  text of `Chunks` chunks is whole, whatever was lost or expired.

`LanesImplemented` proves that every step is one of `ClipboardLanes`, from `ClipInv`
and a second invariant, `WaysOK`, about what is under way in each direction:

- Order (`Sorted`, `Ahead`). Texts of one kind and the steps of a long one are in
  their order in each of the three queues, and what has been posted precedes what
  waits. Short texts and chunks are not ordered among each other.
- No gap (`Gapless`, `Meets`). A step follows the one before it unless it is the first
  still under way of its text, and that one is the next the receiver waits for. This
  holds of the posted steps together with the queued ones only while the channel is
  open: a channel that is lost leaves a queue whose first steps are gone.
- No return (`Fresh`). When the opening of a channel is still to be heard, all that was
  told of before it is of older texts than what was told of after it, so that a text cut off is
  never completed by a later channel's steps.
- Numbers (`Numbered`): texts under way have been issued.

The promise of order out of a queue is the minimality of the text that comes out
(`Deliver`); it follows from `Sorted` and `Ahead`, since the receiver handles the head
of its inbox.

Two things were expected to be out of reach and are not. A sum over a sequence, or a
fact about all prefixes of one, is proved without an induction theorem: `LeastElement`
(every non-empty set of naturals has a least element, from the library's
`NatLessThanWellFounded` and `WFMin`) is applied to the set of counterexamples, which
is a set and no operator. And what loops keep of a queue is stated by counting
positions instead of by recursion.

Only model-checked: the liveness properties, which are out of the prover's reach.
Every invariant, action property and refinement that a run checks is a theorem, but
for the fairness that a refinement of a specification with liveness adds.

## 7. Not modelled

Message contents and wording; the tray icon's visibility; the desktop lock;
libwebrtc itself (any peer state may be reported in any order the handler
accepts); remote candidates; the file-text channel's own bound, directory
markers, progress and completion messages of transfers; the terminal's input,
its emulator and its log writer; clipboard images, files and formats; capture, codecs, audio, input
injection and the user interface, which are platform I/O or numeric pipelines.
`PROJECT.json` lists every
component with the reason.
