---------------------------- MODULE TerminalStream ----------------------------
(***************************************************************************)
(* The text of a remote terminal on its way from the shell to the screen,  *)
(* and the pauses sent the other way, over one connection.                 *)
(*   win   TerminalWindow, on the controller's window thread               *)
(*   ctl   the terminal part of WebRtcCtl, on its worker thread            *)
(*   cli   the terminal part of WebRtcCli and its TerminalSession          *)
(* A chunk of output is one unit of every buffer; a mark stands for the    *)
(* resync sequence, which clears the screen, and counts for nothing.       *)
(* External: the shell, the network, the emulator that consumes the text,  *)
(* and bufferedAmount() of the channel, some part of what is under way.    *)
(***************************************************************************)
EXTENDS Naturals, Sequences, FiniteSets, SequencesExt

CONSTANTS
    ChannelHigh, ChannelLow,    \* kTerminalChannel..Watermark: 256 and 64 KiB
    MaxPendingCli,              \* kMaxPendingTerminalOutputBytes of WebRtcCli
    FlowHigh, FlowLow,          \* kTerminalOutput..Watermark: 512 and 128 KiB
    MaxPendingCtl,              \* kMaxPendingTerminalOutputBytes of WebRtcCtl
    MaxDrain,                   \* kMaxMessagesPerDrain, 256 in the code
    MaxRequests,                \* bound: TERMINAL_START messages
    MaxWritten,                 \* bound: chunks of each shell
    MaxEmitted,                 \* bound: signals of a session not yet handled
    MaxFlickers                 \* bound: times m_connected is lost

ASSUME TerminalAssumption ==
    /\ {ChannelHigh, ChannelLow, MaxPendingCli, FlowHigh, FlowLow, MaxPendingCtl,
        MaxRequests, MaxEmitted, MaxFlickers} \subseteq Nat
    /\ MaxWritten \in [1..MaxRequests -> Nat]
    /\ ChannelLow < ChannelHigh
    /\ FlowLow < FlowHigh /\ FlowHigh <= MaxPendingCtl

ASSUME DrainAssumption == MaxDrain \in Nat \ {0}

VARIABLES
    win,        \* the window: started, fallback, startTimer, request
    signals,    \* queued signals of ctl to the window
    ctl,        \* request, pending, needsReset, inFlight, flowPaused
    ingress,    \* m_fileTextIngress of ctl
    batch,      \* the messages drainFileTextIngress took and has still to process
    emulator,   \* chunks the emulator has still to consume and acknowledge
    toCli,      \* messages under way to cli
    toCtl,      \* messages under way to ctl
    cli,        \* the controlled side, see Init
    flickers,   \* how often m_connected was lost
    shown,      \* history: what was handed to the emulator or said to have ended
    torn        \* history: the chunks refused for their size

network == <<toCli, toCtl>>
worker == <<ctl, ingress, batch, emulator, shown, torn>>
vars == <<win, signals, worker, network, cli, flickers>>

T == INSTANCE TerminalTranscript WITH called <- ctl.request

-----------------------------------------------------------------------------
(* Messages *)

Start(r, m) == [type |-> "start", of |-> r, mode |-> m]
Stop == [type |-> "stop"]
Flow(e) == [type |-> "flow", enabled |-> e]
Info(r) == [type |-> "info", of |-> r]
Ended(r) == [type |-> "ended", of |-> r]
\* n = 0 is the empty chunk, sent for its mark alone.
Output(r, k, b) == [type |-> "output", of |-> r, n |-> k, big |-> b, reset |-> FALSE]

IsText(m) == m.type = "output" /\ m.n > 0
Units(s) == Cardinality({i \in DOMAIN s : IsText(s[i])})

Init ==
    /\ win = [started |-> FALSE, fallback |-> FALSE, startTimer |-> FALSE, request |-> 0]
    /\ signals = <<>>
    /\ ctl = [request |-> 0, pending |-> <<>>, needsReset |-> FALSE,
              inFlight |-> 0, flowPaused |-> FALSE]
    /\ ingress = <<>> /\ batch = <<>> /\ emulator = 0
    /\ toCli = <<>> /\ toCtl = <<>>
    /\ cli = [session |-> "none",       \* m_terminalSession: none, pty or pipe
              request |-> 0,            \* m_terminalStartRequestId
              written |-> 0,            \* history: the shell's last chunk
              emitted |-> <<>>,         \* its signals of the current generation
              hoard |-> FALSE,          \* QProcess read on while the output paused
              outputPaused |-> FALSE,   \* m_outputPaused of the session
              channelPaused |-> FALSE, remotePaused |-> FALSE,
              pollTimer |-> FALSE,      \* m_terminalBackpressureTimer is active
              pending |-> <<>>, needsReset |-> FALSE,
              pendingEnd |-> 0,         \* m_pendingTerminalEndRequestId
              connected |-> TRUE]
    /\ flickers = 0
    /\ shown = <<>> /\ torn = {}

-----------------------------------------------------------------------------
(* WebRtcCtl: flow control *)

\* Its thread is between two handlers.
Idle == batch = <<>>

Capped(n) == IF n > FlowHigh THEN FlowHigh ELSE n
PendingUnits(c) == Cardinality({i \in DOMAIN c.pending : c.pending[i] # T!Mark})
QueuedBytes(c, in) == Capped(Units(in)) + Capped(PendingUnits(c)) + Capped(c.inFlight)

MustPause(c, in) == ~c.flowPaused /\ QueuedBytes(c, in) >= FlowHigh
MustResume(c, in) == c.flowPaused /\ QueuedBytes(c, in) <= FlowLow

updateTerminalFlowControl(c, in) ==
    /\ ctl' = [c EXCEPT !.flowPaused = (@ \/ MustPause(c, in)) /\ ~MustResume(c, in)]
    /\ toCli' = IF MustPause(c, in) \/ MustResume(c, in)
                THEN Append(toCli, Flow(MustResume(c, in))) ELSE toCli

-----------------------------------------------------------------------------
(* The window.  Its calls of ctl are queued, and ctl handles them between  *)
(* two handlers; what the window hears before that is of an older request, *)
(* which it ignores, so the call and its handling are one step here.       *)

\* Mutant: the screen is not cleared for the next shell.
beginTerminalStartGeneration_Unmarked(r) ==
    ctl' = IF ctl.request = 0
           THEN [ctl EXCEPT !.request = r]
           ELSE [request |-> r, pending |-> <<>>, needsReset |-> FALSE,
                 inFlight |-> 0, flowPaused |-> FALSE]

\* The flush timer, which is active while anything is pending, stops with it.
beginTerminalStartGeneration(r) ==
    ctl' = IF ctl.request = 0
           THEN [ctl EXCEPT !.request = r]
           ELSE [request |-> r, pending |-> <<>>, needsReset |-> TRUE,
                 inFlight |-> 0, flowPaused |-> FALSE]

sendTerminalStart(fallback) ==
    /\ win.request < MaxRequests
    /\ win' = [started |-> TRUE, fallback |-> fallback, startTimer |-> TRUE,
               request |-> win.request + 1]
    /\ beginTerminalStartGeneration(win.request + 1)
    /\ toCli' = Append(toCli, Start(win.request + 1, IF fallback THEN "fallback" ELSE "auto"))

WindowAlone == UNCHANGED <<signals, ingress, batch, emulator, shown, torn, toCtl, cli, flickers>>

\* The channel opened, or the heartbeat reports the connection restored.
TryStart ==
    /\ ~win.started /\ Idle
    /\ sendTerminalStart(FALSE)
    /\ WindowAlone

RetryInFallback ==
    /\ win.started /\ win.startTimer /\ ~win.fallback /\ Idle
    /\ sendTerminalStart(TRUE)
    /\ WindowAlone

GiveUp ==
    /\ win.started /\ win.startTimer /\ win.fallback /\ Idle
    /\ win' = [win EXCEPT !.started = FALSE, !.fallback = FALSE, !.startTimer = FALSE]
    /\ toCli' = Append(toCli, Stop)
    /\ UNCHANGED ctl
    /\ WindowAlone

\* onTerminalInfo, onTerminalClosed and onTerminalError.
HearSignal ==
    /\ signals # <<>>
    /\ signals' = Tail(signals)
    /\ LET m == Head(signals)
       IN  win' = IF win.started /\ m.of = win.request
                  THEN [win EXCEPT !.startTimer = FALSE, !.fallback = FALSE,
                                   !.started = m.type = "info"]
                  ELSE win
    /\ UNCHANGED <<worker, network, cli, flickers>>

-----------------------------------------------------------------------------
(* WebRtcCtl: its messages and timers *)

Deliver ==
    /\ toCtl # <<>>
    /\ toCtl' = Tail(toCtl)
    /\ ingress' = Append(ingress, Head(toCtl))
    /\ UNCHANGED <<win, signals, ctl, batch, emulator, shown, torn, toCli, cli, flickers>>

\* What it leaves behind it takes next time: it posts itself again.
drainFileTextIngress ==
    /\ Idle /\ ingress # <<>>
    /\ LET n == IF Len(ingress) < MaxDrain THEN Len(ingress) ELSE MaxDrain
       IN  /\ batch' = SubSeq(ingress, 1, n)
           /\ ingress' = SubSeq(ingress, n + 1, Len(ingress))
           /\ updateTerminalFlowControl(ctl, SubSeq(ingress, n + 1, Len(ingress)))
    /\ UNCHANGED <<win, signals, emulator, shown, torn, toCtl, cli, flickers>>

\* What an output message adds to the text.
TextOf(m) ==
    (IF m.reset THEN <<T!Mark>> ELSE <<>>)
        \o (IF m.n > 0 THEN <<T!Chunk(m.of, m.n)>> ELSE <<>>)

IsFull(m) == IsText(m) /\ PendingUnits(ctl) >= MaxPendingCtl

RefuseBig(m) ==
    /\ m.big
    /\ toCli' = Append(toCli, Flow(FALSE))
    /\ torn' = torn \cup {T!Chunk(m.of, m.n)}
    /\ UNCHANGED ctl

DropFull(m) ==
    /\ ~m.big /\ IsFull(m)
    /\ ctl' = [ctl EXCEPT !.needsReset = TRUE]
    /\ toCli' = Append(toCli, Flow(FALSE))
    /\ UNCHANGED torn

WithText(m) ==
    [ctl EXCEPT !.pending = @ \o (IF ctl.needsReset THEN <<T!Mark>> ELSE <<>>) \o TextOf(m),
                !.needsReset = FALSE]

AcceptText(m) ==
    /\ ~m.big /\ ~IsFull(m)
    /\ updateTerminalFlowControl(WithText(m), ingress)
    /\ UNCHANGED torn

ProcessOutput(m) ==
    /\ m.type = "output" /\ m.of = ctl.request
    /\ RefuseBig(m) \/ DropFull(m) \/ AcceptText(m)
    /\ UNCHANGED <<signals, emulator, shown>>

ProcessInfo(m) ==
    /\ m.type = "info"
    /\ signals' = Append(signals, m)
    /\ UNCHANGED <<ctl, emulator, shown, torn, toCli>>

\* flushTerminalOutputBeforeSessionEnd, then the end.
ProcessEnd(m) ==
    /\ m.type = "ended" /\ m.of = ctl.request
    /\ shown' = shown \o ctl.pending
                      \o (IF ctl.needsReset THEN <<T!Mark>> ELSE <<>>)
                      \o <<T!End(m.of)>>
    /\ emulator' = emulator + PendingUnits(ctl)
    /\ ctl' = [ctl EXCEPT !.pending = <<>>, !.needsReset = FALSE,
                          !.inFlight = 0, !.flowPaused = FALSE]
    /\ toCli' = IF ctl.flowPaused THEN Append(toCli, Flow(TRUE)) ELSE toCli
    /\ signals' = Append(signals, m)
    /\ UNCHANGED torn

IgnoreStale(m) ==
    /\ m.type \in {"output", "ended"} /\ m.of # ctl.request
    /\ UNCHANGED <<ctl, signals, emulator, shown, torn, toCli>>

handleTerminalTextChannelObject ==
    /\ batch # <<>>
    /\ batch' = Tail(batch)
    /\ \/ ProcessOutput(Head(batch))
       \/ ProcessInfo(Head(batch))
       \/ ProcessEnd(Head(batch))
       \/ IgnoreStale(Head(batch))
    /\ UNCHANGED <<win, ingress, toCtl, cli, flickers>>

flushTerminalOutput ==
    /\ Idle /\ ctl.pending # <<>>
    /\ LET units == IF Head(ctl.pending) = T!Mark THEN 0 ELSE 1
       IN  /\ emulator' = emulator + units
           /\ updateTerminalFlowControl(
                  [ctl EXCEPT !.pending = Tail(@), !.inFlight = @ + units], ingress)
    /\ shown' = Append(shown, Head(ctl.pending))
    /\ UNCHANGED <<win, signals, ingress, batch, torn, toCtl, cli, flickers>>

\* Mutant: an acknowledgement of an older request's text counts.
acknowledgeTerminalOutput_Unbounded ==
    /\ Idle /\ emulator > 0
    /\ emulator' = emulator - 1
    /\ updateTerminalFlowControl([ctl EXCEPT !.inFlight = @ - 1], ingress)
    /\ UNCHANGED <<win, signals, ingress, batch, shown, torn, toCtl, cli, flickers>>

acknowledgeTerminalOutput ==
    /\ Idle /\ emulator > 0
    /\ emulator' = emulator - 1
    /\ updateTerminalFlowControl(
           [ctl EXCEPT !.inFlight = IF @ > 0 THEN @ - 1 ELSE 0], ingress)
    /\ UNCHANGED <<win, signals, ingress, batch, shown, torn, toCtl, cli, flickers>>

-----------------------------------------------------------------------------
(* WebRtcCli.  The helpers take and return the record cli together with    *)
(* the messages to be sent; "gone" is what left the channel's buffer.      *)

Buffered(sent, gone) == Units(toCtl \o sent) - gone

Marked(c, m) == [m EXCEPT !.reset = c.needsReset]

scheduleTerminalBackpressurePoll(c) ==
    [c EXCEPT !.channelPaused = TRUE, !.pollTimer = TRUE,
              !.outputPaused = c.session # "none"]

sendPendingTerminalEnd(c, sent) ==
    [c |-> [c EXCEPT !.pendingEnd = 0],
     sent |-> IF c.pendingEnd # 0 THEN Append(sent, Ended(c.pendingEnd)) ELSE sent]

\* How many pending chunks go out before the channel is full again.
Burst(c, gone) ==
    LET room == ChannelHigh - Buffered(<<>>, gone)
    IN  IF Len(c.pending) < room THEN Len(c.pending) ELSE room

AfterBurst(c, k) ==
    [c |-> [c EXCEPT !.pending = SubSeq(@, k + 1, Len(@)), !.needsReset = @ /\ k = 0],
     sent |-> [i \in 1..k |-> IF i = 1 THEN Marked(c, c.pending[1]) ELSE c.pending[i]]]

Unpaused(c) ==
    [c EXCEPT !.channelPaused = FALSE, !.pollTimer = FALSE,
              !.outputPaused = c.session # "none" /\ c.remotePaused]

pollTerminalBackpressure(c, gone) ==
    IF Buffered(<<>>, gone) > ChannelLow \/ (c.pending # <<>> /\ ~c.connected)
    THEN [c |-> c, sent |-> <<>>]
    ELSE LET burst == AfterBurst(c, Burst(c, gone))
             after == IF burst.c.pending = <<>>
                      THEN sendPendingTerminalEnd(burst.c, burst.sent) ELSE burst
         IN  IF after.c.pending # <<>> \/ Buffered(after.sent, gone) > ChannelLow
             THEN after
             ELSE [after EXCEPT !.c = Unpaused(@)]

\* onTerminalOutputReady: sent at once, or pending, or dropped with the rest.
OfferOutput(c, m) ==
    IF c.pending = <<>> /\ c.connected
    THEN [c |-> [c EXCEPT !.needsReset = FALSE], sent |-> <<Marked(c, m)>>]
    ELSE IF Len(c.pending) >= MaxPendingCli
         THEN [c |-> [c EXCEPT !.pending = <<>>, !.needsReset = TRUE], sent |-> <<>>]
         ELSE [c |-> [c EXCEPT !.pending = Append(@, m)], sent |-> <<>>]

onTerminalOutputReady(c, m, gone) ==
    LET offered == OfferOutput(c, m)
        mustPoll == \/ offered.sent = <<>>
                    \/ c.channelPaused
                    \/ Buffered(offered.sent, gone) >= ChannelHigh
    IN  IF mustPoll
        THEN [offered EXCEPT !.c = scheduleTerminalBackpressurePoll(@)]
        ELSE offered

\* Mutant: the end waits for the pending output without arming the timer.
EndOfShell_Unscheduled(c, gone) ==
    LET over == [c EXCEPT !.session = "none", !.emitted = <<>>, !.hoard = FALSE,
                          !.outputPaused = FALSE, !.remotePaused = FALSE,
                          !.pendingEnd = c.request,
                          !.pending = IF c.needsReset /\ @ = <<>>
                                      THEN <<Output(c.request, 0, FALSE)>> ELSE @]
    IN  IF over.pending = <<>>
        THEN sendPendingTerminalEnd(over, <<>>)
        ELSE [c |-> over, sent |-> <<>>]

\* onTerminalClosed and onTerminalError: the session goes, with its pause and
\* its signals, and queueTerminalEnd lets the pending output go first.
EndOfShell(c, gone) ==
    LET over == [c EXCEPT !.session = "none", !.emitted = <<>>, !.hoard = FALSE,
                          !.outputPaused = FALSE, !.remotePaused = FALSE,
                          !.pendingEnd = c.request,
                          !.pending = IF c.needsReset /\ @ = <<>>
                                      THEN <<Output(c.request, 0, FALSE)>> ELSE @]
    IN  IF over.pending = <<>>
        THEN sendPendingTerminalEnd(over, <<>>)
        ELSE pollTerminalBackpressure(scheduleTerminalBackpressurePoll(over), gone)

Takes(result) ==
    /\ cli' = result.c
    /\ toCtl' = toCtl \o result.sent

Gone == 0..Units(toCtl)
CliAlone == UNCHANGED <<win, signals, worker, toCli, flickers>>

-----------------------------------------------------------------------------
(* handleTerminalMessage *)

\* A new generation: no signal of the old one counts, nothing is pending.
NewGeneration(c) ==
    [c EXCEPT !.emitted = <<>>, !.hoard = FALSE, !.outputPaused = FALSE,
              !.pollTimer = FALSE, !.pending = <<>>, !.needsReset = FALSE,
              !.pendingEnd = 0]

\* Mutant: a pause meant for the old shell holds the new one.
PausesCleared_ChannelOnly(c) == [c EXCEPT !.channelPaused = FALSE]

PausesCleared(c) == [c EXCEPT !.channelPaused = FALSE, !.remotePaused = FALSE]

\* The pipe mode writes a line of its own while start is still running.
Started(c, mode, gone) ==
    LET fresh == [NewGeneration(c) EXCEPT !.request = Head(toCli).of, !.session = mode,
                                          !.written = IF mode = "pipe" THEN 1 ELSE 0]
        banner == onTerminalOutputReady(fresh, Output(fresh.request, 1, FALSE), gone)
    IN  IF mode = "none" THEN EndOfShell(fresh, gone)
        ELSE IF mode = "pty" THEN [c |-> fresh, sent |-> <<Info(fresh.request)>>]
        ELSE [banner EXCEPT !.sent = <<Info(fresh.request)>> \o @]

HearStart ==
    /\ toCli # <<>> /\ Head(toCli).type = "start"
    /\ toCli' = Tail(toCli)
    /\ \E mode \in {"none", "pty", "pipe"}, gone \in Gone :
        /\ mode = "pty" => Head(toCli).mode = "auto"
        /\ LET started == Started(cli, mode, gone)
           IN  Takes([started EXCEPT !.c = PausesCleared(@)])
    /\ UNCHANGED <<win, signals, worker, flickers>>

HearStop ==
    /\ toCli # <<>> /\ Head(toCli).type = "stop"
    /\ toCli' = Tail(toCli)
    /\ cli' = [PausesCleared(NewGeneration(cli)) EXCEPT !.session = "none"]
    /\ UNCHANGED <<win, signals, worker, toCtl, flickers>>

HearFlow ==
    /\ toCli # <<>> /\ Head(toCli).type = "flow"
    /\ toCli' = Tail(toCli)
    /\ LET paused == ~Head(toCli).enabled
       IN  cli' = [cli EXCEPT !.remotePaused = paused,
                              !.outputPaused = cli.session # "none"
                                               /\ (paused \/ cli.channelPaused)]
    /\ UNCHANGED <<win, signals, worker, toCtl, flickers>>

-----------------------------------------------------------------------------
(* The shell and what its session signals *)

Exit == [type |-> "exit"]
Lives == cli.session # "none" /\ Exit \notin ToSet(cli.emitted)

\* A chunk read into the queue of signals is one read before the pause that it
\* then finds, so a read that was already blocked needs no case of its own.
ShellWrites ==
    /\ Lives /\ ~cli.outputPaused
    /\ cli.written < MaxWritten[cli.request] /\ Len(cli.emitted) < MaxEmitted
    /\ \E big \in {FALSE, cli.hoard} :
        cli' = [cli EXCEPT !.written = @ + 1, !.hoard = FALSE,
                           !.emitted = Append(@, Output(cli.request, cli.written + 1, big))]
    /\ UNCHANGED toCtl /\ CliAlone

\* QProcess reads while the session does not; readAll then returns it all.
ProcessHoards ==
    /\ Lives /\ cli.session = "pipe" /\ cli.outputPaused /\ ~cli.hoard
    /\ cli.written < MaxWritten[cli.request]
    /\ cli' = [cli EXCEPT !.hoard = TRUE]
    /\ UNCHANGED toCtl /\ CliAlone

\* The end of a pseudo terminal is read like its output, that of a process is not.
ShellExits ==
    /\ Lives /\ (cli.session = "pipe" \/ ~cli.outputPaused)
    /\ Len(cli.emitted) < MaxEmitted
    /\ cli' = [cli EXCEPT !.emitted = Append(@, Exit)]
    /\ UNCHANGED toCtl /\ CliAlone

onTerminalError ==
    /\ cli.session # "none"
    /\ \E gone \in Gone : Takes(EndOfShell(cli, gone))
    /\ CliAlone

HandleSignal ==
    /\ cli.emitted # <<>>
    /\ LET rest == [cli EXCEPT !.emitted = Tail(@)]
       IN  \E gone \in Gone :
            Takes(IF Head(cli.emitted) = Exit
                  THEN EndOfShell(rest, gone)
                  ELSE onTerminalOutputReady(rest, Head(cli.emitted), gone))
    /\ CliAlone

PollTimer ==
    /\ cli.pollTimer
    /\ \E gone \in Gone : Takes(pollTerminalBackpressure(cli, gone))
    /\ CliAlone

\* onPeerConnectionStateChanged; what is no output waits and goes out first.
ConnectionFlickers ==
    /\ flickers < MaxFlickers \/ ~cli.connected
    /\ cli' = [cli EXCEPT !.connected = ~@]
    /\ flickers' = flickers + (IF cli.connected THEN 1 ELSE 0)
    /\ UNCHANGED <<win, signals, worker, network>>

ConnectionReturns == ~cli.connected /\ ConnectionFlickers

-----------------------------------------------------------------------------
WindowNext == TryStart \/ RetryInFallback \/ GiveUp \/ HearSignal
WorkerNext ==
    \/ drainFileTextIngress \/ handleTerminalTextChannelObject
    \/ flushTerminalOutput \/ acknowledgeTerminalOutput
ShellNext == ShellWrites \/ ProcessHoards \/ ShellExits \/ onTerminalError
CliNext == HearStart \/ HearStop \/ HearFlow \/ HandleSignal \/ PollTimer

Next ==
    \/ WindowNext \/ WorkerNext \/ CliNext \/ ShellNext
    \/ Deliver \/ ConnectionFlickers

Spec == Init /\ [][Next]_vars

\* Every event loop runs its handlers, the network delivers, the emulator
\* consumes what it is given, the timers fire and the connection comes back;
\* neither the shell nor the window's timeout nor the user has to do anything.
Forced == HearSignal \/ WorkerNext \/ CliNext \/ Deliver \/ ConnectionReturns

FairSpec == Spec /\ WF_vars(Forced)

-----------------------------------------------------------------------------
(* Properties *)

Requests == 0..MaxRequests
Chunks == [of : Requests, n : Nat]
Outputs == [type : {"output"}, of : Requests, n : Nat, big : BOOLEAN, reset : BOOLEAN]
StartOrders == [type : {"start"}, of : Requests, mode : {"auto", "fallback"}]
Orders == StartOrders \cup {Stop, Flow(FALSE), Flow(TRUE)}
Events == [type : {"info", "ended"}, of : Requests]

CliStates ==
    [session : {"none", "pty", "pipe"}, request : Requests, written : Nat,
     emitted : Seq(Outputs \cup {Exit}), hoard : BOOLEAN, outputPaused : BOOLEAN,
     channelPaused : BOOLEAN, remotePaused : BOOLEAN, pollTimer : BOOLEAN,
     pending : Seq(Outputs), needsReset : BOOLEAN, pendingEnd : Requests,
     connected : BOOLEAN]

\* Both buffers of pending output keep to their limits, and the count of the
\* output the emulator holds is never negative.
TypeOK ==
    /\ win \in [started : BOOLEAN, fallback : BOOLEAN, startTimer : BOOLEAN,
                request : Requests]
    /\ signals \in Seq(Events)
    /\ ctl \in [request : Requests, pending : Seq(Chunks), needsReset : BOOLEAN,
                inFlight : Nat, flowPaused : BOOLEAN]
    /\ PendingUnits(ctl) <= MaxPendingCtl
    /\ {ingress, batch, toCtl} \subseteq Seq(Outputs \cup Events)
    /\ emulator \in Nat
    /\ cli \in CliStates
    /\ Units(cli.pending) <= MaxPendingCli
    /\ toCli \in Seq(Orders)
    /\ flickers \in 0..MaxFlickers
    /\ shown \in Seq(Chunks)
    /\ torn \subseteq Chunks

\* The pause that is in force once cli has handled what is under way to it: START
\* and STOP end every pause, and there is no other message.
LastPause == IF toCli = <<>> THEN cli.remotePaused ELSE Last(toCli) = Flow(FALSE)

\* Whoever pauses the shell is going to resume it.  A paused shell has a poll
\* timer or a remote pause; a remote pause is one ctl knows of, whatever START,
\* STOP and end of shell it crossed, or that of an oversized chunk; and while
\* ctl holds the shell paused it has so much text queued that the emulator's
\* acknowledgements will bring it back to updateTerminalFlowControl.
PauseHasAnEnd ==
    /\ cli.outputPaused => cli.pollTimer \/ cli.remotePaused
    /\ LastPause => ctl.flowPaused \/ torn # {}
    /\ ctl.flowPaused => QueuedBytes(ctl, ingress) > FlowLow
    /\ ctl.inFlight <= emulator

\* The screen shows the shell called last, in order, nothing twice, with a clear
\* screen where text is missing and between two shells, and its end last: through
\* both pending buffers, their overflows and the restarts of the shell.
ImplementsTranscript == T!TranscriptSpec

\* A window that waits for a shell that is gone learns that it is gone.
EndIsTold == (cli.session = "none" /\ cli.request = win.request) => ~win.started

\* Again and again no shell is held paused, but for one whose chunk was refused
\* for its size, and no window waits for a shell that is gone.
TerminalSettles == []<>((cli.outputPaused => torn # {}) /\ EndIsTold)
=============================================================================
