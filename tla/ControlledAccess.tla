-------------------------- MODULE ControlledAccess --------------------------
(***************************************************************************)
(* The controlled side's admission and registry of sessions: MainWindow    *)
(* takes a CONNECT, a pool task evaluates it, the main thread completes    *)
(* the decision, and an admitted request becomes a WebRtcCli on a worker   *)
(* thread of its own until it is torn down and unregistered.               *)
(*                                                                         *)
(* Four kinds of actors run concurrently: the main thread, which handles   *)
(* one event of its queue at a time; the pool's tasks; the worker threads, *)
(* which handle one call of their inbox at a time; and the surroundings    *)
(* (peers, timers, the local user, the audit disk).                        *)
(*                                                                         *)
(* Each CONNECT that arrives has an identity r of its own, and so has the  *)
(* WebRtcCli that may come out of it. Messages to the peer are left out.   *)
(***************************************************************************)
EXTENDS Integers, Sequences, FiniteSets

CONSTANTS
  Requests,          \* the CONNECTs of a behaviour
  NoSession,         \* no entry in the tray under a session identifier
  Peers, SessionIds, Modes,
  PeerOf, SidOf, ModeOf,   \* what each CONNECT says of itself
  MaxPending,        \* kMaxPendingAccessEvaluations
  MaxSessions,       \* kMaxControlledSessionCount
  MaxPerPeer,        \* kMaxControlledSessionsPerPeer
  MaxPolicyChanges,  \* bound: settings saved and passwords renewed
  MaxAuditFailures   \* bound: failed appends

ASSUME RequestsAssumption ==
  /\ IsFiniteSet(Requests)
  /\ NoSession \notin Requests
  /\ PeerOf \in [Requests -> Peers]
  /\ SidOf \in [Requests -> SessionIds]
  /\ ModeOf \in [Requests -> Modes]

ASSUME LimitsAssumption ==
  /\ MaxPending \in Nat
  /\ MaxSessions \in Nat
  /\ MaxPerPeer \in Nat
  /\ MaxPolicyChanges \in Nat
  /\ MaxAuditFailures \in Nat

VARIABLES
  allowRemote,        \* ConfigUtil->allow_remote
  password,           \* which verification code is the current one
  policyGeneration,   \* m_accessPolicyGeneration
  callbacksAlive,     \* m_asyncCallbacksAlive
  auditReady,         \* AuditLogger::m_ready
  auditFailures,      \* bound's counter
  pendingEvaluations, \* m_pendingAccessEvaluations
  stage,              \* where each request is, see Stages
  claim,              \* the verification code the request supplies
  snapshot,           \* policySnapshot() and the generation taken with it
  accepted,           \* decision.accepted
  audit,              \* the decision's AuditSession
  shutdownPending,    \* m_rtcCliShutdownPending
  tray,               \* m_controlledTraySessions
  mainQueue,          \* events posted to the main thread
  inbox,              \* calls queued to each worker
  running,            \* workers whose thread runs
  peer,               \* the worker's peer connection
  startupTimer,       \* workers whose m_peerStartupTimer is active
  connectionAudited,  \* workers with m_connectionAudited
  shutdownRequested,  \* workers with m_shutdownRequested
  shutdownStarted     \* workers with m_shutdownStarted

policyVars  == <<allowRemote, password, policyGeneration>>
auditVars   == <<auditReady, auditFailures>>
requestVars == <<pendingEvaluations, claim, snapshot, accepted>>
workerVars  == <<running, peer, startupTimer, connectionAudited,
                 shutdownRequested, shutdownStarted>>
vars == <<policyVars, callbacksAlive, auditVars, requestVars, stage, audit,
          shutdownPending, tray, mainQueue, inbox, workerVars>>

Passwords == 0..MaxPolicyChanges

(* "evaluating" to "posted": in the pool, then waiting for the main thread. *)
(* "session": in m_rtcCliSessions. "leaving": in the local copy of it that  *)
(* cleanupWebRtcCliSessions works through. "gone": unregistered.            *)
Stages == {"unsent", "evaluating", "decided", "posted", "rejected",
           "session", "leaving", "gone"}

Snapshots == [allow : BOOLEAN, password : Passwords, generation : Nat]

NoSnapshot == [allow |-> FALSE, password |-> 0, generation |-> 0]

Calls == {"init", "requestDisconnect", "shutdown"}

Events == [kind : {"connected", "destroyCli", "disconnected", "finished"}, of : Requests]
            \cup [kind : {"auditFailure"}]

TypeOK ==
  /\ allowRemote \in BOOLEAN
  /\ password \in Passwords
  /\ policyGeneration \in Nat
  /\ callbacksAlive \in BOOLEAN
  /\ auditReady \in BOOLEAN
  /\ auditFailures \in Nat
  /\ pendingEvaluations \in Nat
  /\ stage \in [Requests -> Stages]
  /\ claim \in [Requests -> Passwords]
  /\ snapshot \in [Requests -> Snapshots]
  /\ accepted \in [Requests -> BOOLEAN]
  /\ audit \in [Requests -> {"none", "open", "closing", "closed"}]
  /\ shutdownPending \in SUBSET Requests
  /\ tray \in [SessionIds -> Requests \cup {NoSession}]
  /\ mainQueue \in Seq(Events)
  /\ inbox \in [Requests -> Seq(Calls)]
  /\ running \in SUBSET Requests
  /\ peer \in [Requests -> {"none", "negotiating", "connected", "disconnected", "failed"}]
  /\ startupTimer \in SUBSET Requests
  /\ connectionAudited \in SUBSET Requests
  /\ shutdownRequested \in SUBSET Requests
  /\ shutdownStarted \in SUBSET Requests

Init ==
  /\ allowRemote = TRUE
  /\ password = 0
  /\ policyGeneration = 1
  /\ callbacksAlive = TRUE
  /\ auditReady = TRUE
  /\ auditFailures = 0
  /\ pendingEvaluations = 0
  /\ stage = [r \in Requests |-> "unsent"]
  /\ claim = [r \in Requests |-> 0]
  /\ snapshot = [r \in Requests |-> NoSnapshot]
  /\ accepted = [r \in Requests |-> FALSE]
  /\ audit = [r \in Requests |-> "none"]
  /\ shutdownPending = {}
  /\ tray = [i \in SessionIds |-> NoSession]
  /\ mainQueue = << >>
  /\ inbox = [r \in Requests |-> << >>]
  /\ running = {}
  /\ peer = [r \in Requests |-> "none"]
  /\ startupTimer = {}
  /\ connectionAudited = {}
  /\ shutdownRequested = {}
  /\ shutdownStarted = {}

-----------------------------------------------------------------------------
(* Posting.                                                                *)

Holds(s, x) == \E i \in 1..Len(s) : s[i] = x

(* A second destroyCli or requestDisconnect behind one still waiting has no *)
(* effect of its own, so the two are kept as one.                           *)
Enqueue(s, x) == IF Holds(s, x) THEN s ELSE Append(s, x)

Event(k, r) == [kind |-> k, of |-> r]
AuditFailureEvent == [kind |-> "auditFailure"]

Registered == {r \in Requests : stage[r] = "session"}
Active     == Registered \ shutdownPending
Shown      == {tray[i] : i \in SessionIds} \ {NoSession}

\* QMetaObject::invokeMethod(session, "requestDisconnect", QueuedConnection);
\* on a worker that has ended it does nothing.
QueueDisconnect(S) ==
  inbox' = [r \in Requests |->
              IF r \in S \cap running THEN Enqueue(inbox[r], "requestDisconnect") ELSE inbox[r]]

-----------------------------------------------------------------------------
(* Admission: the main thread and the pool.                                *)

(* handleIncomingConnectRequest. The peer supplies a code it may know: the  *)
(* current one or an older one. fetch_add, the comparison and, where the    *)
(* queue is full, fetch_sub are one step: only the main thread counts up,   *)
(* and a decrement on the pool in between only makes room a moment later.   *)
ReceiveConnect(r) ==
  /\ callbacksAlive
  /\ stage[r] = "unsent"
  /\ \E p \in 0..password : claim' = [claim EXCEPT ![r] = p]
  /\ IF pendingEvaluations >= MaxPending
     THEN /\ stage' = [stage EXCEPT ![r] = "rejected"]
          /\ UNCHANGED <<pendingEvaluations, snapshot>>
     ELSE /\ stage' = [stage EXCEPT ![r] = "evaluating"]
          /\ pendingEvaluations' = pendingEvaluations + 1
          /\ snapshot' = [snapshot EXCEPT ![r] =
                            [allow |-> allowRemote, password |-> password,
                             generation |-> policyGeneration]]
  /\ UNCHANGED <<policyVars, callbacksAlive, auditVars, accepted, audit,
                 shutdownPending, tray, mainQueue, inbox, workerVars>>

\* The conditions of ControlledAccessGate::evaluate on the snapshot.
Authorized(r) ==
  /\ snapshot[r].allow
  /\ claim[r] = snapshot[r].password

\* Mutant: the counter is released on one way out of the task only.
EvaluationDone_Leak(r) ==
  /\ stage[r] = "evaluating"
  /\ stage' = [stage EXCEPT ![r] = "decided"]
  /\ UNCHANGED pendingEvaluations

\* Mutant: a task that runs again releases the counter again.
EvaluationDone_Again(r) ==
  /\ stage[r] \in {"evaluating", "decided"}
  /\ stage' = [stage EXCEPT ![r] = "decided"]
  /\ pendingEvaluations' = pendingEvaluations - 1

EvaluationDone(r) ==
  /\ stage[r] = "evaluating"
  /\ stage' = [stage EXCEPT ![r] = "decided"]
  /\ pendingEvaluations' = pendingEvaluations - 1

EvaluateAccepts(r) ==
  /\ EvaluationDone(r)
  /\ Authorized(r)
  /\ auditReady
  /\ accepted' = [accepted EXCEPT ![r] = TRUE]
  /\ audit' = [audit EXCEPT ![r] = "open"]
  /\ UNCHANGED <<policyVars, callbacksAlive, auditVars, claim, snapshot,
                 shutdownPending, tray, mainQueue, inbox, workerVars>>

(* Whatever the policy says, the request may also be refused for what is    *)
(* not modelled: its identity, the notification, the runtime prerequisite.  *)
EvaluateRejects(r) ==
  /\ EvaluationDone(r)
  /\ UNCHANGED <<policyVars, callbacksAlive, auditVars, claim, snapshot, accepted,
                 audit, shutdownPending, tray, mainQueue, inbox, workerVars>>

\* AuditLogger: the first append that fails makes the log unavailable and
\* posts handleAuditFailure; later appends return false and post nothing.
AuditFails ==
  /\ auditReady
  /\ auditFailures < MaxAuditFailures
  /\ auditReady' = FALSE
  /\ auditFailures' = auditFailures + 1
  /\ mainQueue' = IF callbacksAlive THEN Append(mainQueue, AuditFailureEvent) ELSE mainQueue

\* appendConnectionRequest fails: reason "audit_write_failed".
EvaluateAuditFails(r) ==
  /\ EvaluationDone(r)
  /\ AuditFails
  /\ UNCHANGED <<policyVars, callbacksAlive, claim, snapshot, accepted, audit,
                 shutdownPending, tray, inbox, workerVars>>

\* An append of a session, of a pool task or of the overflow audit fails.
AppendFails ==
  /\ \E r \in Requests : stage[r] # "unsent"
  /\ AuditFails
  /\ UNCHANGED <<policyVars, callbacksAlive, requestVars, stage, audit,
                 shutdownPending, tray, inbox, workerVars>>

\* Mutant: a refusal forgets the audit session it was handed.
ReleaseAudit_Forget(r) == UNCHANGED audit

\* finishUnusedAuditSession and revokeUnusedAuditSession start a pool task.
ReleaseAudit(r) ==
  audit' = [audit EXCEPT ![r] = IF @ = "open" THEN "closing" ELSE @]

\* The decision goes out of scope.
DiscardDecision(r) ==
  /\ snapshot' = [snapshot EXCEPT ![r] = NoSnapshot]
  /\ accepted' = [accepted EXCEPT ![r] = FALSE]

\* The pool task posts the decision, or drops it if the window is gone.
PublishDecision(r) ==
  /\ stage[r] = "decided"
  /\ IF callbacksAlive
     THEN /\ stage' = [stage EXCEPT ![r] = "posted"]
          /\ UNCHANGED <<audit, snapshot, accepted>>
     ELSE /\ stage' = [stage EXCEPT ![r] = "rejected"]
          /\ ReleaseAudit(r)
          /\ DiscardDecision(r)
  /\ UNCHANGED <<policyVars, callbacksAlive, auditVars, pendingEvaluations, claim,
                 shutdownPending, tray, mainQueue, inbox, workerVars>>

\* auditSession->finish(reason) in a pool task
FinishAudit(r) ==
  /\ audit[r] = "closing"
  /\ audit' = [audit EXCEPT ![r] = "closed"]
  /\ UNCHANGED <<policyVars, callbacksAlive, auditVars, requestVars, stage,
                 shutdownPending, tray, mainQueue, inbox, workerVars>>

\* Mutant: only the switch is read again, not the generation.
PolicyCurrent_SwitchOnly(r) == allowRemote

\* The decision is still worth what it was when it was taken.
PolicyCurrent(r) ==
  /\ allowRemote
  /\ snapshot[r].generation = policyGeneration

SameSession(q, r) == PeerOf[q] = PeerOf[r] /\ SidOf[q] = SidOf[r]
SameMode(q, r)    == PeerOf[q] = PeerOf[r] /\ ModeOf[q] = ModeOf[r]

\* The registry has room for r and no session that r would double.
RegistryAdmits(r) ==
  /\ \A q \in Active : ~SameSession(q, r)
  /\ \A q \in Active : SameMode(q, r) => peer[q] = "connected"
  /\ Cardinality(Active) < MaxSessions
  /\ Cardinality({q \in Active : PeerOf[q] = PeerOf[r]}) < MaxPerPeer

\* Mutant: the completion does not look whether the window is still there.
Admissible_Late(r) ==
  /\ accepted[r]
  /\ PolicyCurrent(r)
  /\ RegistryAdmits(r)

Admissible(r) ==
  /\ callbacksAlive
  /\ accepted[r]
  /\ PolicyCurrent(r)
  /\ RegistryAdmits(r)

\* Every early return of completeIncomingConnectRequest, and the completion
\* that finds the window gone.
CompleteRefused(r) ==
  /\ stage[r] = "posted"
  /\ ~Admissible(r)
  /\ stage' = [stage EXCEPT ![r] = "rejected"]
  /\ ReleaseAudit(r)
  /\ DiscardDecision(r)
  /\ UNCHANGED <<policyVars, callbacksAlive, auditVars, pendingEvaluations, claim,
                 shutdownPending, tray, mainQueue, inbox, workerVars>>

\* completeIncomingConnectRequest creates the session and starts its thread.
CompleteAdmitted(r) ==
  /\ stage[r] = "posted"
  /\ Admissible(r)
  /\ stage' = [stage EXCEPT ![r] = "session"]
  /\ DiscardDecision(r)
  /\ running' = running \cup {r}
  /\ inbox' = [inbox EXCEPT ![r] = <<"init">>]
  /\ UNCHANGED <<policyVars, callbacksAlive, auditVars, pendingEvaluations, claim, audit,
                 shutdownPending, tray, mainQueue, peer, startupTimer,
                 connectionAudited, shutdownRequested, shutdownStarted>>

-----------------------------------------------------------------------------
(* The worker threads: WebRtcCli.                                          *)

\* Signals to the main thread are queued; MainWindow's destructor drops them.
Post(e) == mainQueue' = IF callbacksAlive THEN Enqueue(mainQueue, e) ELSE mainQueue

\* The worker's event loop is free: it is not inside performDestroy.
Listening(r) == r \in running /\ r \notin shutdownStarted

\* Mutant: a call handled discards the calls behind it.
TakeCall_Last(r, c) ==
  /\ Listening(r)
  /\ inbox[r] # << >>
  /\ Head(inbox[r]) = c
  /\ inbox' = [inbox EXCEPT ![r] = << >>]

TakeCall(r, c) ==
  /\ Listening(r)
  /\ inbox[r] # << >>
  /\ Head(inbox[r]) = c
  /\ inbox' = [inbox EXCEPT ![r] = Tail(@)]

\* WebRtcCli::init makes the offer and starts the startup timer ...
InitWorker(r) ==
  /\ TakeCall(r, "init")
  /\ IF r \in shutdownRequested
     THEN UNCHANGED <<peer, startupTimer>>
     ELSE /\ peer' = [peer EXCEPT ![r] = "negotiating"]
          /\ startupTimer' = startupTimer \cup {r}
  /\ UNCHANGED <<policyVars, callbacksAlive, auditVars, requestVars, stage, audit,
                 shutdownPending, tray, mainQueue, running, connectionAudited,
                 shutdownRequested, shutdownStarted>>

\* ... or gives up on a peer connection, a track or a channel it cannot make.
InitWorkerFails(r) ==
  /\ TakeCall(r, "init")
  /\ r \notin shutdownRequested
  /\ Post(Event("destroyCli", r))
  /\ UNCHANGED <<policyVars, callbacksAlive, auditVars, requestVars, stage, audit,
                 shutdownPending, tray, workerVars>>

\* requestDisconnect, and requestLocalDisconnect, which only sends more.
RequestDisconnect(r) ==
  /\ TakeCall(r, "requestDisconnect")
  /\ Post(Event("destroyCli", r))
  /\ UNCHANGED <<policyVars, callbacksAlive, auditVars, requestVars, stage, audit,
                 shutdownPending, tray, workerVars>>

\* performDestroy up to closeAndWait: the audit session is finished and the
\* window told before the callbacks still running are waited for.
PerformDestroy(r) ==
  /\ TakeCall(r, "shutdown")
  /\ shutdownStarted' = shutdownStarted \cup {r}
  /\ audit' = [audit EXCEPT ![r] = "closed"]
  /\ Post(Event("disconnected", r))
  /\ UNCHANGED <<policyVars, callbacksAlive, auditVars, requestVars, stage,
                 shutdownPending, tray, running, peer, startupTimer,
                 connectionAudited, shutdownRequested>>

\* The rest of performDestroy, shutdownFinished, and the end of the thread.
\* Nobody looks at the worker's state after that, and the object is deleted.
WorkerEnds(r) ==
  /\ r \in running
  /\ r \in shutdownStarted
  /\ running' = running \ {r}
  /\ peer' = [peer EXCEPT ![r] = "none"]
  /\ inbox' = [inbox EXCEPT ![r] = << >>]
  /\ startupTimer' = startupTimer \ {r}
  /\ connectionAudited' = connectionAudited \ {r}
  /\ shutdownRequested' = shutdownRequested \ {r}
  /\ shutdownStarted' = shutdownStarted \ {r}
  /\ Post(Event("finished", r))
  /\ UNCHANGED <<policyVars, callbacksAlive, auditVars, requestVars, stage, audit,
                 shutdownPending, tray>>

\* onPeerConnectionStateChanged(Connected); only the first time is announced.
PeerConnects(r) ==
  /\ Listening(r)
  /\ peer[r] \in {"negotiating", "disconnected"}
  /\ peer' = [peer EXCEPT ![r] = "connected"]
  /\ startupTimer' = startupTimer \ {r}
  /\ connectionAudited' = connectionAudited \cup {r}
  /\ IF r \in connectionAudited THEN UNCHANGED mainQueue ELSE Post(Event("connected", r))
  /\ UNCHANGED <<policyVars, callbacksAlive, auditVars, requestVars, stage, audit,
                 shutdownPending, tray, inbox, running, shutdownRequested, shutdownStarted>>

\* onPeerConnectionStateChanged(Disconnected): the peer may come back.
PeerDisconnects(r) ==
  /\ Listening(r)
  /\ peer[r] = "connected"
  /\ peer' = [peer EXCEPT ![r] = "disconnected"]
  /\ UNCHANGED <<policyVars, callbacksAlive, auditVars, requestVars, stage, audit,
                 shutdownPending, tray, mainQueue, inbox, running, startupTimer,
                 connectionAudited, shutdownRequested, shutdownStarted>>

\* onPeerConnectionStateChanged(Failed or Closed)
PeerFails(r) ==
  /\ Listening(r)
  /\ peer[r] \in {"negotiating", "connected", "disconnected"}
  /\ peer' = [peer EXCEPT ![r] = "failed"]
  /\ Post(Event("destroyCli", r))
  /\ UNCHANGED <<policyVars, callbacksAlive, auditVars, requestVars, stage, audit,
                 shutdownPending, tray, inbox, running, startupTimer,
                 connectionAudited, shutdownRequested, shutdownStarted>>

\* onPeerStartupTimeout
StartupTimeout(r) ==
  /\ Listening(r)
  /\ r \in startupTimer
  /\ startupTimer' = startupTimer \ {r}
  /\ Post(Event("destroyCli", r))
  /\ UNCHANGED <<policyVars, callbacksAlive, auditVars, requestVars, stage, audit,
                 shutdownPending, tray, inbox, running, peer,
                 connectionAudited, shutdownRequested, shutdownStarted>>

\* parseWsMsg: SESSION_DISCONNECT of this session
RemoteDisconnect(r) ==
  /\ Listening(r)
  /\ r \notin shutdownRequested
  /\ Post(Event("destroyCli", r))
  /\ UNCHANGED <<policyVars, callbacksAlive, auditVars, requestVars, stage, audit,
                 shutdownPending, tray, inbox, workerVars>>

-----------------------------------------------------------------------------
(* The main thread's queue.                                                *)

NextEvent(e) ==
  /\ mainQueue # << >>
  /\ e = Head(mainQueue)
  /\ mainQueue' = Tail(mainQueue)

OnControlledSessionConnected(r) ==
  /\ NextEvent(Event("connected", r))
  /\ tray' = [tray EXCEPT ![SidOf[r]] = r]
  /\ UNCHANGED <<policyVars, callbacksAlive, auditVars, requestVars, stage, audit,
                 shutdownPending, inbox, workerVars>>

\* Mutant: the entries of the session's peer go, not the session's.
OnControlledSessionDisconnected_Peer(r) ==
  /\ NextEvent(Event("disconnected", r))
  /\ tray' = [i \in SessionIds |->
                IF tray[i] # NoSession /\ PeerOf[tray[i]] = PeerOf[r] THEN NoSession ELSE tray[i]]
  /\ UNCHANGED <<policyVars, callbacksAlive, auditVars, requestVars, stage, audit,
                 shutdownPending, inbox, workerVars>>

OnControlledSessionDisconnected(r) ==
  /\ NextEvent(Event("disconnected", r))
  /\ tray' = [tray EXCEPT ![SidOf[r]] = NoSession]
  /\ UNCHANGED <<policyVars, callbacksAlive, auditVars, requestVars, stage, audit,
                 shutdownPending, inbox, workerVars>>

\* destroyWebRtcCli; its branches for a session without a running thread are
\* not reached here: a worker only ends after a shutdown this function queued.
DestroyWebRtcCli(r) ==
  /\ NextEvent(Event("destroyCli", r))
  /\ IF r \in Active
     THEN /\ shutdownRequested' = shutdownRequested \cup {r}
          /\ shutdownPending' = shutdownPending \cup {r}
          /\ inbox' = [inbox EXCEPT ![r] = Append(@, "shutdown")]
     ELSE UNCHANGED <<shutdownRequested, shutdownPending, inbox>>
  /\ UNCHANGED <<policyVars, callbacksAlive, auditVars, requestVars, stage, audit,
                 tray, running, peer, startupTimer, connectionAudited, shutdownStarted>>

\* The QThread::finished handler unregisters the session.
OnThreadFinished(r) ==
  /\ NextEvent(Event("finished", r))
  /\ stage' = [stage EXCEPT ![r] = "gone"]
  /\ shutdownPending' = shutdownPending \ {r}
  /\ UNCHANGED <<policyVars, callbacksAlive, auditVars, requestVars, audit,
                 tray, inbox, workerVars>>

HandleAuditFailure ==
  /\ NextEvent(AuditFailureEvent)
  /\ QueueDisconnect(Registered)
  /\ UNCHANGED <<policyVars, callbacksAlive, auditVars, requestVars, stage, audit,
                 shutdownPending, tray, workerVars>>

-----------------------------------------------------------------------------
(* The local user.                                                         *)

PolicyMayChange == policyGeneration <= MaxPolicyChanges

(* The settings dialog saves allow_remote = v. An audit log that had become  *)
(* unavailable is opened again; if that fails, the policy counts as changed. *)
(* Switching access off disconnects the sessions the tray shows.             *)
SaveSettings(v) ==
  /\ callbacksAlive
  /\ PolicyMayChange
  /\ allowRemote' = v
  /\ IF v /\ ~auditReady THEN auditReady' \in BOOLEAN ELSE UNCHANGED auditReady
  /\ policyGeneration' = IF v # allowRemote \/ (v /\ ~auditReady')
                         THEN policyGeneration + 1 ELSE policyGeneration
  /\ IF allowRemote /\ ~v THEN QueueDisconnect(Shown) ELSE UNCHANGED inbox
  /\ UNCHANGED <<password, callbacksAlive, auditFailures, requestVars, stage, audit,
                 shutdownPending, tray, mainQueue, workerVars>>

\* on_local_pwd_change_clicked
ChangePassword ==
  /\ callbacksAlive
  /\ PolicyMayChange
  /\ password < MaxPolicyChanges
  /\ password' = password + 1
  /\ policyGeneration' = policyGeneration + 1
  /\ UNCHANGED <<allowRemote, callbacksAlive, auditVars, requestVars, stage, audit,
                 shutdownPending, tray, mainQueue, inbox, workerVars>>

\* The tray menu: one session, the sessions of one peer, all sessions.
TrayDisconnect(S) ==
  /\ callbacksAlive
  /\ S # {}
  /\ QueueDisconnect(S)
  /\ UNCHANGED <<policyVars, callbacksAlive, auditVars, requestVars, stage, audit,
                 shutdownPending, tray, mainQueue, workerVars>>

TrayDisconnectSession == \E r \in Shown : TrayDisconnect({r})
TrayDisconnectPeer == \E p \in Peers : TrayDisconnect({r \in Shown : PeerOf[r] = p})

\* ~MainWindow: no more callbacks, no failure handler, no tray, and a copy of
\* the registry to shut down one by one.
Quit ==
  /\ callbacksAlive
  /\ callbacksAlive' = FALSE
  /\ mainQueue' = << >>
  /\ tray' = [i \in SessionIds |-> NoSession]
  /\ stage' = [r \in Requests |-> IF r \in Registered THEN "leaving" ELSE stage[r]]
  /\ UNCHANGED <<policyVars, auditVars, requestVars, audit, shutdownPending,
                 inbox, workerVars>>

\* WebRtcCliSessionShutdown::shutdown; it waits, but not for ever.
CleanupSession(r) ==
  /\ stage[r] = "leaving"
  /\ stage' = [stage EXCEPT ![r] = "gone"]
  /\ shutdownRequested' = shutdownRequested \cup {r}
  /\ inbox' = [inbox EXCEPT ![r] =
                 IF r \in shutdownPending THEN @ ELSE Append(@, "shutdown")]
  /\ UNCHANGED <<policyVars, callbacksAlive, auditVars, requestVars, audit,
                 shutdownPending, tray, mainQueue, running, peer, startupTimer,
                 connectionAudited, shutdownStarted>>

-----------------------------------------------------------------------------
PoolStep(r) ==
  \/ EvaluateAccepts(r)
  \/ EvaluateRejects(r)
  \/ EvaluateAuditFails(r)
  \/ PublishDecision(r)
  \/ FinishAudit(r)

Complete(r) == CompleteRefused(r) \/ CompleteAdmitted(r)

WorkerCall(r) ==
  \/ InitWorker(r)
  \/ InitWorkerFails(r)
  \/ RequestDisconnect(r)
  \/ PerformDestroy(r)
  \/ WorkerEnds(r)

PeerStep(r) ==
  \/ PeerConnects(r)
  \/ PeerDisconnects(r)
  \/ PeerFails(r)
  \/ RemoteDisconnect(r)

HandleEvent ==
  \/ \E r \in Requests :
       \/ OnControlledSessionConnected(r)
       \/ OnControlledSessionDisconnected(r)
       \/ DestroyWebRtcCli(r)
       \/ OnThreadFinished(r)
  \/ HandleAuditFailure

UserStep ==
  \/ \E v \in BOOLEAN : SaveSettings(v)
  \/ ChangePassword
  \/ TrayDisconnectSession
  \/ TrayDisconnectPeer
  \/ Quit

Next ==
  \/ \E r \in Requests :
       \/ ReceiveConnect(r)
       \/ PoolStep(r)
       \/ Complete(r)
       \/ WorkerCall(r)
       \/ PeerStep(r)
       \/ StartupTimeout(r)
       \/ CleanupSession(r)
  \/ HandleEvent
  \/ AppendFails
  \/ UserStep

Spec == Init /\ [][Next]_vars

(* What the threads, but for the main thread, have to do for a CONNECT.     *)
Owed(r) ==
  \/ PoolStep(r)
  \/ Complete(r)
  \/ WorkerCall(r)
  \/ StartupTimeout(r)
  \/ CleanupSession(r)

(* The main thread's event loop runs; and some pool task, worker, active    *)
(* timer or ~MainWindow goes on while any of them can, which is enough      *)
(* because they use up what they were given. Nothing is assumed of the      *)
(* peers, the user or the disk.                                             *)
Fairness ==
  /\ WF_vars(HandleEvent)
  /\ WF_vars(\E r \in Requests : Owed(r))

FairSpec == Spec /\ Fairness

-----------------------------------------------------------------------------
(* Safety.                                                                 *)

\* The counter that refuses a CONNECT is exactly the number of evaluations
\* the pool still owes, whatever order tasks and CONNECTs come in.
PendingExact ==
  /\ pendingEvaluations = Cardinality({r \in Requests : stage[r] = "evaluating"})
  /\ pendingEvaluations <= MaxPending

\* Two sessions of one peer and mode never negotiate at the same time: of two
\* that are not being shut down, one has already been connected.
OneNegotiation ==
  \A q, r \in Active :
    q # r /\ SameMode(q, r) => q \in connectionAudited \/ r \in connectionAudited

\* An accepted decision's audit session is open exactly while somebody is
\* bound to finish it: the decision on its way to the main thread, or the
\* worker that has not been destroyed. None leaks, none is closed under a
\* session that still runs.
AuditOwned ==
  \A r \in Requests :
    audit[r] = "open" <=>
      \/ stage[r] \in {"decided", "posted"} /\ accepted[r]
      \/ r \in running \ shutdownStarted

\* A session whose shutdown has begun is not stuck: the call is queued, or
\* the worker is on its way out, or the end of its thread is still to be
\* handled. Otherwise it would stay registered and pending for ever.
ShutdownUnderWay ==
  callbacksAlive =>
    \A r \in shutdownPending :
      /\ stage[r] = "session"
      /\ \/ r \in running /\ (r \in shutdownStarted \/ Holds(inbox[r], "shutdown"))
         \/ Holds(mainQueue, Event("finished", r))

\* Every tray entry, so every entry of the disconnect menu, is a session that
\* is still registered, never one that was deleted.
TrayEntriesRegistered ==
  \A i \in SessionIds : tray[i] # NoSession => stage[tray[i]] = "session"

\* A session that has connected, and whose end has not begun, has its entry
\* in the tray as soon as the window has handled its signal: the local user
\* sees it and can disconnect it.
TrayShowsSession ==
  callbacksAlive =>
    \A r \in connectionAudited :
      \/ r \in shutdownStarted
      \/ Holds(mainQueue, Event("connected", r))
      \/ tray[SidOf[r]] = r

\* The tray and the registry agree, in both directions.
TrayMatches == TrayEntriesRegistered /\ TrayShowsSession

\* A session owns its negotiation, its audit session and its shutdown.
SessionsSound == OneNegotiation /\ AuditOwned /\ ShutdownUnderWay

\* A peer is connected while the audit log is unavailable only for as long as
\* it takes to disconnect it: the failure's notice, the disconnect it queues
\* or the shutdown is on its way.
SessionsAudited ==
  callbacksAlive /\ ~auditReady =>
    \A r \in running :
      peer[r] = "connected" =>
        \/ Holds(mainQueue, AuditFailureEvent)
        \/ Holds(inbox[r], "requestDisconnect")
        \/ Holds(mainQueue, Event("destroyCli", r))
        \/ r \in shutdownPending

\* No completion that arrives after the window is gone registers a session.
NoSessionAfterQuit == [][~callbacksAlive => Registered' \subseteq Registered]_vars

\* Admission as a whole: see ControlledAdmission.
Admission == INSTANCE ControlledAdmission
               WITH allow <- allowRemote, offered <- claim, active <- Active

ImplementsAdmission == Admission!Spec

-----------------------------------------------------------------------------
(* Liveness.                                                               *)

\* Every CONNECT was refused or became a session; a worker that runs has had
\* a peer and is not half shut down; whoever is being shut down is gone; and
\* once the window is gone so are the workers, with their audit sessions.
NothingHalfDone ==
  /\ \A r \in Requests : stage[r] \notin {"evaluating", "decided", "posted"}
  /\ \A r \in running : peer[r] \in {"connected", "disconnected"} /\ r \notin shutdownStarted
  /\ \A r \in Requests :
       /\ ~Holds(inbox[r], "requestDisconnect")
       /\ ~Holds(mainQueue, Event("destroyCli", r))
       /\ r \in shutdownPending => stage[r] = "gone"
  /\ ~callbacksAlive => running = {} /\ \A r \in Requests : audit[r] \in {"none", "closed"}

\* A disconnect that was asked for, by the user, by switching access off or
\* by an audit failure, is not forgotten before the shutdown has begun.
DisconnectHeeded ==
  [][\A r \in Requests :
       LET Asked == Holds(inbox[r], "requestDisconnect") \/ Holds(mainQueue, Event("destroyCli", r))
           Ended == r \in shutdownPending \cup shutdownStarted \/ r \notin running \/ ~callbacksAlive
       IN Asked => (Asked \/ Ended)']_vars

\* Everything begun comes to its end: CONNECTs are settled, negotiations
\* succeed or end, whoever was asked to disconnect does, shutdowns finish and
\* quitting ends every worker and every audit session.
SessionsEnd == DisconnectHeeded /\ <>[]NothingHalfDone
=============================================================================
