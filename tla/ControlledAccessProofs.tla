----------------------- MODULE ControlledAccessProofs -----------------------
(***************************************************************************)
(* Theorems about admission and the registry, for any set of CONNECTs and  *)
(* any limits.                                                             *)
(***************************************************************************)
EXTENDS ControlledAccess, FiniteSetTheorems, TLAPS

USE RequestsAssumption, LimitsAssumption

-----------------------------------------------------------------------------
(* Queues.                                                                 *)

LEMMA EnqueueType ==
  ASSUME NEW S, NEW s \in Seq(S), NEW x \in S
  PROVE  Enqueue(s, x) \in Seq(S)
BY DEF Enqueue

LEMMA EventType ==
  ASSUME NEW r \in Requests, NEW k \in {"connected", "destroyCli", "disconnected", "finished"}
  PROVE  Event(k, r) \in Events
BY DEF Event, Events

LEMMA AuditFailureEventType == AuditFailureEvent \in Events
BY DEF AuditFailureEvent, Events

LEMMA PostType ==
  ASSUME mainQueue \in Seq(Events), NEW e \in Events, Post(e)
  PROVE  mainQueue' \in Seq(Events)
BY EnqueueType DEF Post

LEMMA AuditFailsType ==
  ASSUME mainQueue \in Seq(Events), auditFailures \in Nat, AuditFails
  PROVE  mainQueue' \in Seq(Events) /\ auditFailures' \in Nat /\ auditReady' \in BOOLEAN
<1>1. Append(mainQueue, AuditFailureEvent) \in Seq(Events)
  BY AuditFailureEventType
<1>2. mainQueue' \in Seq(Events)
  BY <1>1, Zenon DEF AuditFails
<1>3. auditReady' \in BOOLEAN
  BY Zenon DEF AuditFails
<1>4. auditFailures' \in Nat
  BY DEF AuditFails
<1> QED
  BY <1>2, <1>3, <1>4

LEMMA DiscardType ==
  ASSUME NEW r \in Requests, DiscardDecision(r),
         snapshot \in [Requests -> Snapshots], accepted \in [Requests -> BOOLEAN]
  PROVE  snapshot' \in [Requests -> Snapshots] /\ accepted' \in [Requests -> BOOLEAN]
<1>1. NoSnapshot \in Snapshots
  BY DEF NoSnapshot, Snapshots, Passwords
<1> QED
  BY <1>1 DEF DiscardDecision

LEMMA NextEventType ==
  ASSUME mainQueue \in Seq(Events), NEW e, NextEvent(e)
  PROVE  mainQueue' \in Seq(Events)
BY DEF NextEvent

LEMMA TakeCallType ==
  ASSUME inbox \in [Requests -> Seq(Calls)], NEW r \in Requests, NEW c, TakeCall(r, c)
  PROVE  inbox' \in [Requests -> Seq(Calls)]
<1>1. inbox[r] \in Seq(Calls) /\ inbox[r] # << >>
  BY DEF TakeCall
<1>2. Tail(inbox[r]) \in Seq(Calls)
  BY <1>1
<1> QED
  BY <1>2 DEF TakeCall

LEMMA QueueDisconnectType ==
  ASSUME inbox \in [Requests -> Seq(Calls)], NEW S, QueueDisconnect(S)
  PROVE  inbox' \in [Requests -> Seq(Calls)]
<1>1. \A r \in Requests : Enqueue(inbox[r], "requestDisconnect") \in Seq(Calls)
  BY EnqueueType DEF Calls
<1> QED
  BY <1>1 DEF QueueDisconnect

-----------------------------------------------------------------------------
(* The evaluations under way, and the counter.                              *)

Evaluating == {r \in Requests : stage[r] = "evaluating"}

LEMMA EvaluatingFinite == IsFiniteSet(Evaluating) /\ Cardinality(Evaluating) \in Nat
BY FS_Subset, FS_CardinalityType DEF Evaluating

TypeInv == TypeOK /\ PendingExact

LEMMA InitTypes == Init => TypeInv
<1>. SUFFICES ASSUME Init PROVE TypeInv
  OBVIOUS
<1>1. TypeOK
  BY DEF Init, TypeOK, Passwords, Snapshots, NoSnapshot, Stages
<1>2. Evaluating = {}
  BY DEF Init, Evaluating
<1>3. Cardinality(Evaluating) = 0
  BY <1>2, FS_EmptySet
<1>4. PendingExact
  BY <1>3 DEF Init, PendingExact, Evaluating
<1> QED
  BY <1>1, <1>4 DEF TypeInv

\* A step that leaves the counter and the evaluations alone.
LEMMA PendingFrame ==
  ASSUME PendingExact, pendingEvaluations' = pendingEvaluations, Evaluating' = Evaluating
  PROVE  PendingExact'
BY DEF PendingExact, Evaluating

LEMMA ReceiveConnectTypes ==
  ASSUME TypeInv, NEW r \in Requests, ReceiveConnect(r)
  PROVE  TypeInv'
<1>1. TypeOK'
  <2>1. claim' \in [Requests -> Passwords]
    BY DEF TypeInv, TypeOK, ReceiveConnect, Passwords
  <2>2. stage' \in [Requests -> Stages]
    <3>1. \A x \in Stages : [stage EXCEPT ![r] = x] \in [Requests -> Stages]
      BY DEF TypeInv, TypeOK
    <3>2. "rejected" \in Stages /\ "evaluating" \in Stages
      BY DEF Stages
    <3> QED
      BY <3>1, <3>2, Zenon DEF ReceiveConnect
  <2>3. pendingEvaluations' \in Nat
    BY DEF TypeInv, TypeOK, ReceiveConnect
  <2>4. [allow |-> allowRemote, password |-> password, generation |-> policyGeneration]
          \in Snapshots
    BY DEF TypeInv, TypeOK, Snapshots
  <2>5. snapshot' \in [Requests -> Snapshots]
    <3>1. \A x \in Snapshots : [snapshot EXCEPT ![r] = x] \in [Requests -> Snapshots]
      BY DEF TypeInv, TypeOK
    <3>2. snapshot \in [Requests -> Snapshots]
      BY DEF TypeInv, TypeOK
    <3> QED
      BY <2>4, <3>1, <3>2, Zenon DEF ReceiveConnect
  <2> QED
    BY <2>1, <2>2, <2>3, <2>5
    DEF TypeInv, TypeOK, ReceiveConnect, policyVars, auditVars, workerVars
<1>2. PendingExact'
  <2>1. CASE pendingEvaluations >= MaxPending
    <3>1. Evaluating' = Evaluating
      BY <2>1 DEF TypeInv, TypeOK, ReceiveConnect, Evaluating
    <3> QED
      BY <2>1, <3>1, PendingFrame DEF TypeInv, ReceiveConnect
  <2>2. CASE ~(pendingEvaluations >= MaxPending)
    <3>1. Evaluating' = Evaluating \cup {r} /\ r \notin Evaluating
      BY <2>2 DEF TypeInv, TypeOK, ReceiveConnect, Evaluating
    <3>2. Cardinality(Evaluating') = Cardinality(Evaluating) + 1
      BY <3>1, EvaluatingFinite, FS_AddElement
    <3> QED
      BY <2>2, <3>2 DEF TypeInv, TypeOK, PendingExact, ReceiveConnect, Evaluating
  <2> QED
    BY <2>1, <2>2
<1> QED
  BY <1>1, <1>2 DEF TypeInv

LEMMA EvaluationDonePending ==
  ASSUME TypeInv, NEW r \in Requests, EvaluationDone(r)
  PROVE  PendingExact' /\ pendingEvaluations' \in Nat /\ stage' \in [Requests -> Stages]
<1>1. Evaluating' = Evaluating \ {r} /\ r \in Evaluating
  BY DEF TypeInv, TypeOK, EvaluationDone, Evaluating
<1>2. Cardinality(Evaluating') = Cardinality(Evaluating) - 1 /\ Cardinality(Evaluating') \in Nat
  BY <1>1, EvaluatingFinite, FS_RemoveElement, FS_CardinalityType
<1> QED
  BY <1>2 DEF TypeInv, TypeOK, PendingExact, EvaluationDone, Evaluating, Stages

LEMMA PoolTypes ==
  ASSUME TypeInv, NEW r \in Requests, PoolStep(r)
  PROVE  TypeInv'
<1>1. CASE EvaluateAccepts(r)
  BY <1>1, EvaluationDonePending
  DEF TypeInv, TypeOK, EvaluateAccepts, policyVars, auditVars, workerVars
<1>2. CASE EvaluateRejects(r)
  BY <1>2, EvaluationDonePending
  DEF TypeInv, TypeOK, EvaluateRejects, policyVars, auditVars, workerVars
<1>3. CASE EvaluateAuditFails(r)
  BY <1>3, EvaluationDonePending, AuditFailsType
  DEF TypeInv, TypeOK, EvaluateAuditFails, policyVars, workerVars
<1>4. CASE PublishDecision(r)
  <2>1. TypeOK'
    <3>1. snapshot' \in [Requests -> Snapshots] /\ accepted' \in [Requests -> BOOLEAN]
      BY <1>4, DiscardType DEF TypeInv, TypeOK, PublishDecision
    <3>2. stage' \in [Requests -> Stages]
      <4>1. \A x \in Stages : [stage EXCEPT ![r] = x] \in [Requests -> Stages]
        BY DEF TypeInv, TypeOK
      <4>2. "posted" \in Stages /\ "rejected" \in Stages
        BY DEF Stages
      <4> QED
        BY <1>4, <4>1, <4>2, Zenon DEF PublishDecision
    <3> QED
      BY <1>4, <3>1, <3>2
      DEF TypeInv, TypeOK, PublishDecision, ReleaseAudit, policyVars, auditVars, workerVars
  <2>2. Evaluating' = Evaluating
    BY <1>4 DEF TypeInv, TypeOK, PublishDecision, Evaluating
  <2> QED
    BY <1>4, <2>1, <2>2, PendingFrame DEF TypeInv, PublishDecision
<1>5. CASE FinishAudit(r)
  <2>1. TypeOK'
    BY <1>5 DEF TypeInv, TypeOK, FinishAudit, policyVars, auditVars, requestVars, workerVars
  <2>2. Evaluating' = Evaluating
    BY <1>5 DEF FinishAudit, Evaluating
  <2> QED
    BY <1>5, <2>1, <2>2, PendingFrame DEF TypeInv, FinishAudit, requestVars
<1> QED
  BY <1>1, <1>2, <1>3, <1>4, <1>5 DEF PoolStep

LEMMA CompleteTypes ==
  ASSUME TypeInv, NEW r \in Requests, Complete(r)
  PROVE  TypeInv'
<1>1. TypeOK'
  <2>1. CASE CompleteRefused(r)
    BY <2>1, DiscardType DEF TypeInv, TypeOK, CompleteRefused, ReleaseAudit, Stages,
                             policyVars, auditVars, workerVars
  <2>2. CASE CompleteAdmitted(r)
    <3>1. snapshot' \in [Requests -> Snapshots] /\ accepted' \in [Requests -> BOOLEAN]
      BY <2>2, DiscardType DEF TypeInv, TypeOK, CompleteAdmitted
    <3>2. stage' \in [Requests -> Stages]
      BY <2>2 DEF TypeInv, TypeOK, CompleteAdmitted, Stages
    <3>3. <<"init">> \in Seq(Calls)
      BY DEF Calls
    <3>4. inbox' \in [Requests -> Seq(Calls)]
      BY <2>2, <3>3 DEF TypeInv, TypeOK, CompleteAdmitted
    <3> QED
      BY <2>2, <3>1, <3>2, <3>4 DEF TypeInv, TypeOK, CompleteAdmitted, policyVars, auditVars
  <2> QED
    BY <2>1, <2>2 DEF Complete
<1>2. Evaluating' = Evaluating
  BY DEF TypeInv, TypeOK, Complete, CompleteRefused, CompleteAdmitted, Evaluating
<1> QED
  BY <1>1, <1>2, PendingFrame DEF TypeInv, Complete, CompleteRefused, CompleteAdmitted

-----------------------------------------------------------------------------
(* The workers leave the evaluations alone.                                 *)

\* Most steps change neither the stages nor the counter.
LEMMA QuietPending ==
  ASSUME PendingExact, UNCHANGED stage, UNCHANGED pendingEvaluations
  PROVE  PendingExact'
BY PendingFrame DEF Evaluating

LEMMA WorkerTypes ==
  ASSUME TypeInv, NEW r \in Requests, WorkerCall(r)
  PROVE  TypeInv'
<1>1. PendingExact'
  BY QuietPending DEF TypeInv, WorkerCall, InitWorker, InitWorkerFails, RequestDisconnect,
                      PerformDestroy, WorkerEnds, requestVars
<1>2. CASE InitWorker(r)
  <2>1. inbox' \in [Requests -> Seq(Calls)]
    BY <1>2, TakeCallType DEF TypeInv, TypeOK, InitWorker
  <2>2. CASE r \in shutdownRequested
    BY <1>1, <1>2, <2>1, <2>2 DEF TypeInv, TypeOK, InitWorker, policyVars, auditVars, requestVars
  <2>3. CASE r \notin shutdownRequested
    <3>1. /\ peer' \in [Requests -> {"none", "negotiating", "connected", "disconnected", "failed"}]
          /\ startupTimer' \in SUBSET Requests
      <4>1. /\ peer' = [peer EXCEPT ![r] = "negotiating"]
            /\ startupTimer' = startupTimer \cup {r}
        BY <1>2, <2>3, Zenon DEF InitWorker
      <4>2. QED
        BY <4>1 DEF TypeInv, TypeOK
    <3>2. QED
      BY <1>1, <1>2, <2>1, <3>1 DEF TypeInv, TypeOK, InitWorker, policyVars, auditVars, requestVars
  <2> QED
    BY <2>2, <2>3
<1>3. CASE InitWorkerFails(r)
  <2>1. inbox' \in [Requests -> Seq(Calls)] /\ mainQueue' \in Seq(Events)
    BY <1>3, TakeCallType, PostType, EventType DEF TypeInv, TypeOK, InitWorkerFails
  <2> QED
    BY <1>1, <1>3, <2>1
    DEF TypeInv, TypeOK, InitWorkerFails, policyVars, auditVars, requestVars, workerVars
<1>4. CASE RequestDisconnect(r)
  <2>1. inbox' \in [Requests -> Seq(Calls)] /\ mainQueue' \in Seq(Events)
    BY <1>4, TakeCallType, PostType, EventType DEF TypeInv, TypeOK, RequestDisconnect
  <2> QED
    BY <1>1, <1>4, <2>1
    DEF TypeInv, TypeOK, RequestDisconnect, policyVars, auditVars, requestVars, workerVars
<1>5. CASE PerformDestroy(r)
  <2>1. inbox' \in [Requests -> Seq(Calls)] /\ mainQueue' \in Seq(Events)
    BY <1>5, TakeCallType, PostType, EventType DEF TypeInv, TypeOK, PerformDestroy
  <2> QED
    BY <1>1, <1>5, <2>1 DEF TypeInv, TypeOK, PerformDestroy, policyVars, auditVars, requestVars
<1>6. CASE WorkerEnds(r)
  <2>1. mainQueue' \in Seq(Events)
    BY <1>6, PostType, EventType DEF TypeInv, TypeOK, WorkerEnds
  <2>2. inbox' \in [Requests -> Seq(Calls)]
    <3>1. << >> \in Seq(Calls)
      OBVIOUS
    <3> QED
      BY <1>6, <3>1 DEF TypeInv, TypeOK, WorkerEnds
  <2> QED
    BY <1>1, <1>6, <2>1, <2>2 DEF TypeInv, TypeOK, WorkerEnds, policyVars, auditVars, requestVars
<1> QED
  BY <1>2, <1>3, <1>4, <1>5, <1>6 DEF WorkerCall

LEMMA PeerTypes ==
  ASSUME TypeInv, NEW r \in Requests, PeerStep(r) \/ StartupTimeout(r)
  PROVE  TypeInv'
<1>1. PendingExact'
  BY QuietPending DEF TypeInv, PeerStep, PeerConnects, PeerDisconnects, PeerFails,
                      RemoteDisconnect, StartupTimeout, requestVars
<1>2. mainQueue' \in Seq(Events)
  <2>1. \A k \in {"connected", "destroyCli"} : Event(k, r) \in Events
    BY EventType
  <2>2. CASE PeerConnects(r)
    BY <2>1, <2>2, PostType DEF TypeInv, TypeOK, PeerConnects
  <2>3. CASE PeerDisconnects(r)
    BY <2>3 DEF TypeInv, TypeOK, PeerDisconnects
  <2>4. CASE PeerFails(r) \/ RemoteDisconnect(r) \/ StartupTimeout(r)
    <3>1. Post(Event("destroyCli", r))
      BY <2>4 DEF PeerFails, RemoteDisconnect, StartupTimeout
    <3> QED
      BY <2>1, <3>1, PostType DEF TypeInv, TypeOK
  <2> QED
    BY <2>2, <2>3, <2>4 DEF PeerStep
<1>3. CASE PeerConnects(r)
  BY <1>1, <1>2, <1>3 DEF TypeInv, TypeOK, PeerConnects, policyVars, auditVars, requestVars
<1>4. CASE PeerDisconnects(r)
  BY <1>1, <1>2, <1>4 DEF TypeInv, TypeOK, PeerDisconnects, policyVars, auditVars, requestVars
<1>5. CASE PeerFails(r)
  BY <1>1, <1>2, <1>5 DEF TypeInv, TypeOK, PeerFails, policyVars, auditVars, requestVars
<1>6. CASE RemoteDisconnect(r)
  BY <1>1, <1>2, <1>6
  DEF TypeInv, TypeOK, RemoteDisconnect, policyVars, auditVars, requestVars, workerVars
<1>7. CASE StartupTimeout(r)
  BY <1>1, <1>2, <1>7 DEF TypeInv, TypeOK, StartupTimeout, policyVars, auditVars, requestVars
<1> QED
  BY <1>3, <1>4, <1>5, <1>6, <1>7 DEF PeerStep

-----------------------------------------------------------------------------
(* What is in a queue after it was posted to or taken from.                 *)

LEMMA HoldsEnqueue ==
  ASSUME NEW S, NEW s \in Seq(S), NEW x \in S, NEW y, Holds(Enqueue(s, x), y)
  PROVE  Holds(s, y) \/ y = x
<1>1. CASE Holds(s, x)
  BY <1>1 DEF Enqueue
<1>2. CASE ~Holds(s, x)
  <2>1. Enqueue(s, x) = Append(s, x)
    BY <1>2 DEF Enqueue
  <2>2. PICK i \in 1..Len(Append(s, x)) : Append(s, x)[i] = y
    BY <2>1 DEF Holds
  <2> QED
    BY <2>2 DEF Holds
<1> QED
  BY <1>1, <1>2

LEMMA HoldsAppend ==
  ASSUME NEW S, NEW s \in Seq(S), NEW x \in S, NEW y, Holds(Append(s, x), y)
  PROVE  Holds(s, y) \/ y = x
BY DEF Holds

LEMMA HoldsTail ==
  ASSUME NEW S, NEW s \in Seq(S), s # << >>, NEW y, Holds(Tail(s), y)
  PROVE  Holds(s, y)
<1>1. PICK i \in 1..Len(Tail(s)) : Tail(s)[i] = y
  BY DEF Holds
<1>2. i + 1 \in 1..Len(s) /\ s[i + 1] = y
  BY <1>1
<1> QED
  BY <1>2 DEF Holds

LEMMA HoldsHead ==
  ASSUME NEW S, NEW s \in Seq(S), s # << >>
  PROVE  Holds(s, Head(s))
<1>1. 1 \in 1..Len(s) /\ s[1] = Head(s)
  OBVIOUS
<1> QED
  BY <1>1 DEF Holds

LEMMA EventsDiffer ==
  ASSUME NEW j, NEW k, NEW q, NEW r
  PROVE  /\ Event(j, q) = Event(k, r) => j = k /\ q = r
         /\ AuditFailureEvent # Event("finished", r)
<1>1. Event(j, q).kind = j /\ Event(j, q).of = q /\ Event(k, r).kind = k /\ Event(k, r).of = r
  BY DEF Event
<1>2. AuditFailureEvent.kind = "auditFailure" /\ Event("finished", r).kind = "finished"
  BY DEF Event, AuditFailureEvent
<1>3. AuditFailureEvent # Event("finished", r)
  BY <1>2
<1> QED
  BY <1>1, <1>3

-----------------------------------------------------------------------------
(* A worker, a pending shutdown and the notice that a thread has finished   *)
(* belong to a request that was admitted.                                   *)

Admitted == {r \in Requests : stage[r] \in {"session", "leaving", "gone"}}

WorkersAdmitted ==
  /\ running \subseteq Admitted
  /\ shutdownPending \subseteq Admitted
  /\ \A r \in Requests : Holds(mainQueue, Event("finished", r)) => r \in Admitted

RegistryInv == TypeInv /\ WorkersAdmitted

LEMMA EventTypes ==
  ASSUME RegistryInv, HandleEvent
  PROVE  TypeInv'
<1>1. CASE \E r \in Requests : OnControlledSessionConnected(r)
  <2>1. PICK r \in Requests : OnControlledSessionConnected(r)
    BY <1>1
  <2>2. mainQueue' \in Seq(Events)
    BY <2>1, NextEventType DEF RegistryInv, TypeInv, TypeOK, OnControlledSessionConnected
  <2>3. PendingExact'
    BY <2>1, QuietPending DEF RegistryInv, TypeInv, OnControlledSessionConnected, requestVars
  <2> QED
    BY <2>1, <2>2, <2>3 DEF RegistryInv, TypeInv, TypeOK, OnControlledSessionConnected,
       policyVars, auditVars, requestVars, workerVars
<1>2. CASE \E r \in Requests : OnControlledSessionDisconnected(r)
  <2>1. PICK r \in Requests : OnControlledSessionDisconnected(r)
    BY <1>2
  <2>2. mainQueue' \in Seq(Events)
    BY <2>1, NextEventType DEF RegistryInv, TypeInv, TypeOK, OnControlledSessionDisconnected
  <2>3. PendingExact'
    BY <2>1, QuietPending DEF RegistryInv, TypeInv, OnControlledSessionDisconnected, requestVars
  <2> QED
    BY <2>1, <2>2, <2>3 DEF RegistryInv, TypeInv, TypeOK, OnControlledSessionDisconnected,
       policyVars, auditVars, requestVars, workerVars
<1>3. CASE \E r \in Requests : DestroyWebRtcCli(r)
  <2>1. PICK r \in Requests : DestroyWebRtcCli(r)
    BY <1>3
  <2>2. mainQueue' \in Seq(Events)
    BY <2>1, NextEventType DEF RegistryInv, TypeInv, TypeOK, DestroyWebRtcCli
  <2>3. PendingExact'
    BY <2>1, QuietPending DEF RegistryInv, TypeInv, DestroyWebRtcCli, requestVars
  <2>4. inbox' \in [Requests -> Seq(Calls)]
    <3>1. inbox[r] \in Seq(Calls) /\ Append(inbox[r], "shutdown") \in Seq(Calls)
      BY DEF RegistryInv, TypeInv, TypeOK, Calls
    <3>2. \/ inbox' = inbox
          \/ inbox' = [inbox EXCEPT ![r] = Append(inbox[r], "shutdown")]
      BY <2>1 DEF DestroyWebRtcCli
    <3>3. inbox \in [Requests -> Seq(Calls)]
      BY DEF RegistryInv, TypeInv, TypeOK
    <3> QED
      BY <3>1, <3>2, <3>3
  <2> QED
    BY <2>1, <2>2, <2>3, <2>4 DEF RegistryInv, TypeInv, TypeOK, DestroyWebRtcCli,
       policyVars, auditVars, requestVars
<1>4. CASE \E r \in Requests : OnThreadFinished(r)
  <2>1. PICK r \in Requests : OnThreadFinished(r)
    BY <1>4
  <2>2. mainQueue' \in Seq(Events)
    BY <2>1, NextEventType DEF RegistryInv, TypeInv, TypeOK, OnThreadFinished
  <2>3. r \in Admitted
    <3>1. Holds(mainQueue, Event("finished", r))
      BY <2>1, HoldsHead DEF RegistryInv, TypeInv, TypeOK, OnThreadFinished, NextEvent
    <3> QED
      BY <3>1 DEF RegistryInv, WorkersAdmitted
  <2>4. Evaluating' = Evaluating
    BY <2>1, <2>3 DEF RegistryInv, TypeInv, TypeOK, OnThreadFinished, Evaluating, Admitted
  <2>5. PendingExact'
    BY <2>1, <2>4, PendingFrame DEF RegistryInv, TypeInv, OnThreadFinished, requestVars
  <2>6. stage' \in [Requests -> Stages]
    BY <2>1 DEF RegistryInv, TypeInv, TypeOK, OnThreadFinished, Stages
  <2> QED
    BY <2>1, <2>2, <2>5, <2>6 DEF RegistryInv, TypeInv, TypeOK, OnThreadFinished,
       policyVars, auditVars, requestVars, workerVars
<1>5. CASE HandleAuditFailure
  <2>1. mainQueue' \in Seq(Events) /\ inbox' \in [Requests -> Seq(Calls)]
    BY <1>5, NextEventType, QueueDisconnectType
    DEF RegistryInv, TypeInv, TypeOK, HandleAuditFailure
  <2>2. PendingExact'
    BY <1>5, QuietPending DEF RegistryInv, TypeInv, HandleAuditFailure, requestVars
  <2> QED
    BY <1>5, <2>1, <2>2 DEF RegistryInv, TypeInv, TypeOK, HandleAuditFailure,
       policyVars, auditVars, requestVars, workerVars
<1> QED
  BY <1>1, <1>2, <1>3, <1>4, <1>5 DEF HandleEvent

LEMMA UserTypes ==
  ASSUME TypeInv, UserStep
  PROVE  TypeInv'
<1>1. CASE \E v \in BOOLEAN : SaveSettings(v)
  <2>1. PICK v \in BOOLEAN : SaveSettings(v)
    BY <1>1
  <2>2. inbox' \in [Requests -> Seq(Calls)]
    <3>1. CASE allowRemote /\ ~v
      BY <2>1, <3>1, QueueDisconnectType DEF TypeInv, TypeOK, SaveSettings
    <3>2. CASE ~(allowRemote /\ ~v)
      BY <2>1, <3>2 DEF TypeInv, TypeOK, SaveSettings
    <3> QED
      BY <3>1, <3>2
  <2>3. auditReady' \in BOOLEAN
    <3>1. CASE v /\ ~auditReady
      BY <2>1, <3>1, Zenon DEF SaveSettings
    <3>2. CASE ~(v /\ ~auditReady)
      <4>1. auditReady' = auditReady
        BY <2>1, <3>2, Zenon DEF SaveSettings
      <4> QED
        BY <4>1 DEF TypeInv, TypeOK
    <3> QED
      BY <3>1, <3>2
  <2>4. policyGeneration' \in Nat
    <3>1. policyGeneration' = policyGeneration + 1 \/ policyGeneration' = policyGeneration
      BY <2>1, Zenon DEF SaveSettings
    <3> QED
      BY <3>1 DEF TypeInv, TypeOK
  <2>5. PendingExact'
    BY <2>1, QuietPending DEF TypeInv, SaveSettings, requestVars
  <2>6. allowRemote' \in BOOLEAN
    BY <2>1 DEF SaveSettings
  <2>7. UNCHANGED <<password, callbacksAlive, auditFailures, requestVars, stage, audit,
                    shutdownPending, tray, mainQueue, workerVars>>
    BY <2>1, Zenon DEF SaveSettings
  <2> QED
    BY <2>2, <2>3, <2>4, <2>5, <2>6, <2>7 DEF TypeInv, TypeOK, requestVars, workerVars
<1>2. CASE ChangePassword
  <2>1. PendingExact'
    BY <1>2, QuietPending DEF TypeInv, ChangePassword, requestVars
  <2>2. password' \in Passwords /\ policyGeneration' \in Nat
    BY <1>2 DEF TypeInv, TypeOK, ChangePassword, Passwords
  <2> QED
    BY <1>2, <2>1, <2>2
    DEF TypeInv, TypeOK, ChangePassword, policyVars, auditVars, requestVars, workerVars
<1>3. CASE TrayDisconnectSession \/ TrayDisconnectPeer
  <2>1. PICK S : TrayDisconnect(S)
    BY <1>3 DEF TrayDisconnectSession, TrayDisconnectPeer
  <2>2. PendingExact' /\ inbox' \in [Requests -> Seq(Calls)]
    BY <2>1, QuietPending, QueueDisconnectType DEF TypeInv, TypeOK, TrayDisconnect, requestVars
  <2> QED
    BY <2>1, <2>2
    DEF TypeInv, TypeOK, TrayDisconnect, policyVars, auditVars, requestVars, workerVars
<1>4. CASE Quit
  <2>1. Evaluating' = Evaluating /\ stage' \in [Requests -> Stages]
    BY <1>4 DEF TypeInv, TypeOK, Quit, Evaluating, Registered, Stages
  <2>2. PendingExact'
    BY <1>4, <2>1, PendingFrame DEF TypeInv, Quit, requestVars
  <2>3. mainQueue' \in Seq(Events)
    BY <1>4 DEF Quit
  <2> QED
    BY <1>4, <2>1, <2>2, <2>3
    DEF TypeInv, TypeOK, Quit, policyVars, auditVars, requestVars, workerVars
<1> QED
  BY <1>1, <1>2, <1>3, <1>4 DEF UserStep

LEMMA CleanupTypes ==
  ASSUME TypeInv, NEW r \in Requests, CleanupSession(r)
  PROVE  TypeInv'
<1>1. Evaluating' = Evaluating /\ stage' \in [Requests -> Stages]
  BY DEF TypeInv, TypeOK, CleanupSession, Evaluating, Stages
<1>2. PendingExact'
  BY <1>1, PendingFrame DEF TypeInv, CleanupSession, requestVars
<1>3. inbox' \in [Requests -> Seq(Calls)]
  <2>1. inbox[r] \in Seq(Calls) /\ Append(inbox[r], "shutdown") \in Seq(Calls)
    BY DEF TypeInv, TypeOK, Calls
  <2> QED
    BY <2>1 DEF TypeInv, TypeOK, CleanupSession
<1> QED
  BY <1>1, <1>2, <1>3 DEF TypeInv, TypeOK, CleanupSession, policyVars, auditVars, requestVars

LEMMA AppendFailsTypes ==
  ASSUME TypeInv, AppendFails
  PROVE  TypeInv'
<1>1. PendingExact'
  BY QuietPending DEF TypeInv, AppendFails, requestVars
<1> QED
  BY <1>1, AuditFailsType DEF TypeInv, TypeOK, AppendFails, policyVars, requestVars, workerVars

-----------------------------------------------------------------------------
(* Nothing that was admitted becomes a mere request again.                  *)

LEMMA AdmittedStays ==
  ASSUME TypeInv, [Next]_vars
  PROVE  Admitted \subseteq Admitted'
<1>1. ASSUME NEW r \in Requests, ReceiveConnect(r)
      PROVE  Admitted \subseteq Admitted'
  BY <1>1 DEF TypeInv, TypeOK, ReceiveConnect, Admitted
<1>2. ASSUME NEW r \in Requests, PoolStep(r)
      PROVE  Admitted \subseteq Admitted'
  <2>1. CASE EvaluationDone(r)
    BY <2>1 DEF TypeInv, TypeOK, EvaluationDone, Admitted
  <2>2. CASE PublishDecision(r)
    BY <2>2 DEF TypeInv, TypeOK, PublishDecision, Admitted
  <2>3. CASE FinishAudit(r)
    BY <2>3 DEF FinishAudit, Admitted
  <2> QED
    BY <1>2, <2>1, <2>2, <2>3
    DEF PoolStep, EvaluateAccepts, EvaluateRejects, EvaluateAuditFails
<1>3. ASSUME NEW r \in Requests, Complete(r)
      PROVE  Admitted \subseteq Admitted'
  BY <1>3 DEF TypeInv, TypeOK, Complete, CompleteRefused, CompleteAdmitted, Admitted
<1>4. ASSUME NEW r \in Requests, WorkerCall(r) \/ PeerStep(r) \/ StartupTimeout(r)
      PROVE  UNCHANGED stage
  BY <1>4 DEF WorkerCall, InitWorker, InitWorkerFails, RequestDisconnect, PerformDestroy,
              WorkerEnds, PeerStep, PeerConnects, PeerDisconnects, PeerFails,
              RemoteDisconnect, StartupTimeout
<1>5. ASSUME NEW r \in Requests, CleanupSession(r)
      PROVE  Admitted \subseteq Admitted'
  BY <1>5 DEF TypeInv, TypeOK, CleanupSession, Admitted
<1>6. ASSUME NEW r \in Requests, OnThreadFinished(r)
      PROVE  Admitted \subseteq Admitted'
  BY <1>6 DEF TypeInv, TypeOK, OnThreadFinished, Admitted
<1>7. ASSUME NEW r \in Requests,
             \/ OnControlledSessionConnected(r)
             \/ OnControlledSessionDisconnected(r)
             \/ DestroyWebRtcCli(r)
      PROVE  UNCHANGED stage
  BY <1>7 DEF OnControlledSessionConnected, OnControlledSessionDisconnected, DestroyWebRtcCli
<1>8. CASE HandleAuditFailure \/ AppendFails
  BY <1>8 DEF HandleAuditFailure, AppendFails, Admitted
<1>9. CASE UserStep
  <2>1. CASE Quit
    BY <2>1 DEF TypeInv, TypeOK, Quit, Registered, Admitted
  <2>2. CASE ~Quit
    BY <1>9, <2>2 DEF UserStep, SaveSettings, ChangePassword, TrayDisconnectSession,
                      TrayDisconnectPeer, TrayDisconnect, Admitted
  <2> QED
    BY <2>1, <2>2
<1>10. CASE UNCHANGED vars
  BY <1>10 DEF vars, Admitted
<1>11. UNCHANGED stage => Admitted \subseteq Admitted'
  BY DEF Admitted
<1> QED
  BY <1>1, <1>2, <1>3, <1>4, <1>5, <1>6, <1>7, <1>8, <1>9, <1>10, <1>11 DEF Next, HandleEvent

\* A step that neither starts a worker, nor begins a shutdown, nor ends a thread.
LEMMA WorkersFrame ==
  ASSUME WorkersAdmitted, Admitted \subseteq Admitted',
         running' \subseteq running, shutdownPending' \subseteq shutdownPending,
         \A r \in Requests : Holds(mainQueue', Event("finished", r))
                               => Holds(mainQueue, Event("finished", r))
  PROVE  WorkersAdmitted'
<1>1. \A r \in Requests : Holds(mainQueue', Event("finished", r)) => r \in Admitted'
  BY DEF WorkersAdmitted
<1> QED
  BY <1>1, Zenon DEF WorkersAdmitted

\* Which steps put the end of a thread on the main thread's queue.
LEMMA PostFinished ==
  ASSUME TypeOK, NEW q \in Requests, NEW k \in {"connected", "destroyCli", "disconnected"},
         Post(Event(k, q)),
         NEW r \in Requests, Holds(mainQueue', Event("finished", r))
  PROVE  Holds(mainQueue, Event("finished", r))
<1>1. CASE callbacksAlive
  <2>1. Holds(Enqueue(mainQueue, Event(k, q)), Event("finished", r))
    BY <1>1 DEF Post
  <2>2. Event(k, q) \in Events /\ mainQueue \in Seq(Events)
    BY EventType DEF TypeOK
  <2> QED
    BY <2>1, <2>2, HoldsEnqueue, EventsDiffer
<1>2. CASE ~callbacksAlive
  BY <1>2 DEF Post
<1> QED
  BY <1>1, <1>2

LEMMA NextEventFinished ==
  ASSUME TypeOK, NEW e, NextEvent(e),
         NEW r \in Requests, Holds(mainQueue', Event("finished", r))
  PROVE  Holds(mainQueue, Event("finished", r))
BY HoldsTail DEF TypeOK, NextEvent

LEMMA AuditFailsFinished ==
  ASSUME TypeOK, AuditFails,
         NEW r \in Requests, Holds(mainQueue', Event("finished", r))
  PROVE  Holds(mainQueue, Event("finished", r))
<1>1. CASE callbacksAlive
  <2>1. Holds(Append(mainQueue, AuditFailureEvent), Event("finished", r))
    BY <1>1 DEF AuditFails
  <2> QED
    BY <2>1, AuditFailureEventType, HoldsAppend, EventsDiffer DEF TypeOK
<1>2. CASE ~callbacksAlive
  BY <1>2 DEF AuditFails
<1> QED
  BY <1>1, <1>2

LEMMA WorkersStep ==
  ASSUME RegistryInv, [Next]_vars
  PROVE  WorkersAdmitted'
<1>. USE DEF RegistryInv, TypeInv
<1>1. Admitted \subseteq Admitted'
  BY AdmittedStays
<1>2. ASSUME NEW r \in Requests, ReceiveConnect(r)
      PROVE  WorkersAdmitted'
  BY <1>1, <1>2, WorkersFrame DEF ReceiveConnect, workerVars
<1>3. ASSUME NEW r \in Requests, PoolStep(r)
      PROVE  WorkersAdmitted'
  <2>1. CASE EvaluateAuditFails(r)
    BY <1>1, <2>1, WorkersFrame, AuditFailsFinished DEF EvaluateAuditFails, workerVars
  <2> QED
    BY <1>1, <1>3, <2>1, WorkersFrame
    DEF PoolStep, EvaluateAccepts, EvaluateRejects, PublishDecision, FinishAudit, workerVars
<1>4. ASSUME NEW r \in Requests, CompleteRefused(r)
      PROVE  WorkersAdmitted'
  BY <1>1, <1>4, WorkersFrame DEF CompleteRefused, workerVars
<1>5. ASSUME NEW r \in Requests, CompleteAdmitted(r)
      PROVE  WorkersAdmitted'
  <2>1. r \in Admitted'
    BY <1>5 DEF TypeOK, CompleteAdmitted, Admitted
  <2>2. running' = running \cup {r} /\ UNCHANGED <<shutdownPending, mainQueue>>
    BY <1>5 DEF CompleteAdmitted
  <2>3. running' \subseteq Admitted' /\ shutdownPending' \subseteq Admitted'
    BY <1>1, <2>1, <2>2 DEF WorkersAdmitted
  <2>4. \A q \in Requests : Holds(mainQueue', Event("finished", q)) => q \in Admitted'
    BY <1>1, <2>2 DEF WorkersAdmitted
  <2> QED
    BY <2>3, <2>4, Zenon DEF WorkersAdmitted
<1>6. ASSUME NEW r \in Requests, WorkerEnds(r)
      PROVE  WorkersAdmitted'
  <2>1. r \in Admitted' /\ UNCHANGED shutdownPending /\ running' \subseteq running
    BY <1>1, <1>6 DEF WorkerEnds, WorkersAdmitted
  <2>2. ASSUME NEW q \in Requests, Holds(mainQueue', Event("finished", q))
        PROVE  q \in Admitted'
    <3>1. CASE callbacksAlive
      <4>1. Holds(Enqueue(mainQueue, Event("finished", r)), Event("finished", q))
        BY <1>6, <2>2, <3>1 DEF WorkerEnds, Post
      <4>2. Holds(mainQueue, Event("finished", q)) \/ q = r
        BY <4>1, EventType, HoldsEnqueue, EventsDiffer DEF TypeOK
      <4> QED
        BY <1>1, <2>1, <4>2 DEF WorkersAdmitted
    <3>2. CASE ~callbacksAlive
      BY <1>1, <1>6, <2>2, <3>2 DEF WorkerEnds, Post, WorkersAdmitted
    <3> QED
      BY <3>1, <3>2
  <2>3. running' \subseteq Admitted' /\ shutdownPending' \subseteq Admitted'
    BY <1>1, <2>1 DEF WorkersAdmitted
  <2> QED
    BY <2>2, <2>3, Zenon DEF WorkersAdmitted
<1>7. ASSUME NEW r \in Requests, WorkerCall(r), ~WorkerEnds(r)
      PROVE  WorkersAdmitted'
  <2>1. CASE InitWorker(r)
    BY <1>1, <2>1, WorkersFrame DEF InitWorker
  <2>2. CASE InitWorkerFails(r) \/ RequestDisconnect(r)
    BY <1>1, <2>2, WorkersFrame, PostFinished DEF InitWorkerFails, RequestDisconnect, workerVars
  <2>3. CASE PerformDestroy(r)
    BY <1>1, <2>3, WorkersFrame, PostFinished DEF PerformDestroy
  <2> QED
    BY <1>7, <2>1, <2>2, <2>3 DEF WorkerCall
<1>8. ASSUME NEW r \in Requests, PeerStep(r) \/ StartupTimeout(r)
      PROVE  WorkersAdmitted'
  <2>1. CASE PeerConnects(r)
    BY <1>1, <2>1, WorkersFrame, PostFinished DEF PeerConnects
  <2>2. CASE PeerDisconnects(r)
    BY <1>1, <2>2, WorkersFrame DEF PeerDisconnects
  <2>3. CASE PeerFails(r)
    BY <1>1, <2>3, WorkersFrame, PostFinished DEF PeerFails
  <2>4. CASE RemoteDisconnect(r)
    BY <1>1, <2>4, WorkersFrame, PostFinished DEF RemoteDisconnect, workerVars
  <2>5. CASE StartupTimeout(r)
    BY <1>1, <2>5, WorkersFrame, PostFinished DEF StartupTimeout
  <2> QED
    BY <1>8, <2>1, <2>2, <2>3, <2>4, <2>5 DEF PeerStep
<1>9. ASSUME NEW r \in Requests, CleanupSession(r)
      PROVE  WorkersAdmitted'
  BY <1>1, <1>9, WorkersFrame DEF CleanupSession
<1>10. ASSUME NEW r \in Requests, DestroyWebRtcCli(r)
       PROVE  WorkersAdmitted'
  <2>1. running' = running /\ shutdownPending' \subseteq Admitted'
    BY <1>1, <1>10 DEF DestroyWebRtcCli, WorkersAdmitted, Active, Registered, Admitted
  <2>2. \A q \in Requests : Holds(mainQueue', Event("finished", q)) => q \in Admitted'
    BY <1>1, <1>10, NextEventFinished DEF DestroyWebRtcCli, WorkersAdmitted
  <2>3. running' \subseteq Admitted'
    BY <1>1, <2>1 DEF WorkersAdmitted
  <2> QED
    BY <2>1, <2>2, <2>3, Zenon DEF WorkersAdmitted
<1>11. ASSUME NEW r \in Requests,
              \/ OnControlledSessionConnected(r)
              \/ OnControlledSessionDisconnected(r)
              \/ OnThreadFinished(r)
       PROVE  WorkersAdmitted'
  BY <1>1, <1>11, WorkersFrame, NextEventFinished
  DEF OnControlledSessionConnected, OnControlledSessionDisconnected, OnThreadFinished, workerVars
<1>12. CASE HandleAuditFailure
  BY <1>1, <1>12, WorkersFrame, NextEventFinished DEF HandleAuditFailure, workerVars
<1>13. CASE AppendFails
  BY <1>1, <1>13, WorkersFrame, AuditFailsFinished DEF AppendFails, workerVars
<1>14. CASE UserStep
  <2>1. CASE Quit
    <3>1. \A q \in Requests : ~Holds(mainQueue', Event("finished", q))
      BY <2>1 DEF Quit, Holds
    <3> QED
      BY <1>1, <2>1, <3>1, WorkersFrame DEF Quit, workerVars
  <2>2. CASE ~Quit
    <3>1. UNCHANGED <<running, shutdownPending, mainQueue>>
      BY <1>14, <2>2 DEF UserStep, SaveSettings, ChangePassword, TrayDisconnectSession,
                         TrayDisconnectPeer, TrayDisconnect, workerVars
    <3> QED
      BY <1>1, <3>1, WorkersFrame
  <2> QED
    BY <2>1, <2>2
<1>15. CASE UNCHANGED vars
  BY <1>1, <1>15, WorkersFrame DEF vars, workerVars
<1> QED
  BY <1>2, <1>3, <1>4, <1>5, <1>6, <1>7, <1>8, <1>9, <1>10, <1>11, <1>12, <1>13, <1>14, <1>15
  DEF Next, Complete, HandleEvent

LEMMA InitRegistry == Init => RegistryInv
<1>. SUFFICES ASSUME Init PROVE RegistryInv
  OBVIOUS
<1>1. \A r \in Requests : ~Holds(mainQueue, Event("finished", r))
  BY DEF Init, Holds
<1> QED
  BY <1>1, InitTypes DEF Init, RegistryInv, WorkersAdmitted

LEMMA RegistryStep == RegistryInv /\ [Next]_vars => RegistryInv'
<1>. SUFFICES ASSUME RegistryInv, [Next]_vars PROVE RegistryInv'
  OBVIOUS
<1>1. TypeInv'
  <2>1. CASE UNCHANGED vars
    BY <2>1 DEF vars, policyVars, auditVars, requestVars, workerVars,
                RegistryInv, TypeInv, TypeOK, PendingExact
  <2> QED
    BY <2>1, ReceiveConnectTypes, PoolTypes, CompleteTypes, WorkerTypes, PeerTypes,
       CleanupTypes, EventTypes, AppendFailsTypes, UserTypes DEF Next, RegistryInv
<1> QED
  BY <1>1, WorkersStep DEF RegistryInv

THEOREM RegistryInvariant == Spec => []RegistryInv
BY InitRegistry, RegistryStep, PTL DEF Spec

(* Type correctness of the controlled side: a queue only ever holds events  *)
(* of the main thread, an inbox only calls of a worker, and the counter of  *)
(* pending evaluations never falls below zero, whatever CONNECTs arrive.    *)
THEOREM AccessTypes == Spec => []TypeOK
<1>1. RegistryInv => TypeOK
  BY DEF RegistryInv, TypeInv
<1> QED
  BY <1>1, RegistryInvariant, PTL

(* The counter that guards the evaluation queue is exact and bounded: no    *)
(* path of a task or of a refusal leaks it (handleIncomingConnectRequest).  *)
THEOREM PendingCountExact == Spec => []PendingExact
<1>1. RegistryInv => PendingExact
  BY DEF RegistryInv, TypeInv
<1> QED
  BY <1>1, RegistryInvariant, PTL

-----------------------------------------------------------------------------
(* Nothing is registered once the window is gone.                           *)

\* Most steps leave the stages alone, and with them the registry.
LEMMA StagesFrame ==
  ASSUME UNCHANGED stage
  PROVE  Registered' = Registered
BY DEF Registered

LEMMA NothingRegisteredLate ==
  ASSUME RegistryInv, [Next]_vars, ~callbacksAlive
  PROVE  Registered' \subseteq Registered
<1>. USE DEF RegistryInv, TypeInv
<1>1. ASSUME NEW r \in Requests, ReceiveConnect(r) \/ CompleteAdmitted(r)
      PROVE  FALSE
  BY <1>1 DEF ReceiveConnect, CompleteAdmitted, Admissible
<1>2. ASSUME NEW r \in Requests, PoolStep(r)
      PROVE  Registered' \subseteq Registered
  <2>1. CASE EvaluationDone(r)
    BY <2>1 DEF TypeOK, EvaluationDone, Registered
  <2>2. CASE PublishDecision(r)
    BY <2>2 DEF TypeOK, PublishDecision, Registered
  <2>3. CASE FinishAudit(r)
    BY <2>3 DEF FinishAudit, Registered
  <2> QED
    BY <1>2, <2>1, <2>2, <2>3
    DEF PoolStep, EvaluateAccepts, EvaluateRejects, EvaluateAuditFails
<1>3. ASSUME NEW r \in Requests, CompleteRefused(r) \/ CleanupSession(r) \/ OnThreadFinished(r)
      PROVE  Registered' \subseteq Registered
  BY <1>3 DEF TypeOK, CompleteRefused, CleanupSession, OnThreadFinished, Registered
<1>4. ASSUME NEW r \in Requests, WorkerCall(r) \/ PeerStep(r) \/ StartupTimeout(r)
      PROVE  UNCHANGED stage
  BY <1>4 DEF WorkerCall, InitWorker, InitWorkerFails, RequestDisconnect, PerformDestroy,
              WorkerEnds, PeerStep, PeerConnects, PeerDisconnects, PeerFails,
              RemoteDisconnect, StartupTimeout
<1>5. ASSUME NEW r \in Requests,
             \/ OnControlledSessionConnected(r)
             \/ OnControlledSessionDisconnected(r)
             \/ DestroyWebRtcCli(r)
      PROVE  UNCHANGED stage
  BY <1>5 DEF OnControlledSessionConnected, OnControlledSessionDisconnected, DestroyWebRtcCli
<1>6. CASE HandleAuditFailure \/ AppendFails \/ UNCHANGED vars
  BY <1>6, StagesFrame DEF HandleAuditFailure, AppendFails, vars
<1>7. CASE UserStep
  BY <1>7 DEF UserStep, SaveSettings, ChangePassword, TrayDisconnectSession,
              TrayDisconnectPeer, TrayDisconnect, Quit
<1> QED
  BY <1>1, <1>2, <1>3, <1>4, <1>5, <1>6, <1>7, StagesFrame DEF Next, Complete, HandleEvent

(* A decision that reaches the main thread after ~MainWindow has begun      *)
(* registers no session, in whatever order the pool publishes and the timer *)
(* fires (the callbackState tests of handleIncomingConnectRequest).         *)
THEOREM QuitIsFinal == Spec => NoSessionAfterQuit
<1>1. RegistryInv /\ [Next]_vars => [~callbacksAlive => Registered' \subseteq Registered]_vars
  BY NothingRegisteredLate
<1> QED
  BY <1>1, RegistryInvariant, PTL DEF Spec, NoSessionAfterQuit

-----------------------------------------------------------------------------
(* A decision taken under the current generation was taken on the current   *)
(* password: this is what lets the completion test numbers only.            *)

InDecision(r) == stage[r] \in {"evaluating", "decided", "posted"}

DecisionCurrent(r) ==
  /\ snapshot[r].generation <= policyGeneration
  /\ accepted[r] => stage[r] \in {"decided", "posted"} /\ claim[r] = snapshot[r].password
  /\ InDecision(r) /\ snapshot[r].generation = policyGeneration => snapshot[r].password = password

PolicyInv == \A r \in Requests : DecisionCurrent(r)

AdmissionInv == RegistryInv /\ PolicyInv

LEMMA InitPolicy == Init => PolicyInv
BY DEF Init, PolicyInv, DecisionCurrent, InDecision, NoSnapshot

\* A step of sessions: what it moves was admitted, and stays admitted.
LEMMA PolicyFrame ==
  ASSUME PolicyInv, UNCHANGED requestVars, UNCHANGED policyVars,
         \A r \in Requests : \/ stage'[r] = stage[r]
                             \/ stage[r] \in {"session", "leaving", "gone"}
                                /\ stage'[r] \in {"session", "leaving", "gone"}
  PROVE  PolicyInv'
<1>. SUFFICES ASSUME NEW r \in Requests PROVE DecisionCurrent(r)'
  BY DEF PolicyInv
<1>1. DecisionCurrent(r)
  BY DEF PolicyInv
<1>2. CASE stage'[r] = stage[r]
  BY <1>1, <1>2 DEF DecisionCurrent, InDecision, requestVars, policyVars
<1>3. CASE stage[r] \in {"session", "leaving", "gone"} /\ stage'[r] \in {"session", "leaving", "gone"}
  BY <1>1, <1>3 DEF DecisionCurrent, InDecision, requestVars, policyVars
<1> QED
  BY <1>2, <1>3

LEMMA ReceivePolicy ==
  ASSUME TypeOK, PolicyInv, NEW r \in Requests, ReceiveConnect(r)
  PROVE  PolicyInv'
<1>. SUFFICES ASSUME NEW q \in Requests PROVE DecisionCurrent(q)'
  BY DEF PolicyInv
<1>1. DecisionCurrent(q)
  BY DEF PolicyInv
<1>2. UNCHANGED <<policyVars, accepted>>
  BY DEF ReceiveConnect
<1>3. CASE q # r
  <2>1. stage'[q] = stage[q] /\ claim'[q] = claim[q] /\ snapshot'[q] = snapshot[q]
    BY <1>3 DEF TypeOK, ReceiveConnect
  <2> QED
    BY <1>1, <1>2, <2>1 DEF DecisionCurrent, InDecision, policyVars
<1>4. CASE q = r
  <2>1. ~accepted[r]
    BY <1>1, <1>4 DEF DecisionCurrent, ReceiveConnect
  <2>2. CASE pendingEvaluations >= MaxPending
    <3>1. stage'[r] = "rejected" /\ snapshot' = snapshot
      BY <2>2 DEF TypeOK, ReceiveConnect
    <3> QED
      BY <1>1, <1>2, <1>4, <2>1, <3>1 DEF DecisionCurrent, InDecision, policyVars
  <2>3. CASE ~(pendingEvaluations >= MaxPending)
    <3>1. snapshot'[r] = [allow |-> allowRemote, password |-> password,
                          generation |-> policyGeneration]
      BY <2>3 DEF TypeOK, ReceiveConnect
    <3>2. snapshot'[r].generation = policyGeneration /\ snapshot'[r].password = password
      BY <3>1
    <3> QED
      BY <1>2, <1>4, <2>1, <3>2 DEF TypeOK, DecisionCurrent, InDecision, policyVars
  <2> QED
    BY <2>2, <2>3
<1> QED
  BY <1>3, <1>4

LEMMA PoolPolicy ==
  ASSUME TypeOK, PolicyInv, NEW r \in Requests, PoolStep(r) \/ Complete(r)
  PROVE  PolicyInv'
<1>. SUFFICES ASSUME NEW q \in Requests PROVE DecisionCurrent(q)'
  BY DEF PolicyInv
<1>1. DecisionCurrent(q) /\ DecisionCurrent(r)
  BY DEF PolicyInv
<1>2. UNCHANGED <<policyVars, claim>>
  BY DEF PoolStep, EvaluateAccepts, EvaluateRejects, EvaluateAuditFails, PublishDecision,
         FinishAudit, Complete, CompleteRefused, CompleteAdmitted, requestVars
<1>3. CASE EvaluateAccepts(r)
  <2>1. snapshot' = snapshot /\ claim[r] = snapshot[r].password
    BY <1>3 DEF EvaluateAccepts, Authorized
  <2>2. /\ stage[r] = "evaluating" /\ stage'[r] = "decided"
        /\ q # r => stage'[q] = stage[q] /\ accepted'[q] = accepted[q]
    BY <1>3 DEF TypeOK, EvaluateAccepts, EvaluationDone
  <2> QED
    BY <1>1, <1>2, <2>1, <2>2 DEF DecisionCurrent, InDecision, policyVars
<1>4. CASE EvaluateRejects(r) \/ EvaluateAuditFails(r)
  <2>1. UNCHANGED <<snapshot, accepted>>
    BY <1>4 DEF EvaluateRejects, EvaluateAuditFails
  <2>2. stage[r] = "evaluating" /\ stage'[r] = "decided" /\ (q # r => stage'[q] = stage[q])
    BY <1>4 DEF TypeOK, EvaluateRejects, EvaluateAuditFails, EvaluationDone
  <2> QED
    BY <1>1, <1>2, <2>1, <2>2 DEF DecisionCurrent, InDecision, policyVars
<1>5. CASE PublishDecision(r) /\ callbacksAlive
  <2>1. UNCHANGED <<snapshot, accepted>>
    BY <1>5 DEF PublishDecision
  <2>2. stage[r] = "decided" /\ stage'[r] = "posted" /\ (q # r => stage'[q] = stage[q])
    BY <1>5 DEF TypeOK, PublishDecision
  <2> QED
    BY <1>1, <1>2, <2>1, <2>2 DEF DecisionCurrent, InDecision, policyVars
<1>6. CASE FinishAudit(r)
  BY <1>1, <1>6 DEF FinishAudit, DecisionCurrent, InDecision, requestVars, policyVars
<1>7. CASE (PublishDecision(r) /\ ~callbacksAlive) \/ Complete(r)
  <2>1. DiscardDecision(r)
    BY <1>7 DEF PublishDecision, Complete, CompleteRefused, CompleteAdmitted
  <2>2. /\ snapshot'[r] = NoSnapshot /\ ~accepted'[r]
        /\ q # r => snapshot'[q] = snapshot[q] /\ accepted'[q] = accepted[q]
    BY <2>1 DEF TypeOK, DiscardDecision
  <2>3. stage'[r] \in {"rejected", "session"} /\ (q # r => stage'[q] = stage[q])
    BY <1>7 DEF TypeOK, PublishDecision, Complete, CompleteRefused, CompleteAdmitted
  <2>4. NoSnapshot.generation = 0
    BY DEF NoSnapshot
  <2> QED
    BY <1>1, <1>2, <2>2, <2>3, <2>4 DEF TypeOK, DecisionCurrent, InDecision, policyVars
<1> QED
  BY <1>3, <1>4, <1>5, <1>6, <1>7 DEF PoolStep

LEMMA UserPolicy ==
  ASSUME TypeOK, PolicyInv, UserStep
  PROVE  PolicyInv'
<1>1. CASE Quit
  <2>1. \A r \in Requests : stage'[r] = stage[r] \/ (stage[r] = "session" /\ stage'[r] = "leaving")
    <3>1. stage' = [r \in Requests |-> IF r \in Registered THEN "leaving" ELSE stage[r]]
      BY <1>1 DEF Quit
    <3>2. \A r \in Requests : r \in Registered => stage[r] = "session"
      BY DEF Registered
    <3> QED
      BY <3>1, <3>2
  <2> QED
    BY <1>1, <2>1, PolicyFrame DEF Quit
<1>2. CASE TrayDisconnectSession \/ TrayDisconnectPeer
  BY <1>2, PolicyFrame DEF TrayDisconnectSession, TrayDisconnectPeer, TrayDisconnect
<1>3. CASE ChangePassword \/ \E v \in BOOLEAN : SaveSettings(v)
  <2>1. UNCHANGED <<requestVars, stage>>
    BY <1>3 DEF ChangePassword, SaveSettings
  <2>2. \/ policyGeneration' = policyGeneration + 1
        \/ policyGeneration' = policyGeneration /\ password' = password
    BY <1>3, Zenon DEF ChangePassword, SaveSettings
  <2>3. SUFFICES ASSUME NEW r \in Requests PROVE DecisionCurrent(r)'
    BY DEF PolicyInv
  <2>4. DecisionCurrent(r) /\ snapshot[r].generation \in Nat /\ policyGeneration \in Nat
    BY DEF PolicyInv, TypeOK, Snapshots
  <2> QED
    BY <2>1, <2>2, <2>4 DEF DecisionCurrent, InDecision, requestVars
<1> QED
  BY <1>1, <1>2, <1>3 DEF UserStep

LEMMA PolicyStep ==
  ASSUME AdmissionInv, [Next]_vars
  PROVE  PolicyInv'
<1>. USE DEF AdmissionInv, RegistryInv, TypeInv
<1>1. ASSUME NEW r \in Requests, WorkerCall(r) \/ PeerStep(r) \/ StartupTimeout(r)
      PROVE  PolicyInv'
  <2>1. UNCHANGED <<stage, requestVars, policyVars>>
    BY <1>1 DEF WorkerCall, InitWorker, InitWorkerFails, RequestDisconnect, PerformDestroy,
                WorkerEnds, PeerStep, PeerConnects, PeerDisconnects, PeerFails,
                RemoteDisconnect, StartupTimeout
  <2> QED
    BY <2>1, PolicyFrame
<1>2. ASSUME NEW r \in Requests, CleanupSession(r)
      PROVE  PolicyInv'
  <2>1. \A q \in Requests : stage'[q] = stage[q] \/ (stage[q] = "leaving" /\ stage'[q] = "gone")
    <3>1. stage[r] = "leaving" /\ stage' = [stage EXCEPT ![r] = "gone"]
      BY <1>2 DEF CleanupSession
    <3>2. stage \in [Requests -> Stages]
      BY DEF TypeOK
    <3> QED
      BY <3>1, <3>2
  <2> QED
    BY <1>2, <2>1, PolicyFrame DEF CleanupSession
<1>3. ASSUME NEW r \in Requests, OnThreadFinished(r)
      PROVE  PolicyInv'
  <2>1. r \in Admitted
    <3>1. Holds(mainQueue, Event("finished", r))
      BY <1>3, HoldsHead DEF TypeOK, OnThreadFinished, NextEvent
    <3> QED
      BY <3>1 DEF WorkersAdmitted
  <2>2. \A q \in Requests : stage'[q] = stage[q]
                            \/ (stage[q] \in {"session", "leaving", "gone"} /\ stage'[q] = "gone")
    <3>1. stage' = [stage EXCEPT ![r] = "gone"] /\ stage[r] \in {"session", "leaving", "gone"}
      BY <1>3, <2>1 DEF OnThreadFinished, Admitted
    <3>2. stage \in [Requests -> Stages]
      BY DEF TypeOK
    <3> QED
      BY <3>1, <3>2
  <2> QED
    BY <1>3, <2>2, PolicyFrame DEF OnThreadFinished
<1>4. ASSUME NEW r \in Requests,
             \/ OnControlledSessionConnected(r)
             \/ OnControlledSessionDisconnected(r)
             \/ DestroyWebRtcCli(r)
      PROVE  PolicyInv'
  BY <1>4, PolicyFrame
  DEF OnControlledSessionConnected, OnControlledSessionDisconnected, DestroyWebRtcCli
<1>5. CASE HandleAuditFailure \/ AppendFails
  BY <1>5, PolicyFrame DEF HandleAuditFailure, AppendFails
<1>6. CASE UNCHANGED vars
  BY <1>6, PolicyFrame DEF vars
<1> QED
  BY <1>1, <1>2, <1>3, <1>4, <1>5, <1>6, ReceivePolicy, PoolPolicy, UserPolicy
  DEF Next, HandleEvent

THEOREM AdmissionInvariant == Spec => []AdmissionInv
<1>1. Init => AdmissionInv
  BY InitRegistry, InitPolicy DEF AdmissionInv
<1>2. AdmissionInv /\ [Next]_vars => AdmissionInv'
  BY RegistryStep, PolicyStep DEF AdmissionInv
<1> QED
  BY <1>1, <1>2, PTL DEF Spec

-----------------------------------------------------------------------------
(* Refinement: every step is a step of ControlledAdmission or a stutter.    *)

LEMMA InitAdmission == Init => Admission!Init
<1>. SUFFICES ASSUME Init PROVE Admission!Init
  OBVIOUS
<1>1. Active = {}
  BY DEF Init, Active, Registered
<1>2. claim \in [Requests -> Passwords] /\ password \in Passwords /\ allowRemote \in BOOLEAN
  BY DEF Init, Passwords
<1> QED
  BY <1>1, <1>2 DEF Admission!Init

LEMMA AdmissionStutter ==
  ASSUME UNCHANGED <<allowRemote, password, claim, Active>>
  PROVE  UNCHANGED Admission!vars
BY DEF Admission!vars

LEMMA ActiveFrame ==
  ASSUME UNCHANGED <<stage, shutdownPending>>
  PROVE  Active' = Active
BY DEF Active, Registered

LEMMA AdmissionRelease ==
  ASSUME UNCHANGED <<allowRemote, password, claim>>, Active' \subseteq Active
  PROVE  Admission!Next
<1>1. Admission!Release
  BY DEF Admission!Release
<1> QED
  BY <1>1 DEF Admission!Next

LEMMA AdmittedMapsToAdmit ==
  ASSUME AdmissionInv, NEW r \in Requests, CompleteAdmitted(r)
  PROVE  Admission!Next
<1>. USE DEF AdmissionInv, RegistryInv, TypeInv
<1>1. r \notin Registered /\ r \notin shutdownPending
  BY DEF CompleteAdmitted, WorkersAdmitted, Admitted, Registered
<1>2. Registered' = Registered \cup {r} /\ shutdownPending' = shutdownPending
  BY DEF TypeOK, CompleteAdmitted, Registered
<1>3. Active' = Active \cup {r} /\ r \notin Active
  BY <1>1, <1>2 DEF Active
<1>4. allowRemote /\ claim[r] = password
  BY DEF CompleteAdmitted, Admissible, PolicyCurrent, PolicyInv, DecisionCurrent, InDecision
<1>5. /\ \A q \in Active : ~(PeerOf[q] = PeerOf[r] /\ SidOf[q] = SidOf[r])
      /\ Cardinality(Active) < MaxSessions
      /\ Cardinality({q \in Active : PeerOf[q] = PeerOf[r]}) < MaxPerPeer
  BY DEF CompleteAdmitted, Admissible, RegistryAdmits, SameSession
<1>6. UNCHANGED <<allowRemote, password, claim>>
  BY DEF CompleteAdmitted, policyVars
<1>7. \A S : Admission!Cardinality(S) = Cardinality(S)
  BY Zenon DEF Admission!Cardinality, Cardinality
<1>8. Admission!Admit(r)
  BY <1>3, <1>4, <1>5, <1>6, <1>7, Zenon DEF Admission!Admit
<1> QED
  BY <1>8 DEF Admission!Next

LEMMA ReceiveMapsToOffer ==
  ASSUME AdmissionInv, NEW r \in Requests, ReceiveConnect(r)
  PROVE  Admission!Next
<1>. USE DEF AdmissionInv, RegistryInv, TypeInv
<1>1. Active' = Active /\ r \notin Active
  <2>1. Registered' = Registered /\ r \notin Registered /\ shutdownPending' = shutdownPending
    BY DEF TypeOK, ReceiveConnect, Registered
  <2> QED
    BY <2>1 DEF Active
<1>2. \E p \in Passwords : claim' = [claim EXCEPT ![r] = p]
  <2>1. PICK p \in 0..password : claim' = [claim EXCEPT ![r] = p]
    BY DEF ReceiveConnect
  <2>2. p \in Passwords
    BY DEF TypeOK, Passwords
  <2> QED
    BY <2>1, <2>2
<1>3. Admission!Offer(r)
  BY <1>1, <1>2 DEF Admission!Offer, ReceiveConnect, policyVars
<1> QED
  BY <1>3 DEF Admission!Next

LEMMA AdmissionStep ==
  ASSUME AdmissionInv, [Next]_vars
  PROVE  [Admission!Next]_(Admission!vars)
<1>. USE DEF AdmissionInv, RegistryInv, TypeInv
<1>1. ASSUME NEW r \in Requests, PoolStep(r) \/ CompleteRefused(r) \/ CleanupSession(r)
      PROVE  UNCHANGED Admission!vars
  <2>1. /\ UNCHANGED <<policyVars, claim, shutdownPending>>
        /\ \/ UNCHANGED stage
           \/ \E x \in Stages \ {"session"} : stage[r] # "session" /\ stage' = [stage EXCEPT ![r] = x]
    BY <1>1 DEF PoolStep, EvaluateAccepts, EvaluateRejects, EvaluateAuditFails, EvaluationDone,
                PublishDecision, FinishAudit, CompleteRefused, CleanupSession, requestVars, Stages
  <2>2. Active' = Active
    BY <2>1 DEF TypeOK, Active, Registered
  <2> QED
    BY <2>1, <2>2, AdmissionStutter DEF policyVars
<1>2. ASSUME NEW r \in Requests, WorkerCall(r) \/ PeerStep(r) \/ StartupTimeout(r)
      PROVE  UNCHANGED Admission!vars
  <2>1. UNCHANGED <<stage, requestVars, policyVars, shutdownPending>>
    BY <1>2 DEF WorkerCall, InitWorker, InitWorkerFails, RequestDisconnect, PerformDestroy,
                WorkerEnds, PeerStep, PeerConnects, PeerDisconnects, PeerFails,
                RemoteDisconnect, StartupTimeout
  <2> QED
    BY <2>1, ActiveFrame, AdmissionStutter DEF requestVars, policyVars
<1>3. ASSUME NEW r \in Requests,
             OnControlledSessionConnected(r) \/ OnControlledSessionDisconnected(r)
      PROVE  UNCHANGED Admission!vars
  BY <1>3, ActiveFrame, AdmissionStutter
  DEF OnControlledSessionConnected, OnControlledSessionDisconnected, requestVars, policyVars
<1>4. ASSUME NEW r \in Requests, DestroyWebRtcCli(r)
      PROVE  Admission!Next
  <2>1. Active' \subseteq Active
    BY <1>4 DEF DestroyWebRtcCli, Active, Registered
  <2> QED
    BY <1>4, <2>1, AdmissionRelease DEF DestroyWebRtcCli, requestVars, policyVars
<1>5. ASSUME NEW r \in Requests, OnThreadFinished(r)
      PROVE  Admission!Next
  <2>1. Active' \subseteq Active
    BY <1>5 DEF TypeOK, OnThreadFinished, Active, Registered
  <2> QED
    BY <1>5, <2>1, AdmissionRelease DEF OnThreadFinished, requestVars, policyVars
<1>6. CASE HandleAuditFailure \/ AppendFails \/ UNCHANGED vars
  BY <1>6, ActiveFrame, AdmissionStutter
  DEF HandleAuditFailure, AppendFails, vars, requestVars, policyVars
<1>7. CASE TrayDisconnectSession \/ TrayDisconnectPeer
  BY <1>7, ActiveFrame, AdmissionStutter
  DEF TrayDisconnectSession, TrayDisconnectPeer, TrayDisconnect, requestVars, policyVars
<1>8. CASE Quit
  <2>1. Active' \subseteq Active
    BY <1>8 DEF TypeOK, Quit, Active, Registered
  <2> QED
    BY <1>8, <2>1, AdmissionRelease DEF Quit, requestVars, policyVars
<1>9. CASE ChangePassword \/ \E v \in BOOLEAN : SaveSettings(v)
  <2>1. UNCHANGED <<claim, stage, shutdownPending>>
    BY <1>9 DEF ChangePassword, SaveSettings, requestVars
  <2>2. allowRemote' \in BOOLEAN /\ password' \in Passwords
    BY <1>9 DEF TypeOK, ChangePassword, SaveSettings, Passwords
  <2>3. Admission!ChangePolicy
    BY <2>1, <2>2, ActiveFrame DEF Admission!ChangePolicy
  <2> QED
    BY <2>3 DEF Admission!Next
<1> QED
  BY <1>1, <1>2, <1>3, <1>4, <1>5, <1>6, <1>7, <1>8, <1>9,
     ReceiveMapsToOffer, AdmittedMapsToAdmit
  DEF Next, Complete, HandleEvent, UserStep

(* Admission keeps its promise for any number of CONNECTs, tasks in flight  *)
(* and policy changes: a session becomes active only while access is        *)
(* allowed, for the password current at that moment, within both limits and *)
(* once per session (completeIncomingConnectRequest).                       *)
THEOREM AdmissionRefined == Spec => ImplementsAdmission
<1>1. AdmissionInv /\ [Next]_vars => [Admission!Next]_(Admission!vars)
  BY AdmissionStep
<1> QED
  BY <1>1, InitAdmission, AdmissionInvariant, PTL DEF Spec, ImplementsAdmission, Admission!Spec

-----------------------------------------------------------------------------
(* Who runs, who is being shut down, and what the main thread has still to  *)
(* hear of it: what the admitted sessions rest on.                          *)

\* The flags of a worker are those of one that runs, and a peer that is
\* connected has been announced.
WorkerFlags ==
  /\ shutdownStarted \subseteq running
  /\ connectionAudited \subseteq running
  /\ \A r \in Requests : peer[r] = "connected" => r \in connectionAudited

AcceptedPending == \A r \in Requests : accepted[r] => stage[r] \in {"decided", "posted"}

Finished(r) == Holds(mainQueue, Event("finished", r))
Told(r)     == Holds(inbox[r], "shutdown")

\* While the window is there: a session has a worker or is being shut down,
\* a shutdown that a worker was told or has begun is a pending one, and the
\* end of a thread is announced for a worker that no longer runs.
Living(r) ==
  /\ stage[r] # "leaving"
  /\ r \in running => stage[r] = "session"
  /\ stage[r] = "session" => r \in running \cup shutdownPending
  /\ Told(r) \/ r \in shutdownStarted => r \in shutdownPending
  /\ Finished(r) => r \notin running /\ ~Told(r)

WindowState ==
  IF callbacksAlive THEN \A r \in Requests : Living(r)
                    ELSE Registered = {} /\ mainQueue = << >>

SessionInv == WorkerFlags /\ AcceptedPending /\ WindowState

LEMMA HoldsTailKept ==
  ASSUME NEW S, NEW s \in Seq(S), s # << >>, NEW y, Holds(s, y), y # Head(s)
  PROVE  Holds(Tail(s), y)
<1>1. PICK i \in 1..Len(s) : s[i] = y
  BY DEF Holds
<1>2. i # 1
  BY <1>1
<1>3. PICK j \in 1..Len(Tail(s)) : i = j + 1
  BY <1>1, <1>2
<1>4. Tail(s)[j] = y
  BY <1>1, <1>3
<1> QED
  BY <1>4 DEF Holds

LEMMA HoldsAppended ==
  ASSUME NEW S, NEW s \in Seq(S), NEW x \in S
  PROVE  Holds(Append(s, x), x) /\ \A y : Holds(s, y) => Holds(Append(s, x), y)
<1>1. Len(s) + 1 \in 1..Len(Append(s, x)) /\ Append(s, x)[Len(s) + 1] = x
  OBVIOUS
<1>2. \A i \in 1..Len(s) : i \in 1..Len(Append(s, x)) /\ Append(s, x)[i] = s[i]
  OBVIOUS
<1>3. Holds(Append(s, x), x)
  BY <1>1, Zenon DEF Holds
<1>4. \A y : Holds(s, y) => Holds(Append(s, x), y)
  BY <1>2, Zenon DEF Holds
<1> QED
  BY <1>3, <1>4

LEMMA HoldsEnqueued ==
  ASSUME NEW S, NEW s \in Seq(S), NEW x \in S, NEW y
  PROVE  Holds(Enqueue(s, x), y) <=> Holds(s, y) \/ y = x
<1>1. Holds(Enqueue(s, x), y) => Holds(s, y) \/ y = x
  BY HoldsEnqueue
<1>2. Holds(s, y) \/ y = x => Holds(Enqueue(s, x), y)
  BY HoldsAppended, Zenon DEF Enqueue
<1> QED
  BY <1>1, <1>2

\* What the main thread's queue holds after each way of changing it.
LEMMA HoldsPosted ==
  ASSUME TypeOK, NEW q \in Requests, NEW k \in {"connected", "destroyCli", "disconnected", "finished"},
         Post(Event(k, q)), NEW y
  PROVE  IF callbacksAlive THEN Holds(mainQueue', y) <=> Holds(mainQueue, y) \/ y = Event(k, q)
                           ELSE mainQueue' = mainQueue
<1>1. Event(k, q) \in Events /\ mainQueue \in Seq(Events)
  BY EventType DEF TypeOK
<1>2. CASE callbacksAlive
  <2>1. mainQueue' = Enqueue(mainQueue, Event(k, q))
    BY <1>2 DEF Post
  <2> QED
    BY <1>1, <1>2, <2>1, HoldsEnqueued
<1>3. CASE ~callbacksAlive
  BY <1>3 DEF Post
<1> QED
  BY <1>2, <1>3

LEMMA HoldsNext ==
  ASSUME TypeOK, NEW e, NextEvent(e), NEW y
  PROVE  /\ Holds(mainQueue, e)
         /\ Holds(mainQueue', y) => Holds(mainQueue, y)
         /\ Holds(mainQueue, y) /\ y # e => Holds(mainQueue', y)
<1>1. mainQueue \in Seq(Events) /\ mainQueue # << >> /\ e = Head(mainQueue) /\ mainQueue' = Tail(mainQueue)
  BY DEF TypeOK, NextEvent
<1>2. Holds(mainQueue, Head(mainQueue))
  BY <1>1, HoldsHead
<1>3. Holds(Tail(mainQueue), y) => Holds(mainQueue, y)
  BY <1>1, HoldsTail
<1>4. Holds(mainQueue, y) /\ y # Head(mainQueue) => Holds(Tail(mainQueue), y)
  BY <1>1, HoldsTailKept
<1> QED
  BY <1>1, <1>2, <1>3, <1>4, Zenon

LEMMA HoldsFailed ==
  ASSUME TypeOK, AuditFails, NEW y, y # AuditFailureEvent
  PROVE  Holds(mainQueue', y) <=> Holds(mainQueue, y)
<1>1. AuditFailureEvent \in Events /\ mainQueue \in Seq(Events)
  BY AuditFailureEventType DEF TypeOK
<1>2. mainQueue' = Append(mainQueue, AuditFailureEvent) \/ mainQueue' = mainQueue
  BY DEF AuditFails
<1>3. Holds(Append(mainQueue, AuditFailureEvent), y) => Holds(mainQueue, y)
  BY <1>1, HoldsAppend
<1>4. Holds(mainQueue, y) => Holds(Append(mainQueue, AuditFailureEvent), y)
  BY <1>1, HoldsAppended
<1> QED
  BY <1>2, <1>3, <1>4, Zenon

\* What an inbox holds after a call was taken or requestDisconnect queued.
LEMMA ToldTaken ==
  ASSUME TypeOK, NEW r \in Requests, NEW c, TakeCall(r, c), NEW q \in Requests
  PROVE  /\ Told(q)' => Told(q)
         /\ Told(q) /\ (q # r \/ c # "shutdown") => Told(q)'
         /\ c = "shutdown" => Told(r)
<1>1. inbox[r] \in Seq(Calls) /\ inbox[r] # << >> /\ c = Head(inbox[r])
  BY DEF TypeOK, TakeCall
<1>2. q = r => inbox'[q] = Tail(inbox[r])
  BY DEF TypeOK, TakeCall
<1>3. q # r => inbox'[q] = inbox[q]
  BY DEF TypeOK, TakeCall
<1>4. Holds(Tail(inbox[r]), "shutdown") => Holds(inbox[r], "shutdown")
  BY <1>1, HoldsTail
<1>5. Holds(inbox[r], "shutdown") /\ c # "shutdown" => Holds(Tail(inbox[r]), "shutdown")
  BY <1>1, HoldsTailKept
<1>6. Holds(inbox[r], c)
  BY <1>1, HoldsHead
<1> QED
  BY <1>2, <1>3, <1>4, <1>5, <1>6, Zenon DEF Told

LEMMA ToldQueued ==
  ASSUME TypeOK, NEW S, QueueDisconnect(S), NEW q \in Requests
  PROVE  Told(q)' <=> Told(q)
<1>1. inbox[q] \in Seq(Calls) /\ "requestDisconnect" \in Calls
  BY DEF TypeOK, Calls
<1>2. inbox'[q] = IF q \in S \cap running THEN Enqueue(inbox[q], "requestDisconnect") ELSE inbox[q]
  BY DEF QueueDisconnect
<1>3. Holds(Enqueue(inbox[q], "requestDisconnect"), "shutdown") <=> Holds(inbox[q], "shutdown")
  BY <1>1, HoldsEnqueued
<1> QED
  BY <1>2, <1>3, Zenon DEF Told

-----------------------------------------------------------------------------
(* Most steps leave the lives of the sessions alone.                        *)

SteadyStep ==
  \/ \E r \in Requests :
       \/ InitWorker(r) \/ InitWorkerFails(r) \/ RequestDisconnect(r)
       \/ PeerStep(r) \/ StartupTimeout(r)
       \/ OnControlledSessionConnected(r) \/ OnControlledSessionDisconnected(r)
  \/ HandleAuditFailure
  \/ AppendFails
  \/ UserStep /\ ~Quit
  \/ UNCHANGED vars

RequestStep(r) == ReceiveConnect(r) \/ PoolStep(r) \/ CompleteRefused(r)

LEMMA StepKinds ==
  ASSUME [Next]_vars
  PROVE  \/ SteadyStep
         \/ \E r \in Requests :
              \/ RequestStep(r) \/ CompleteAdmitted(r)
              \/ PerformDestroy(r) \/ WorkerEnds(r)
              \/ DestroyWebRtcCli(r) \/ OnThreadFinished(r) \/ CleanupSession(r)
         \/ Quit
BY Zenon DEF Next, Complete, WorkerCall, HandleEvent, SteadyStep, RequestStep

\* What such a step keeps.
Steady ==
  /\ UNCHANGED <<stage, running, shutdownPending, shutdownStarted, callbacksAlive, accepted, audit>>
  /\ \A q \in Requests : (Told(q)' <=> Told(q)) /\ (Finished(q)' <=> Finished(q))

LEMMA QuietQueues ==
  /\ UNCHANGED inbox => \A q \in Requests : Told(q)' <=> Told(q)
  /\ UNCHANGED mainQueue => \A q \in Requests : Finished(q)' <=> Finished(q)
BY DEF Told, Finished

LEMMA KindsDiffer ==
  ASSUME NEW q, NEW r, NEW k \in {"connected", "destroyCli", "disconnected"}
  PROVE  Event("finished", q) # Event(k, r) /\ Event("finished", q) # AuditFailureEvent
<1>1. "finished" # k
  OBVIOUS
<1> QED
  BY <1>1, EventsDiffer

LEMMA FinishedPosted ==
  ASSUME TypeOK, NEW r \in Requests, NEW k \in {"connected", "destroyCli", "disconnected"},
         Post(Event(k, r)), NEW q \in Requests
  PROVE  Finished(q)' <=> Finished(q)
<1>1. Event("finished", q) # Event(k, r)
  BY KindsDiffer
<1>2. IF callbacksAlive
      THEN Holds(mainQueue', Event("finished", q))
             <=> Holds(mainQueue, Event("finished", q)) \/ Event("finished", q) = Event(k, r)
      ELSE mainQueue' = mainQueue
  BY HoldsPosted
<1> QED
  BY <1>1, <1>2, Zenon DEF Finished

LEMMA FinishedNext ==
  ASSUME TypeOK, NEW e, NextEvent(e), NEW q \in Requests
  PROVE  /\ Finished(q)' => Finished(q)
         /\ e # Event("finished", q) => (Finished(q)' <=> Finished(q))
BY HoldsNext, Zenon DEF Finished

LEMMA SteadySteps ==
  ASSUME TypeOK, SteadyStep
  PROVE  Steady
<1>. USE QuietQueues
<1>. USE DEF Steady, requestVars, workerVars
<1>1. ASSUME NEW r \in Requests, InitWorker(r)
      PROVE  Steady
  <2>1. \A q \in Requests : Told(q)' <=> Told(q)
    BY <1>1, ToldTaken DEF InitWorker
  <2> QED
    BY <1>1, <2>1 DEF InitWorker
<1>2. ASSUME NEW r \in Requests, InitWorkerFails(r) \/ RequestDisconnect(r)
      PROVE  Steady
  <2>1. \A q \in Requests : Told(q)' <=> Told(q)
    <3>1. TakeCall(r, "init") \/ TakeCall(r, "requestDisconnect")
      BY <1>2 DEF InitWorkerFails, RequestDisconnect
    <3> QED
      BY <3>1, ToldTaken
  <2>2. \A q \in Requests : Finished(q)' <=> Finished(q)
    BY <1>2, FinishedPosted DEF InitWorkerFails, RequestDisconnect
  <2> QED
    BY <1>2, <2>1, <2>2 DEF InitWorkerFails, RequestDisconnect
<1>3. ASSUME NEW r \in Requests, PeerStep(r) \/ StartupTimeout(r)
      PROVE  Steady
  <2>1. \A q \in Requests : Finished(q)' <=> Finished(q)
    <3>1. UNCHANGED mainQueue \/ Post(Event("connected", r)) \/ Post(Event("destroyCli", r))
      BY <1>3, Zenon DEF PeerStep, PeerConnects, PeerDisconnects, PeerFails, RemoteDisconnect, StartupTimeout
    <3> QED
      BY <3>1, FinishedPosted
  <2> QED
    BY <1>3, <2>1 DEF PeerStep, PeerConnects, PeerDisconnects, PeerFails, RemoteDisconnect, StartupTimeout
<1>4. ASSUME NEW r \in Requests, OnControlledSessionConnected(r) \/ OnControlledSessionDisconnected(r)
      PROVE  Steady
  <2>1. \A q \in Requests : Finished(q)' <=> Finished(q)
    <3>1. NextEvent(Event("connected", r)) \/ NextEvent(Event("disconnected", r))
      BY <1>4 DEF OnControlledSessionConnected, OnControlledSessionDisconnected
    <3> QED
      BY <3>1, FinishedNext, KindsDiffer
  <2> QED
    BY <1>4, <2>1 DEF OnControlledSessionConnected, OnControlledSessionDisconnected
<1>5. CASE HandleAuditFailure
  <2>1. \A q \in Requests : Finished(q)' <=> Finished(q)
    <3>1. NextEvent(AuditFailureEvent)
      BY <1>5 DEF HandleAuditFailure
    <3>2. \A q \in Requests : AuditFailureEvent # Event("finished", q)
      BY EventsDiffer
    <3> QED
      BY <3>1, <3>2, FinishedNext, Zenon
  <2>2. \A q \in Requests : Told(q)' <=> Told(q)
    BY <1>5, ToldQueued DEF HandleAuditFailure
  <2> QED
    BY <1>5, <2>1, <2>2 DEF HandleAuditFailure
<1>6. CASE AppendFails
  <2>1. \A q \in Requests : Finished(q)' <=> Finished(q)
    <3>1. AuditFails
      BY <1>6 DEF AppendFails
    <3>2. \A q \in Requests : Event("finished", q) # AuditFailureEvent
      BY EventsDiffer
    <3> QED
      BY <3>1, <3>2, HoldsFailed, Zenon DEF Finished
  <2> QED
    BY <1>6, <2>1 DEF AppendFails
<1>7. CASE UserStep /\ ~Quit
  <2>1. UNCHANGED inbox \/ \E S : QueueDisconnect(S)
    BY <1>7, Zenon DEF UserStep, SaveSettings, ChangePassword, TrayDisconnectSession, TrayDisconnectPeer,
                       TrayDisconnect
  <2>2. \A q \in Requests : Told(q)' <=> Told(q)
    BY <2>1, ToldQueued
  <2> QED
    BY <1>7, <2>2 DEF UserStep, SaveSettings, ChangePassword, TrayDisconnectSession, TrayDisconnectPeer,
                      TrayDisconnect
<1>8. CASE UNCHANGED vars
  BY <1>8 DEF vars
<1> QED
  BY <1>1, <1>2, <1>3, <1>4, <1>5, <1>6, <1>7, <1>8 DEF SteadyStep

LEMMA RequestSteps ==
  ASSUME TypeOK, NEW r \in Requests, RequestStep(r)
  PROVE  /\ stage[r] \in {"unsent", "evaluating", "decided", "posted"} \/ UNCHANGED stage
         /\ stage'[r] \notin {"session", "leaving"} \/ UNCHANGED stage
         /\ \A q \in Requests \ {r} : stage'[q] = stage[q]
         /\ UNCHANGED <<running, shutdownPending, shutdownStarted, callbacksAlive, inbox>>
         /\ \A q \in Requests : (Told(q)' <=> Told(q)) /\ (Finished(q)' <=> Finished(q))
<1>1. \A q \in Requests : Finished(q)' <=> Finished(q)
  <2>1. UNCHANGED mainQueue \/ AuditFails
    BY Zenon DEF RequestStep, ReceiveConnect, PoolStep, EvaluateAccepts, EvaluateRejects,
                 EvaluateAuditFails, PublishDecision, FinishAudit, CompleteRefused
  <2>2. \A q \in Requests : Event("finished", q) # AuditFailureEvent
    BY EventsDiffer
  <2> QED
    BY <2>1, <2>2, QuietQueues, HoldsFailed, Zenon DEF Finished
<1>2. UNCHANGED <<running, shutdownPending, shutdownStarted, callbacksAlive, inbox>>
  BY Zenon DEF RequestStep, ReceiveConnect, PoolStep, EvaluateAccepts, EvaluateRejects,
               EvaluateAuditFails, PublishDecision, FinishAudit, CompleteRefused, workerVars
<1>3. UNCHANGED stage \/ \E x \in {"rejected", "evaluating", "decided", "posted"} :
                           stage' = [stage EXCEPT ![r] = x]
  BY Zenon DEF RequestStep, ReceiveConnect, PoolStep, EvaluateAccepts, EvaluateRejects, EvaluationDone,
               EvaluateAuditFails, PublishDecision, FinishAudit, CompleteRefused
<1>4. UNCHANGED stage \/ stage[r] \in {"unsent", "evaluating", "decided", "posted"}
  BY Zenon DEF RequestStep, ReceiveConnect, PoolStep, EvaluateAccepts, EvaluateRejects, EvaluationDone,
               EvaluateAuditFails, PublishDecision, FinishAudit, CompleteRefused
<1> QED
  BY <1>1, <1>2, <1>3, <1>4, QuietQueues DEF TypeOK

-----------------------------------------------------------------------------
(* The lives of sessions, step by step.                                     *)

LEMMA LivingFrame ==
  ASSUME NEW q \in Requests, Living(q),
         stage'[q] = stage[q] \/ (stage[q] # "session" /\ stage'[q] \notin {"session", "leaving"}),
         q \in running' <=> q \in running,
         q \in shutdownPending' <=> q \in shutdownPending,
         q \in shutdownStarted' => q \in shutdownStarted,
         Told(q)' => Told(q), Finished(q)' => Finished(q),
         stage'[q] # stage[q] => q \notin running
  PROVE  Living(q)'
BY DEF Living

\* An admitted request is no longer one on its way through the pool.
LEMMA OnItsWay ==
  ASSUME RegistryInv, NEW r \in Requests, stage[r] \in {"unsent", "evaluating", "decided", "posted"}
  PROVE  r \notin running /\ r \notin shutdownPending /\ ~Finished(r) /\ stage[r] # "session"
BY DEF RegistryInv, WorkersAdmitted, Admitted, Finished

LEMMA LivingStep ==
  ASSUME RegistryInv, SessionInv, [Next]_vars, callbacksAlive'
  PROVE  callbacksAlive /\ \A q \in Requests : Living(q)'
<1>. USE DEF SessionInv
<1>0. TypeOK
  BY DEF RegistryInv, TypeInv
<1>1. CASE SteadyStep
  <2>1. Steady
    BY <1>0, <1>1, SteadySteps
  <2>2. callbacksAlive /\ \A q \in Requests : Living(q)
    BY <2>1 DEF Steady, WindowState
  <2> QED
    BY <2>1, <2>2, LivingFrame DEF Steady
<1>2. ASSUME NEW r \in Requests, RequestStep(r)
      PROVE  callbacksAlive /\ \A q \in Requests : Living(q)'
  <2>1. callbacksAlive /\ \A q \in Requests : Living(q)
    BY <1>0, <1>2, RequestSteps DEF WindowState
  <2>2. \/ UNCHANGED stage
        \/ r \notin running /\ stage[r] # "session" /\ stage'[r] \notin {"session", "leaving"}
    BY <1>0, <1>2, RequestSteps, OnItsWay
  <2> QED
    BY <1>0, <1>2, <2>1, <2>2, RequestSteps, LivingFrame
<1>3. ASSUME NEW r \in Requests, CompleteAdmitted(r)
      PROVE  callbacksAlive /\ \A q \in Requests : Living(q)'
  <2>1. callbacksAlive /\ \A q \in Requests : Living(q)
    BY <1>3 DEF CompleteAdmitted, WindowState
  <2>2. r \notin running /\ r \notin shutdownPending /\ ~Finished(r) /\ r \notin shutdownStarted
    BY <1>3, OnItsWay DEF CompleteAdmitted, WorkerFlags
  <2>3. stage' = [stage EXCEPT ![r] = "session"] /\ running' = running \cup {r}
        /\ inbox' = [inbox EXCEPT ![r] = <<"init">>]
        /\ UNCHANGED <<shutdownPending, shutdownStarted, mainQueue>>
    BY <1>3 DEF CompleteAdmitted
  <2>4. ~Holds(<<"init">>, "shutdown")
    BY DEF Holds
  <2>5. ~Told(r)' /\ \A q \in Requests \ {r} : Told(q)' <=> Told(q)
    BY <1>0, <2>3, <2>4 DEF Told, TypeOK
  <2>6. \A q \in Requests : Finished(q)' <=> Finished(q)
    BY <2>3, QuietQueues
  <2>7. Living(r)'
    BY <1>0, <2>2, <2>3, <2>5, <2>6 DEF Living, TypeOK
  <2>8. ASSUME NEW q \in Requests \ {r}
        PROVE  Living(q)'
    BY <1>0, <2>1, <2>3, <2>5, <2>6, LivingFrame DEF TypeOK
  <2> QED
    BY <2>1, <2>7, <2>8
<1>4. ASSUME NEW r \in Requests, PerformDestroy(r)
      PROVE  callbacksAlive /\ \A q \in Requests : Living(q)'
  <2>1. callbacksAlive /\ \A q \in Requests : Living(q)
    BY <1>4 DEF PerformDestroy, WindowState
  <2>2. Told(r) /\ \A q \in Requests : Told(q)' => Told(q)
    BY <1>0, <1>4, ToldTaken DEF PerformDestroy
  <2>3. \A q \in Requests : Finished(q)' <=> Finished(q)
    BY <1>0, <1>4, FinishedPosted DEF PerformDestroy
  <2>4. r \in shutdownPending
    BY <2>1, <2>2 DEF Living
  <2>5. shutdownStarted' = shutdownStarted \cup {r} /\ UNCHANGED <<stage, shutdownPending, running>>
    BY <1>4 DEF PerformDestroy
  <2> QED
    BY <2>1, <2>2, <2>3, <2>4, <2>5, Zenon DEF Living
<1>5. ASSUME NEW r \in Requests, WorkerEnds(r)
      PROVE  callbacksAlive /\ \A q \in Requests : Living(q)'
  <2>1. callbacksAlive /\ \A q \in Requests : Living(q)
    BY <1>5 DEF WorkerEnds, WindowState
  <2>2. r \in shutdownPending
    BY <1>5, <2>1 DEF WorkerEnds, Living
  <2>3. ~Told(r)' /\ \A q \in Requests \ {r} : Told(q)' <=> Told(q)
    <3>1. ~Holds(<< >>, "shutdown")
      BY DEF Holds
    <3> QED
      BY <1>0, <1>5, <3>1 DEF WorkerEnds, Told, TypeOK
  <2>4. ASSUME NEW q \in Requests \ {r}
        PROVE  Finished(q)' <=> Finished(q)
    <3>1. Event("finished", q) # Event("finished", r)
      BY EventsDiffer
    <3> QED
      BY <1>0, <1>5, <2>1, <3>1, HoldsPosted DEF WorkerEnds, Finished
  <2>5. /\ running' = running \ {r} /\ shutdownStarted' = shutdownStarted \ {r}
        /\ UNCHANGED <<stage, shutdownPending>>
    BY <1>5 DEF WorkerEnds
  <2>6. Living(r)'
    BY <2>1, <2>2, <2>3, <2>5 DEF Living
  <2>7. ASSUME NEW q \in Requests \ {r}
        PROVE  Living(q)'
    BY <2>1, <2>3, <2>4, <2>5, LivingFrame
  <2> QED
    BY <2>1, <2>6, <2>7
<1>6. ASSUME NEW r \in Requests, DestroyWebRtcCli(r)
      PROVE  callbacksAlive /\ \A q \in Requests : Living(q)'
  <2>1. callbacksAlive /\ \A q \in Requests : Living(q)
    BY <1>6 DEF DestroyWebRtcCli, WindowState
  <2>2. \A q \in Requests : Finished(q)' <=> Finished(q)
    <3>1. \A q \in Requests : Event("destroyCli", r) # Event("finished", q)
      BY EventsDiffer
    <3> QED
      BY <1>0, <1>6, <3>1, FinishedNext DEF DestroyWebRtcCli
  <2>3. UNCHANGED <<stage, running, shutdownStarted>>
    BY <1>6 DEF DestroyWebRtcCli
  <2>4. CASE r \notin Active
    <3>1. UNCHANGED <<shutdownPending, inbox>>
      BY <1>6, <2>4 DEF DestroyWebRtcCli
    <3> QED
      BY <2>1, <2>2, <2>3, <3>1, QuietQueues, LivingFrame
  <2>5. CASE r \in Active
    <3>1. shutdownPending' = shutdownPending \cup {r} /\ inbox' = [inbox EXCEPT ![r] = Append(@, "shutdown")]
      BY <1>6, <2>5 DEF DestroyWebRtcCli
    <3>2. stage[r] = "session" /\ r \in running /\ ~Finished(r)
      BY <2>1, <2>5 DEF Active, Registered, Living
    <3>3. \A q \in Requests \ {r} : Told(q)' <=> Told(q)
      BY <1>0, <3>1 DEF Told, TypeOK
    <3>4. Living(r)'
      BY <2>2, <2>3, <3>1, <3>2 DEF Living
    <3>5. ASSUME NEW q \in Requests \ {r}
          PROVE  Living(q)'
      BY <2>1, <2>2, <2>3, <3>1, <3>3, LivingFrame
    <3> QED
      BY <2>1, <3>4, <3>5
  <2> QED
    BY <2>4, <2>5
<1>7. ASSUME NEW r \in Requests, OnThreadFinished(r)
      PROVE  callbacksAlive /\ \A q \in Requests : Living(q)'
  <2>1. callbacksAlive /\ \A q \in Requests : Living(q)
    BY <1>7 DEF OnThreadFinished, WindowState
  <2>2. Finished(r)
    BY <1>0, <1>7, HoldsNext DEF OnThreadFinished, Finished
  <2>3. r \notin running /\ ~Told(r) /\ r \notin shutdownStarted
    BY <2>1, <2>2 DEF Living, WorkerFlags
  <2>4. /\ stage' = [stage EXCEPT ![r] = "gone"] /\ shutdownPending' = shutdownPending \ {r}
        /\ UNCHANGED <<running, shutdownStarted, inbox>>
    BY <1>7 DEF OnThreadFinished, workerVars
  <2>5. \A q \in Requests : Finished(q)' => Finished(q)
    BY <1>0, <1>7, FinishedNext DEF OnThreadFinished
  <2>6. \A q \in Requests : Told(q)' <=> Told(q)
    BY <2>4, QuietQueues
  <2>7. Living(r)'
    BY <1>0, <2>3, <2>4, <2>6 DEF Living, TypeOK
  <2>8. ASSUME NEW q \in Requests \ {r}
        PROVE  Living(q)'
    BY <1>0, <2>1, <2>4, <2>5, <2>6, LivingFrame DEF TypeOK
  <2> QED
    BY <2>1, <2>7, <2>8
<1>8. ASSUME NEW r \in Requests, CleanupSession(r)
      PROVE  FALSE
  BY <1>8 DEF CleanupSession, WindowState, Living
<1>9. CASE Quit
  BY <1>9 DEF Quit
<1> QED
  BY <1>1, <1>2, <1>3, <1>4, <1>5, <1>6, <1>7, <1>8, <1>9, StepKinds

LEMMA WindowGoneStep ==
  ASSUME RegistryInv, SessionInv, [Next]_vars, ~callbacksAlive'
  PROVE  Registered' = {} /\ mainQueue' = << >>
<1>0. TypeOK
  BY DEF RegistryInv, TypeInv
<1>1. CASE Quit
  BY <1>0, <1>1 DEF Quit, Registered, TypeOK
<1>2. CASE ~Quit
  <2>1. ~callbacksAlive
    <3>1. SteadyStep => UNCHANGED callbacksAlive
      BY <1>0, SteadySteps DEF Steady
    <3> QED
      BY <1>0, <1>2, <3>1, StepKinds, RequestSteps
      DEF CompleteAdmitted, PerformDestroy, WorkerEnds, DestroyWebRtcCli, OnThreadFinished, CleanupSession
  <2>2. Registered = {} /\ mainQueue = << >>
    BY <2>1 DEF SessionInv, WindowState
  <2>3. Registered' \subseteq Registered
    BY <1>0, <2>1, NothingRegisteredLate DEF RegistryInv, TypeInv
  <2>4. \A e : ~NextEvent(e)
    BY <2>2 DEF NextEvent
  <2>5. \A e : Post(e) => UNCHANGED mainQueue
    BY <2>1, Zenon DEF Post
  <2>6. AuditFails => UNCHANGED mainQueue
    BY <2>1, Zenon DEF AuditFails
  <2>7. UNCHANGED mainQueue
    BY <1>2, <2>4, <2>5, <2>6, Zenon
    DEF Next, vars, ReceiveConnect, PoolStep, EvaluateAccepts, EvaluateRejects, EvaluateAuditFails,
        PublishDecision, FinishAudit, Complete, CompleteRefused, CompleteAdmitted, WorkerCall, InitWorker,
        InitWorkerFails, RequestDisconnect, PerformDestroy, WorkerEnds, PeerStep, PeerConnects,
        PeerDisconnects, PeerFails, RemoteDisconnect, StartupTimeout, CleanupSession, HandleEvent,
        OnControlledSessionConnected, OnControlledSessionDisconnected, DestroyWebRtcCli, OnThreadFinished,
        HandleAuditFailure, AppendFails, UserStep, SaveSettings, ChangePassword, TrayDisconnectSession,
        TrayDisconnectPeer, TrayDisconnect
  <2> QED
    BY <2>2, <2>3, <2>7
<1> QED
  BY <1>1, <1>2

\* The flags of the workers, and the decisions that were accepted.
LEMMA FlagsStep ==
  ASSUME RegistryInv, SessionInv, [Next]_vars
  PROVE  WorkerFlags'
<1>. USE DEF SessionInv
<1>0. TypeOK
  BY DEF RegistryInv, TypeInv
<1>1. ASSUME UNCHANGED <<shutdownStarted, running, connectionAudited, peer>>
      PROVE  WorkerFlags'
  BY <1>1 DEF WorkerFlags
<1>2. ASSUME NEW r \in Requests, InitWorker(r) \/ PeerDisconnects(r) \/ PeerFails(r)
      PROVE  WorkerFlags'
  <2>1. UNCHANGED <<shutdownStarted, running, connectionAudited>>
    BY <1>2 DEF InitWorker, PeerDisconnects, PeerFails
  <2>2. \A q \in Requests : peer'[q] = "connected" => peer[q] = "connected"
    BY <1>0, <1>2 DEF InitWorker, PeerDisconnects, PeerFails, TypeOK
  <2> QED
    BY <2>1, <2>2 DEF WorkerFlags
<1>3. ASSUME NEW r \in Requests, PeerConnects(r)
      PROVE  WorkerFlags'
  <2>1. UNCHANGED <<shutdownStarted, running>> /\ r \in running
        /\ connectionAudited' = connectionAudited \cup {r} /\ peer' = [peer EXCEPT ![r] = "connected"]
    BY <1>3 DEF PeerConnects, Listening
  <2> QED
    BY <1>0, <2>1 DEF WorkerFlags, TypeOK
<1>4. ASSUME NEW r \in Requests, WorkerEnds(r)
      PROVE  WorkerFlags'
  BY <1>0, <1>4 DEF WorkerEnds, WorkerFlags, TypeOK
<1>5. ASSUME NEW r \in Requests, PerformDestroy(r) \/ CompleteAdmitted(r)
      PROVE  WorkerFlags'
  BY <1>0, <1>5 DEF PerformDestroy, CompleteAdmitted, TakeCall, Listening, WorkerFlags, TypeOK
<1> QED
  BY <1>1, <1>2, <1>3, <1>4, <1>5, Zenon
  DEF Next, vars, ReceiveConnect, PoolStep, EvaluateAccepts, EvaluateRejects, EvaluateAuditFails,
      PublishDecision, FinishAudit, Complete, CompleteRefused, WorkerCall,
      InitWorkerFails, RequestDisconnect, PeerStep, RemoteDisconnect, StartupTimeout, CleanupSession,
      HandleEvent, OnControlledSessionConnected, OnControlledSessionDisconnected, DestroyWebRtcCli,
      OnThreadFinished, HandleAuditFailure, AppendFails, UserStep, SaveSettings, ChangePassword,
      TrayDisconnectSession, TrayDisconnectPeer, TrayDisconnect, Quit, workerVars

LEMMA AcceptedStep ==
  ASSUME RegistryInv, SessionInv, [Next]_vars
  PROVE  AcceptedPending'
<1>. USE DEF SessionInv
<1>0. TypeOK
  BY DEF RegistryInv, TypeInv
<1>1. ASSUME UNCHANGED <<stage, accepted>>
      PROVE  AcceptedPending'
  BY <1>1 DEF AcceptedPending
<1>2. ASSUME NEW r \in Requests, UNCHANGED accepted, stage[r] \notin {"decided", "posted"},
             \A q \in Requests \ {r} : stage'[q] = stage[q]
      PROVE  AcceptedPending'
  BY <1>2 DEF AcceptedPending
<1>3. ASSUME NEW r \in Requests, RequestStep(r)
      PROVE  AcceptedPending'
  <2>1. CASE ReceiveConnect(r)
    BY <1>0, <1>2, <2>1 DEF ReceiveConnect, TypeOK
  <2>2. CASE EvaluationDone(r) /\ \A q \in Requests \ {r} : accepted'[q] = accepted[q]
    BY <1>0, <2>2 DEF EvaluationDone, AcceptedPending, TypeOK
  <2>3. CASE PublishDecision(r)
    BY <1>0, <2>3 DEF PublishDecision, DiscardDecision, AcceptedPending, TypeOK
  <2>4. CASE FinishAudit(r)
    BY <1>1, <2>4 DEF FinishAudit, requestVars
  <2>5. CASE CompleteRefused(r)
    BY <1>0, <2>5 DEF CompleteRefused, DiscardDecision, AcceptedPending, TypeOK
  <2>6. EvaluateAccepts(r) \/ EvaluateRejects(r) \/ EvaluateAuditFails(r)
          => EvaluationDone(r) /\ \A q \in Requests \ {r} : accepted'[q] = accepted[q]
    BY <1>0 DEF EvaluateAccepts, EvaluateRejects, EvaluateAuditFails, TypeOK
  <2> QED
    BY <1>3, <2>1, <2>2, <2>3, <2>4, <2>5, <2>6 DEF RequestStep, PoolStep
<1>4. ASSUME NEW r \in Requests, CompleteAdmitted(r)
      PROVE  AcceptedPending'
  BY <1>0, <1>4 DEF CompleteAdmitted, DiscardDecision, AcceptedPending, TypeOK
<1>5. ASSUME NEW r \in Requests,
             \/ PerformDestroy(r) \/ WorkerEnds(r) \/ DestroyWebRtcCli(r)
      PROVE  AcceptedPending'
  BY <1>1, <1>5 DEF PerformDestroy, WorkerEnds, DestroyWebRtcCli, requestVars
<1>6. ASSUME NEW r \in Requests, OnThreadFinished(r)
      PROVE  AcceptedPending'
  <2>1. Finished(r)
    BY <1>0, <1>6, HoldsNext DEF OnThreadFinished, Finished
  <2>2. stage[r] \notin {"decided", "posted"}
    BY <2>1, OnItsWay
  <2> QED
    BY <1>0, <1>2, <1>6, <2>2 DEF OnThreadFinished, requestVars, TypeOK
<1>7. ASSUME NEW r \in Requests, CleanupSession(r)
      PROVE  AcceptedPending'
  BY <1>0, <1>2, <1>7 DEF CleanupSession, requestVars, TypeOK
<1>8. CASE Quit
  BY <1>0, <1>8 DEF Quit, requestVars, Registered, AcceptedPending, TypeOK
<1>9. CASE SteadyStep
  BY <1>0, <1>1, <1>9, SteadySteps DEF Steady
<1> QED
  BY <1>3, <1>4, <1>5, <1>6, <1>7, <1>8, <1>9, StepKinds

LEMMA InitSessions == Init => SessionInv
<1>. SUFFICES ASSUME Init PROVE SessionInv
  OBVIOUS
<1>1. ASSUME NEW q \in Requests
      PROVE  ~Told(q) /\ ~Finished(q)
  BY DEF Init, Told, Finished, Holds
<1> QED
  BY <1>1 DEF Init, SessionInv, WorkerFlags, AcceptedPending, WindowState, Living

LEMMA SessionStep == RegistryInv /\ SessionInv /\ [Next]_vars => SessionInv'
<1>. SUFFICES ASSUME RegistryInv, SessionInv, [Next]_vars PROVE SessionInv'
  OBVIOUS
<1>1. WindowState'
  <2>1. CASE callbacksAlive'
    BY <2>1, LivingStep, Zenon DEF WindowState
  <2>2. CASE ~callbacksAlive'
    BY <2>2, WindowGoneStep, Zenon DEF WindowState
  <2> QED
    BY <2>1, <2>2
<1> QED
  BY <1>1, FlagsStep, AcceptedStep DEF SessionInv

-----------------------------------------------------------------------------
(* What a session owns.                                                     *)

LEMMA NegotiationStep ==
  ASSUME RegistryInv, SessionInv, OneNegotiation, [Next]_vars
  PROVE  OneNegotiation'
<1>0. TypeOK /\ WorkerFlags /\ WindowState
  BY DEF RegistryInv, TypeInv, SessionInv
<1>1. ASSUME Active' \subseteq Active, connectionAudited \subseteq connectionAudited'
      PROVE  OneNegotiation'
  BY <1>1 DEF OneNegotiation
<1>2. ASSUME NEW r \in Requests, RequestStep(r)
      PROVE  OneNegotiation'
  <2>1. Active' \subseteq Active
    BY <1>0, <1>2, RequestSteps DEF Active, Registered
  <2>2. UNCHANGED connectionAudited
    BY <1>2, Zenon DEF RequestStep, ReceiveConnect, PoolStep, EvaluateAccepts, EvaluateRejects,
                       EvaluateAuditFails, PublishDecision, FinishAudit, CompleteRefused, workerVars
  <2> QED
    BY <1>1, <2>1, <2>2
<1>3. ASSUME NEW r \in Requests, CompleteAdmitted(r)
      PROVE  OneNegotiation'
  <2>1. Active' \subseteq Active \cup {r} /\ UNCHANGED connectionAudited
    BY <1>0, <1>3 DEF CompleteAdmitted, Active, Registered, TypeOK
  <2>2. \A q \in Active : SameMode(q, r) => peer[q] = "connected"
    BY <1>3 DEF CompleteAdmitted, Admissible, RegistryAdmits
  <2>3. \A q \in Active : SameMode(q, r) => q \in connectionAudited
    BY <1>0, <2>2 DEF WorkerFlags, Active, Registered
  <2>4. \A q : SameMode(r, q) => SameMode(q, r)
    BY DEF SameMode
  <2> QED
    BY <2>1, <2>3, <2>4 DEF OneNegotiation
<1>4. ASSUME NEW r \in Requests, PerformDestroy(r) \/ DestroyWebRtcCli(r)
      PROVE  OneNegotiation'
  BY <1>1, <1>4 DEF PerformDestroy, DestroyWebRtcCli, Active, Registered
<1>5. ASSUME NEW r \in Requests, WorkerEnds(r)
      PROVE  OneNegotiation'
  <2>1. r \notin Active
    BY <1>0, <1>5 DEF WorkerEnds, WindowState, Living, Active
  <2>2. Active' = Active /\ connectionAudited' = connectionAudited \ {r}
    BY <1>5 DEF WorkerEnds, Active, Registered
  <2> QED
    BY <2>1, <2>2 DEF OneNegotiation
<1>6. ASSUME NEW r \in Requests, OnThreadFinished(r)
      PROVE  OneNegotiation'
  <2>1. Active' \subseteq Active /\ UNCHANGED connectionAudited
    BY <1>0, <1>6 DEF OnThreadFinished, Active, Registered, workerVars, TypeOK
  <2> QED
    BY <1>1, <2>1
<1>7. ASSUME NEW r \in Requests, CleanupSession(r)
      PROVE  OneNegotiation'
  BY <1>0, <1>1, <1>7 DEF CleanupSession, Active, Registered, TypeOK
<1>8. CASE Quit
  BY <1>0, <1>1, <1>8 DEF Quit, Active, Registered, workerVars, TypeOK
<1>9. CASE SteadyStep
  <2>1. Active' = Active
    BY <1>0, <1>9, SteadySteps DEF Steady, Active, Registered
  <2>2. connectionAudited \subseteq connectionAudited'
    BY <1>9, Zenon
    DEF SteadyStep, InitWorker, InitWorkerFails, RequestDisconnect, PeerStep, PeerConnects, PeerDisconnects,
        PeerFails, RemoteDisconnect, StartupTimeout, OnControlledSessionConnected,
        OnControlledSessionDisconnected, HandleAuditFailure, AppendFails, UserStep, SaveSettings,
        ChangePassword, TrayDisconnectSession, TrayDisconnectPeer, TrayDisconnect, vars, workerVars
  <2> QED
    BY <1>1, <2>1, <2>2
<1> QED
  BY <1>2, <1>3, <1>4, <1>5, <1>6, <1>7, <1>8, <1>9, StepKinds

\* The audit session, as one request sees it.
OwnsAudit(r) ==
  \/ stage[r] \in {"decided", "posted"} /\ accepted[r]
  \/ r \in running \ shutdownStarted

LEMMA AuditFrame ==
  ASSUME NEW q \in Requests, audit[q] = "open" <=> OwnsAudit(q),
         audit'[q] = audit[q] \/ (audit[q] # "open" /\ audit'[q] # "open"),
         OwnsAudit(q)' <=> OwnsAudit(q)
  PROVE  audit'[q] = "open" <=> OwnsAudit(q)'
OBVIOUS

LEMMA AuditStep ==
  ASSUME RegistryInv, SessionInv, AuditOwned, [Next]_vars
  PROVE  AuditOwned'
<1>0. TypeOK /\ WorkerFlags /\ AcceptedPending
  BY DEF RegistryInv, TypeInv, SessionInv
<1>1. \A q \in Requests : audit[q] = "open" <=> OwnsAudit(q)
  BY DEF AuditOwned, OwnsAudit
<1>2. SUFFICES \A q \in Requests : audit'[q] = "open" <=> OwnsAudit(q)'
  BY DEF AuditOwned, OwnsAudit
<1>3. ASSUME UNCHANGED <<stage, running, shutdownStarted, accepted, audit>>
      PROVE  \A q \in Requests : audit'[q] = "open" <=> OwnsAudit(q)'
  BY <1>1, <1>3 DEF OwnsAudit
<1>4. ASSUME NEW r \in Requests, RequestStep(r)
      PROVE  \A q \in Requests : audit'[q] = "open" <=> OwnsAudit(q)'
  <2>1. UNCHANGED <<running, shutdownStarted>> /\ \A q \in Requests \ {r} : stage'[q] = stage[q]
    BY <1>0, <1>4, RequestSteps
  <2>2. \A q \in Requests \ {r} : accepted'[q] = accepted[q] /\ audit'[q] = audit[q]
    BY <1>0, <1>4 DEF RequestStep, ReceiveConnect, PoolStep, EvaluateAccepts, EvaluateRejects,
                      EvaluateAuditFails, PublishDecision, FinishAudit, CompleteRefused, ReleaseAudit,
                      DiscardDecision, requestVars, TypeOK
  <2>3. \A q \in Requests \ {r} : audit'[q] = "open" <=> OwnsAudit(q)'
    BY <1>1, <2>1, <2>2 DEF OwnsAudit
  <2>4. CASE ReceiveConnect(r)
    <3>1. stage[r] = "unsent" /\ UNCHANGED audit
      BY <2>4 DEF ReceiveConnect
    <3>2. stage'[r] \in {"rejected", "evaluating"}
      BY <1>0, <2>4 DEF ReceiveConnect, TypeOK
    <3>3. audit'[r] = "open" <=> OwnsAudit(r)'
      BY <1>1, <2>1, <3>1, <3>2, OnItsWay DEF OwnsAudit
    <3> QED
      BY <2>3, <3>3
  <2>5. CASE EvaluateAccepts(r)
    <3>1. stage'[r] = "decided" /\ accepted'[r] = TRUE /\ audit'[r] = "open"
      BY <1>0, <2>5 DEF EvaluateAccepts, EvaluationDone, TypeOK
    <3>2. audit'[r] = "open" <=> OwnsAudit(r)'
      BY <3>1 DEF OwnsAudit
    <3> QED
      BY <2>3, <3>2
  <2>6. CASE EvaluateRejects(r) \/ EvaluateAuditFails(r)
    <3>1. stage[r] = "evaluating" /\ UNCHANGED <<accepted, audit>>
      BY <2>6 DEF EvaluateRejects, EvaluateAuditFails, EvaluationDone
    <3>2. ~accepted[r] /\ r \notin running
      BY <1>0, <3>1, OnItsWay DEF AcceptedPending
    <3> QED
      BY <1>1, <2>1, <3>1, <3>2 DEF OwnsAudit
  <2>7. CASE PublishDecision(r)
    <3>1. r \notin running
      BY <2>7, OnItsWay DEF PublishDecision
    <3>2. stage[r] = "decided"
      BY <2>7 DEF PublishDecision
    <3>3. CASE callbacksAlive
      <4>1. stage'[r] = "posted" /\ UNCHANGED <<accepted, audit>>
        BY <1>0, <2>7, <3>3 DEF PublishDecision, TypeOK
      <4>2. audit'[r] = "open" <=> OwnsAudit(r)'
        BY <1>1, <2>1, <3>2, <4>1 DEF OwnsAudit
      <4> QED
        BY <2>3, <4>2
    <3>4. CASE ~callbacksAlive
      <4>1. stage'[r] = "rejected" /\ audit'[r] # "open"
        BY <1>0, <2>7, <3>4 DEF PublishDecision, ReleaseAudit, TypeOK
      <4>2. audit'[r] = "open" <=> OwnsAudit(r)'
        BY <2>1, <3>1, <4>1 DEF OwnsAudit
      <4> QED
        BY <2>3, <4>2
    <3> QED
      BY <3>3, <3>4
  <2>8. CASE FinishAudit(r)
    BY <1>0, <1>1, <2>1, <2>8 DEF FinishAudit, requestVars, OwnsAudit, TypeOK
  <2>9. CASE CompleteRefused(r)
    <3>1. r \notin running
      BY <2>9, OnItsWay DEF CompleteRefused
    <3> QED
      BY <1>0, <1>1, <2>1, <2>9, <3>1 DEF CompleteRefused, ReleaseAudit, DiscardDecision, OwnsAudit, TypeOK
  <2> QED
    BY <1>4, <2>3, <2>4, <2>5, <2>6, <2>7, <2>8, <2>9 DEF RequestStep, PoolStep
<1>5. ASSUME NEW r \in Requests, CompleteAdmitted(r)
      PROVE  \A q \in Requests : audit'[q] = "open" <=> OwnsAudit(q)'
  <2>1. audit[r] = "open"
    BY <1>1, <1>5 DEF CompleteAdmitted, Admissible, OwnsAudit
  <2>2. r \notin running /\ r \notin shutdownStarted
    BY <1>0, <1>5, OnItsWay DEF CompleteAdmitted, WorkerFlags
  <2> QED
    BY <1>0, <1>1, <1>5, <2>1, <2>2 DEF CompleteAdmitted, DiscardDecision, OwnsAudit, TypeOK
<1>6. ASSUME NEW r \in Requests, PerformDestroy(r)
      PROVE  \A q \in Requests : audit'[q] = "open" <=> OwnsAudit(q)'
  <2>1. r \in Admitted
    BY <1>6 DEF PerformDestroy, TakeCall, Listening, RegistryInv, WorkersAdmitted
  <2> QED
    BY <1>0, <1>1, <1>6, <2>1 DEF PerformDestroy, Admitted, OwnsAudit, requestVars, TypeOK
<1>7. ASSUME NEW r \in Requests, WorkerEnds(r)
      PROVE  \A q \in Requests : audit'[q] = "open" <=> OwnsAudit(q)'
  BY <1>1, <1>7 DEF WorkerEnds, OwnsAudit, requestVars
<1>8. ASSUME NEW r \in Requests, OnThreadFinished(r)
      PROVE  \A q \in Requests : audit'[q] = "open" <=> OwnsAudit(q)'
  <2>1. Finished(r)
    BY <1>0, <1>8, HoldsNext DEF OnThreadFinished, Finished
  <2>2. stage[r] \notin {"decided", "posted"}
    BY <2>1, OnItsWay
  <2> QED
    BY <1>0, <1>1, <1>8, <2>2 DEF OnThreadFinished, OwnsAudit, requestVars, workerVars, TypeOK
<1>9. ASSUME NEW r \in Requests, CleanupSession(r)
      PROVE  \A q \in Requests : audit'[q] = "open" <=> OwnsAudit(q)'
  BY <1>0, <1>1, <1>9 DEF CleanupSession, OwnsAudit, requestVars, TypeOK
<1>10. CASE Quit
  BY <1>0, <1>1, <1>10 DEF Quit, Registered, OwnsAudit, requestVars, workerVars, TypeOK
<1>11. ASSUME NEW r \in Requests, DestroyWebRtcCli(r)
       PROVE  \A q \in Requests : audit'[q] = "open" <=> OwnsAudit(q)'
  BY <1>3, <1>11 DEF DestroyWebRtcCli, requestVars
<1>12. CASE SteadyStep
  BY <1>0, <1>3, <1>12, SteadySteps DEF Steady
<1> QED
  BY <1>4, <1>5, <1>6, <1>7, <1>8, <1>9, <1>10, <1>11, <1>12, StepKinds

\* A pending shutdown, as one request sees it.
UnderWay(r) ==
  r \in shutdownPending =>
    /\ stage[r] = "session"
    /\ \/ r \in running /\ (r \in shutdownStarted \/ Told(r))
       \/ Finished(r)

LEMMA UnderWayStep ==
  ASSUME RegistryInv, SessionInv, ShutdownUnderWay, [Next]_vars
  PROVE  ShutdownUnderWay'
<1>0. TypeOK /\ WorkerFlags /\ WindowState
  BY DEF RegistryInv, TypeInv, SessionInv
<1>1. SUFFICES ASSUME callbacksAlive'
               PROVE  \A q \in Requests : UnderWay(q)'
  <2>1. shutdownPending' \subseteq Requests
    BY RegistryStep DEF RegistryInv, TypeInv, TypeOK
  <2> QED
    BY <1>1, <2>1 DEF ShutdownUnderWay, UnderWay, Told, Finished
<1>2. callbacksAlive
  BY <1>1, LivingStep
<1>3. \A q \in Requests : UnderWay(q) /\ Living(q)
  BY <1>0, <1>2 DEF ShutdownUnderWay, UnderWay, WindowState, Told, Finished
<1>4. CASE SteadyStep
  BY <1>0, <1>3, <1>4, SteadySteps DEF Steady, UnderWay
<1>5. ASSUME NEW r \in Requests, RequestStep(r)
      PROVE  \A q \in Requests : UnderWay(q)'
  <2>1. UNCHANGED stage \/ r \notin shutdownPending
    BY <1>0, <1>5, RequestSteps, OnItsWay
  <2> QED
    BY <1>0, <1>3, <1>5, <2>1, RequestSteps DEF UnderWay
<1>6. ASSUME NEW r \in Requests, CompleteAdmitted(r)
      PROVE  \A q \in Requests : UnderWay(q)'
  <2>1. r \notin shutdownPending
    BY <1>6, OnItsWay DEF CompleteAdmitted
  <2>2. \A q \in Requests : Finished(q)' <=> Finished(q)
    BY <1>6, QuietQueues DEF CompleteAdmitted
  <2>3. \A q \in Requests \ {r} : Told(q)' <=> Told(q)
    BY <1>0, <1>6 DEF CompleteAdmitted, Told, TypeOK
  <2> QED
    BY <1>0, <1>3, <1>6, <2>1, <2>2, <2>3 DEF CompleteAdmitted, UnderWay, TypeOK
<1>7. ASSUME NEW r \in Requests, PerformDestroy(r)
      PROVE  \A q \in Requests : UnderWay(q)'
  <2>1. \A q \in Requests : Finished(q)' <=> Finished(q)
    BY <1>0, <1>7, FinishedPosted DEF PerformDestroy
  <2>2. \A q \in Requests \ {r} : Told(q) => Told(q)'
    BY <1>0, <1>7, ToldTaken DEF PerformDestroy
  <2>3. r \in running /\ shutdownStarted' = shutdownStarted \cup {r}
        /\ UNCHANGED <<stage, shutdownPending, running>>
    BY <1>7 DEF PerformDestroy, TakeCall, Listening
  <2> QED
    BY <1>3, <2>1, <2>2, <2>3 DEF UnderWay
<1>8. ASSUME NEW r \in Requests, WorkerEnds(r)
      PROVE  \A q \in Requests : UnderWay(q)'
  <2>1. Finished(r)' /\ \A q \in Requests : Finished(q) => Finished(q)'
    BY <1>0, <1>2, <1>8, HoldsPosted DEF WorkerEnds, Finished
  <2>2. \A q \in Requests \ {r} : Told(q)' <=> Told(q)
    BY <1>0, <1>8 DEF WorkerEnds, Told, TypeOK
  <2>3. /\ running' = running \ {r} /\ shutdownStarted' = shutdownStarted \ {r}
        /\ UNCHANGED <<stage, shutdownPending>>
    BY <1>8 DEF WorkerEnds
  <2> QED
    BY <1>3, <2>1, <2>2, <2>3 DEF UnderWay
<1>9. ASSUME NEW r \in Requests, DestroyWebRtcCli(r)
      PROVE  \A q \in Requests : UnderWay(q)'
  <2>1. \A q \in Requests : Finished(q)' <=> Finished(q)
    <3>1. \A q \in Requests : Event("destroyCli", r) # Event("finished", q)
      BY EventsDiffer
    <3> QED
      BY <1>0, <1>9, <3>1, FinishedNext DEF DestroyWebRtcCli
  <2>2. UNCHANGED <<stage, running, shutdownStarted>>
    BY <1>9 DEF DestroyWebRtcCli
  <2>3. CASE r \notin Active
    <3>1. UNCHANGED <<shutdownPending, inbox>>
      BY <1>9, <2>3 DEF DestroyWebRtcCli
    <3> QED
      BY <1>3, <2>1, <2>2, <3>1, QuietQueues DEF UnderWay
  <2>4. CASE r \in Active
    <3>1. shutdownPending' = shutdownPending \cup {r} /\ inbox' = [inbox EXCEPT ![r] = Append(@, "shutdown")]
      BY <1>9, <2>4 DEF DestroyWebRtcCli
    <3>2. stage[r] = "session" /\ r \in running
      BY <1>3, <2>4 DEF Active, Registered, Living
    <3>3. \A q \in Requests \ {r} : Told(q)' <=> Told(q)
      BY <1>0, <3>1 DEF Told, TypeOK
    <3>4. Told(r)'
      <4>1. inbox[r] \in Seq(Calls) /\ "shutdown" \in Calls
        BY <1>0 DEF TypeOK, Calls
      <4>2. inbox'[r] = Append(inbox[r], "shutdown")
        BY <1>0, <3>1 DEF TypeOK
      <4> QED
        BY <4>1, <4>2, HoldsAppended DEF Told
    <3> QED
      BY <1>3, <2>1, <2>2, <3>1, <3>2, <3>3, <3>4 DEF UnderWay
  <2> QED
    BY <2>3, <2>4
<1>10. ASSUME NEW r \in Requests, OnThreadFinished(r)
       PROVE  \A q \in Requests : UnderWay(q)'
  <2>1. /\ stage' = [stage EXCEPT ![r] = "gone"] /\ shutdownPending' = shutdownPending \ {r}
        /\ UNCHANGED <<running, shutdownStarted, inbox>>
    BY <1>10 DEF OnThreadFinished, workerVars
  <2>2. \A q \in Requests \ {r} : Finished(q)' <=> Finished(q)
    <3>1. \A q \in Requests \ {r} : Event("finished", r) # Event("finished", q)
      BY EventsDiffer
    <3> QED
      BY <1>0, <1>10, <3>1, FinishedNext DEF OnThreadFinished
  <2>3. \A q \in Requests : Told(q)' <=> Told(q)
    BY <2>1, QuietQueues
  <2> QED
    BY <1>0, <1>3, <2>1, <2>2, <2>3 DEF UnderWay, TypeOK
<1>11. ASSUME NEW r \in Requests, CleanupSession(r)
       PROVE  FALSE
  BY <1>3, <1>11 DEF CleanupSession, Living
<1>12. CASE Quit
  BY <1>1, <1>12 DEF Quit
<1> QED
  BY <1>4, <1>5, <1>6, <1>7, <1>8, <1>9, <1>10, <1>11, <1>12, StepKinds

LEMMA InitOwned == Init => SessionsSound
<1>. SUFFICES ASSUME Init PROVE SessionsSound
  OBVIOUS
<1>1. OneNegotiation
  BY DEF Init, OneNegotiation, Active, Registered
<1>2. AuditOwned
  BY DEF Init, AuditOwned
<1>3. ShutdownUnderWay
  BY DEF Init, ShutdownUnderWay
<1> QED
  BY <1>1, <1>2, <1>3 DEF SessionsSound

LEMMA OwnedThroughout == Spec => [](RegistryInv /\ SessionInv /\ SessionsSound)
<1>1. Init => RegistryInv /\ SessionInv /\ SessionsSound
  BY InitRegistry, InitSessions, InitOwned
<1>2. (RegistryInv /\ SessionInv /\ SessionsSound) /\ [Next]_vars
        => (RegistryInv /\ SessionInv /\ SessionsSound)'
  BY RegistryStep, SessionStep, NegotiationStep, AuditStep, UnderWayStep, Zenon DEF SessionsSound
<1> QED
  BY <1>1, <1>2, PTL DEF Spec

(* An admitted session owns what it was admitted with, for any number of    *)
(* CONNECTs and in any interleaving of the four threads: of two sessions of *)
(* a peer and mode at most one still negotiates, its audit session is open  *)
(* exactly as long as somebody is bound to finish it, and a shutdown once   *)
(* begun always has its next step queued (completeIncomingConnectRequest,   *)
(* destroyWebRtcCli, performDestroy).                                       *)
THEOREM SessionsAreSound == Spec => []SessionsSound
BY OwnedThroughout, PTL

-----------------------------------------------------------------------------
(* The tray. A worker's signals reach the main thread in the order in which *)
(* they are posted, so its entry comes before it goes, and goes before the  *)
(* session does.                                                            *)

Before(s, x, y) == \A i, j \in 1..Len(s) : s[i] = x /\ s[j] = y => i < j

Connected(r)    == Holds(mainQueue, Event("connected", r))
Disconnected(r) == Holds(mainQueue, Event("disconnected", r))

Ordered(r) ==
  /\ Before(mainQueue, Event("connected", r), Event("disconnected", r))
  /\ Before(mainQueue, Event("connected", r), Event("finished", r))
  /\ Before(mainQueue, Event("disconnected", r), Event("finished", r))

\* The end of a worker that has told it has been handled as far as the tray
\* goes, or is about to be.
Announced(r) ==
  /\ Connected(r) => stage[r] = "session"
  /\ Disconnected(r) => r \in Admitted /\ ~Listening(r)
  /\ r \in shutdownStarted \/ Finished(r) =>
       Disconnected(r) \/ (tray[SidOf[r]] # r /\ ~Connected(r))

SignalOrder == callbacksAlive => \A r \in Requests : Ordered(r) /\ Announced(r)

TraySlots == \A i \in SessionIds : tray[i] # NoSession => i = SidOf[tray[i]]

TrayInv == SignalOrder /\ TraySlots /\ TrayEntriesRegistered

LEMMA BeforeAppend ==
  ASSUME NEW S, NEW s \in Seq(S), NEW z \in S, NEW x, NEW y, Before(s, x, y),
         z # x \/ (~Holds(s, y) /\ z # y)
  PROVE  Before(Append(s, z), x, y)
<1>. SUFFICES ASSUME NEW i \in 1..Len(Append(s, z)), NEW j \in 1..Len(Append(s, z)),
                     Append(s, z)[i] = x, Append(s, z)[j] = y
              PROVE  i < j
  BY Zenon DEF Before
<1>1. Len(s) \in Nat /\ Len(Append(s, z)) = Len(s) + 1
  OBVIOUS
<1>2. CASE z # x
  <2>1. i \in 1..Len(s) /\ s[i] = x
    BY <1>1, <1>2
  <2>2. CASE j = Len(s) + 1
    BY <1>1, <2>1, <2>2
  <2>3. CASE j # Len(s) + 1
    <3>1. j \in 1..Len(s) /\ s[j] = y
      BY <1>1, <2>3
    <3> QED
      BY <2>1, <3>1, Zenon DEF Before
  <2> QED
    BY <2>2, <2>3
<1>3. CASE ~Holds(s, y) /\ z # y
  <2>1. j \in 1..Len(s) /\ s[j] = y
    BY <1>1, <1>3
  <2> QED
    BY <1>3, <2>1 DEF Holds
<1> QED
  BY <1>2, <1>3

LEMMA BeforeTail ==
  ASSUME NEW S, NEW s \in Seq(S), s # << >>, NEW x, NEW y, Before(s, x, y)
  PROVE  /\ Before(Tail(s), x, y)
         /\ Head(s) = y => ~Holds(s, x)
<1>1. Before(Tail(s), x, y)
  <2>. SUFFICES ASSUME NEW i \in 1..Len(Tail(s)), NEW j \in 1..Len(Tail(s)), Tail(s)[i] = x, Tail(s)[j] = y
                PROVE  i < j
    BY Zenon DEF Before
  <2>1. i + 1 \in 1..Len(s) /\ j + 1 \in 1..Len(s) /\ s[i + 1] = x /\ s[j + 1] = y
    OBVIOUS
  <2>2. i + 1 < j + 1
    BY <2>1, Zenon DEF Before
  <2> QED
    BY <2>2
<1>2. ASSUME Head(s) = y, Holds(s, x)
      PROVE  FALSE
  <2>1. PICK i \in 1..Len(s) : s[i] = x
    BY <1>2 DEF Holds
  <2>2. 1 \in 1..Len(s) /\ s[1] = y
    BY <1>2
  <2>3. i < 1
    BY <2>1, <2>2, Zenon DEF Before
  <2> QED
    BY <2>1, <2>3
<1> QED
  BY <1>1, <1>2

LEMMA OrderedNext ==
  ASSUME TypeOK, NEW e, NextEvent(e), NEW q \in Requests, Ordered(q)
  PROVE  /\ Ordered(q)'
         /\ e = Event("disconnected", q) => ~Connected(q)
         /\ e = Event("finished", q) => ~Connected(q) /\ ~Disconnected(q)
<1>1. mainQueue \in Seq(Events) /\ mainQueue # << >> /\ e = Head(mainQueue) /\ mainQueue' = Tail(mainQueue)
  BY DEF TypeOK, NextEvent
<1>2. \A x, y : Before(mainQueue, x, y) => Before(Tail(mainQueue), x, y)
                                           /\ (Head(mainQueue) = y => ~Holds(mainQueue, x))
  BY <1>1, BeforeTail
<1> QED
  BY <1>1, <1>2, Zenon DEF Ordered, Connected, Disconnected

LEMMA SignalsDiffer ==
  ASSUME NEW q, NEW r, NEW j, NEW k, q # r \/ j # k
  PROVE  Event(j, q) # Event(k, r)
BY EventsDiffer

LEMMA OrderedPost ==
  ASSUME TypeOK, NEW r \in Requests, NEW k \in {"connected", "destroyCli", "disconnected", "finished"},
         Post(Event(k, r)), NEW q \in Requests, Ordered(q),
         q = r /\ k = "connected" => ~Disconnected(q) /\ ~Finished(q),
         q = r /\ k = "disconnected" => ~Finished(q)
  PROVE  Ordered(q)'
<1>1. mainQueue \in Seq(Events) /\ Event(k, r) \in Events
  BY EventType DEF TypeOK
<1>2. UNCHANGED mainQueue \/ mainQueue' = Append(mainQueue, Event(k, r))
  BY DEF Post, Enqueue
<1>3. CASE UNCHANGED mainQueue
  BY <1>3 DEF Ordered
<1>4. CASE mainQueue' = Append(mainQueue, Event(k, r))
  <2>1. Event(k, r) # Event("connected", q)
          \/ (~Holds(mainQueue, Event("disconnected", q)) /\ Event(k, r) # Event("disconnected", q))
    BY SignalsDiffer DEF Disconnected
  <2>2. Event(k, r) # Event("connected", q)
          \/ (~Holds(mainQueue, Event("finished", q)) /\ Event(k, r) # Event("finished", q))
    BY SignalsDiffer DEF Finished
  <2>3. Event(k, r) # Event("disconnected", q)
          \/ (~Holds(mainQueue, Event("finished", q)) /\ Event(k, r) # Event("finished", q))
    BY SignalsDiffer DEF Finished
  <2>4. Before(mainQueue', Event("connected", q), Event("disconnected", q))
    BY <1>1, <1>4, <2>1, BeforeAppend DEF Ordered
  <2>5. Before(mainQueue', Event("connected", q), Event("finished", q))
    BY <1>1, <1>4, <2>2, BeforeAppend DEF Ordered
  <2>6. Before(mainQueue', Event("disconnected", q), Event("finished", q))
    BY <1>1, <1>4, <2>3, BeforeAppend DEF Ordered
  <2> QED
    BY <2>4, <2>5, <2>6, Zenon DEF Ordered
<1> QED
  BY <1>2, <1>3, <1>4

\* The same signals of q, in the same order.
SameSignals(q) ==
  /\ Connected(q)' <=> Connected(q)
  /\ Disconnected(q)' <=> Disconnected(q)
  /\ Finished(q)' <=> Finished(q)

LEMMA PostOfOthers ==
  ASSUME TypeOK, NEW r \in Requests, NEW k \in {"connected", "destroyCli", "disconnected", "finished"},
         Post(Event(k, r)), NEW q \in Requests, q # r \/ k = "destroyCli", Ordered(q)
  PROVE  SameSignals(q) /\ Ordered(q)'
<1>1. \A j \in {"connected", "disconnected", "finished"} : Event(j, q) # Event(k, r)
  BY SignalsDiffer
<1>2. \A y : IF callbacksAlive THEN Holds(mainQueue', y) <=> Holds(mainQueue, y) \/ y = Event(k, r)
                               ELSE mainQueue' = mainQueue
  BY HoldsPosted
<1>3. SameSignals(q)
  BY <1>1, <1>2, Zenon DEF SameSignals, Connected, Disconnected, Finished
<1> QED
  BY <1>3, OrderedPost

LEMMA NextOfOthers ==
  ASSUME TypeOK, NEW e, NextEvent(e), NEW q \in Requests, Ordered(q),
         \A j \in {"connected", "disconnected", "finished"} : Event(j, q) # e
  PROVE  SameSignals(q) /\ Ordered(q)'
<1>1. \A y : (Holds(mainQueue', y) => Holds(mainQueue, y))
             /\ (Holds(mainQueue, y) /\ y # e => Holds(mainQueue', y))
  BY HoldsNext
<1>2. SameSignals(q)
  BY <1>1, Zenon DEF SameSignals, Connected, Disconnected, Finished
<1> QED
  BY <1>2, OrderedNext

LEMMA FailsOfOthers ==
  ASSUME TypeOK, AuditFails, NEW q \in Requests, Ordered(q)
  PROVE  SameSignals(q) /\ Ordered(q)'
<1>1. \A j \in {"connected", "disconnected", "finished"} : Event(j, q) # AuditFailureEvent
  <2>1. \A j : Event(j, q).kind = j
    BY DEF Event
  <2>2. AuditFailureEvent.kind = "auditFailure"
    BY DEF AuditFailureEvent
  <2> QED
    BY <2>1, <2>2
<1>2. \A y : y # AuditFailureEvent => (Holds(mainQueue', y) <=> Holds(mainQueue, y))
  BY HoldsFailed
<1>3. SameSignals(q)
  BY <1>1, <1>2, Zenon DEF SameSignals, Connected, Disconnected, Finished
<1>4. mainQueue \in Seq(Events) /\ AuditFailureEvent \in Events
  BY AuditFailureEventType DEF TypeOK
<1>5. UNCHANGED mainQueue \/ mainQueue' = Append(mainQueue, AuditFailureEvent)
  BY DEF AuditFails
<1>6. \A x, y : x # AuditFailureEvent /\ Before(mainQueue, x, y)
                  => Before(Append(mainQueue, AuditFailureEvent), x, y)
  BY <1>4, BeforeAppend
<1>7. ASSUME NEW x, NEW y, x # AuditFailureEvent, Before(mainQueue, x, y)
      PROVE  Before(mainQueue', x, y)
  <2>1. Before(Append(mainQueue, AuditFailureEvent), x, y)
    BY <1>6, <1>7, Zenon
  <2>2. mainQueue' = mainQueue \/ mainQueue' = Append(mainQueue, AuditFailureEvent)
    BY <1>5
  <2>3. CASE mainQueue' = mainQueue
    BY <1>7, <2>3
  <2>4. CASE mainQueue' = Append(mainQueue, AuditFailureEvent)
    BY <2>1, <2>4
  <2> QED
    BY <2>2, <2>3, <2>4
<1>8. Ordered(q)'
  BY <1>1, <1>7, Zenon DEF Ordered
<1> QED
  BY <1>3, <1>8

LEMMA QuietOfOthers ==
  ASSUME UNCHANGED mainQueue, NEW q \in Requests, Ordered(q)
  PROVE  SameSignals(q) /\ Ordered(q)'
BY DEF SameSignals, Connected, Disconnected, Finished, Ordered

LEMMA AnnouncedFrame ==
  ASSUME NEW q \in Requests, Announced(q), SameSignals(q),
         q \in Admitted => q \in Admitted',
         stage'[q] = stage[q] \/ stage[q] # "session",
         q \in running' => q \in running \/ q \notin Admitted,
         q \in shutdownStarted' <=> q \in shutdownStarted,
         tray'[SidOf[q]] = q => tray[SidOf[q]] = q
  PROVE  Announced(q)'
BY DEF Announced, SameSignals, Listening

LEMMA AnnouncedStep ==
  ASSUME RegistryInv, SessionInv, SignalOrder, [Next]_vars, callbacksAlive'
  PROVE  \A q \in Requests : Ordered(q)' /\ Announced(q)'
<1>0. TypeOK /\ WorkerFlags
  BY DEF RegistryInv, TypeInv, SessionInv
<1>1. callbacksAlive
  BY LivingStep
<1>2. \A q \in Requests : Ordered(q) /\ Announced(q) /\ Living(q)
  BY <1>1 DEF SignalOrder, SessionInv, WindowState
<1>3. Admitted \subseteq Admitted'
  BY AdmittedStays DEF RegistryInv
<1>4. ASSUME NEW r \in Requests, CompleteAdmitted(r)
      PROVE  \A q \in Requests : Ordered(q)' /\ Announced(q)'
  <2>1. \A q \in Requests : SameSignals(q) /\ Ordered(q)'
    BY <1>2, <1>4, QuietOfOthers DEF CompleteAdmitted
  <2>2. r \notin Admitted /\ stage[r] # "session"
    BY <1>4 DEF CompleteAdmitted, Admitted
  <2>3. \A q \in Requests \ {r} : stage'[q] = stage[q]
    BY <1>0, <1>4 DEF CompleteAdmitted, TypeOK
  <2>4. running' = running \cup {r} /\ UNCHANGED <<shutdownStarted, tray>>
    BY <1>4 DEF CompleteAdmitted
  <2> QED
    BY <1>2, <1>3, <2>1, <2>2, <2>3, <2>4, AnnouncedFrame
<1>5. ASSUME NEW r \in Requests, RequestStep(r)
      PROVE  \A q \in Requests : Ordered(q)' /\ Announced(q)'
  <2>1. \A q \in Requests : SameSignals(q) /\ Ordered(q)'
    <3>1. UNCHANGED mainQueue \/ AuditFails
      BY <1>5, Zenon DEF RequestStep, ReceiveConnect, PoolStep, EvaluateAccepts, EvaluateRejects,
                         EvaluateAuditFails, PublishDecision, FinishAudit, CompleteRefused
    <3> QED
      BY <1>0, <1>2, <3>1, QuietOfOthers, FailsOfOthers
  <2>2. UNCHANGED <<running, shutdownStarted>> /\ \A q \in Requests : stage'[q] = stage[q] \/ stage[q] # "session"
    BY <1>0, <1>5, RequestSteps
  <2>3. UNCHANGED tray
    BY <1>5, Zenon DEF RequestStep, ReceiveConnect, PoolStep, EvaluateAccepts, EvaluateRejects,
                       EvaluateAuditFails, PublishDecision, FinishAudit, CompleteRefused
  <2> QED
    BY <1>2, <1>3, <2>1, <2>2, <2>3, AnnouncedFrame
<1>6. ASSUME NEW r \in Requests, PeerConnects(r)
      PROVE  \A q \in Requests : Ordered(q)' /\ Announced(q)'
  <2>1. UNCHANGED <<stage, running, shutdownStarted, tray>>
    BY <1>6 DEF PeerConnects
  <2>2. CASE r \in connectionAudited
    <3>1. \A q \in Requests : SameSignals(q) /\ Ordered(q)'
      BY <1>2, <1>6, <2>2, QuietOfOthers DEF PeerConnects
    <3> QED
      BY <1>2, <1>3, <2>1, <3>1, AnnouncedFrame
  <2>3. CASE r \notin connectionAudited
    <3>1. Post(Event("connected", r)) /\ Listening(r)
      BY <1>6, <2>3 DEF PeerConnects
    <3>2. stage[r] = "session" /\ ~Finished(r) /\ ~Disconnected(r) /\ r \notin shutdownStarted
      BY <1>2, <3>1 DEF Living, Announced, Listening
    <3>3. Ordered(r)'
      BY <1>0, <1>2, <3>1, <3>2, OrderedPost
    <3>4. \A q \in Requests \ {r} : SameSignals(q) /\ Ordered(q)'
      BY <1>0, <1>2, <3>1, PostOfOthers
    <3>5. ~Disconnected(r)' /\ ~Finished(r)'
      <4>1. \A y : Holds(mainQueue', y) => Holds(mainQueue, y) \/ y = Event("connected", r)
        BY <1>0, <1>1, <3>1, HoldsPosted
      <4>2. Event("disconnected", r) # Event("connected", r) /\ Event("finished", r) # Event("connected", r)
        BY EventsDiffer
      <4> QED
        BY <3>2, <4>1, <4>2, Zenon DEF Disconnected, Finished
    <3>6. Announced(r)'
      BY <2>1, <3>2, <3>5 DEF Announced
    <3>7. \A q \in Requests \ {r} : Announced(q)'
      BY <1>2, <1>3, <2>1, <3>4, AnnouncedFrame
    <3> QED
      BY <3>3, <3>4, <3>6, <3>7
  <2> QED
    BY <2>2, <2>3
<1>7. ASSUME NEW r \in Requests, OnControlledSessionConnected(r)
      PROVE  \A q \in Requests : Ordered(q)' /\ Announced(q)'
  <2>1. NextEvent(Event("connected", r)) /\ UNCHANGED <<stage, running, shutdownStarted>>
        /\ tray' = [tray EXCEPT ![SidOf[r]] = r]
    BY <1>7 DEF OnControlledSessionConnected, workerVars
  <2>2. Ordered(r)'
    BY <1>0, <1>2, <2>1, OrderedNext
  <2>3. \A q \in Requests \ {r} : SameSignals(q) /\ Ordered(q)'
    <3>1. \A q \in Requests \ {r} : \A j : Event(j, q) # Event("connected", r)
      BY SignalsDiffer
    <3> QED
      BY <1>0, <1>2, <2>1, <3>1, NextOfOthers
  <2>4. Connected(r) /\ (Connected(r)' => Connected(r)) /\ (Disconnected(r)' <=> Disconnected(r))
        /\ (Finished(r)' => Finished(r))
    <3>1. Event("disconnected", r) # Event("connected", r)
      BY EventsDiffer
    <3>2. \A y : /\ Holds(mainQueue, Event("connected", r))
                 /\ Holds(mainQueue', y) => Holds(mainQueue, y)
                 /\ Holds(mainQueue, y) /\ y # Event("connected", r) => Holds(mainQueue', y)
      BY <1>0, <2>1, HoldsNext
    <3> QED
      BY <3>1, <3>2, Zenon DEF Connected, Disconnected, Finished
  <2>5. Announced(r)'
    BY <1>2, <2>1, <2>4 DEF Announced, Admitted, Listening
  <2>6. ASSUME NEW q \in Requests \ {r}
        PROVE  Announced(q)'
    <3>1. tray'[SidOf[q]] = q => tray[SidOf[q]] = q
      BY <1>0, <2>1 DEF TypeOK
    <3> QED
      BY <1>2, <1>3, <2>1, <2>3, <3>1, AnnouncedFrame
  <2> QED
    BY <2>2, <2>3, <2>5, <2>6
<1>8. ASSUME NEW r \in Requests, OnControlledSessionDisconnected(r)
      PROVE  \A q \in Requests : Ordered(q)' /\ Announced(q)'
  <2>1. NextEvent(Event("disconnected", r)) /\ UNCHANGED <<stage, running, shutdownStarted>>
        /\ tray' = [tray EXCEPT ![SidOf[r]] = NoSession]
    BY <1>8 DEF OnControlledSessionDisconnected, workerVars
  <2>2. Ordered(r)' /\ ~Connected(r)
    BY <1>0, <1>2, <2>1, OrderedNext
  <2>3. \A q \in Requests \ {r} : SameSignals(q) /\ Ordered(q)'
    <3>1. \A q \in Requests \ {r} : \A j : Event(j, q) # Event("disconnected", r)
      BY SignalsDiffer
    <3> QED
      BY <1>0, <1>2, <2>1, <3>1, NextOfOthers
  <2>4. (Connected(r)' => Connected(r)) /\ (Disconnected(r)' => Disconnected(r))
    BY <1>0, <2>1, HoldsNext DEF Connected, Disconnected
  <2>5. tray'[SidOf[r]] # r
    BY <1>0, <2>1 DEF TypeOK
  <2>6. Announced(r)'
    BY <1>2, <2>1, <2>2, <2>4, <2>5 DEF Announced, Admitted, Listening
  <2>7. ASSUME NEW q \in Requests \ {r}
        PROVE  Announced(q)'
    <3>1. tray'[SidOf[q]] = q => tray[SidOf[q]] = q
      BY <1>0, <2>1 DEF TypeOK
    <3> QED
      BY <1>2, <1>3, <2>1, <2>3, <3>1, AnnouncedFrame
  <2> QED
    BY <2>2, <2>3, <2>6, <2>7
<1>9. ASSUME NEW r \in Requests, PerformDestroy(r)
      PROVE  \A q \in Requests : Ordered(q)' /\ Announced(q)'
  <2>1. Post(Event("disconnected", r)) /\ r \in running
        /\ UNCHANGED <<stage, running, tray>> /\ shutdownStarted' = shutdownStarted \cup {r}
    BY <1>9 DEF PerformDestroy, TakeCall, Listening
  <2>2. stage[r] = "session" /\ ~Finished(r)
    BY <1>2, <2>1 DEF Living
  <2>3. Ordered(r)'
    BY <1>0, <1>2, <2>1, <2>2, OrderedPost
  <2>4. \A q \in Requests \ {r} : SameSignals(q) /\ Ordered(q)'
    BY <1>0, <1>2, <2>1, PostOfOthers
  <2>5. Disconnected(r)'
    BY <1>0, <1>1, <2>1, HoldsPosted DEF Disconnected
  <2>6. Announced(r)'
    BY <2>1, <2>2, <2>5 DEF Announced, Admitted, Listening
  <2>7. \A q \in Requests \ {r} : Announced(q)'
    BY <1>2, <1>3, <2>1, <2>4, AnnouncedFrame
  <2> QED
    BY <2>3, <2>4, <2>6, <2>7
<1>10. ASSUME NEW r \in Requests, WorkerEnds(r)
       PROVE  \A q \in Requests : Ordered(q)' /\ Announced(q)'
  <2>1. /\ Post(Event("finished", r)) /\ r \in running /\ r \in shutdownStarted
        /\ UNCHANGED <<stage, tray>>
        /\ running' = running \ {r} /\ shutdownStarted' = shutdownStarted \ {r}
    BY <1>10 DEF WorkerEnds
  <2>2. Ordered(r)'
    BY <1>0, <1>2, <2>1, OrderedPost
  <2>3. \A q \in Requests \ {r} : SameSignals(q) /\ Ordered(q)'
    BY <1>0, <1>2, <2>1, PostOfOthers
  <2>4. (Connected(r)' <=> Connected(r)) /\ (Disconnected(r)' <=> Disconnected(r))
    <3>1. \A y : Holds(mainQueue', y) <=> Holds(mainQueue, y) \/ y = Event("finished", r)
      BY <1>0, <1>1, <2>1, HoldsPosted
    <3>2. Event("disconnected", r) # Event("finished", r) /\ Event("connected", r) # Event("finished", r)
      BY EventsDiffer
    <3> QED
      BY <3>1, <3>2, Zenon DEF Connected, Disconnected
  <2>5. Announced(r)'
    BY <1>2, <2>1, <2>4 DEF Announced, Admitted, Listening
  <2>6. \A q \in Requests \ {r} : Announced(q)'
    BY <1>2, <1>3, <2>1, <2>3, AnnouncedFrame
  <2> QED
    BY <2>2, <2>3, <2>5, <2>6
<1>11. ASSUME NEW r \in Requests, DestroyWebRtcCli(r)
       PROVE  \A q \in Requests : Ordered(q)' /\ Announced(q)'
  <2>1. NextEvent(Event("destroyCli", r)) /\ UNCHANGED <<stage, running, shutdownStarted, tray>>
    BY <1>11 DEF DestroyWebRtcCli
  <2>2. \A q \in Requests : SameSignals(q) /\ Ordered(q)'
    <3>1. \A q \in Requests : \A j \in {"connected", "disconnected", "finished"} :
             Event(j, q) # Event("destroyCli", r)
      BY SignalsDiffer
    <3> QED
      BY <1>0, <1>2, <2>1, <3>1, NextOfOthers
  <2> QED
    BY <1>2, <1>3, <2>1, <2>2, AnnouncedFrame
<1>12. ASSUME NEW r \in Requests, OnThreadFinished(r)
       PROVE  \A q \in Requests : Ordered(q)' /\ Announced(q)'
  <2>1. NextEvent(Event("finished", r)) /\ UNCHANGED <<running, shutdownStarted, tray>>
        /\ stage' = [stage EXCEPT ![r] = "gone"]
    BY <1>12 DEF OnThreadFinished, workerVars
  <2>2. Ordered(r)' /\ ~Connected(r) /\ ~Disconnected(r)
    BY <1>0, <1>2, <2>1, OrderedNext
  <2>3. \A q \in Requests \ {r} : SameSignals(q) /\ Ordered(q)'
    <3>1. \A q \in Requests \ {r} : \A j : Event(j, q) # Event("finished", r)
      BY SignalsDiffer
    <3> QED
      BY <1>0, <1>2, <2>1, <3>1, NextOfOthers
  <2>4. ~Connected(r)' /\ ~Disconnected(r)' /\ Finished(r)
    BY <1>0, <2>1, <2>2, HoldsNext DEF Connected, Disconnected, Finished
  <2>5. Announced(r)'
    BY <1>2, <2>1, <2>2, <2>4 DEF Announced
  <2>6. \A q \in Requests \ {r} : Announced(q)'
    <3>1. \A q \in Requests \ {r} : stage'[q] = stage[q]
      BY <1>0, <2>1 DEF TypeOK
    <3> QED
      BY <1>2, <1>3, <2>1, <2>3, <3>1, AnnouncedFrame
  <2> QED
    BY <2>2, <2>3, <2>5, <2>6
<1>13. ASSUME NEW r \in Requests, CleanupSession(r)
       PROVE  FALSE
  BY <1>2, <1>13 DEF CleanupSession, Living
<1>14. CASE Quit
  BY <1>14 DEF Quit
<1>15. CASE /\ SteadyStep
            /\ \A r \in Requests : /\ ~PeerConnects(r) /\ ~OnControlledSessionConnected(r)
                                   /\ ~OnControlledSessionDisconnected(r)
  <2>1. UNCHANGED <<stage, running, shutdownStarted>>
    BY <1>0, <1>15, SteadySteps DEF Steady
  <2>2. /\ UNCHANGED tray
        /\ \/ UNCHANGED mainQueue
           \/ \E r \in Requests : Post(Event("destroyCli", r))
           \/ NextEvent(AuditFailureEvent)
           \/ AuditFails
    <3>1. ASSUME NEW r \in Requests,
                 InitWorker(r) \/ InitWorkerFails(r) \/ RequestDisconnect(r) \/ PeerDisconnects(r)
                   \/ PeerFails(r) \/ RemoteDisconnect(r) \/ StartupTimeout(r)
          PROVE  UNCHANGED tray /\ (UNCHANGED mainQueue \/ Post(Event("destroyCli", r)))
      BY <3>1, Zenon DEF InitWorker, InitWorkerFails, RequestDisconnect, PeerDisconnects, PeerFails,
                         RemoteDisconnect, StartupTimeout
    <3>2. CASE HandleAuditFailure \/ AppendFails
      BY <3>2, Zenon DEF HandleAuditFailure, AppendFails
    <3>3. CASE (UserStep /\ ~Quit) \/ UNCHANGED vars
      BY <3>3, Zenon DEF UserStep, SaveSettings, ChangePassword, TrayDisconnectSession,
                         TrayDisconnectPeer, TrayDisconnect, vars
    <3> QED
      BY <1>15, <3>1, <3>2, <3>3, Zenon DEF SteadyStep, PeerStep
  <2>3. \A q \in Requests : SameSignals(q) /\ Ordered(q)'
    <3>1. \A q \in Requests : \A j \in {"connected", "disconnected", "finished"} :
             Event(j, q) # AuditFailureEvent
      BY DEF Event, AuditFailureEvent
    <3>2. CASE NextEvent(AuditFailureEvent)
      BY <1>0, <1>2, <3>1, <3>2, NextOfOthers
    <3>3. ASSUME NEW r \in Requests, Post(Event("destroyCli", r))
          PROVE  \A q \in Requests : SameSignals(q) /\ Ordered(q)'
      BY <1>0, <1>2, <3>3, PostOfOthers
    <3> QED
      BY <1>0, <1>2, <2>2, <3>2, <3>3, QuietOfOthers, FailsOfOthers
  <2> QED
    BY <1>2, <1>3, <2>1, <2>2, <2>3, AnnouncedFrame
<1> QED
  BY <1>4, <1>5, <1>6, <1>7, <1>8, <1>9, <1>10, <1>11, <1>12, <1>13, <1>14, <1>15, StepKinds, Zenon
     DEF SteadyStep

LEMMA EntriesStep ==
  ASSUME RegistryInv, SessionInv, TrayInv, [Next]_vars
  PROVE  TraySlots' /\ TrayEntriesRegistered'
<1>0. TypeOK /\ TraySlots /\ TrayEntriesRegistered
  BY DEF RegistryInv, TypeInv, TrayInv
<1>1. CASE ~callbacksAlive
  <2>1. \A i \in SessionIds : tray[i] = NoSession
    BY <1>0, <1>1 DEF TrayEntriesRegistered, SessionInv, WindowState, Registered, TypeOK
  <2>2. mainQueue = << >> /\ \A e : ~NextEvent(e)
    BY <1>1 DEF SessionInv, WindowState, NextEvent
  <2>3. UNCHANGED tray
    BY <1>1, <2>2, Zenon
    DEF Next, vars, ReceiveConnect, PoolStep, EvaluateAccepts, EvaluateRejects, EvaluateAuditFails,
        PublishDecision, FinishAudit, Complete, CompleteRefused, CompleteAdmitted, WorkerCall, InitWorker,
        InitWorkerFails, RequestDisconnect, PerformDestroy, WorkerEnds, PeerStep, PeerConnects,
        PeerDisconnects, PeerFails, RemoteDisconnect, StartupTimeout, CleanupSession, HandleEvent,
        OnControlledSessionConnected, OnControlledSessionDisconnected, DestroyWebRtcCli, OnThreadFinished,
        HandleAuditFailure, AppendFails, UserStep, SaveSettings, ChangePassword, TrayDisconnectSession,
        TrayDisconnectPeer, TrayDisconnect, Quit
  <2> QED
    BY <2>1, <2>3 DEF TraySlots, TrayEntriesRegistered
<1>2. CASE Quit
  BY <1>2 DEF Quit, TraySlots, TrayEntriesRegistered
<1>3. CASE callbacksAlive /\ ~Quit
  <2>1. \A q \in Requests : Ordered(q) /\ Announced(q) /\ Living(q)
    BY <1>3 DEF TrayInv, SignalOrder, SessionInv, WindowState
  <2>2. ASSUME UNCHANGED tray, \A q \in Requests : stage[q] = "session" => stage'[q] = "session"
        PROVE  TraySlots' /\ TrayEntriesRegistered'
    BY <1>0, <2>2 DEF TraySlots, TrayEntriesRegistered, TypeOK
  <2>3. ASSUME NEW r \in Requests, RequestStep(r)
        PROVE  TraySlots' /\ TrayEntriesRegistered'
    <3>1. UNCHANGED tray
      BY <2>3, Zenon DEF RequestStep, ReceiveConnect, PoolStep, EvaluateAccepts, EvaluateRejects,
                         EvaluateAuditFails, PublishDecision, FinishAudit, CompleteRefused
    <3>2. \A q \in Requests : stage'[q] = stage[q] \/ stage[q] # "session"
      BY <1>0, <2>3, RequestSteps
    <3> QED
      BY <2>2, <3>1, <3>2
  <2>4. ASSUME NEW r \in Requests,
               CompleteAdmitted(r) \/ PerformDestroy(r) \/ WorkerEnds(r) \/ DestroyWebRtcCli(r)
        PROVE  TraySlots' /\ TrayEntriesRegistered'
    BY <1>0, <2>2, <2>4 DEF CompleteAdmitted, PerformDestroy, WorkerEnds, DestroyWebRtcCli, TypeOK
  <2>5. ASSUME NEW r \in Requests, OnThreadFinished(r)
        PROVE  TraySlots' /\ TrayEntriesRegistered'
    <3>1. NextEvent(Event("finished", r)) /\ UNCHANGED tray /\ stage' = [stage EXCEPT ![r] = "gone"]
      BY <2>5 DEF OnThreadFinished
    <3>2. ~Disconnected(r) /\ Finished(r)
      BY <1>0, <2>1, <3>1, OrderedNext, HoldsNext DEF Finished
    <3>3. tray[SidOf[r]] # r
      BY <2>1, <3>2 DEF Announced
    <3>4. \A i \in SessionIds : tray[i] # r
      BY <1>0, <3>3 DEF TraySlots
    <3> QED
      BY <1>0, <3>1, <3>4 DEF TraySlots, TrayEntriesRegistered, TypeOK
  <2>6. ASSUME NEW r \in Requests, OnControlledSessionConnected(r)
        PROVE  TraySlots' /\ TrayEntriesRegistered'
    <3>1. NextEvent(Event("connected", r)) /\ UNCHANGED stage /\ tray' = [tray EXCEPT ![SidOf[r]] = r]
      BY <2>6 DEF OnControlledSessionConnected
    <3>2. Connected(r)
      BY <1>0, <3>1, HoldsNext DEF Connected
    <3>3. stage[r] = "session"
      BY <2>1, <3>2 DEF Announced
    <3> QED
      BY <1>0, <3>1, <3>3 DEF TraySlots, TrayEntriesRegistered, TypeOK
  <2>7. ASSUME NEW r \in Requests, OnControlledSessionDisconnected(r)
        PROVE  TraySlots' /\ TrayEntriesRegistered'
    BY <1>0, <2>7 DEF OnControlledSessionDisconnected, TraySlots, TrayEntriesRegistered, TypeOK
  <2>8. ASSUME NEW r \in Requests, CleanupSession(r)
        PROVE  FALSE
    BY <2>1, <2>8 DEF CleanupSession, Living
  <2>9. CASE /\ SteadyStep
             /\ \A r \in Requests : ~OnControlledSessionConnected(r) /\ ~OnControlledSessionDisconnected(r)
    <3>1. UNCHANGED stage
      BY <1>0, <2>9, SteadySteps DEF Steady
    <3>2. UNCHANGED tray
      BY <1>3, <2>9, Zenon
      DEF SteadyStep, InitWorker, InitWorkerFails, RequestDisconnect, PeerStep, PeerConnects,
          PeerDisconnects, PeerFails, RemoteDisconnect, StartupTimeout, HandleAuditFailure, AppendFails,
          UserStep, SaveSettings, ChangePassword, TrayDisconnectSession, TrayDisconnectPeer,
          TrayDisconnect, vars
    <3> QED
      BY <2>2, <3>1, <3>2
  <2> QED
    BY <1>3, <2>3, <2>4, <2>5, <2>6, <2>7, <2>8, <2>9, StepKinds, Zenon DEF SteadyStep
<1> QED
  BY <1>1, <1>2, <1>3

LEMMA InitTray == Init => TrayInv /\ TrayShowsSession
<1>. SUFFICES ASSUME Init PROVE TrayInv /\ TrayShowsSession
  OBVIOUS
<1>1. mainQueue = << >> /\ \A i \in SessionIds : tray[i] = NoSession
  BY DEF Init
<1>2. ASSUME NEW q \in Requests
      PROVE  Ordered(q) /\ ~Connected(q) /\ ~Disconnected(q) /\ ~Finished(q)
  BY <1>1 DEF Ordered, Before, Connected, Disconnected, Finished, Holds
<1>3. SignalOrder
  BY <1>2 DEF Init, SignalOrder, Announced
<1>4. TraySlots /\ TrayEntriesRegistered
  BY <1>1 DEF TraySlots, TrayEntriesRegistered
<1>5. TrayShowsSession
  BY DEF Init, TrayShowsSession
<1> QED
  BY <1>3, <1>4, <1>5 DEF TrayInv

LEMMA TrayStep == RegistryInv /\ SessionInv /\ TrayInv /\ [Next]_vars => TrayInv'
<1>. SUFFICES ASSUME RegistryInv, SessionInv, TrayInv, [Next]_vars PROVE TrayInv'
  OBVIOUS
<1>1. SignalOrder'
  <2>1. callbacksAlive' => \A q \in Requests : Ordered(q)' /\ Announced(q)'
    BY AnnouncedStep DEF TrayInv
  <2> QED
    BY <2>1, Zenon DEF SignalOrder
<1> QED
  BY <1>1, EntriesStep DEF TrayInv

LEMMA TrayThroughout == Spec => [](RegistryInv /\ SessionInv /\ TrayInv)
<1>1. Init => RegistryInv /\ SessionInv /\ TrayInv
  BY InitRegistry, InitSessions, InitTray
<1>2. (RegistryInv /\ SessionInv /\ TrayInv) /\ [Next]_vars => (RegistryInv /\ SessionInv /\ TrayInv)'
  BY RegistryStep, SessionStep, TrayStep, Zenon
<1> QED
  BY <1>1, <1>2, PTL DEF Spec

(* No entry of the tray outlives its session, so the disconnect menu never  *)
(* reaches a session that was unregistered and deleted, even when sessions  *)
(* share an identifier: the signal that removes the entry is handled before *)
(* the end of the thread (onControlledSessionDisconnected, performDestroy). *)
THEOREM TrayEntriesLive == Spec => []TrayEntriesRegistered
<1>1. TrayInv => TrayEntriesRegistered
  BY DEF TrayInv
<1> QED
  BY <1>1, TrayThroughout, PTL

\* Each CONNECT has a session identifier of its own: without that the end of one
\* session takes the entry of another.
IdsDiffer == \A q, r \in Requests : SidOf[q] = SidOf[r] => q = r

\* A connected session, as the tray sees it.
ShownFor(r) ==
  r \in connectionAudited =>
    \/ r \in shutdownStarted
    \/ Connected(r)
    \/ tray[SidOf[r]] = r

LEMMA ShownStep ==
  ASSUME IdsDiffer, RegistryInv, SessionInv, TrayInv, TrayShowsSession, [Next]_vars
  PROVE  TrayShowsSession'
<1>0. TypeOK /\ WorkerFlags
  BY DEF RegistryInv, TypeInv, SessionInv
<1>1. SUFFICES ASSUME callbacksAlive'
               PROVE  \A q \in Requests : ShownFor(q)'
  <2>1. connectionAudited' \subseteq Requests
    BY RegistryStep DEF RegistryInv, TypeInv, TypeOK
  <2> QED
    BY <1>1, <2>1 DEF TrayShowsSession, ShownFor, Connected
<1>2. callbacksAlive
  BY <1>1, LivingStep
<1>3. \A q \in Requests : ShownFor(q) /\ Ordered(q) /\ Announced(q) /\ Living(q)
  BY <1>0, <1>2 DEF TrayShowsSession, ShownFor, Connected, TrayInv, SignalOrder, SessionInv, WindowState
<1>4. ASSUME connectionAudited' = connectionAudited, shutdownStarted \subseteq shutdownStarted', UNCHANGED tray,
             \A q \in Requests : Connected(q) => Connected(q)'
      PROVE  \A q \in Requests : ShownFor(q)'
  BY <1>3, <1>4 DEF ShownFor
<1>5. ASSUME NEW r \in Requests, NEW k \in {"connected", "destroyCli", "disconnected", "finished"},
             Post(Event(k, r))
      PROVE  \A q \in Requests : Connected(q) => Connected(q)'
  BY <1>0, <1>2, <1>5, HoldsPosted DEF Connected
<1>6. ASSUME NEW e, NextEvent(e), \A q \in Requests : e # Event("connected", q)
      PROVE  \A q \in Requests : Connected(q) => Connected(q)'
  BY <1>0, <1>6, HoldsNext DEF Connected
<1>7. UNCHANGED mainQueue \/ AuditFails => \A q \in Requests : Connected(q) => Connected(q)'
  <2>1. \A q \in Requests : Event("connected", q) # AuditFailureEvent
    BY DEF Event, AuditFailureEvent
  <2> QED
    BY <1>0, <2>1, HoldsFailed DEF Connected
<1>8. ASSUME NEW r \in Requests, RequestStep(r)
      PROVE  \A q \in Requests : ShownFor(q)'
  <2>1. UNCHANGED mainQueue \/ AuditFails
    BY <1>8, Zenon DEF RequestStep, ReceiveConnect, PoolStep, EvaluateAccepts, EvaluateRejects,
                       EvaluateAuditFails, PublishDecision, FinishAudit, CompleteRefused
  <2>2. UNCHANGED <<connectionAudited, shutdownStarted, tray>>
    BY <1>8, Zenon DEF RequestStep, ReceiveConnect, PoolStep, EvaluateAccepts, EvaluateRejects,
                       EvaluateAuditFails, PublishDecision, FinishAudit, CompleteRefused, workerVars
  <2> QED
    BY <1>4, <1>7, <2>1, <2>2
<1>9. ASSUME NEW r \in Requests, CompleteAdmitted(r)
      PROVE  \A q \in Requests : ShownFor(q)'
  BY <1>4, <1>7, <1>9 DEF CompleteAdmitted
<1>10. ASSUME NEW r \in Requests, PeerConnects(r)
       PROVE  \A q \in Requests : ShownFor(q)'
  <2>1. UNCHANGED <<shutdownStarted, tray>> /\ connectionAudited' = connectionAudited \cup {r}
    BY <1>10 DEF PeerConnects
  <2>2. CASE r \in connectionAudited
    BY <1>4, <1>7, <1>10, <2>1, <2>2 DEF PeerConnects
  <2>3. CASE r \notin connectionAudited
    <3>1. Post(Event("connected", r))
      BY <1>10, <2>3 DEF PeerConnects
    <3>2. Connected(r)'
      BY <1>0, <1>2, <3>1, HoldsPosted DEF Connected
    <3>3. \A q \in Requests : Connected(q) => Connected(q)'
      BY <1>5, <3>1
    <3> QED
      BY <1>3, <2>1, <3>2, <3>3 DEF ShownFor
  <2> QED
    BY <2>2, <2>3
<1>11. ASSUME NEW r \in Requests, PerformDestroy(r)
       PROVE  \A q \in Requests : ShownFor(q)'
  BY <1>4, <1>5, <1>11 DEF PerformDestroy
<1>12. ASSUME NEW r \in Requests, WorkerEnds(r)
       PROVE  \A q \in Requests : ShownFor(q)'
  <2>1. \A q \in Requests : Connected(q) => Connected(q)'
    BY <1>5, <1>12 DEF WorkerEnds
  <2>2. /\ connectionAudited' = connectionAudited \ {r} /\ shutdownStarted' = shutdownStarted \ {r}
        /\ UNCHANGED tray
    BY <1>12 DEF WorkerEnds
  <2> QED
    BY <1>3, <2>1, <2>2 DEF ShownFor
<1>13. ASSUME NEW r \in Requests, DestroyWebRtcCli(r) \/ OnThreadFinished(r)
       PROVE  \A q \in Requests : ShownFor(q)'
  <2>1. NextEvent(Event("destroyCli", r)) \/ NextEvent(Event("finished", r))
    BY <1>13 DEF DestroyWebRtcCli, OnThreadFinished
  <2>2. \A q \in Requests : Connected(q) => Connected(q)'
    BY <1>6, <2>1, EventsDiffer
  <2>3. UNCHANGED <<connectionAudited, shutdownStarted, tray>>
    BY <1>13 DEF DestroyWebRtcCli, OnThreadFinished, workerVars
  <2> QED
    BY <1>4, <2>2, <2>3
<1>14. ASSUME NEW r \in Requests, OnControlledSessionConnected(r)
       PROVE  \A q \in Requests : ShownFor(q)'
  <2>1. /\ NextEvent(Event("connected", r)) /\ tray' = [tray EXCEPT ![SidOf[r]] = r]
        /\ UNCHANGED <<connectionAudited, shutdownStarted>>
    BY <1>14 DEF OnControlledSessionConnected, workerVars
  <2>2. ShownFor(r)'
    BY <1>0, <2>1 DEF ShownFor, TypeOK
  <2>3. ASSUME NEW q \in Requests \ {r}
        PROVE  ShownFor(q)'
    <3>1. SidOf[q] # SidOf[r]
      BY DEF IdsDiffer
    <3>2. tray'[SidOf[q]] = tray[SidOf[q]]
      BY <1>0, <2>1, <3>1 DEF TypeOK
    <3>3. Event("connected", q) # Event("connected", r)
      BY SignalsDiffer
    <3>4. Connected(q) => Connected(q)'
      BY <1>0, <2>1, <3>3, HoldsNext DEF Connected
    <3> QED
      BY <1>3, <2>1, <3>2, <3>4 DEF ShownFor
  <2> QED
    BY <2>2, <2>3
<1>15. ASSUME NEW r \in Requests, OnControlledSessionDisconnected(r)
       PROVE  \A q \in Requests : ShownFor(q)'
  <2>1. /\ NextEvent(Event("disconnected", r)) /\ tray' = [tray EXCEPT ![SidOf[r]] = NoSession]
        /\ UNCHANGED <<connectionAudited, shutdownStarted>>
    BY <1>15 DEF OnControlledSessionDisconnected, workerVars
  <2>2. \A q \in Requests : Connected(q) => Connected(q)'
    BY <1>6, <2>1, EventsDiffer
  <2>3. Disconnected(r)
    BY <1>0, <2>1, HoldsNext DEF Disconnected
  <2>4. r \in connectionAudited => r \in shutdownStarted
    BY <1>0, <1>3, <2>3 DEF Announced, Listening, WorkerFlags
  <2>5. ShownFor(r)'
    BY <2>1, <2>4 DEF ShownFor
  <2>6. ASSUME NEW q \in Requests \ {r}
        PROVE  ShownFor(q)'
    <3>1. SidOf[q] # SidOf[r]
      BY DEF IdsDiffer
    <3>2. tray'[SidOf[q]] = tray[SidOf[q]]
      BY <1>0, <2>1, <3>1 DEF TypeOK
    <3> QED
      BY <1>3, <2>1, <2>2, <3>2 DEF ShownFor
  <2> QED
    BY <2>5, <2>6
<1>16. ASSUME NEW r \in Requests, CleanupSession(r)
       PROVE  FALSE
  BY <1>3, <1>16 DEF CleanupSession, Living
<1>17. CASE Quit
  BY <1>1, <1>17 DEF Quit
<1>18. CASE /\ SteadyStep
            /\ \A r \in Requests : /\ ~PeerConnects(r) /\ ~OnControlledSessionConnected(r)
                                   /\ ~OnControlledSessionDisconnected(r)
  <2>1. UNCHANGED <<tray, connectionAudited, shutdownStarted>>
        /\ (UNCHANGED mainQueue \/ AuditFails \/ NextEvent(AuditFailureEvent)
              \/ \E r \in Requests : Post(Event("destroyCli", r)))
    <3>1. ASSUME NEW r \in Requests,
                 InitWorker(r) \/ InitWorkerFails(r) \/ RequestDisconnect(r) \/ PeerDisconnects(r)
                   \/ PeerFails(r) \/ RemoteDisconnect(r) \/ StartupTimeout(r)
          PROVE  UNCHANGED <<tray, connectionAudited, shutdownStarted>>
                 /\ (UNCHANGED mainQueue \/ Post(Event("destroyCli", r)))
      BY <3>1, Zenon DEF InitWorker, InitWorkerFails, RequestDisconnect, PeerDisconnects, PeerFails,
                         RemoteDisconnect, StartupTimeout, workerVars
    <3>2. CASE HandleAuditFailure \/ AppendFails
      BY <3>2, Zenon DEF HandleAuditFailure, AppendFails, workerVars
    <3>3. CASE (UserStep /\ ~Quit) \/ UNCHANGED vars
      BY <3>3, Zenon DEF UserStep, SaveSettings, ChangePassword, TrayDisconnectSession,
                         TrayDisconnectPeer, TrayDisconnect, vars, workerVars
    <3> QED
      BY <1>18, <3>1, <3>2, <3>3, Zenon DEF SteadyStep, PeerStep
  <2>2. \A q \in Requests : Connected(q) => Connected(q)'
    <3>1. \A q \in Requests : AuditFailureEvent # Event("connected", q)
      BY DEF Event, AuditFailureEvent
    <3>2. NextEvent(AuditFailureEvent) => \A q \in Requests : Connected(q) => Connected(q)'
      BY <1>6, <3>1
    <3> QED
      BY <1>5, <1>7, <2>1, <3>2
  <2> QED
    BY <1>4, <2>1, <2>2
<1> QED
  BY <1>8, <1>9, <1>10, <1>11, <1>12, <1>13, <1>14, <1>15, <1>16, <1>17, <1>18, StepKinds, Zenon
     DEF SteadyStep

(* With identifiers of their own the tray and the registry agree for any    *)
(* number of sessions: a connected session has its entry as soon as the     *)
(* window has handled its signal and until its end has begun, and an entry  *)
(* is a registered session (onControlledSessionConnected). That identifiers *)
(* differ is needed: where two CONNECTs share one, the run sameid shows the *)
(* entry of a connected session disappear.                                  *)
THEOREM TrayIsRegistry == IdsDiffer => (Spec => []TrayMatches)
<1>. SUFFICES ASSUME IdsDiffer PROVE Spec => []TrayMatches
  OBVIOUS
<1>1. Init => TrayShowsSession
  BY InitTray
<1>2. (RegistryInv /\ SessionInv /\ TrayInv) /\ TrayShowsSession /\ [Next]_vars => TrayShowsSession'
  BY ShownStep
<1>3. TrayInv /\ TrayShowsSession => TrayMatches
  BY DEF TrayInv, TrayMatches
<1> QED
  BY <1>1, <1>2, <1>3, TrayThroughout, PTL DEF Spec
=============================================================================
