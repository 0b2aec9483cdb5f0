------------------------ MODULE OverflowAuditProofs ------------------------
(***************************************************************************)
(* The overflow audit is correct for any number of tasks and rejections.   *)
(*                                                                         *)
(* The invariants the runs check are not inductive alone: that at most one *)
(* party reports rests on auditScheduled being TRUE exactly while one does *)
(* (ScheduledMeansOwned), and the conservation of the count on a task      *)
(* holding a count only while it owns the report (OnlyOwnersHold).         *)
(***************************************************************************)
EXTENDS OverflowAudit, TLAPS

\* The flag is the token of the reporting party.
ScheduledMeansOwned ==
  auditScheduled <=> (mainPc = "spawn" \/ \E t \in Tasks : Owns(t))

\* Only a task that is about to append holds a count, and then a positive one.
OnlyAppendersHold ==
  \A t \in Tasks : IF pc[t] = "append" THEN held[t] > 0 ELSE held[t] = 0

IInv ==
  /\ TypeOK
  /\ SingleAuditor
  /\ ScheduledMeansOwned
  /\ OnlyAppendersHold
  /\ NoOverflowLost
  /\ NoLostWakeup

-----------------------------------------------------------------------------

LEMMA InitEstablishesIInv == Init => IInv
<1> SUFFICES ASSUME Init PROVE IInv
  OBVIOUS
<1>1. TypeOK
  BY DEF Init, TypeOK, MainLocations, TaskLocations
<1>2. \A t \in Tasks : ~Owns(t) /\ held[t] = 0 /\ pc[t] = "free"
  BY DEF Init, Owns
<1>3. SingleAuditor /\ OnlyAppendersHold
  BY <1>2 DEF SingleAuditor, OnlyAppendersHold
<1>4. ScheduledMeansOwned
  BY <1>2 DEF Init, ScheduledMeansOwned
<1>5. NoOverflowLost /\ NoLostWakeup
  BY <1>2 DEF Init, NoOverflowLost, NoLostWakeup
<1>6. QED
  BY <1>1, <1>3, <1>4, <1>5 DEF IInv

LEMMA StepPreservesIInv == IInv /\ [Next]_vars => IInv'
<1> SUFFICES ASSUME IInv, [Next]_vars PROVE IInv'
  OBVIOUS
<1> USE DEF IInv, TypeOK, MainLocations, TaskLocations
\* The main thread's fetch_add moves no token: only the counts change.
<1>1. CASE CountOverflow
  <2>1. TypeOK' /\ SingleAuditor' /\ OnlyAppendersHold'
    BY <1>1 DEF CountOverflow, SingleAuditor, OnlyAppendersHold, Owns
  <2>2. ScheduledMeansOwned'
    BY <1>1 DEF CountOverflow, ScheduledMeansOwned, Owns
  <2>3. NoOverflowLost' /\ NoLostWakeup'
    BY <1>1 DEF CountOverflow, NoOverflowLost, NoLostWakeup, Owns
  <2>4. QED
    BY <2>1, <2>2, <2>3
\* The exchange takes the token exactly when nobody has it.
<1>2. CASE TestScheduled
  BY <1>2 DEF TestScheduled, SingleAuditor, ScheduledMeansOwned,
              OnlyAppendersHold, NoOverflowLost, NoLostWakeup, Owns
\* The token passes from the main thread to the new task.
<1>3. ASSUME NEW t \in Tasks, StartTask(t) PROVE IInv'
  BY <1>3 DEF StartTask, SingleAuditor, ScheduledMeansOwned,
              OnlyAppendersHold, NoOverflowLost, NoLostWakeup, Owns
\* The counter moves into the hands of the only owner.
<1>4. ASSUME NEW t \in Tasks, TakeCount(t) PROVE IInv'
  <2>1. TypeOK'
    BY <1>4 DEF TakeCount
  <2>2. Owns(t) /\ \A u \in Tasks : Owns(u)' <=> Owns(u)
    BY <1>4 DEF TakeCount, Owns
  <2>3. SingleAuditor' /\ ScheduledMeansOwned'
    BY <1>4, <2>2 DEF TakeCount, SingleAuditor, ScheduledMeansOwned
  <2>4. OnlyAppendersHold'
    BY <1>4 DEF TakeCount, OnlyAppendersHold
  <2>5. calls = overflowCount + audited + failed
    BY <1>4, <2>2 DEF TakeCount, OnlyAppendersHold, NoOverflowLost
  <2>6. \A u \in Tasks : Owns(u) => u = t
    BY <2>2 DEF SingleAuditor
  <2>7. NoOverflowLost' /\ NoLostWakeup'
    BY <1>4, <2>2, <2>5, <2>6 DEF TakeCount, NoOverflowLost, NoLostWakeup
  <2>8. QED
    BY <2>1, <2>3, <2>4, <2>7
<1>5. ASSUME NEW t \in Tasks, AppendRecord(t) PROVE IInv'
  BY <1>5 DEF AppendRecord, SingleAuditor, ScheduledMeansOwned,
              OnlyAppendersHold, NoOverflowLost, NoLostWakeup, Owns
\* The owner drops the token; it still has to look at the counter.
<1>6. ASSUME NEW t \in Tasks, ClearScheduled(t) PROVE IInv'
  <2>1. TypeOK' /\ OnlyAppendersHold' /\ NoLostWakeup'
    BY <1>6 DEF ClearScheduled, OnlyAppendersHold, NoLostWakeup
  <2>2. Owns(t) /\ (\A u \in Tasks : Owns(u) => u = t) /\ mainPc # "spawn"
    BY <1>6 DEF ClearScheduled, SingleAuditor, Owns
  <2>3. \A u \in Tasks : ~Owns(u)'
    BY <1>6, <2>2 DEF ClearScheduled, Owns
  <2>4. SingleAuditor' /\ ScheduledMeansOwned'
    BY <1>6, <2>2, <2>3 DEF ClearScheduled, SingleAuditor, ScheduledMeansOwned
  <2>5. held[t] = 0 /\ calls = overflowCount + held[t] + audited + failed
    BY <1>6, <2>2 DEF ClearScheduled, OnlyAppendersHold, NoOverflowLost
  <2>6. NoOverflowLost'
    BY <1>6, <2>3, <2>5 DEF ClearScheduled, NoOverflowLost
  <2>7. QED
    BY <2>1, <2>4, <2>6
<1>7. ASSUME NEW t \in Tasks, Recheck(t) PROVE IInv'
  BY <1>7 DEF Recheck, SingleAuditor, ScheduledMeansOwned,
              OnlyAppendersHold, NoOverflowLost, NoLostWakeup, Owns
\* A task that loses the exchange leaves the counter to the owner.
<1>8. ASSUME NEW t \in Tasks, Claim(t) PROVE IInv'
  BY <1>8 DEF Claim, SingleAuditor, ScheduledMeansOwned,
              OnlyAppendersHold, NoOverflowLost, NoLostWakeup, Owns
<1>9. CASE UNCHANGED vars
  BY <1>9 DEF vars, SingleAuditor, ScheduledMeansOwned,
              OnlyAppendersHold, NoOverflowLost, NoLostWakeup, Owns
<1>10. QED
  BY <1>1, <1>2, <1>3, <1>4, <1>5, <1>6, <1>7, <1>8, <1>9 DEF Next, TaskStep

-----------------------------------------------------------------------------

(* The strengthened invariant holds in every reachable state.              *)
THEOREM OverflowAuditInvariant == Spec => []IInv
  BY InitEstablishesIInv, StepPreservesIInv, PTL DEF Spec

(* Type correctness of the atomics, the locations and the counts, for every *)
(* set of tasks and every number of rejections.                             *)
THEOREM OverflowAuditTypes == Spec => []TypeOK
<1>1. IInv => TypeOK
  BY DEF IInv
<1>2. QED
  BY <1>1, OverflowAuditInvariant, PTL

(* However many tasks the pool runs, one party at a time reports: the       *)
(* exchange on auditScheduled hands the report over.                        *)
THEOREM OneReporter == Spec => []SingleAuditor
<1>1. IInv => SingleAuditor
  BY DEF IInv
<1>2. QED
  BY <1>1, OverflowAuditInvariant, PTL

(* Each rejection is in the counter, in the reporting task's hands, or in   *)
(* exactly one record: the exchange(0) neither loses nor doubles one.       *)
THEOREM EveryRejectionAccounted == Spec => []NoOverflowLost
<1>1. IInv => NoOverflowLost
  BY DEF IInv
<1>2. QED
  BY <1>1, OverflowAuditInvariant, PTL

(* The re-check after store(false) leaves no window in which a rejection    *)
(* waits and nobody will look.                                              *)
THEOREM NobodyForgets == Spec => []NoLostWakeup
<1>1. IInv => NoLostWakeup
  BY DEF IInv
<1>2. QED
  BY <1>1, OverflowAuditInvariant, PTL

(* The three together.                                                      *)
THEOREM RejectionsAreAccounted == Spec => []RejectionsAccounted
<1>1. SingleAuditor /\ NoOverflowLost /\ NoLostWakeup => RejectionsAccounted
  BY DEF RejectionsAccounted
<1>2. QED
  BY <1>1, OneReporter, EveryRejectionAccounted, NobodyForgets, PTL

-----------------------------------------------------------------------------

(* The atomics implement the ledger: a step of the main thread counts or    *)
(* stutters, the end of an append reports a batch of what was counted.      *)
THEOREM OverflowAuditRefinesLedger == Spec => ImplementsLedger
<1>1. Init => Ledger!Init
  BY DEF Init, Ledger!Init
<1>2. IInv /\ [Next]_vars => [Ledger!Next]_Ledger!vars
  <2> SUFFICES ASSUME IInv, [Next]_vars PROVE [Ledger!Next]_Ledger!vars
    OBVIOUS
  <2> USE DEF Ledger!Next, Ledger!vars
  <2>1. CASE CountOverflow
    BY <2>1 DEF CountOverflow, Ledger!Count
  <2>2. CASE TestScheduled
    BY <2>2 DEF TestScheduled
  <2>3. ASSUME NEW t \in Tasks, StartTask(t) PROVE UNCHANGED Ledger!vars
    BY <2>3 DEF StartTask
  <2>4. ASSUME NEW t \in Tasks, AppendRecord(t) PROVE Ledger!Report
    <3>1. held[t] \in Nat /\ held[t] > 0 /\ overflowCount \in Nat
          /\ calls \in Nat /\ audited \in Nat /\ failed \in Nat
      BY <2>4 DEF AppendRecord, IInv, TypeOK, OnlyAppendersHold
    <3>2. calls = overflowCount + held[t] + audited + failed
      BY <2>4 DEF AppendRecord, IInv, NoOverflowLost, Owns
    <3>3. CASE audited' = audited + held[t] /\ failed' = failed
      BY <2>4, <3>1, <3>2, <3>3 DEF AppendRecord, Ledger!Report
    <3>4. CASE failed' = failed + held[t] /\ audited' = audited
      BY <2>4, <3>1, <3>2, <3>4 DEF AppendRecord, Ledger!Report
    <3>5. QED
      BY <2>4, <3>3, <3>4 DEF AppendRecord
  <2>5. ASSUME NEW t \in Tasks,
               TakeCount(t) \/ ClearScheduled(t) \/ Recheck(t) \/ Claim(t)
        PROVE  UNCHANGED Ledger!vars
    BY <2>5 DEF TakeCount, ClearScheduled, Recheck, Claim
  <2>6. CASE UNCHANGED vars
    BY <2>6 DEF vars
  <2>7. QED
    BY <2>1, <2>2, <2>3, <2>4, <2>5, <2>6 DEF Next, TaskStep
<1>3. QED
  BY <1>1, <1>2, OverflowAuditInvariant, PTL DEF Spec, Ledger!Spec, ImplementsLedger
=============================================================================
