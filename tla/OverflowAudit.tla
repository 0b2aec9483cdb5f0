--------------------------- MODULE OverflowAudit ---------------------------
(***************************************************************************)
(* scheduleAccessQueueOverflowAudit: the lock-free hand-over between the   *)
(* main thread, which rejects a CONNECT because the access evaluation      *)
(* queue is full and counts the rejection, and a background task, which    *)
(* collects the count and appends one audit record for all of it.          *)
(*                                                                         *)
(* The two sides share the atomics overflowCount and auditScheduled only.  *)
(* Every load, store and exchange on them is a step of its own, so the     *)
(* main thread and any number of tasks interleave between two of them.     *)
(***************************************************************************)
EXTENDS Integers

CONSTANTS
  Tasks,     \* slots for background tasks that exist at the same time
  MaxCalls   \* bound: rejections counted in one behaviour

ASSUME MaxCallsAssumption == MaxCalls \in Nat

VARIABLES
  overflowCount,   \* std::atomic_ullong m_accessQueueOverflowCount
  auditScheduled,  \* std::atomic_bool m_accessQueueOverflowAuditScheduled
  mainPc,          \* where the main thread is in the function
  pc,              \* where each background task is in its loop
  held,            \* the task's local count
  calls,           \* history: rejections counted so far
  audited,         \* history: rejections reported by a successful append
  failed           \* history: rejections whose append failed (logged only)

vars == <<overflowCount, auditScheduled, mainPc, pc, held, calls, audited, failed>>

MainLocations == {"idle", "counted", "spawn"}
TaskLocations == {"free", "take", "append", "clear", "recheck", "claim"}

TypeOK ==
  /\ overflowCount \in Nat
  /\ auditScheduled \in BOOLEAN
  /\ mainPc \in MainLocations
  /\ pc \in [Tasks -> TaskLocations]
  /\ held \in [Tasks -> Nat]
  /\ calls \in Nat
  /\ audited \in Nat
  /\ failed \in Nat

Init ==
  /\ overflowCount = 0
  /\ auditScheduled = FALSE
  /\ mainPc = "idle"
  /\ pc = [t \in Tasks |-> "free"]
  /\ held = [t \in Tasks |-> 0]
  /\ calls = 0
  /\ audited = 0
  /\ failed = 0

-----------------------------------------------------------------------------
(* The main thread.                                                        *)

\* overflowCount->fetch_add(1)
CountOverflow ==
  /\ mainPc = "idle"
  /\ calls < MaxCalls
  /\ overflowCount' = overflowCount + 1
  /\ calls' = calls + 1
  /\ mainPc' = "counted"
  /\ UNCHANGED <<auditScheduled, pc, held, audited, failed>>

\* if (auditScheduled->exchange(true)) return;
TestScheduled ==
  /\ mainPc = "counted"
  /\ auditScheduled' = TRUE
  /\ mainPc' = IF auditScheduled THEN "idle" ELSE "spawn"
  /\ UNCHANGED <<overflowCount, pc, held, calls, audited, failed>>

\* runBackgroundTask(...)
StartTask(t) ==
  /\ mainPc = "spawn"
  /\ pc[t] = "free"
  /\ pc' = [pc EXCEPT ![t] = "take"]
  /\ mainPc' = "idle"
  /\ UNCHANGED <<overflowCount, auditScheduled, held, calls, audited, failed>>

-----------------------------------------------------------------------------
(* A background task.                                                      *)

\* Mutant: a load instead of the exchange, the counter is not reset.
TakeCount_Load(t) ==
  /\ pc[t] = "take"
  /\ held' = [held EXCEPT ![t] = overflowCount]
  /\ pc' = [pc EXCEPT ![t] = IF overflowCount > 0 THEN "append" ELSE "clear"]
  /\ UNCHANGED <<overflowCount, auditScheduled, mainPc, calls, audited, failed>>

\* count = overflowCount->exchange(0)
TakeCount(t) ==
  /\ pc[t] = "take"
  /\ held' = [held EXCEPT ![t] = overflowCount]
  /\ overflowCount' = 0
  /\ pc' = [pc EXCEPT ![t] = IF overflowCount > 0 THEN "append" ELSE "clear"]
  /\ UNCHANGED <<auditScheduled, mainPc, calls, audited, failed>>

\* AuditLogger::instance().append(...); a failure is logged, not retried.
AppendRecord(t) ==
  /\ pc[t] = "append"
  /\ \/ /\ audited' = audited + held[t]
        /\ UNCHANGED failed
     \/ /\ failed' = failed + held[t]
        /\ UNCHANGED audited
  /\ held' = [held EXCEPT ![t] = 0]
  /\ pc' = [pc EXCEPT ![t] = "clear"]
  /\ UNCHANGED <<overflowCount, auditScheduled, mainPc, calls>>

\* auditScheduled->store(false)
ClearScheduled(t) ==
  /\ pc[t] = "clear"
  /\ auditScheduled' = FALSE
  /\ pc' = [pc EXCEPT ![t] = "recheck"]
  /\ UNCHANGED <<overflowCount, mainPc, held, calls, audited, failed>>

\* Mutant: the task ends without looking at the counter again.
Recheck_Never(t) ==
  /\ pc[t] = "recheck"
  /\ pc' = [pc EXCEPT ![t] = "free"]
  /\ UNCHANGED <<overflowCount, auditScheduled, mainPc, held, calls, audited, failed>>

\* if (overflowCount->load() == 0 ...) return;
Recheck(t) ==
  /\ pc[t] = "recheck"
  /\ pc' = [pc EXCEPT ![t] = IF overflowCount = 0 THEN "free" ELSE "claim"]
  /\ UNCHANGED <<overflowCount, auditScheduled, mainPc, held, calls, audited, failed>>

\* Mutant: the task ends whatever the exchange returned.
Claim_Leave(t) ==
  /\ pc[t] = "claim"
  /\ auditScheduled' = TRUE
  /\ pc' = [pc EXCEPT ![t] = "free"]
  /\ UNCHANGED <<overflowCount, mainPc, held, calls, audited, failed>>

\* if (... || auditScheduled->exchange(true)) return;
Claim(t) ==
  /\ pc[t] = "claim"
  /\ auditScheduled' = TRUE
  /\ pc' = [pc EXCEPT ![t] = IF auditScheduled THEN "free" ELSE "take"]
  /\ UNCHANGED <<overflowCount, mainPc, held, calls, audited, failed>>

TaskStep(t) ==
  \/ TakeCount(t)
  \/ AppendRecord(t)
  \/ ClearScheduled(t)
  \/ Recheck(t)
  \/ Claim(t)

Next ==
  \/ CountOverflow
  \/ TestScheduled
  \/ \E t \in Tasks : StartTask(t) \/ TaskStep(t)

Spec == Init /\ [][Next]_vars

(* A thread that has started the function finishes it, and the pool runs   *)
(* what it was given: no fairness is assumed of CountOverflow.             *)
Fairness ==
  /\ WF_vars(TestScheduled)
  /\ WF_vars(\E t \in Tasks : StartTask(t))
  /\ \A t \in Tasks : WF_vars(TaskStep(t))

FairSpec == Spec /\ Fairness

-----------------------------------------------------------------------------
(* Properties.                                                             *)

\* The task t has taken the right to report: it runs before its store(false).
Owns(t) == pc[t] \in {"take", "append", "clear"}

\* At most one party at a time is responsible for reporting: one task, or
\* the main thread that is about to start one. Two of them would interleave
\* their audit records and the session they name.
SingleAuditor ==
  /\ \A t, u \in Tasks : Owns(t) /\ Owns(u) => t = u
  /\ mainPc = "spawn" => \A t \in Tasks : ~Owns(t)

\* No rejection is lost or reported twice: each one is still in the counter,
\* held by the reporting task, or has gone into exactly one record.
NoOverflowLost ==
  /\ \A t \in Tasks :
       Owns(t) => calls = overflowCount + held[t] + audited + failed
  /\ (\A t \in Tasks : ~Owns(t)) => calls = overflowCount + audited + failed

\* No lost wake-up: while rejections wait in the counter somebody is still
\* going to look at it, whatever the order of the store(false), the re-check
\* and the main thread's exchange.
NoLostWakeup ==
  overflowCount > 0 =>
    \/ mainPc \in {"counted", "spawn"}
    \/ \E t \in Tasks : pc[t] # "free"

\* The three together: whatever the order of the atomics, one party reports,
\* every rejection is somewhere, and somebody is going to look for it.
RejectionsAccounted == SingleAuditor /\ NoOverflowLost /\ NoLostWakeup

\* The atomics and the tasks implement the ledger: a rejection is counted when
\* the main thread adds it, reported when the append of its batch returns.
Ledger == INSTANCE OverflowLedger
            WITH counted <- calls, reported <- audited + failed

ImplementsLedger == Ledger!Spec

\* Every rejection is eventually in an audit record (or in a failed append).
EveryOverflowReported ==
  \A n \in 1..MaxCalls : (calls >= n) ~> (audited + failed >= n)

=============================================================================
