--------------------------- MODULE CallbackDispatcher ---------------------------
(***************************************************************************)
(* util/qt/qt_callback_util.cpp: QtCallbackDispatcher, by which libwebrtc, *)
(* pool and worker threads have callbacks run on the thread of a session.  *)
(* post puts a callback in the queue and, when no drain is under way,      *)
(* queues a call of drain on the owner's event loop; drain runs callbacks  *)
(* for a slice and queues itself again when some are left.  The queue and  *)
(* its flag have a mutex; the call of invokeMethod is made outside it, so  *)
(* it is a step of its own, and any other thread may come in between.      *)
(***************************************************************************)
EXTENDS Naturals, Sequences

CONSTANTS
    Callbacks,              \* what can be posted
    Threads,                \* the threads that post
    Owner,                  \* the thread the dispatcher lives on
    MaxCallbacksPerDrain,   \* kMaxCallbacksPerDrain
    MaxWaiting              \* bound: callbacks in the queue

ASSUME DispatcherAssumption ==
    /\ Owner \in Threads
    /\ MaxCallbacksPerDrain \in Nat \ {0}
    /\ MaxWaiting \in Nat

VARIABLES
    callbacks,          \* d->callbacks
    drainScheduled,     \* d->drainScheduled
    drainCalls,         \* calls of drain queued on the owner's event loop
    invoking,           \* threads between the enqueue of post and invokeMethod
    drain,              \* where the owner is in drain
    drained             \* drain's local counter

dispatcherVars == <<callbacks, drainScheduled, drainCalls, invoking, drain, drained>>

DrainStates == {"away", "looking", "running", "over"}

DispatcherTypeOK ==
    /\ callbacks \in Seq(Callbacks)
    /\ drainScheduled \in BOOLEAN
    /\ drainCalls \in Nat
    /\ invoking \subseteq Threads
    /\ drain \in DrainStates
    /\ drained \in 0..MaxCallbacksPerDrain

DispatcherInit ==
    /\ callbacks = <<>>
    /\ drainScheduled = FALSE
    /\ drainCalls = 0
    /\ invoking = {}
    /\ drain = "away"
    /\ drained = 0

(***************************************************************************)
(* post: the enqueue, then invokeMethod for the thread that set the flag.  *)
(* The owner posts from a callback it runs, or from another event.         *)
(***************************************************************************)
MayPost(t) ==
    /\ t \notin invoking
    /\ Len(callbacks) < MaxWaiting
    /\ t = Owner => drain \in {"away", "running"}

Enqueue(t, c) ==
    /\ MayPost(t)
    /\ callbacks' = Append(callbacks, c)
    /\ drainScheduled' = TRUE
    /\ invoking' = IF drainScheduled THEN invoking ELSE invoking \cup {t}
    /\ UNCHANGED <<drainCalls, drain, drained>>

InvokeDrain(t) ==
    /\ t \in invoking
    /\ invoking' = invoking \ {t}
    /\ drainCalls' = drainCalls + 1
    /\ UNCHANGED <<callbacks, drainScheduled, drain, drained>>

InvokeFails(t) ==
    /\ t \in invoking
    /\ invoking' = invoking \ {t}
    /\ callbacks' = <<>>
    /\ drainScheduled' = FALSE
    /\ UNCHANGED <<drainCalls, drain, drained>>

(***************************************************************************)
(* drain.                                                                  *)
(***************************************************************************)
StartDrain ==
    /\ drain = "away"
    /\ Owner \notin invoking
    /\ drainCalls > 0
    /\ drainCalls' = drainCalls - 1
    /\ drain' = "looking"
    /\ drained' = 0
    /\ UNCHANGED <<callbacks, drainScheduled, invoking>>

\* Mutant: one more than the limit.
TakeCallback_OffByOne ==
    /\ drain = "looking"
    /\ drained <= MaxCallbacksPerDrain
    /\ callbacks # <<>>
    /\ callbacks' = Tail(callbacks)
    /\ drain' = "running"
    /\ UNCHANGED <<drainScheduled, drainCalls, invoking, drained>>

\* Mutant: the newest callback is taken out instead of the oldest.
TakeCallback_Newest ==
    /\ drain = "looking"
    /\ drained < MaxCallbacksPerDrain
    /\ callbacks # <<>>
    /\ callbacks' = SubSeq(callbacks, 1, Len(callbacks) - 1)
    /\ drain' = "running"
    /\ UNCHANGED <<drainScheduled, drainCalls, invoking, drained>>

TakeCallback ==
    /\ drain = "looking"
    /\ drained < MaxCallbacksPerDrain
    /\ callbacks # <<>>
    /\ callbacks' = Tail(callbacks)
    /\ drain' = "running"
    /\ UNCHANGED <<drainScheduled, drainCalls, invoking, drained>>

CallbackReturns ==
    /\ drain = "running"
    /\ drain' = "looking"
    /\ drained' = drained + 1
    /\ UNCHANGED <<callbacks, drainScheduled, drainCalls, invoking>>

\* The queue is found empty in the loop or after it, under the same mutex.
FindEmpty ==
    /\ drain = "looking"
    /\ callbacks = <<>>
    /\ drainScheduled' = FALSE
    /\ drain' = "away"
    /\ UNCHANGED <<callbacks, drainCalls, invoking, drained>>

\* The slice is over, after so many callbacks or four milliseconds, and some
\* callbacks are left.
EndSlice ==
    /\ drain = "looking"
    /\ callbacks # <<>>
    /\ drain' = "over"
    /\ UNCHANGED <<callbacks, drainScheduled, drainCalls, invoking, drained>>

InvokeAgain ==
    /\ drain = "over"
    /\ drain' = "away"
    /\ drainCalls' = drainCalls + 1
    /\ UNCHANGED <<callbacks, drainScheduled, invoking, drained>>

InvokeAgainFails ==
    /\ drain = "over"
    /\ drain' = "away"
    /\ callbacks' = <<>>
    /\ drainScheduled' = FALSE
    /\ UNCHANGED <<drainCalls, invoking, drained>>

DrainStep ==
    \/ StartDrain
    \/ TakeCallback
    \/ CallbackReturns
    \/ FindEmpty
    \/ EndSlice
    \/ InvokeAgain

DispatcherNext ==
    \/ \E t \in Threads, c \in Callbacks : Enqueue(t, c)
    \/ \E t \in Threads : InvokeDrain(t) \/ InvokeFails(t)
    \/ DrainStep
    \/ InvokeAgainFails

DispatcherSpec == DispatcherInit /\ [][DispatcherNext]_dispatcherVars

-----------------------------------------------------------------------------
(***************************************************************************)
(* Properties.                                                             *)
(***************************************************************************)

\* While the flag is set exactly one party owes the queue a look: a thread that
\* is about to queue the drain, the event loop that holds the call, or drain
\* itself.  Two would let callbacks run in two drains; none is a lost wake-up.
OneDrainOnItsWay ==
    /\ drainCalls > 0 => drainCalls = 1 /\ drain = "away"
    /\ \A t \in invoking : invoking = {t} /\ drainCalls = 0 /\ drain = "away"
    /\ drainScheduled <=> (drainCalls > 0 \/ invoking # {} \/ drain # "away")

\* No callback is stranded: none waits while the flag, by which the next post
\* decides whether to queue a drain, is down.
NobodyStranded == ~drainScheduled => callbacks = <<>>

\* Callbacks are run in the order in which they were posted, whoever posts
\* meanwhile, and none is lost unless Qt refuses a call, when all are.
Queue == INSTANCE CallbackQueue WITH line <- callbacks
ImplementsQueue == Queue!Spec

=============================================================================
