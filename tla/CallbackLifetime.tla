---------------------------- MODULE CallbackLifetime ----------------------------
(***************************************************************************)
(* util/qt/qt_callback_util.h: the gate between a session object, which    *)
(* lives on its owner's thread, and the callbacks that enter it from       *)
(* WebRTC, thread-pool and clipboard threads.  A callback holds a Permit   *)
(* while it runs; closeAndWait refuses new callbacks and blocks the owner  *)
(* until the ones of the other threads have left.  Every operation runs    *)
(* under m_mutex, so each is one step, except the wait, which sleeps on    *)
(* the condition variable between two evaluations of its predicate.        *)
(***************************************************************************)
EXTENDS Naturals, FiniteSets

CONSTANTS
    Calls,      \* the invocations of callbacks; each tries to enter once
    Threads,    \* the threads they are made on
    Owner,      \* the thread that owns the object and closes the lifetime
    threadOf    \* the thread of each call

ASSUME CallsAssumption ==
    /\ IsFiniteSet(Calls)
    /\ Owner \in Threads
    /\ threadOf \in [Calls -> Threads]

VARIABLES
    closed,             \* m_closed
    active,             \* m_active
    activeByThread,     \* m_activeByThread; an erased entry is 0
    inside,             \* calls holding a Permit
    gone,               \* calls refused, or whose Permit was released
    closer              \* where the owner is in closeAndWait

lifetimeVars == <<closed, active, activeByThread, inside, gone, closer>>

CloserStates == {"away", "asleep", "notified", "returned"}

LifetimeTypeOK ==
    /\ closed \in BOOLEAN
    /\ active \in Nat
    /\ activeByThread \in [Threads -> Nat]
    /\ inside \subseteq Calls
    /\ gone \subseteq Calls
    /\ closer \in CloserStates

InsideOf(t) == {c \in inside : threadOf[c] = t}

\* A thread blocked in the condition wait neither starts nor ends a callback.
Running(t) == t = Owner => closer \in {"away", "returned"}

LifetimeInit ==
    /\ closed = FALSE
    /\ active = 0
    /\ activeByThread = [t \in Threads |-> 0]
    /\ inside = {}
    /\ gone = {}
    /\ closer = "away"

(***************************************************************************)
(* tryEnter, for callbacks that have not run yet.                          *)
(***************************************************************************)
\* Mutant.
TryEnter_Unchecked(c) ==
    /\ c \notin inside \cup gone
    /\ Running(threadOf[c])
    /\ active' = active + 1
    /\ activeByThread' = [activeByThread EXCEPT ![threadOf[c]] = @ + 1]
    /\ inside' = inside \cup {c}
    /\ UNCHANGED <<closed, closer, gone>>

TryEnter(c) ==
    /\ c \notin inside \cup gone
    /\ Running(threadOf[c])
    /\ \/ /\ closed
          /\ gone' = gone \cup {c}
          /\ UNCHANGED <<active, activeByThread, inside>>
       \/ /\ ~closed
          /\ active' = active + 1
          /\ activeByThread' = [activeByThread EXCEPT ![threadOf[c]] = @ + 1]
          /\ inside' = inside \cup {c}
          /\ UNCHANGED gone
    /\ UNCHANGED <<closed, closer>>

(***************************************************************************)
(* leave: both counters go down, the entry of a thread's last call is      *)
(* erased, and whoever waits is notified after every call.                 *)
(***************************************************************************)
OneLess(n) == IF n > 0 THEN n - 1 ELSE 0

AfterLeave(c) == IF closer = "asleep" THEN "notified" ELSE closer

Leave(c) ==
    /\ c \in inside
    /\ Running(threadOf[c])
    /\ active' = OneLess(active)
    /\ activeByThread' = [activeByThread EXCEPT ![threadOf[c]] = OneLess(@)]
    /\ inside' = inside \ {c}
    /\ gone' = gone \cup {c}
    /\ closer' = AfterLeave(c)
    /\ UNCHANGED closed

(***************************************************************************)
(* closeAndWait.  The predicate leaves out the calls of the closing        *)
(* thread: a callback may itself have come to the shutdown.  A condition   *)
(* variable may also wake up for nothing.                                  *)
(***************************************************************************)
OthersGone == active <= activeByThread[Owner]

WaitResult == IF OthersGone THEN "returned" ELSE "asleep"

Close ==
    /\ closer = "away"
    /\ closed' = TRUE
    /\ closer' = WaitResult
    /\ UNCHANGED <<active, activeByThread, inside, gone>>

WakeUp ==
    /\ closer = "notified"
    /\ closer' = WaitResult
    /\ UNCHANGED <<closed, active, activeByThread, inside, gone>>

SpuriousWakeUp ==
    /\ closer = "asleep"
    /\ closer' = "notified"
    /\ UNCHANGED <<closed, active, activeByThread, inside, gone>>

AllIdle == inside = {} /\ gone = Calls /\ closer = "returned"

LifetimeNext ==
    \/ \E c \in Calls : TryEnter(c) \/ Leave(c)
    \/ Close
    \/ WakeUp
    \/ SpuriousWakeUp
    \/ AllIdle /\ UNCHANGED lifetimeVars

LifetimeSpec == LifetimeInit /\ [][LifetimeNext]_lifetimeVars

-----------------------------------------------------------------------------
(***************************************************************************)
(* Properties.                                                             *)
(***************************************************************************)

\* The counters are exact: they equal the permits held, in total and per
\* thread, whatever the order in which nested calls of several threads leave.
CountersExact ==
    /\ active = Cardinality(inside)
    /\ \A t \in Threads : activeByThread[t] = Cardinality(InsideOf(t))

\* Once closeAndWait has returned, no callback of another thread is in the
\* object, and none enters later: the owner takes its members apart alone.
NoForeignCallAfterClose ==
    closer = "returned" => \A c \in inside : threadOf[c] = Owner

\* The owner never sleeps through its own condition: when it is asleep some
\* call of another thread is still inside, whose leave will notify it.
NeverAsleepForNothing ==
    closer = "asleep" => \E c \in inside : threadOf[c] # Owner

\* What the session relies on, without counters.
Scope == INSTANCE CallbackScope WITH open <- ~closed, quiet <- (closer = "returned")
ImplementsScope == Scope!Spec

=============================================================================
