------------------------- MODULE SessionTeardownProofs -------------------------
(***************************************************************************)
(* Theorems about SessionTeardown, for any readers, threads and number of  *)
(* chunks.  A session's steps are steps of its callback lifetime or leave  *)
(* it alone, so the lifetime's theorems hold of it; the rest ties where a  *)
(* reader is to its Permit, and where the owner is to closeAndWait.        *)
(***************************************************************************)
EXTENDS SessionTeardown, FiniteSetTheorems, TLAPS

-----------------------------------------------------------------------------
(***************************************************************************)
(* The callback lifetime, for any finite set of calls on any threads. The  *)
(* counters are exact (they equal cardinalities of sets of permits); from  *)
(* exact counters, the wait predicate says that no call of another thread  *)
(* is inside; and closing keeps new calls out.                             *)
(***************************************************************************)

USE CallsAssumption

-----------------------------------------------------------------------------
(* Counting permits.                                                       *)

LEMMA InsideFinite ==
  ASSUME inside \subseteq Calls
  PROVE  /\ IsFiniteSet(inside)
         /\ \A t \in Threads : IsFiniteSet(InsideOf(t))
<1>1. IsFiniteSet(inside)
  BY FS_Subset
<1>2. \A t \in Threads : InsideOf(t) \in SUBSET inside
  BY DEF InsideOf
<1> QED
  BY <1>1, <1>2, FS_Subset

\* The predicate of the wait: a thread has all permits exactly when no other
\* thread has one.
LEMMA OthersGoneMeaning ==
  ASSUME LifetimeTypeOK, CountersExact
  PROVE  OthersGone <=> \A c \in inside : threadOf[c] = Owner
<1>1. IsFiniteSet(inside)
  BY InsideFinite DEF LifetimeTypeOK
<1>2. InsideOf(Owner) \in SUBSET inside
  BY DEF InsideOf
<1>3. /\ Cardinality(inside) \in Nat
      /\ Cardinality(InsideOf(Owner)) \in Nat
      /\ Cardinality(InsideOf(Owner)) <= Cardinality(inside)
      /\ Cardinality(inside) = Cardinality(InsideOf(Owner)) => inside = InsideOf(Owner)
  BY <1>1, <1>2, FS_Subset, FS_CardinalityType
<1>4. OthersGone <=> Cardinality(inside) <= Cardinality(InsideOf(Owner))
  BY DEF OthersGone, CountersExact
<1>5. OthersGone <=> inside = InsideOf(Owner)
  BY <1>3, <1>4
<1> QED
  BY <1>5 DEF InsideOf

\* A call enters: its thread's permits and the total grow by one.
LEMMA CountEnter ==
  ASSUME inside \subseteq Calls, NEW c \in Calls, c \notin inside
  PROVE  /\ Cardinality(inside \cup {c}) = Cardinality(inside) + 1
         /\ \A t \in Threads :
               Cardinality({d \in inside \cup {c} : threadOf[d] = t}) =
                 IF t = threadOf[c] THEN Cardinality(InsideOf(t)) + 1
                                    ELSE Cardinality(InsideOf(t))
<1>1. Cardinality(inside \cup {c}) = Cardinality(inside) + 1
  BY InsideFinite, FS_AddElement
<1>2. ASSUME NEW t \in Threads
      PROVE  Cardinality({d \in inside \cup {c} : threadOf[d] = t}) =
                 IF t = threadOf[c] THEN Cardinality(InsideOf(t)) + 1
                                    ELSE Cardinality(InsideOf(t))
  <2>1. CASE t = threadOf[c]
    <3>1. {d \in inside \cup {c} : threadOf[d] = t} = InsideOf(t) \cup {c}
      BY <2>1 DEF InsideOf
    <3>2. c \notin InsideOf(t)
      BY DEF InsideOf
    <3> QED
      BY <2>1, <3>1, <3>2, InsideFinite, FS_AddElement
  <2>2. CASE t # threadOf[c]
    <3>1. {d \in inside \cup {c} : threadOf[d] = t} = InsideOf(t)
      BY <2>2 DEF InsideOf
    <3> QED
      BY <2>2, <3>1
  <2> QED
    BY <2>1, <2>2
<1> QED
  BY <1>1, <1>2

\* A call leaves: they shrink by one, from at least one.
LEMMA CountLeave ==
  ASSUME inside \subseteq Calls, NEW c \in inside
  PROVE  /\ Cardinality(inside) > 0
         /\ Cardinality(inside \ {c}) = Cardinality(inside) - 1
         /\ Cardinality(InsideOf(threadOf[c])) > 0
         /\ \A t \in Threads :
               Cardinality({d \in inside \ {c} : threadOf[d] = t}) =
                 IF t = threadOf[c] THEN Cardinality(InsideOf(t)) - 1
                                    ELSE Cardinality(InsideOf(t))
<1>1. Cardinality(inside \ {c}) = Cardinality(inside) - 1
  BY InsideFinite, FS_RemoveElement
<1>2. Cardinality(inside) > 0
  <2>1. Cardinality(inside) \in Nat /\ Cardinality(inside) # 0
    BY InsideFinite, FS_EmptySet, FS_CardinalityType
  <2> QED
    BY <2>1
<1>3. threadOf[c] \in Threads /\ c \in InsideOf(threadOf[c])
  BY DEF InsideOf
<1>4. Cardinality(InsideOf(threadOf[c])) > 0
  <2>1. IsFiniteSet(InsideOf(threadOf[c])) /\ InsideOf(threadOf[c]) # {}
    BY <1>3, InsideFinite
  <2>2. /\ Cardinality(InsideOf(threadOf[c])) \in Nat
        /\ Cardinality(InsideOf(threadOf[c])) # 0
    BY <2>1, FS_EmptySet, FS_CardinalityType
  <2> QED
    BY <2>2
<1>5. ASSUME NEW t \in Threads
      PROVE  Cardinality({d \in inside \ {c} : threadOf[d] = t}) =
                 IF t = threadOf[c] THEN Cardinality(InsideOf(t)) - 1
                                    ELSE Cardinality(InsideOf(t))
  <2>1. CASE t = threadOf[c]
    <3>1. {d \in inside \ {c} : threadOf[d] = t} = InsideOf(t) \ {c}
      BY <2>1 DEF InsideOf
    <3> QED
      BY <1>3, <2>1, <3>1, InsideFinite, FS_RemoveElement
  <2>2. CASE t # threadOf[c]
    <3>1. {d \in inside \ {c} : threadOf[d] = t} = InsideOf(t)
      BY <2>2 DEF InsideOf
    <3> QED
      BY <2>2, <3>1
  <2> QED
    BY <2>1, <2>2
<1> QED
  BY <1>1, <1>2, <1>4, <1>5

-----------------------------------------------------------------------------
(* The inductive invariant: once the owner is in closeAndWait, m_closed    *)
(* is set, which is what keeps the wait predicate true after it held.      *)

ClosedWhileWaiting == closer # "away" => closed

LifetimeInv ==
    /\ LifetimeTypeOK
    /\ CountersExact
    /\ ClosedWhileWaiting
    /\ NoForeignCallAfterClose
    /\ NeverAsleepForNothing

LEMMA OneLessIsLess ==
  ASSUME NEW n \in Nat, n > 0
  PROVE  OneLess(n) = n - 1
BY DEF OneLess

LEMMA TypesPreserved ==
  ASSUME LifetimeTypeOK, [LifetimeNext]_lifetimeVars
  PROVE  LifetimeTypeOK'
<1> USE DEF LifetimeTypeOK
<1>1. \A n \in Nat : OneLess(n) \in Nat
  BY DEF OneLess
<1>2. ASSUME NEW c \in Calls, TryEnter(c)
      PROVE  LifetimeTypeOK'
  <2>1. \A n \in Nat : [activeByThread EXCEPT ![threadOf[c]] = n] \in [Threads -> Nat]
    OBVIOUS
  <2> QED
    BY <1>2, <2>1 DEF TryEnter
<1>3. ASSUME NEW c \in Calls, Leave(c)
      PROVE  LifetimeTypeOK'
  <2>1. OneLess(activeByThread[threadOf[c]]) \in Nat /\ OneLess(active) \in Nat
    BY <1>1
  <2>2. closer' \in CloserStates
    BY <1>3 DEF Leave, AfterLeave, CloserStates
  <2> QED
    BY <1>3, <2>1, <2>2 DEF Leave
<1>4. CASE Close
  BY <1>4 DEF Close, WaitResult, CloserStates
<1>5. CASE WakeUp
  BY <1>5 DEF WakeUp, WaitResult, CloserStates
<1>6. CASE SpuriousWakeUp
  BY <1>6 DEF SpuriousWakeUp, CloserStates
<1>7. CASE UNCHANGED lifetimeVars
  BY <1>7 DEF lifetimeVars
<1> QED
  BY <1>2, <1>3, <1>4, <1>5, <1>6, <1>7 DEF LifetimeNext

LEMMA EnterCounts ==
  ASSUME LifetimeInv, NEW c \in Calls, TryEnter(c)
  PROVE  CountersExact'
<1> USE DEF LifetimeInv, LifetimeTypeOK
<1>1. CASE closed
  BY <1>1 DEF TryEnter, CountersExact, InsideOf
<1>2. CASE ~closed
  <2>1. active' = Cardinality(inside')
    BY <1>2, CountEnter DEF TryEnter, CountersExact
  <2>2. \A t \in Threads : activeByThread'[t] = Cardinality(InsideOf(t)')
    <3>1. c \notin inside /\ inside' = inside \cup {c}
      BY <1>2 DEF TryEnter
    <3>2. TAKE t \in Threads
    <3>3. InsideOf(t)' = {d \in inside \cup {c} : threadOf[d] = t}
      BY <3>1 DEF InsideOf
    <3>4. Cardinality(InsideOf(t)') =
             IF t = threadOf[c] THEN Cardinality(InsideOf(t)) + 1
                                ELSE Cardinality(InsideOf(t))
      BY <3>1, <3>3, CountEnter
    <3>5. activeByThread'[t] = IF t = threadOf[c] THEN activeByThread[t] + 1
                                                  ELSE activeByThread[t]
      BY <1>2 DEF TryEnter
    <3> QED
      BY <3>4, <3>5 DEF CountersExact
  <2> QED
    BY <2>1, <2>2 DEF CountersExact
<1> QED
  BY <1>1, <1>2

LEMMA LeaveCounts ==
  ASSUME LifetimeInv, NEW c \in Calls, Leave(c)
  PROVE  CountersExact'
<1> USE DEF LifetimeInv, LifetimeTypeOK
<1>1. c \in inside
  BY DEF Leave
<1>2. active' = active - 1
  BY <1>1, CountLeave, OneLessIsLess DEF Leave, CountersExact
<1>3. activeByThread' = [activeByThread EXCEPT ![threadOf[c]] = @ - 1]
  <2>1. OneLess(activeByThread[threadOf[c]]) = activeByThread[threadOf[c]] - 1
    BY <1>1, CountLeave, OneLessIsLess DEF CountersExact
  <2> QED
    BY <2>1 DEF Leave
<1>4. active' = Cardinality(inside')
  BY <1>1, <1>2, CountLeave DEF Leave, CountersExact
<1>5. \A t \in Threads : activeByThread'[t] = Cardinality(InsideOf(t)')
  <2>1. TAKE t \in Threads
  <2>2. InsideOf(t)' = {d \in inside \ {c} : threadOf[d] = t}
    BY DEF Leave, InsideOf
  <2>3. Cardinality(InsideOf(t)') =
           IF t = threadOf[c] THEN Cardinality(InsideOf(t)) - 1
                              ELSE Cardinality(InsideOf(t))
    BY <1>1, <2>2, CountLeave
  <2>4. activeByThread'[t] = IF t = threadOf[c] THEN activeByThread[t] - 1
                                                ELSE activeByThread[t]
    BY <1>3
  <2> QED
    BY <2>3, <2>4 DEF CountersExact
<1> QED
  BY <1>4, <1>5 DEF CountersExact

LEMMA InvariantStep ==
  ASSUME LifetimeInv, [LifetimeNext]_lifetimeVars
  PROVE  LifetimeInv'
<1>1. LifetimeTypeOK'
  BY TypesPreserved DEF LifetimeInv
<1>2. ASSUME NEW c \in Calls, TryEnter(c)
      PROVE  LifetimeInv'
  <2>1. CountersExact'
    BY <1>2, EnterCounts
  <2>2. ClosedWhileWaiting' /\ NoForeignCallAfterClose' /\ NeverAsleepForNothing'
    BY <1>2 DEF LifetimeInv, TryEnter, ClosedWhileWaiting, NoForeignCallAfterClose,
                NeverAsleepForNothing
  <2> QED
    BY <1>1, <2>1, <2>2 DEF LifetimeInv
<1>3. ASSUME NEW c \in Calls, Leave(c)
      PROVE  LifetimeInv'
  <2>1. CountersExact'
    BY <1>3, LeaveCounts
  <2>2. ClosedWhileWaiting' /\ NoForeignCallAfterClose' /\ NeverAsleepForNothing'
    BY <1>3 DEF LifetimeInv, Leave, AfterLeave, ClosedWhileWaiting, NoForeignCallAfterClose,
                NeverAsleepForNothing
  <2> QED
    BY <1>1, <2>1, <2>2 DEF LifetimeInv
<1>4. ASSUME UNCHANGED <<active, activeByThread, inside, gone>>
      PROVE  CountersExact'
  BY <1>4 DEF LifetimeInv, CountersExact, InsideOf
<1>5. CASE Close \/ WakeUp
  <2>1. /\ closer' = "returned" => \A c \in inside : threadOf[c] = Owner
        /\ closer' = "asleep" => \E c \in inside : threadOf[c] # Owner
        /\ closed' /\ inside' = inside
    BY <1>5, OthersGoneMeaning DEF Close, WakeUp, WaitResult, LifetimeInv, ClosedWhileWaiting
  <2>2. CountersExact'
    BY <1>4, <1>5 DEF Close, WakeUp
  <2> QED
    BY <1>1, <2>1, <2>2 DEF LifetimeInv, ClosedWhileWaiting, NoForeignCallAfterClose,
                            NeverAsleepForNothing
<1>6. CASE SpuriousWakeUp
  BY <1>1, <1>4, <1>6 DEF SpuriousWakeUp, LifetimeInv, ClosedWhileWaiting,
                          NoForeignCallAfterClose, NeverAsleepForNothing
<1>7. CASE UNCHANGED lifetimeVars
  BY <1>1, <1>4, <1>7 DEF lifetimeVars, LifetimeInv, ClosedWhileWaiting,
                          NoForeignCallAfterClose, NeverAsleepForNothing
<1> QED
  BY <1>2, <1>3, <1>5, <1>6, <1>7 DEF LifetimeNext

LEMMA InvariantInit == LifetimeInit => LifetimeInv
<1> SUFFICES ASSUME LifetimeInit
             PROVE  LifetimeInv
  OBVIOUS
<1>1. \A t \in Threads : InsideOf(t) = {}
  BY DEF LifetimeInit, InsideOf
<1>2. CountersExact
  BY <1>1, FS_EmptySet DEF LifetimeInit, CountersExact
<1> QED
  BY <1>2 DEF LifetimeInit, LifetimeInv, LifetimeTypeOK, CloserStates, ClosedWhileWaiting,
              NoForeignCallAfterClose, NeverAsleepForNothing

\* The counters, the closed flag and the wait together: the invariant of the
\* lifetime, for any calls and threads.
THEOREM LifetimeInvariant == LifetimeSpec => []LifetimeInv
BY InvariantInit, InvariantStep, PTL DEF LifetimeSpec

\* m_active and m_activeByThread are never wrong, nested calls included.
THEOREM CountersAreExact == LifetimeSpec => []CountersExact
BY LifetimeInvariant, PTL DEF LifetimeInv

\* After closeAndWait no callback of another thread is in the object again.
THEOREM OwnerAloneAfterClose == LifetimeSpec => []NoForeignCallAfterClose
BY LifetimeInvariant, PTL DEF LifetimeInv

\* The owner sleeps only while a call is inside whose end will notify it.
THEOREM OwnerSleepsForAReason == LifetimeSpec => []NeverAsleepForNothing
BY LifetimeInvariant, PTL DEF LifetimeInv

-----------------------------------------------------------------------------
(* Refinement: every step of the counters is a step of the scope.          *)

LEMMA ScopeInit == LifetimeInit => Scope!Init
BY DEF LifetimeInit, Scope!Init

LEMMA ScopeStep ==
  ASSUME LifetimeInv, LifetimeInv', [LifetimeNext]_lifetimeVars
  PROVE  [Scope!Next]_Scope!vars
<1> USE DEF Scope!vars, Scope!Next
<1>1. ASSUME NEW c \in Calls, TryEnter(c)
      PROVE  Scope!Enter(c) \/ Scope!Refuse(c)
  BY <1>1 DEF TryEnter, Scope!Enter, Scope!Refuse
<1>2. ASSUME NEW c \in Calls, Leave(c)
      PROVE  Scope!Exit(c)
  <2>1. (closer' = "returned") = (closer = "returned")
    BY <1>2 DEF Leave, AfterLeave
  <2> QED
    BY <1>2, <2>1 DEF Leave, Scope!Exit
<1>3. CASE Close \/ WakeUp
  <2>1. closed' /\ inside' = inside /\ gone' = gone /\ closer # "returned"
    BY <1>3 DEF Close, WakeUp, LifetimeInv, ClosedWhileWaiting
  <2>2. CASE closer' = "returned"
    <3>1. \A c \in inside : threadOf[c] = Owner
      BY <2>1, <2>2 DEF LifetimeInv, NoForeignCallAfterClose
    <3> QED
      BY <2>1, <2>2, <3>1 DEF Scope!Quieten
  <2>3. CASE closer' # "returned"
    BY <2>1, <2>3 DEF Scope!Refusing
  <2> QED
    BY <2>2, <2>3
<1>4. CASE SpuriousWakeUp
  BY <1>4 DEF SpuriousWakeUp
<1>5. CASE UNCHANGED lifetimeVars
  BY <1>5 DEF lifetimeVars
<1> QED
  BY <1>1, <1>2, <1>3, <1>4, <1>5 DEF LifetimeNext

\* The lifetime implements the scope a session relies on.
THEOREM LifetimeImplementsScope == LifetimeSpec => ImplementsScope
<1>1. LifetimeInv /\ LifetimeInv' /\ [LifetimeNext]_lifetimeVars => [Scope!Next]_Scope!vars
  BY ScopeStep
<1> QED
  BY <1>1, ScopeInit, LifetimeInvariant, PTL DEF LifetimeSpec, ImplementsScope, Scope!Spec

-----------------------------------------------------------------------------
(***************************************************************************)
(* The session, for any readers, threads and number of chunks.             *)
(***************************************************************************)

HIDE CallsAssumption
USE ReadersAssumption

-----------------------------------------------------------------------------
(* A session is a lifetime.                                                *)

LEMMA StepOfLifetime ==
  ASSUME [Next]_vars
  PROVE  [LifetimeNext]_lifetimeVars
<1> USE DEF LifetimeNext
<1>1. ASSUME NEW c \in Calls, Enter(c) \/ Return(c)
      PROVE  LifetimeNext
  BY <1>1 DEF Enter, Return
<1>2. ASSUME NEW c \in Readers, ReaderStep(c) \/ SliceEnds(c) \/ DeadlinePasses(c)
      PROVE  UNCHANGED lifetimeVars
  BY <1>2 DEF ReaderStep, Admit, Register, Post, Sleep, Finish, SliceEnds, DeadlinePasses, Collect
<1>3. ASSUME \/ \E r \in outbox : SendRequest(r)
             \/ \E r \in atPeer : PeerAnswers(r)
             \/ \E a \in inbox : HandleAnswer(a)
             \/ StartShutdown
      PROVE  UNCHANGED lifetimeVars
  BY <1>3 DEF SendRequest, PeerAnswers, HandleAnswer, StartShutdown
<1>4. ASSUME WakeClipboardWaiters \/ ClearTransfers \/ Delete
      PROVE  UNCHANGED lifetimeVars
  BY <1>4 DEF WakeClipboardWaiters, ClearTransfers, Delete
<1>5. ASSUME CloseLifetime \/ CloserWakes
      PROVE  LifetimeNext
  BY <1>5 DEF CloseLifetime, CloserWakes
<1>6. CASE UNCHANGED vars
  BY <1>6 DEF vars
<1> QED
  BY <1>1, <1>2, <1>3, <1>4, <1>5, <1>6 DEF Next, OwnerShutdown, Deleted

\* Everything proved of CallbackLifetime holds in a session.
THEOREM SessionIsLifetime == Spec => LifetimeSpec
<1>1. Init => LifetimeInit
  BY DEF Init
<1> QED
  BY <1>1, StepOfLifetime, PTL DEF Spec, LifetimeSpec

-----------------------------------------------------------------------------
(* Types.                                                                  *)

LEMMA CurrentType ==
  ASSUME asked \in [Readers -> 1..MaxChunks], NEW c \in Readers
  PROVE  Current(c) \in Ids /\ <<c, asked[c]>> \in Offsets
BY DEF Current, RequestId, Ids, Offsets

LEMMA WakeReadersType ==
  ASSUME at \in [Readers -> ReaderStates], WakeReaders
  PROVE  at' \in [Readers -> ReaderStates]
BY DEF WakeReaders, ReaderStates

LEMMA CollectType ==
  ASSUME TypeOK, NEW c \in Readers, Collect(c)
  PROVE  /\ at' \in [Readers -> ReaderStates]
         /\ asked' \in [Readers -> 1..MaxChunks]
         /\ got' \in [Readers -> Seq(Offsets)]
         /\ pending' \subseteq Ids
         /\ chunk' \in [Ids -> Chunks \cup {NoChunk}]
         /\ failed' \subseteq Ids
<1> USE DEF TypeOK
<1>1. Current(c) \in Ids
  BY CurrentType
<1>2. at' \in [Readers -> ReaderStates]
  BY DEF Collect, ReaderStates
<1>3. asked' \in [Readers -> 1..MaxChunks]
  <2>1. CASE MoreToAsk(c)
    <3>1. asked[c] + 1 \in 1..MaxChunks
      BY <2>1 DEF MoreToAsk
    <3> QED
      BY <2>1, <3>1 DEF Collect
  <2>2. CASE ~MoreToAsk(c)
    BY <2>2 DEF Collect
  <2> QED
    BY <2>1, <2>2
<1>4. got' \in [Readers -> Seq(Offsets)]
  <2>1. CASE chunk[Current(c)] = NoChunk
    BY <2>1 DEF Collect
  <2>2. CASE chunk[Current(c)] # NoChunk
    <3>1. chunk[Current(c)].offset \in Offsets
      BY <1>1, <2>2 DEF Chunks
    <3>2. Append(got[c], chunk[Current(c)].offset) \in Seq(Offsets)
      BY <3>1
    <3> QED
      BY <2>2, <3>2 DEF Collect
  <2> QED
    BY <2>1, <2>2
<1>5. pending' \subseteq Ids /\ failed' \subseteq Ids
  BY DEF Collect, Withdraw
<1>6. chunk' \in [Ids -> Chunks \cup {NoChunk}]
  BY DEF Collect, Withdraw
<1> QED
  BY <1>2, <1>3, <1>4, <1>5, <1>6

LEMMA HandleAnswerType ==
  ASSUME TypeOK, NEW a \in inbox, HandleAnswer(a)
  PROVE  /\ at' \in [Readers -> ReaderStates]
         /\ chunk' \in [Ids -> Chunks \cup {NoChunk}]
         /\ failed' \subseteq Ids
         /\ inbox' \subseteq Answers
<1> USE DEF TypeOK
<1>1. a \in Answers
  OBVIOUS
<1>2. inbox' \subseteq Answers
  BY DEF HandleAnswer
<1>3. CASE ~shutdownStarted /\ Expected(a)
  <2>1. at' \in [Readers -> ReaderStates]
    BY <1>3, WakeReadersType DEF HandleAnswer
  <2>2. CASE a.part = "error"
    BY <1>1, <1>2, <1>3, <2>1, <2>2 DEF HandleAnswer, Answers
  <2>3. CASE a.part # "error"
    <3>1. [offset |-> a.offset, part |-> a.part] \in Chunks
      BY <1>1, <2>3 DEF Answers, Chunks, Parts
    <3>2. chunk' \in [Ids -> Chunks \cup {NoChunk}]
      BY <1>3, <2>3, <3>1 DEF HandleAnswer
    <3> QED
      BY <1>2, <1>3, <2>1, <2>3, <3>2 DEF HandleAnswer
  <2> QED
    BY <2>2, <2>3
<1>4. CASE ~(~shutdownStarted /\ Expected(a))
  BY <1>2, <1>4 DEF HandleAnswer
<1> QED
  BY <1>3, <1>4

LEMMA TeardownTypesStep ==
  ASSUME TypeOK, [Next]_vars
  PROVE  TypeOK'
<1>1. LifetimeTypeOK'
  BY StepOfLifetime, TypesPreserved DEF TypeOK
<1> USE DEF TypeOK
<1>2. \A s \in ReaderStates : \A c \in Readers : [at EXCEPT ![c] = s] \in [Readers -> ReaderStates]
  OBVIOUS
<1>3. /\ {"entered", "asking", "posting", "checking", "asleep", "leaving", "out"} \subseteq ReaderStates
      /\ {"stopping", "woken", "closing", "cleared", "deleted"} \subseteq OwnerStates
  BY DEF ReaderStates, OwnerStates
<1>4. ASSUME NEW c \in Calls, Enter(c) \/ Return(c)
      PROVE  TypeOK'
  <2>1. at' \in [Readers -> ReaderStates]
    <3>1. \/ at' = at
          \/ c \in Readers /\ at' = [at EXCEPT ![c] = "entered"]
          \/ c \in Readers /\ at' = [at EXCEPT ![c] = "out"]
      BY <1>4, Zenon DEF Enter, Return
    <3>2. QED
      BY <1>2, <1>3, <3>1, Zenon
  <2> QED
    BY <1>1, <1>4, <2>1 DEF Enter, Return, transfer, wire
<1>5. ASSUME NEW c \in Readers, Admit(c) \/ Sleep(c) \/ SliceEnds(c)
      PROVE  TypeOK'
  <2>1. at' \in [Readers -> ReaderStates]
    BY <1>2, <1>3, <1>5 DEF Admit, Sleep, SliceEnds
  <2> QED
    BY <1>1, <1>5, <2>1 DEF Admit, Sleep, SliceEnds, transfer, wire
<1>6. ASSUME NEW c \in Readers, Register(c) \/ Post(c)
      PROVE  TypeOK'
  <2>1. at' \in [Readers -> ReaderStates]
    BY <1>2, <1>3, <1>6 DEF Register, Post
  <2>2. pending' \subseteq Ids
    <3>1. Current(c) \in Ids
      BY CurrentType
    <3>2. CASE Register(c)
      BY <3>1, <3>2 DEF Register
    <3>3. CASE Post(c)
      BY <3>3 DEF Post
    <3> QED
      BY <1>6, <3>2, <3>3
  <2>3. outbox' \subseteq Requests
    BY <1>6, CurrentType DEF Register, Post, Requests, wire
  <2> QED
    BY <1>1, <1>6, <2>1, <2>2, <2>3 DEF Register, Post, wire
<1>7. ASSUME NEW c \in Readers, Collect(c)
      PROVE  TypeOK'
  BY <1>1, <1>7, CollectType DEF Collect, wire
<1>8. ASSUME NEW r \in outbox, SendRequest(r)
      PROVE  TypeOK'
  BY <1>1, <1>8 DEF SendRequest, readerVars, transfer
<1>9. ASSUME NEW r \in atPeer, PeerAnswers(r)
      PROVE  TypeOK'
  <2>1. \A p \in Parts : [id |-> r.id, offset |-> r.offset, part |-> p] \in Answers
    BY DEF Requests, Answers
  <2>2. inbox' \subseteq Answers /\ atPeer' \subseteq Requests
    BY <1>9, <2>1 DEF PeerAnswers
  <2> QED
    BY <1>1, <1>9, <2>2 DEF PeerAnswers, readerVars, transfer
<1>10. ASSUME NEW a \in inbox, HandleAnswer(a)
       PROVE  TypeOK'
  BY <1>1, <1>10, HandleAnswerType DEF HandleAnswer
<1>11. CASE StartShutdown \/ CloseLifetime \/ CloserWakes
  BY <1>1, <1>3, <1>11 DEF StartShutdown, CloseLifetime, CloserWakes, readerVars, transfer, wire
<1>12. CASE WakeClipboardWaiters \/ ClearTransfers
  <2>1. at' \in [Readers -> ReaderStates]
    BY <1>12, WakeReadersType DEF WakeClipboardWaiters, ClearTransfers
  <2> QED
    BY <1>1, <1>3, <1>12, <2>1 DEF WakeClipboardWaiters, ClearTransfers, wire
<1>13. CASE Delete
  BY <1>1, <1>3, <1>13 DEF Delete, readerVars, transfer
<1>14. CASE UNCHANGED vars
  BY <1>1, <1>14 DEF vars, readerVars, transfer, wire
<1> QED
  BY <1>4, <1>5, <1>6, <1>7, <1>8, <1>9, <1>10, <1>11, <1>12, <1>13, <1>14
  DEF Next, ReaderStep, Finish, DeadlinePasses, OwnerShutdown, Deleted

LEMMA TeardownTypesInit == Init => TypeOK
<1> SUFFICES ASSUME Init
             PROVE  TypeOK
  OBVIOUS
<1>1. LifetimeTypeOK
  BY InvariantInit DEF Init, LifetimeInv
<1>2. at \in [Readers -> ReaderStates] /\ ownerAt \in OwnerStates
  BY DEF Init, ReaderStates, OwnerStates
<1>3. asked \in [Readers -> 1..MaxChunks] /\ got \in [Readers -> Seq(Offsets)]
  BY DEF Init
<1>4. chunk \in [Ids -> Chunks \cup {NoChunk}]
  BY DEF Init
<1> QED
  BY <1>1, <1>2, <1>3, <1>4 DEF Init, TypeOK

\* Type correctness of a session's teardown.
THEOREM TeardownTypes == Spec => []TypeOK
BY TeardownTypesInit, TeardownTypesStep, PTL DEF Spec

-----------------------------------------------------------------------------
(* Where the owner is, where closeAndWait is, and where the readers are.   *)

OwnerProgress ==
    /\ ownerAt = "running" <=> ~shutdownStarted
    /\ ownerAt \in {"running", "stopping", "woken"} <=> closer = "away"
    /\ ownerAt \in {"cleared", "deleted"} => closer = "returned"

ReadersInside == \A c \in Readers : c \in inside <=> at[c] # "out"

ShutdownInv ==
    /\ TypeOK
    /\ LifetimeInv
    /\ OwnerProgress
    /\ ReadersInside
    /\ NobodyOversleeps
    /\ DeletedUnseen

\* While a lifetime step leaves the owner where it is, these stay.
LEMMA OwnerFrame ==
  ASSUME ShutdownInv, LifetimeInv', UNCHANGED <<shutdownStarted, ownerAt, lifetimeVars>>
  PROVE  OwnerProgress' /\ DeletedUnseen'
BY DEF ShutdownInv, OwnerProgress, DeletedUnseen, InsideOf, lifetimeVars

LEMMA ShutdownEnterReturn ==
  ASSUME ShutdownInv, LifetimeInv', NEW c \in Calls, Enter(c) \/ Return(c)
  PROVE  OwnerProgress' /\ ReadersInside' /\ NobodyOversleeps' /\ DeletedUnseen'
<1> USE DEF ShutdownInv, TypeOK
<1>1. /\ UNCHANGED <<shutdownStarted, ownerAt>>
      /\ inside' \subseteq inside \cup {c}
      /\ closed => inside' \subseteq inside
  BY DEF Enter, Return, TryEnter, Leave
<1>2. closer = "away" <=> closer' = "away"
  BY DEF Enter, Return, TryEnter, Leave, AfterLeave
<1>3. closer = "returned" => closer' = "returned"
  BY DEF Enter, Return, TryEnter, Leave, AfterLeave
<1>4. OwnerProgress'
  BY <1>1, <1>2, <1>3 DEF OwnerProgress
<1>5. ReadersInside'
  <2>1. CASE Enter(c)
    <3>1. \A r \in Readers \ {c} : at'[r] = at[r] /\ (r \in inside' <=> r \in inside)
      BY <2>1 DEF Enter, TryEnter
    <3>2. c \in Readers => (c \in inside' <=> at'[c] # "out")
      BY <2>1 DEF Enter, TryEnter, ReadersInside
    <3> QED
      BY <3>1, <3>2 DEF ReadersInside
  <2>2. CASE Return(c)
    <3>1. \A r \in Readers \ {c} : at'[r] = at[r] /\ (r \in inside' <=> r \in inside)
      BY <2>2 DEF Return, Leave
    <3>2. c \in Readers => (c \notin inside' /\ at'[c] = "out")
      BY <2>2 DEF Return, Leave
    <3> QED
      BY <3>1, <3>2 DEF ReadersInside
  <2> QED
    BY <2>1, <2>2
<1>6. NobodyOversleeps'
  <2>1. \A r \in Readers : at'[r] = "asleep" => at[r] = "asleep"
    BY DEF Enter, Return
  <2> QED
    BY <1>1, <2>1 DEF NobodyOversleeps
<1>7. DeletedUnseen'
  <2>1. ownerAt = "cleared" => \A d \in inside' : threadOf[d] = Owner
    BY <1>3 DEF LifetimeInv, NoForeignCallAfterClose, OwnerProgress
  <2>2. ownerAt = "deleted" => inside' = {}
    BY <1>1 DEF LifetimeInv, ClosedWhileWaiting, OwnerProgress, DeletedUnseen
  <2> QED
    BY <1>1, <2>1, <2>2 DEF DeletedUnseen, InsideOf
<1> QED
  BY <1>4, <1>5, <1>6, <1>7

LEMMA ShutdownReaderStep ==
  ASSUME ShutdownInv, LifetimeInv', NEW c \in Readers,
         ReaderStep(c) \/ SliceEnds(c) \/ DeadlinePasses(c)
  PROVE  OwnerProgress' /\ ReadersInside' /\ NobodyOversleeps' /\ DeletedUnseen'
<1> USE DEF ReaderStep, Admit, Register, Post, Sleep, Finish, SliceEnds, DeadlinePasses, Collect
<1>1. UNCHANGED <<shutdownStarted, ownerAt, lifetimeVars>>
  OBVIOUS
<1>2. OwnerProgress' /\ DeletedUnseen'
  BY <1>1, OwnerFrame
<1>3. \E s \in ReaderStates \ {"out"} : at' = [at EXCEPT ![c] = s] /\ at[c] # "out"
  BY DEF ReaderStates
<1>4. ReadersInside'
  BY <1>1, <1>3 DEF ReadersInside, lifetimeVars, ShutdownInv, TypeOK
<1>5. at'[c] = "asleep" => ownerAt = "running"
  BY DEF MustWait, ShutdownInv, OwnerProgress, TypeOK, MoreToAsk
<1>6. NobodyOversleeps'
  BY <1>1, <1>3, <1>5 DEF NobodyOversleeps, ShutdownInv, TypeOK
<1> QED
  BY <1>2, <1>4, <1>6

LEMMA ShutdownEventStep ==
  ASSUME ShutdownInv, LifetimeInv',
         \/ \E r \in outbox : SendRequest(r)
         \/ \E r \in atPeer : PeerAnswers(r)
         \/ \E a \in inbox : HandleAnswer(a)
  PROVE  OwnerProgress' /\ ReadersInside' /\ NobodyOversleeps' /\ DeletedUnseen'
<1>1. UNCHANGED <<shutdownStarted, ownerAt, lifetimeVars>> /\ (UNCHANGED at \/ WakeReaders)
  BY DEF SendRequest, PeerAnswers, HandleAnswer, readerVars
<1>2. OwnerProgress' /\ DeletedUnseen'
  BY <1>1, OwnerFrame
<1>3. \A r \in Readers : (at'[r] = "out" <=> at[r] = "out") /\ (at'[r] = "asleep" => at[r] = "asleep")
  <2>1. CASE UNCHANGED at
    BY <2>1
  <2>2. CASE WakeReaders
    BY <2>2 DEF WakeReaders
  <2> QED
    BY <1>1, <2>1, <2>2
<1>4. ReadersInside' /\ NobodyOversleeps'
  <2>1. inside' = inside /\ ownerAt' = ownerAt
    BY <1>1 DEF lifetimeVars
  <2> QED
    BY <1>3, <2>1 DEF ShutdownInv, ReadersInside, NobodyOversleeps
<1> QED
  BY <1>2, <1>4

LEMMA ShutdownOwnerStep ==
  ASSUME ShutdownInv, LifetimeInv', StartShutdown \/ OwnerShutdown \/ CloserWakes
  PROVE  OwnerProgress' /\ ReadersInside' /\ NobodyOversleeps' /\ DeletedUnseen'
<1> USE DEF ShutdownInv
<1>1. CASE StartShutdown
  BY <1>1 DEF StartShutdown, OwnerProgress, ReadersInside, NobodyOversleeps, DeletedUnseen,
              lifetimeVars, readerVars
<1>2. CASE WakeClipboardWaiters
  <2>1. \A r \in Readers : at'[r] # "asleep" /\ (at'[r] = "out" <=> at[r] = "out")
    BY <1>2 DEF WakeClipboardWaiters, WakeReaders
  <2> QED
    BY <1>2, <2>1 DEF WakeClipboardWaiters, OwnerProgress, ReadersInside, NobodyOversleeps,
                      DeletedUnseen, lifetimeVars
<1>3. CASE CloseLifetime
  BY <1>3 DEF CloseLifetime, Close, WaitResult, OwnerProgress, ReadersInside, NobodyOversleeps,
              DeletedUnseen, readerVars
<1>4. CASE ClearTransfers
  <2>1. \A r \in Readers : at'[r] # "asleep" /\ (at'[r] = "out" <=> at[r] = "out")
    BY <1>4 DEF ClearTransfers, WakeReaders
  <2>2. inside' = InsideOf(Owner)'
    BY <1>4 DEF ClearTransfers, lifetimeVars, InsideOf, LifetimeInv, NoForeignCallAfterClose
  <2> QED
    BY <1>4, <2>1, <2>2 DEF ClearTransfers, OwnerProgress, ReadersInside, NobodyOversleeps,
                            DeletedUnseen, lifetimeVars
<1>5. CASE Delete
  BY <1>5 DEF Delete, OwnerProgress, ReadersInside, NobodyOversleeps, DeletedUnseen,
              lifetimeVars, readerVars
<1>6. CASE CloserWakes
  <2>1. /\ UNCHANGED <<shutdownStarted, ownerAt, at, inside>>
        /\ closer \in {"asleep", "notified"} /\ closer' # "away"
    BY <1>6 DEF CloserWakes, WakeUp, SpuriousWakeUp, WaitResult, readerVars
  <2> QED
    BY <2>1 DEF OwnerProgress, ReadersInside, NobodyOversleeps, DeletedUnseen
<1> QED
  BY <1>1, <1>2, <1>3, <1>4, <1>5, <1>6 DEF OwnerShutdown

LEMMA ShutdownInvStep ==
  ASSUME ShutdownInv, [Next]_vars
  PROVE  ShutdownInv'
<1>1. TypeOK' /\ LifetimeInv'
  BY TeardownTypesStep, StepOfLifetime, InvariantStep DEF ShutdownInv
<1>2. CASE UNCHANGED vars
  BY <1>1, <1>2 DEF vars, lifetimeVars, readerVars, ShutdownInv, OwnerProgress, ReadersInside,
                    NobodyOversleeps, DeletedUnseen, InsideOf
<1>3. CASE Next
  <2>1. OwnerProgress' /\ ReadersInside' /\ NobodyOversleeps' /\ DeletedUnseen'
    BY <1>1, <1>2, <1>3, ShutdownEnterReturn, ShutdownReaderStep, ShutdownEventStep,
       ShutdownOwnerStep
    DEF Next, Deleted, ShutdownInv
  <2> QED
    BY <1>1, <2>1 DEF ShutdownInv
<1> QED
  BY <1>2, <1>3

LEMMA ShutdownInvInit == Init => ShutdownInv
<1> SUFFICES ASSUME Init
             PROVE  ShutdownInv
  OBVIOUS
<1>1. TypeOK /\ LifetimeInv
  BY TeardownTypesInit, InvariantInit DEF Init
<1> QED
  BY <1>1 DEF Init, LifetimeInit, ShutdownInv, OwnerProgress, ReadersInside, NobodyOversleeps,
              DeletedUnseen

THEOREM ShutdownInvariant == Spec => []ShutdownInv
BY ShutdownInvInit, ShutdownInvStep, PTL DEF Spec

\* No wake-up of the shutdown is lost on a reader, whatever it was doing.
THEOREM ReadersAreWoken == Spec => []NobodyOversleeps
BY ShutdownInvariant, PTL DEF ShutdownInv

\* The members go, and then the object, with no callback in it.
THEOREM DeletionIsUnseen == Spec => []DeletedUnseen
BY ShutdownInvariant, PTL DEF ShutdownInv

\* The whole teardown happens in its order, for any readers on any threads.
THEOREM TeardownIsSound == Spec => []TeardownSound
<1>1. NobodyOversleeps /\ DeletedUnseen => TeardownSound
  BY DEF TeardownSound
<1> QED
  BY <1>1, ReadersAreWoken, DeletionIsUnseen, PTL

-----------------------------------------------------------------------------
(* Requests and their readers.  Ids are never reused: the id of a request  *)
(* that was not issued yet occurs nowhere.                                 *)

Waiting(c) == at[c] \in {"posting", "checking", "asleep"}

Issued(c, k) ==
    \/ k < asked[c]
    \/ k = asked[c] /\ at[c] \in {"checking", "asleep", "leaving"}
    \/ k = asked[c] /\ at[c] = "out" /\ c \in gone

Travelling == outbox \cup atPeer \cup inbox

UnissuedUnseen ==
    \A c \in Readers : \A k \in 1..MaxChunks :
        ~Issued(c, k) =>
            /\ \A x \in Travelling : x.id # <<c, k>>
            /\ chunk[<<c, k>>] = NoChunk
            /\ ~shutdownStarted => <<c, k>> \notin failed

ClaimInv == ShutdownInv /\ UnissuedUnseen /\ NothingUnclaimed

LEMMA CurrentUnique ==
  ASSUME TypeOK
  PROVE  \A c, r \in Readers : Current(c) = Current(r) => c = r
BY DEF Current, RequestId

LEMMA WaitedSame ==
  ASSUME asked' = asked, \A r \in Readers : Waiting(r)' <=> Waiting(r)
  PROVE  Waited' = Waited
BY DEF Waited, Waiting, Current, RequestId

LEMMA IssuedGrows ==
  ASSUME ShutdownInv, [Next]_vars, NEW c \in Readers, NEW k \in 1..MaxChunks, Issued(c, k)
  PROVE  Issued(c, k)'
<1> USE DEF ShutdownInv, TypeOK, Issued
<1>1. ASSUME NEW d \in Calls, Enter(d) \/ Return(d)
      PROVE  Issued(c, k)'
  <2>1. asked' = asked
    BY <1>1 DEF Enter, Return
  <2>2. CASE Enter(d)
    <3>1. d \notin inside \cup gone /\ gone \subseteq gone'
      BY <2>2 DEF Enter, TryEnter
    <3>2. \A r \in Readers \ {d} : at'[r] = at[r]
      BY <2>2 DEF Enter
    <3>3. CASE c # d
      BY <2>1, <3>1, <3>2, <3>3
    <3>4. CASE c = d
      <4>1. at[c] = "out" /\ c \notin gone
        BY <3>1, <3>4 DEF ReadersInside
      <4> QED
        BY <2>1, <4>1
    <3> QED
      BY <3>3, <3>4
  <2>3. CASE Return(d)
    BY <2>1, <2>3 DEF Return, Leave
  <2> QED
    BY <1>1, <2>2, <2>3
<1>2. ASSUME NEW d \in Readers, ReaderStep(d) \/ SliceEnds(d)
      PROVE  Issued(c, k)'
  <2>1. CASE Finish(d)
    BY <2>1 DEF Finish, Collect, lifetimeVars
  <2>2. CASE ~Finish(d)
    BY <1>2, <2>2 DEF ReaderStep, SliceEnds, Admit, Register, Post, Sleep, lifetimeVars
  <2> QED
    BY <2>1, <2>2
<1>3. ASSUME NEW d \in Readers, DeadlinePasses(d)
      PROVE  Issued(c, k)'
  BY <1>3 DEF DeadlinePasses, Collect, lifetimeVars
<1>4. ASSUME \/ UNCHANGED <<at, asked, gone>>
             \/ WakeReaders /\ UNCHANGED <<asked, gone>>
      PROVE  Issued(c, k)'
  BY <1>4 DEF WakeReaders
<1>5. ASSUME \/ \E r \in outbox : SendRequest(r)
             \/ \E r \in atPeer : PeerAnswers(r)
             \/ StartShutdown \/ CloseLifetime \/ Delete \/ CloserWakes
             \/ UNCHANGED vars
      PROVE  UNCHANGED <<at, asked, gone>>
  BY <1>5 DEF SendRequest, PeerAnswers, StartShutdown, CloseLifetime, Close, Delete, CloserWakes,
              WakeUp, SpuriousWakeUp, readerVars, lifetimeVars, vars
<1>6. ASSUME \/ \E a \in inbox : HandleAnswer(a)
             \/ WakeClipboardWaiters \/ ClearTransfers
      PROVE  (UNCHANGED at \/ WakeReaders) /\ UNCHANGED <<asked, gone>>
  BY <1>6 DEF HandleAnswer, WakeClipboardWaiters, ClearTransfers, lifetimeVars
<1> QED
  BY <1>1, <1>2, <1>3, <1>4, <1>5, <1>6 DEF Next, OwnerShutdown, Deleted

LEMMA UnissuedStep ==
  ASSUME ClaimInv, [Next]_vars
  PROVE  UnissuedUnseen'
<1> SUFFICES ASSUME NEW c \in Readers, NEW k \in 1..MaxChunks, ~Issued(c, k)'
             PROVE  /\ \A x \in Travelling' : x.id # <<c, k>>
                    /\ chunk'[<<c, k>>] = NoChunk
                    /\ ~shutdownStarted' => <<c, k>> \notin failed'
  BY DEF UnissuedUnseen
<1> DEFINE id == <<c, k>>
<1> USE DEF ClaimInv, ShutdownInv, TypeOK, Travelling
<1>1. ~Issued(c, k)
  BY IssuedGrows
<1>2. /\ \A x \in Travelling : x.id # id
      /\ chunk[id] = NoChunk
      /\ ~shutdownStarted => id \notin failed
      /\ id \in Ids
  BY <1>1 DEF UnissuedUnseen, Ids, Offsets
<1> HIDE DEF id
<1>3. ASSUME UNCHANGED <<outbox, atPeer, inbox, chunk>>, failed' \subseteq failed,
             shutdownStarted => shutdownStarted'
      PROVE  /\ \A x \in Travelling' : x.id # id
             /\ chunk'[id] = NoChunk
             /\ ~shutdownStarted' => id \notin failed'
  BY <1>2, <1>3
<1>4. ASSUME NEW d \in Calls, Enter(d) \/ Return(d)
      PROVE  UNCHANGED <<outbox, atPeer, inbox, chunk, failed, shutdownStarted>>
  BY <1>4 DEF Enter, Return, wire, transfer
<1>5. ASSUME NEW d \in Readers, Admit(d) \/ Register(d) \/ Sleep(d) \/ SliceEnds(d)
      PROVE  UNCHANGED <<outbox, atPeer, inbox, chunk, failed, shutdownStarted>>
  BY <1>5 DEF Admit, Register, Sleep, SliceEnds, wire, transfer
<1>6. ASSUME NEW d \in Readers, Post(d)
      PROVE  /\ \A x \in Travelling' : x.id # id
             /\ chunk'[id] = NoChunk
             /\ ~shutdownStarted' => id \notin failed'
  <2>1. UNCHANGED <<atPeer, inbox, chunk, failed, shutdownStarted>>
    BY <1>6 DEF Post
  <2>2. CASE outbox' = outbox
    BY <1>3, <2>1, <2>2
  <2>3. CASE outbox' # outbox
    <3>1. /\ outbox' = outbox \cup {[id |-> Current(d), offset |-> <<d, asked[d]>>]}
          /\ at' = [at EXCEPT ![d] = "checking"]
          /\ asked' = asked
      BY <1>6, <2>3 DEF Post
    <3>2. c = d => k # asked[d]
      BY <3>1 DEF Issued
    <3>3. Current(d) # id
      BY <3>2 DEF Current, RequestId, id
    <3> QED
      BY <1>2, <2>1, <3>1, <3>3
  <2> QED
    BY <2>2, <2>3
<1>7. ASSUME NEW d \in Readers, Collect(d)
      PROVE  /\ \A x \in Travelling' : x.id # id
             /\ chunk'[id] = NoChunk
             /\ ~shutdownStarted' => id \notin failed'
  BY <1>2, <1>7 DEF Collect, Withdraw, wire
<1>8. ASSUME NEW r \in outbox, SendRequest(r)
      PROVE  /\ \A x \in Travelling' : x.id # id
             /\ chunk'[id] = NoChunk
             /\ ~shutdownStarted' => id \notin failed'
  <2>1. Travelling' \subseteq Travelling /\ UNCHANGED <<chunk, failed, shutdownStarted>>
    BY <1>8 DEF SendRequest, transfer
  <2> QED
    BY <1>2, <2>1
<1>9. ASSUME NEW r \in atPeer, PeerAnswers(r)
      PROVE  /\ \A x \in Travelling' : x.id # id
             /\ chunk'[id] = NoChunk
             /\ ~shutdownStarted' => id \notin failed'
  <2>1. UNCHANGED <<chunk, failed, shutdownStarted, outbox>> /\ atPeer' \subseteq atPeer
    BY <1>9 DEF PeerAnswers, transfer
  <2>2. PICK p \in Parts : inbox' = inbox \cup {[id |-> r.id, offset |-> r.offset, part |-> p]}
    BY <1>9 DEF PeerAnswers
  <2>3. r.id # id
    BY <1>2
  <2> QED
    BY <1>2, <2>1, <2>2, <2>3
<1>10. ASSUME NEW a \in inbox, HandleAnswer(a)
       PROVE  /\ \A x \in Travelling' : x.id # id
              /\ chunk'[id] = NoChunk
              /\ ~shutdownStarted' => id \notin failed'
  <2>1. a.id # id
    BY <1>2
  <2>2. Travelling' \subseteq Travelling /\ shutdownStarted' = shutdownStarted
    BY <1>10 DEF HandleAnswer
  <2>3. CASE ~shutdownStarted /\ Expected(a)
    <3>1. chunk'[id] = chunk[id]
      BY <1>2, <1>10, <2>1, <2>3 DEF HandleAnswer
    <3>2. id \in failed' => id \in failed
      BY <1>10, <2>1, <2>3 DEF HandleAnswer
    <3> QED
      BY <1>2, <2>2, <3>1, <3>2
  <2>4. CASE ~(~shutdownStarted /\ Expected(a))
    <3>1. UNCHANGED <<chunk, failed>>
      BY <1>10, <2>4 DEF HandleAnswer
    <3> QED
      BY <1>2, <2>2, <3>1
  <2> QED
    BY <2>3, <2>4
<1>11. ASSUME StartShutdown \/ CloseLifetime \/ CloserWakes
       PROVE  /\ UNCHANGED <<outbox, atPeer, inbox, chunk, failed>>
              /\ shutdownStarted => shutdownStarted'
  BY <1>11 DEF StartShutdown, CloseLifetime, CloserWakes, wire, transfer
<1>12. ASSUME WakeClipboardWaiters \/ ClearTransfers \/ Delete
       PROVE  /\ \A x \in Travelling' : x.id # id
              /\ chunk'[id] = NoChunk
              /\ ~shutdownStarted' => id \notin failed'
  <2>1. shutdownStarted'
    BY <1>12 DEF WakeClipboardWaiters, ClearTransfers, Delete, OwnerProgress
  <2>2. Travelling' \subseteq Travelling
    BY <1>12 DEF WakeClipboardWaiters, ClearTransfers, Delete, wire
  <2>3. chunk'[id] = NoChunk
    BY <1>2, <1>12 DEF WakeClipboardWaiters, ClearTransfers, Delete, transfer
  <2> QED
    BY <1>2, <2>1, <2>2, <2>3
<1>13. ASSUME UNCHANGED vars
       PROVE  UNCHANGED <<outbox, atPeer, inbox, chunk, failed, shutdownStarted>>
  BY <1>13 DEF vars, wire, transfer
<1>14. /\ \A x \in Travelling' : x.id # id
       /\ chunk'[id] = NoChunk
       /\ ~shutdownStarted' => id \notin failed'
  BY <1>3, <1>4, <1>5, <1>6, <1>7, <1>8, <1>9, <1>10, <1>11, <1>12, <1>13
  DEF Next, ReaderStep, Finish, DeadlinePasses, OwnerShutdown, Deleted
<1> QED
  BY <1>14 DEF id

\* A step that moves neither the maps nor a reader into or out of its wait.
LEMMA ClaimFrame ==
  ASSUME ClaimInv, UNCHANGED <<pending, chunk, asked>>,
         \A r \in Readers : Waiting(r)' <=> Waiting(r),
         shutdownStarted => shutdownStarted',
         failed' \subseteq failed \/ shutdownStarted'
  PROVE  NothingUnclaimed'
<1>1. Waited' = Waited
  BY WaitedSame
<1> QED
  BY <1>1 DEF ClaimInv, NothingUnclaimed

LEMMA ClaimRegister ==
  ASSUME ClaimInv, NEW c \in Readers, Register(c)
  PROVE  NothingUnclaimed'
<1> USE DEF ClaimInv, ShutdownInv, TypeOK
<1>1. Waited' = Waited \cup {Current(c)}
  BY DEF Register, Waited, Current, RequestId
<1> QED
  BY <1>1 DEF Register, NothingUnclaimed

\* Withdrawing the request of a reader that stops waiting, with the answer.
LEMMA ClaimLeaveWait ==
  ASSUME ClaimInv, NEW c \in Readers, Waiting(c),
         \A r \in Readers \ {c} : at'[r] = at[r] /\ asked'[r] = asked[r],
         ~Waiting(c)',
         pending' = pending \ {Current(c)},
         chunk' \in {chunk, [chunk EXCEPT ![Current(c)] = NoChunk]},
         failed' \in {failed, failed \ {Current(c)}},
         chunk'[Current(c)] = NoChunk,
         ~shutdownStarted => Current(c) \notin failed',
         shutdownStarted' = shutdownStarted
  PROVE  NothingUnclaimed'
<1> USE DEF ClaimInv, ShutdownInv, TypeOK
<1>1. Waited' = Waited \ {Current(c)}
  <2>1. Waited' = {Current(r) : r \in {q \in Readers \ {c} : Waiting(q)}}
    BY DEF Waited, Waiting, Current, RequestId
  <2>2. \A r \in Readers \ {c} : Current(r) # Current(c)
    BY CurrentUnique
  <2>3. Waited = {Current(r) : r \in {q \in Readers : Waiting(q)}}
    BY DEF Waited, Waiting
  <2>4. Waited \ {Current(c)} = {Current(r) : r \in {q \in Readers \ {c} : Waiting(q)}}
    BY <2>2, <2>3
  <2> QED
    BY <2>1, <2>4
<1>2. {i \in Ids : chunk'[i] # NoChunk} \subseteq pending'
  BY DEF NothingUnclaimed
<1>3. ~shutdownStarted' => failed' \subseteq pending'
  BY DEF NothingUnclaimed
<1> QED
  BY <1>1, <1>2, <1>3 DEF NothingUnclaimed

LEMMA ClaimPost ==
  ASSUME ClaimInv, NEW c \in Readers, Post(c)
  PROVE  NothingUnclaimed'
<1> USE DEF ClaimInv, ShutdownInv, TypeOK
<1>1. CASE at' = [at EXCEPT ![c] = "checking"] /\ UNCHANGED pending
  <2>1. \A r \in Readers : Waiting(r)' <=> Waiting(r)
    BY <1>1 DEF Post, Waiting
  <2> QED
    BY <1>1, <2>1, ClaimFrame DEF Post
<1>2. CASE at' = [at EXCEPT ![c] = "leaving"] /\ pending' = pending \ {Current(c)}
  <2>1. Waiting(c) /\ ~Waiting(c)'
    BY <1>2 DEF Post, Waiting
  <2>2. ~Issued(c, asked[c]) /\ asked[c] \in 1..MaxChunks
    BY DEF Post, Issued
  <2>3. chunk[Current(c)] = NoChunk /\ (~shutdownStarted => Current(c) \notin failed)
    BY <2>2 DEF UnissuedUnseen, Current, RequestId
  <2>4. UNCHANGED <<chunk, failed, asked, shutdownStarted>>
    BY DEF Post
  <2>5. \A r \in Readers \ {c} : at'[r] = at[r]
    BY <1>2
  <2> QED
    BY <1>2, <2>1, <2>3, <2>4, <2>5, ClaimLeaveWait
<1> QED
  BY <1>1, <1>2 DEF Post

LEMMA ClaimCollect ==
  ASSUME ClaimInv, NEW c \in Readers, at[c] = "checking", Collect(c)
  PROVE  NothingUnclaimed'
<1> USE DEF ClaimInv, ShutdownInv, TypeOK
<1>1. Waiting(c)
  BY DEF Waiting
<1>2. ~Waiting(c)' /\ \A r \in Readers \ {c} : at'[r] = at[r] /\ asked'[r] = asked[r]
  BY DEF Collect, Waiting
<1>3. /\ pending' = pending \ {Current(c)}
      /\ chunk' = [chunk EXCEPT ![Current(c)] = NoChunk]
      /\ failed' = failed \ {Current(c)}
      /\ shutdownStarted' = shutdownStarted
  BY DEF Collect, Withdraw
<1>4. chunk'[Current(c)] = NoChunk
  BY <1>3, CurrentType
<1> QED
  BY <1>1, <1>2, <1>3, <1>4, ClaimLeaveWait

LEMMA ClaimAnswer ==
  ASSUME ClaimInv, NEW a \in inbox, HandleAnswer(a)
  PROVE  NothingUnclaimed'
<1> USE DEF ClaimInv, ShutdownInv, TypeOK
<1>1. UNCHANGED <<asked, pending, shutdownStarted>>
  BY DEF HandleAnswer
<1>2. CASE ~shutdownStarted /\ Expected(a)
  <2>1. \A r \in Readers : Waiting(r)' <=> Waiting(r)
    BY <1>2 DEF HandleAnswer, WakeReaders, Waiting
  <2>2. Waited' = Waited
    BY <1>1, <2>1, WaitedSame
  <2>3. a.id \in pending
    BY <1>2 DEF Expected
  <2>4. failed' \subseteq failed \cup {a.id}
    BY <1>2 DEF HandleAnswer
  <2>5. \A i \in Ids : chunk'[i] # NoChunk => chunk[i] # NoChunk \/ i = a.id
    BY <1>2 DEF HandleAnswer
  <2> QED
    BY <1>1, <2>2, <2>3, <2>4, <2>5 DEF NothingUnclaimed
<1>3. CASE ~(~shutdownStarted /\ Expected(a))
  <2>1. UNCHANGED <<chunk, failed, at>>
    BY <1>3 DEF HandleAnswer
  <2>2. \A r \in Readers : Waiting(r)' <=> Waiting(r)
    BY <2>1 DEF Waiting
  <2> QED
    BY <1>1, <2>1, <2>2, ClaimFrame
<1> QED
  BY <1>2, <1>3

\* When closeAndWait has returned, every reader has left.
LEMMA ClaimClear ==
  ASSUME ClaimInv, ClearTransfers
  PROVE  NothingUnclaimed'
<1> USE DEF ClaimInv, ShutdownInv
<1>1. \A r \in Readers : at[r] = "out"
  BY DEF ClearTransfers, LifetimeInv, NoForeignCallAfterClose, ReadersInside
<1>2. \A r \in Readers : at'[r] = "out"
  BY <1>1 DEF ClearTransfers, WakeReaders
<1>3. Waited' = {}
  BY <1>2 DEF Waited
<1>4. shutdownStarted'
  BY DEF ClearTransfers, OwnerProgress
<1> QED
  BY <1>3, <1>4 DEF ClearTransfers, NothingUnclaimed

LEMMA ClaimStep ==
  ASSUME ClaimInv, [Next]_vars
  PROVE  NothingUnclaimed'
<1> USE DEF ClaimInv, ShutdownInv, TypeOK
<1>1. ASSUME NEW c \in Calls, Enter(c) \/ Return(c)
      PROVE  NothingUnclaimed'
  <2>1. \A r \in Readers : Waiting(r)' <=> Waiting(r)
    <3>1. CASE Enter(c)
      <4>1. c \in Readers => at[c] = "out"
        BY <3>1 DEF Enter, TryEnter, ReadersInside
      <4> QED
        BY <3>1, <4>1 DEF Enter, Waiting
    <3>2. CASE Return(c)
      BY <3>2 DEF Return, Waiting
    <3> QED
      BY <1>1, <3>1, <3>2
  <2> QED
    BY <1>1, <2>1, ClaimFrame DEF Enter, Return, transfer
<1>2. ASSUME NEW c \in Readers, Admit(c) \/ Sleep(c) \/ SliceEnds(c)
      PROVE  NothingUnclaimed'
  <2>1. \A r \in Readers : Waiting(r)' <=> Waiting(r)
    BY <1>2 DEF Admit, Sleep, SliceEnds, Waiting
  <2> QED
    BY <1>2, <2>1, ClaimFrame DEF Admit, Sleep, SliceEnds, transfer
<1>3. ASSUME \/ \E r \in outbox : SendRequest(r)
             \/ \E r \in atPeer : PeerAnswers(r)
             \/ StartShutdown \/ CloseLifetime \/ Delete \/ CloserWakes
             \/ UNCHANGED vars
      PROVE  NothingUnclaimed'
  <2>1. UNCHANGED <<at, asked, pending, chunk, failed>> /\ (shutdownStarted => shutdownStarted')
    BY <1>3 DEF SendRequest, PeerAnswers, StartShutdown, CloseLifetime, Delete, CloserWakes,
                readerVars, transfer, vars
  <2>2. \A r \in Readers : Waiting(r)' <=> Waiting(r)
    BY <2>1 DEF Waiting
  <2> QED
    BY <2>1, <2>2, ClaimFrame
<1>4. CASE WakeClipboardWaiters
  <2>1. \A r \in Readers : Waiting(r)' <=> Waiting(r)
    BY <1>4 DEF WakeClipboardWaiters, WakeReaders, Waiting
  <2>2. UNCHANGED <<asked, pending, chunk, shutdownStarted>> /\ shutdownStarted
    BY <1>4 DEF WakeClipboardWaiters, OwnerProgress
  <2> QED
    BY <2>1, <2>2, ClaimFrame
<1> QED
  BY <1>1, <1>2, <1>3, <1>4, ClaimRegister, ClaimPost, ClaimCollect, ClaimAnswer, ClaimClear
  DEF Next, ReaderStep, Finish, DeadlinePasses, OwnerShutdown, Deleted

LEMMA ClaimInit == Init => ClaimInv
<1> SUFFICES ASSUME Init
             PROVE  ClaimInv
  OBVIOUS
<1>1. Waited = {}
  BY DEF Init, Waited
<1>2. NothingUnclaimed
  BY <1>1 DEF Init, NothingUnclaimed
<1>3. UnissuedUnseen
  BY DEF Init, UnissuedUnseen, Travelling, Ids, Offsets
<1> QED
  BY <1>2, <1>3, ShutdownInvInit DEF ClaimInv

THEOREM ClaimInvariant == Spec => []ClaimInv
<1>1. ClaimInv /\ [Next]_vars => ClaimInv'
  BY ShutdownInvStep, UnissuedStep, ClaimStep DEF ClaimInv
<1> QED
  BY <1>1, ClaimInit, PTL DEF Spec

\* No answer and no request is left in the maps without a reader to take it.
THEOREM NothingIsUnclaimed == Spec => []NothingUnclaimed
BY ClaimInvariant, PTL DEF ClaimInv

-----------------------------------------------------------------------------
(* A request carries its offset, an answer that of its request, and a      *)
(* reader is always one chunk behind the one it asks for.                  *)

ReadsOn(c) == at[c] \in {"entered", "asking", "posting", "checking", "asleep"}

OneChunkBehind ==
    \A c \in Readers :
        (ReadsOn(c) \/ (at[c] = "out" /\ c \notin gone)) => Len(got[c]) = asked[c] - 1

OwnOffset(i) == chunk[i] = NoChunk \/ chunk[i].offset = i

OwnAnswers ==
    /\ \A x \in Travelling : x.offset = x.id
    /\ \A i \in Ids : OwnOffset(i)

OwnInv == ShutdownInv /\ OneChunkBehind /\ OwnAnswers /\ ReadsItsOwnFile

LEMMA OwnCollect ==
  ASSUME OwnInv, NEW c \in Readers, at[c] = "checking", Collect(c)
  PROVE  OneChunkBehind' /\ OwnAnswers' /\ ReadsItsOwnFile'
<1> USE DEF OwnInv, ShutdownInv, TypeOK
<1>1. Current(c) \in Ids /\ Current(c) = <<c, asked[c]>>
  BY CurrentType DEF Current, RequestId
<1>2. OwnAnswers'
  <2>1. UNCHANGED <<outbox, atPeer, inbox>>
    BY DEF Collect, wire
  <2>2. \A i \in Ids : OwnOffset(i)'
    BY DEF Collect, Withdraw, OwnAnswers, OwnOffset
  <2> QED
    BY <2>1, <2>2 DEF OwnAnswers, Travelling
<1>3. Len(got[c]) = asked[c] - 1 /\ got[c] \in Seq(Offsets)
  BY DEF OneChunkBehind, ReadsOn
<1>4. CASE chunk[Current(c)] = NoChunk
  <2>1. got' = got /\ asked' = asked /\ at' = [at EXCEPT ![c] = "leaving"] /\ gone' = gone
    BY <1>4 DEF Collect, MoreToAsk, lifetimeVars
  <2>2. OneChunkBehind'
    BY <2>1 DEF OneChunkBehind, ReadsOn
  <2> QED
    BY <1>2, <2>1, <2>2 DEF ReadsItsOwnFile
<1>5. CASE chunk[Current(c)] # NoChunk
  <2>1. chunk[Current(c)].offset = <<c, asked[c]>>
    BY <1>1, <1>5 DEF OwnAnswers, OwnOffset
  <2>2. got' = [got EXCEPT ![c] = Append(@, <<c, asked[c]>>)] /\ gone' = gone
    BY <1>5, <2>1 DEF Collect, lifetimeVars
  <2>3. <<c, asked[c]>> \in Offsets
    BY CurrentType
  <2>4. /\ got'[c] = Append(got[c], <<c, asked[c]>>)
        /\ Len(got'[c]) = asked[c]
        /\ \A n \in 1..Len(got'[c]) : got'[c][n] = IF n < asked[c] THEN got[c][n] ELSE <<c, asked[c]>>
    BY <1>3, <2>2, <2>3
  <2>5. \A n \in 1..Len(got'[c]) : got'[c][n] = <<c, n>>
    <3>1. TAKE n \in 1..Len(got'[c])
    <3>2. n < asked[c] => n \in 1..Len(got[c])
      BY <1>3
    <3>3. n < asked[c] => got[c][n] = <<c, n>>
      BY <3>2 DEF ReadsItsOwnFile
    <3>4. n = asked[c] \/ n < asked[c]
      BY <2>4
    <3> QED
      BY <2>4, <3>3, <3>4
  <2>6. \A r \in Readers \ {c} : got'[r] = got[r] /\ at'[r] = at[r] /\ asked'[r] = asked[r]
    BY <2>2 DEF Collect
  <2>7. ReadsItsOwnFile'
    <3>1. ASSUME NEW r \in Readers, r # c, NEW n \in 1..Len(got'[r])
          PROVE  got'[r][n] = <<r, n>>
      BY <2>6, <3>1, Zenon DEF ReadsItsOwnFile
    <3>2. QED
      BY <2>5, <3>1, Zenon DEF ReadsItsOwnFile
  <2>8. (at'[c] = "asking" /\ asked'[c] = asked[c] + 1) \/ at'[c] = "leaving"
    BY DEF Collect
  <2>9. OneChunkBehind'
    BY <2>2, <2>4, <2>6, <2>8 DEF OneChunkBehind, ReadsOn
  <2> QED
    BY <1>2, <2>7, <2>9
<1> QED
  BY <1>4, <1>5

LEMMA OwnWires ==
  ASSUME OwnInv,
         \/ \E c \in Readers : Post(c)
         \/ \E r \in outbox : SendRequest(r)
         \/ \E r \in atPeer : PeerAnswers(r)
         \/ \E a \in inbox : HandleAnswer(a)
  PROVE  OwnAnswers'
<1> USE DEF OwnInv, ShutdownInv, TypeOK, Travelling
<1>1. ASSUME NEW c \in Readers, Post(c)
      PROVE  OwnAnswers'
  <2>1. UNCHANGED <<chunk, atPeer, inbox>>
    BY <1>1 DEF Post
  <2>2. \A x \in outbox' : x \in outbox \/ x.offset = x.id
    <3>1. \/ outbox' = outbox
          \/ outbox' = outbox \cup {[id |-> Current(c), offset |-> <<c, asked[c]>>]}
      BY <1>1 DEF Post
    <3>2. Current(c) = <<c, asked[c]>>
      BY DEF Current, RequestId
    <3> QED
      BY <3>1, <3>2
  <2> QED
    BY <2>1, <2>2 DEF OwnAnswers, OwnOffset
<1>2. ASSUME NEW r \in outbox, SendRequest(r)
      PROVE  OwnAnswers'
  BY <1>2 DEF SendRequest, transfer, OwnAnswers, OwnOffset
<1>3. ASSUME NEW r \in atPeer, PeerAnswers(r)
      PROVE  OwnAnswers'
  <2>1. UNCHANGED <<chunk, outbox>> /\ atPeer' \subseteq atPeer
    BY <1>3 DEF PeerAnswers, transfer
  <2>2. PICK p \in Parts : inbox' = inbox \cup {[id |-> r.id, offset |-> r.offset, part |-> p]}
    BY <1>3 DEF PeerAnswers
  <2>3. r.offset = r.id
    BY DEF OwnAnswers
  <2> QED
    BY <2>1, <2>2, <2>3 DEF OwnAnswers, OwnOffset
<1>4. ASSUME NEW a \in inbox, HandleAnswer(a)
      PROVE  OwnAnswers'
  <2>1. inbox' \subseteq inbox /\ UNCHANGED <<outbox, atPeer>> /\ a.offset = a.id
    BY <1>4 DEF HandleAnswer, OwnAnswers
  <2>2. \/ chunk' = chunk
        \/ chunk' = [chunk EXCEPT ![a.id] = [offset |-> a.offset, part |-> a.part]]
    BY <1>4 DEF HandleAnswer
  <2>3. \A i \in Ids : OwnOffset(i)'
    BY <2>1, <2>2 DEF OwnAnswers, OwnOffset
  <2> QED
    BY <2>1, <2>3 DEF OwnAnswers
<1> QED
  BY <1>1, <1>2, <1>3, <1>4

LEMMA OwnStep ==
  ASSUME OwnInv, [Next]_vars
  PROVE  OneChunkBehind' /\ OwnAnswers' /\ ReadsItsOwnFile'
<1> USE DEF OwnInv, ShutdownInv, TypeOK
<1>1. ASSUME UNCHANGED <<asked, got>>,
             \A c \in Readers : /\ ReadsOn(c)' => (ReadsOn(c) \/ (at[c] = "out" /\ c \notin gone))
                                /\ (at'[c] = "out" /\ c \notin gone') => (at[c] = "out" /\ c \notin gone)
      PROVE  OneChunkBehind' /\ ReadsItsOwnFile'
  BY <1>1 DEF OneChunkBehind, ReadsItsOwnFile
<1>2. ASSUME UNCHANGED <<outbox, atPeer, inbox, chunk>>
      PROVE  OwnAnswers'
  BY <1>2 DEF OwnAnswers, Travelling, OwnOffset
<1>3. ASSUME NEW c \in Calls, Enter(c) \/ Return(c)
      PROVE  OneChunkBehind' /\ OwnAnswers' /\ ReadsItsOwnFile'
  <2>1. \A r \in Readers : /\ ReadsOn(r)' => (ReadsOn(r) \/ (at[r] = "out" /\ r \notin gone))
                           /\ (at'[r] = "out" /\ r \notin gone') => (at[r] = "out" /\ r \notin gone)
    <3>1. CASE Enter(c)
      <4>1. c \notin inside /\ c \notin gone /\ gone \subseteq gone'
        BY <3>1 DEF Enter, TryEnter
      <4>2. c \in Readers => at[c] = "out"
        BY <4>1 DEF ReadersInside
      <4>3. \A r \in Readers \ {c} : at'[r] = at[r]
        BY <3>1 DEF Enter
      <4> QED
        BY <4>1, <4>2, <4>3 DEF ReadsOn
    <3>2. CASE Return(c)
      <4>1. gone' = gone \cup {c} /\ \A r \in Readers \ {c} : at'[r] = at[r]
        BY <3>2 DEF Return, Leave
      <4>2. c \in Readers => at'[c] = "out"
        BY <3>2 DEF Return
      <4> QED
        BY <4>1, <4>2 DEF ReadsOn
    <3> QED
      BY <1>3, <3>1, <3>2
  <2> QED
    BY <1>1, <1>2, <1>3, <2>1 DEF Enter, Return, wire, transfer
<1>4. ASSUME NEW c \in Readers,
             Admit(c) \/ Register(c) \/ Post(c) \/ Sleep(c) \/ SliceEnds(c)
      PROVE  OneChunkBehind' /\ OwnAnswers' /\ ReadsItsOwnFile'
  <2>1. UNCHANGED <<asked, got, gone>>
    BY <1>4 DEF Admit, Register, Post, Sleep, SliceEnds, lifetimeVars
  <2>2. \A r \in Readers : (ReadsOn(r)' => ReadsOn(r)) /\ (at'[r] = "out" => at[r] = "out")
    BY <1>4 DEF Admit, Register, Post, Sleep, SliceEnds, ReadsOn
  <2>3. OwnAnswers'
    BY <1>2, <1>4, OwnWires DEF Admit, Register, Sleep, SliceEnds, wire, transfer
  <2> QED
    BY <1>1, <2>1, <2>2, <2>3
<1>5. ASSUME (UNCHANGED at \/ WakeReaders), UNCHANGED <<asked, got, gone>>
      PROVE  OneChunkBehind' /\ ReadsItsOwnFile'
  <2>1. \A r \in Readers : (ReadsOn(r)' => ReadsOn(r)) /\ (at'[r] = "out" => at[r] = "out")
    BY <1>5 DEF WakeReaders, ReadsOn
  <2> QED
    BY <1>1, <1>5, <2>1
<1>6. ASSUME \/ \E r \in outbox : SendRequest(r)
             \/ \E r \in atPeer : PeerAnswers(r)
             \/ \E a \in inbox : HandleAnswer(a)
      PROVE  OneChunkBehind' /\ OwnAnswers' /\ ReadsItsOwnFile'
  <2>1. (UNCHANGED at \/ WakeReaders) /\ UNCHANGED <<asked, got, gone>>
    BY <1>6 DEF SendRequest, PeerAnswers, HandleAnswer, readerVars, lifetimeVars
  <2> QED
    BY <1>5, <1>6, <2>1, OwnWires
<1>7. ASSUME \/ StartShutdown \/ CloseLifetime \/ CloserWakes
             \/ WakeClipboardWaiters \/ ClearTransfers \/ Delete
             \/ UNCHANGED vars
      PROVE  OneChunkBehind' /\ OwnAnswers' /\ ReadsItsOwnFile'
  <2>1. (UNCHANGED at \/ WakeReaders) /\ UNCHANGED <<asked, got, gone>>
    BY <1>7 DEF StartShutdown, CloseLifetime, Close, CloserWakes, WakeUp, SpuriousWakeUp,
                WakeClipboardWaiters, ClearTransfers, Delete, readerVars, lifetimeVars, vars
  <2>2. /\ Travelling' \subseteq Travelling
        /\ (chunk' = chunk) \/ (chunk' = [i \in Ids |-> NoChunk])
    BY <1>7 DEF StartShutdown, CloseLifetime, CloserWakes, WakeClipboardWaiters, ClearTransfers,
                Delete, transfer, wire, vars, Travelling
  <2>3. OwnAnswers'
    BY <2>2 DEF OwnAnswers, OwnOffset
  <2> QED
    BY <1>5, <2>1, <2>3
<1> QED
  BY <1>3, <1>4, <1>6, <1>7, OwnCollect
  DEF Next, ReaderStep, Finish, DeadlinePasses, OwnerShutdown, Deleted

LEMMA OwnInit == Init => OwnInv
<1> SUFFICES ASSUME Init
             PROVE  OwnInv
  OBVIOUS
<1>1. OneChunkBehind /\ ReadsItsOwnFile
  BY DEF Init, OneChunkBehind, ReadsItsOwnFile
<1>2. OwnAnswers
  BY DEF Init, OwnAnswers, OwnOffset, Travelling
<1> QED
  BY <1>1, <1>2, ShutdownInvInit DEF OwnInv

\* A read gets the bytes of its own file, in order, whatever was late.
THEOREM ReadsAreTheirOwn == Spec => []ReadsItsOwnFile
<1>1. OwnInv /\ [Next]_vars => OwnInv'
  BY ShutdownInvStep, OwnStep DEF OwnInv
<1>2. OwnInv => ReadsItsOwnFile
  BY DEF OwnInv
<1> QED
  BY <1>1, <1>2, OwnInit, PTL DEF Spec

\* Both facts about overlapping reads at once.
THEOREM ReadsAreSound == Spec => []ReadsSound
<1>1. NothingUnclaimed /\ ReadsItsOwnFile => ReadsSound
  BY DEF ReadsSound
<1> QED
  BY <1>1, NothingIsUnclaimed, ReadsAreTheirOwn, PTL
=============================================================================
