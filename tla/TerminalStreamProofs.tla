-------------------------- MODULE TerminalStreamProofs --------------------------
(***************************************************************************)
(* Theorems about TerminalStream, for any limits, any number of calls of a *)
(* shell and any amount of text: type correctness with the bounds of both  *)
(* buffers of pending output; that whoever pauses the shell is going to    *)
(* resume it; and that the screen shows what TerminalTranscript promises.  *)
(***************************************************************************)
EXTENDS TerminalStream, SequenceTheorems, FiniteSetTheorems, TLAPS

LEMMA JoinedInTurn ==
  ASSUME NEW S, NEW a \in Seq(S), NEW b \in Seq(S), NEW c \in Seq(S)
  PROVE  (a \o b) \o c = a \o (b \o c)
<1>1. (a \o b) \o c \in Seq(S) /\ a \o (b \o c) \in Seq(S)
  OBVIOUS
<1>2. Len((a \o b) \o c) = Len(a \o (b \o c))
  OBVIOUS
<1>3. \A i \in 1..Len((a \o b) \o c) : ((a \o b) \o c)[i] = (a \o (b \o c))[i]
  OBVIOUS
<1>4. QED
  BY <1>1, <1>2, <1>3, SeqEqual, Zenon


-----------------------------------------------------------------------------
(***************************************************************************)
(* Counting the elements of a sequence that belong to a set.               *)
(***************************************************************************)

Places(s, S) == {i \in DOMAIN s : s[i] \in S}
Tally(s, S) == Cardinality(Places(s, S))

LEMMA TallyType ==
  ASSUME NEW U, NEW s \in Seq(U), NEW S
  PROVE  /\ IsFiniteSet(Places(s, S)) /\ Places(s, S) \subseteq 1..Len(s)
         /\ Tally(s, S) \in Nat /\ Tally(s, S) <= Len(s)
<1>1. Len(s) \in Nat /\ Places(s, S) \in SUBSET (1..Len(s))
  BY DEF Places
<1>2. IsFiniteSet(1..Len(s)) /\ Cardinality(1..Len(s)) = Len(s)
  <2>1. ASSUME NEW n \in Nat
        PROVE  IsFiniteSet(1..n) /\ Cardinality(1..n) = n
    <3>1. 1 \in Int /\ n \in Int
      OBVIOUS
    <3>2. IsFiniteSet(1..n)
      BY <3>1, FS_Interval
    <3>3. Cardinality(1..n) = IF 1 > n THEN 0 ELSE n - 1 + 1
      BY <3>1, FS_Interval
    <3>4. QED
      BY <3>2, <3>3
  <2>2. QED
    BY <2>1, <1>1
<1>3. IsFiniteSet(Places(s, S)) /\ Cardinality(Places(s, S)) <= Cardinality(1..Len(s))
  BY <1>1, <1>2, FS_Subset
<1>4. QED
  BY <1>1, <1>2, <1>3, FS_CardinalityType DEF Tally

LEMMA TallyEmpty == ASSUME NEW S PROVE Tally(<<>>, S) = 0
<1>1. Places(<<>>, S) = {}
  BY DEF Places
<1>2. QED
  BY <1>1, FS_EmptySet DEF Tally

LEMMA TallyAppend ==
  ASSUME NEW U, NEW s \in Seq(U), NEW x \in U, NEW S
  PROVE  Tally(Append(s, x), S) = Tally(s, S) + (IF x \in S THEN 1 ELSE 0)
<1>1. /\ Len(s) \in Nat /\ DOMAIN s = 1..Len(s)
      /\ Append(s, x) \in Seq(U) /\ DOMAIN Append(s, x) = 1..Len(s) + 1
      /\ Append(s, x)[Len(s) + 1] = x
      /\ \A i \in 1..Len(s) : Append(s, x)[i] = s[i]
  OBVIOUS
<1>2. \A i : i \in 1..Len(s) + 1 <=> i \in 1..Len(s) \/ i = Len(s) + 1
  BY <1>1
<1>3. Places(Append(s, x), S) = Places(s, S) \cup (IF x \in S THEN {Len(s) + 1} ELSE {})
  BY <1>1, <1>2, Zenon DEF Places
<1>4. Len(s) + 1 \notin Places(s, S)
  BY <1>1, SMT DEF Places
<1>5. IsFiniteSet(Places(s, S)) /\ Tally(s, S) \in Nat
  BY TallyType
<1>6. CASE x \in S
  <2>1. Cardinality(Places(s, S) \cup {Len(s) + 1}) = Cardinality(Places(s, S)) + 1
    BY <1>4, <1>5, FS_AddElement, Zenon
  <2>2. QED
    BY <1>3, <1>6, <2>1 DEF Tally
<1>7. CASE x \notin S
  BY <1>3, <1>5, <1>7 DEF Tally
<1>8. QED
  BY <1>6, <1>7

\* The places of what is left when the first k elements are gone.
LEMMA TallyRest ==
  ASSUME NEW U, NEW s \in Seq(U), NEW S, NEW k \in 0..Len(s)
  PROVE  /\ SubSeq(s, k + 1, Len(s)) \in Seq(U)
         /\ Tally(SubSeq(s, k + 1, Len(s)), S) = Cardinality({i \in Places(s, S) : i > k})
<1> DEFINE rest == SubSeq(s, k + 1, Len(s))
           A == Places(rest, S)
           B == {i \in Places(s, S) : i > k}
           f == [i \in A |-> i + k]
<1>1. /\ Len(s) \in Nat /\ k \in Nat
      /\ rest \in Seq(U) /\ DOMAIN rest = 1..Len(s) - k
      /\ \A i \in 1..Len(s) - k : rest[i] = s[i + k]
  OBVIOUS
<1> HIDE DEF rest
<1>2. A \subseteq 1..Len(s) - k /\ B \subseteq (k + 1)..Len(s)
  BY <1>1, SMT DEF Places
<1>3. ASSUME NEW i \in A
      PROVE  i + k \in B
  <2>1. i \in 1..Len(s) - k /\ rest[i] = s[i + k] /\ rest[i] \in S
    BY <1>1, <1>2 DEF Places
  <2>2. i + k \in DOMAIN s /\ i + k > k
    BY <1>1, <2>1
  <2>3. QED
    BY <2>1, <2>2 DEF Places
<1>4. ASSUME NEW j \in B
      PROVE  j - k \in A /\ j = (j - k) + k
  <2>1. j \in (k + 1)..Len(s) /\ s[j] \in S
    BY <1>2 DEF Places
  <2>2. j - k \in 1..Len(s) - k /\ j = (j - k) + k
    BY <1>1, <2>1
  <2>3. rest[j - k] = s[j]
    BY <1>1, <2>2
  <2>4. QED
    BY <1>1, <2>1, <2>2, <2>3 DEF Places
<1> HIDE DEF A, B
<1>5. f \in Bijection(A, B)
  <2>1. f \in [A -> B]
    BY <1>3
  <2>2. \A a, b \in A : f[a] = f[b] => a = b
    BY <1>1, <1>2, SMT
  <2>3. \A j \in B : \E i \in A : f[i] = j
    BY <1>4
  <2>4. QED
    BY <2>1, <2>2, <2>3 DEF Bijection, Injection, Surjection, IsInjective
<1>6. IsFiniteSet(A)
  BY <1>1, TallyType DEF A
<1>7. Cardinality(B) = Cardinality(A)
  BY <1>5, <1>6, FS_Bijection DEF ExistsBijection
<1>8. QED
  BY <1>1, <1>7 DEF rest, A, B, Tally

LEMMA TallyShrinks ==
  ASSUME NEW U, NEW s \in Seq(U), NEW S, NEW k \in 0..Len(s)
  PROVE  Tally(SubSeq(s, k + 1, Len(s)), S) <= Tally(s, S)
<1>1. IsFiniteSet(Places(s, S))
  BY TallyType
<1>2. {i \in Places(s, S) : i > k} \in SUBSET Places(s, S)
  OBVIOUS
<1>3. Cardinality({i \in Places(s, S) : i > k}) <= Cardinality(Places(s, S))
  BY <1>1, <1>2, FS_Subset
<1>4. Tally(SubSeq(s, k + 1, Len(s)), S) = Cardinality({i \in Places(s, S) : i > k})
  BY TallyRest, SMTT(30)
<1>5. QED
  BY <1>3, <1>4 DEF Tally

LEMMA TallyTail ==
  ASSUME NEW U, NEW s \in Seq(U), NEW S
  PROVE  s # <<>> => Tally(s, S) = Tally(Tail(s), S) + (IF Head(s) \in S THEN 1 ELSE 0)
<1>7. ASSUME NEW k \in 0..Len(s)
      PROVE  Tally(SubSeq(s, k + 1, Len(s)), S) = Cardinality({i \in Places(s, S) : i > k})
  BY TallyRest, SMTT(30)
<1> HAVE s # <<>>
<1>1. /\ Len(s) \in Nat /\ Len(s) > 0 /\ 1 \in 0..Len(s) /\ 1 \in DOMAIN s
      /\ Head(s) = s[1]
  OBVIOUS
<1>2. IsFiniteSet(Places(s, S)) /\ Tally(s, S) \in Nat
  BY TallyType
<1>3. Tally(Tail(s), S) = Cardinality(Places(s, S) \ {1})
  <2>1. PICK k \in 0..Len(s) : k = 1
    BY <1>1
  <2>2. Tally(SubSeq(s, k + 1, Len(s)), S) = Cardinality({i \in Places(s, S) : i > k})
    BY <1>7
  <2>3. Tail(s) = SubSeq(s, k + 1, Len(s)) /\ {i \in Places(s, S) : i > k} = Places(s, S) \ {1}
    BY <1>1, <2>1 DEF Places
  <2>4. QED
    BY <2>2, <2>3, Zenon
<1>4. 1 \in Places(s, S) <=> Head(s) \in S
  BY <1>1 DEF Places
<1>5. Cardinality(Places(s, S) \ {1}) =
        IF 1 \in Places(s, S) THEN Cardinality(Places(s, S)) - 1 ELSE Cardinality(Places(s, S))
  BY <1>2, FS_RemoveElement, Zenon
<1>6. QED
  BY <1>2, <1>3, <1>4, <1>5 DEF Tally

LEMMA LimitsAreNumbers ==
  /\ ChannelHigh \in Nat /\ ChannelLow \in Nat /\ ChannelLow < ChannelHigh
  /\ FlowHigh \in Nat /\ FlowLow \in Nat /\ FlowLow < FlowHigh
  /\ MaxPendingCtl \in Nat /\ FlowHigh <= MaxPendingCtl
  /\ MaxPendingCli \in Nat /\ MaxRequests \in Nat /\ MaxFlickers \in Nat
  BY TerminalAssumption

-----------------------------------------------------------------------------
(***************************************************************************)
(* The counts of the model are tallies.                                    *)
(***************************************************************************)

Messages == Outputs \cup Events
Texts == {m \in Messages : IsText(m)}

LEMMA UnitsAreTally == \A s \in Seq(Messages) : Units(s) = Tally(s, Texts)
<1> TAKE s \in Seq(Messages)
<1>1. \A i \in DOMAIN s : s[i] \in Messages
  OBVIOUS
<1>2. {i \in DOMAIN s : IsText(s[i])} = Places(s, Texts)
  BY <1>1, Zenon DEF Places, Texts
<1>3. QED
  BY <1>2, Zenon DEF Units, Tally

LEMMA UnitsType ==
  ASSUME NEW s \in Seq(Messages)
  PROVE  Units(s) \in Nat /\ Units(s) <= Len(s)
<1>1. Tally(s, Texts) \in Nat /\ Tally(s, Texts) <= Len(s)
  BY TallyType
<1>2. QED
  BY <1>1, UnitsAreTally

LEMMA UnitsShrink ==
  ASSUME NEW s \in Seq(Messages), NEW k \in 0..Len(s)
  PROVE  Units(SubSeq(s, k + 1, Len(s))) <= Units(s)
<1>1. Tally(SubSeq(s, k + 1, Len(s)), Texts) <= Tally(s, Texts)
  BY TallyShrinks
<1>2. SubSeq(s, k + 1, Len(s)) \in Seq(Messages)
  OBVIOUS
<1>3. QED
  BY <1>1, <1>2, UnitsAreTally, Zenon

LEMMA UnitsGrow ==
  ASSUME NEW s \in Seq(Messages), NEW m \in Messages
  PROVE  Units(Append(s, m)) >= Units(s)
<1>1. Tally(Append(s, m), Texts) = Tally(s, Texts) + (IF m \in Texts THEN 1 ELSE 0)
  BY TallyAppend
<1>2. Append(s, m) \in Seq(Messages)
  OBVIOUS
<1>3. Units(s) \in Nat
  BY UnitsType
<1>4. Units(s) = Tally(s, Texts) /\ Units(Append(s, m)) = Tally(Append(s, m), Texts)
  BY <1>2, UnitsAreTally, Zenon
<1>5. QED
  BY <1>1, <1>3, <1>4

LEMMA NothingCounts == Units(<<>>) = 0
<1>1. <<>> \in Seq(Messages)
  OBVIOUS
<1>2. QED
  BY <1>1, TallyEmpty, UnitsAreTally, Zenon

Written == Chunks \ {T!Mark}

LEMMA PendingIsTally ==
  ASSUME NEW c, c.pending \in Seq(Chunks)
  PROVE  PendingUnits(c) = Tally(c.pending, Written)
<1>1. \A i \in DOMAIN c.pending : c.pending[i] \in Chunks
  OBVIOUS
<1>2. {i \in DOMAIN c.pending : c.pending[i] # T!Mark} = Places(c.pending, Written)
  BY <1>1, Zenon DEF Places, Written
<1>3. QED
  BY <1>2, Zenon DEF PendingUnits, Tally

LEMMA PendingType ==
  ASSUME NEW c, c.pending \in Seq(Chunks)
  PROVE  PendingUnits(c) \in Nat
<1>1. Tally(c.pending, Written) \in Nat
  BY TallyType
<1>2. QED
  BY <1>1, PendingIsTally

LEMMA MarkIsChunk == T!Mark \in Chunks
  BY LimitsAreNumbers DEF T!Mark, T!Chunk, Chunks, Requests

-----------------------------------------------------------------------------
(***************************************************************************)
(* What the helpers of WebRtcCli keep.                                     *)
(***************************************************************************)

\* The pending output keeps its limit.
Kept(c) == c \in CliStates /\ Units(c.pending) <= MaxPendingCli

\* A pause of the channel has its timer.
Armed(c) == c.channelPaused => c.pollTimer

Timed(c) == c.outputPaused => c.pollTimer
Watched(c) == c.outputPaused => c.pollTimer \/ c.remotePaused

Served(r) == Kept(r.c) /\ r.sent \in Seq(Messages)

LEMMA ScheduleKeeps ==
  ASSUME NEW c, Kept(c)
  PROVE  LET d == scheduleTerminalBackpressurePoll(c)
         IN  /\ Kept(d) /\ Armed(d) /\ Timed(d)
             /\ d.remotePaused = c.remotePaused /\ d.session = c.session
             /\ d.pending = c.pending /\ d.pendingEnd = c.pendingEnd
             /\ d.outputPaused = (c.session # "none")
<1> DEFINE d == scheduleTerminalBackpressurePoll(c)
<1>1. d \in CliStates
  BY Zenon DEF Kept, CliStates, scheduleTerminalBackpressurePoll
<1>2. /\ d.remotePaused = c.remotePaused /\ d.session = c.session
      /\ d.pending = c.pending /\ d.pendingEnd = c.pendingEnd
      /\ d.outputPaused = (c.session # "none") /\ d.pollTimer = TRUE
  BY DEF Kept, CliStates, scheduleTerminalBackpressurePoll
<1>3. QED
  BY <1>1, <1>2 DEF Kept, Armed, Timed

LEMMA EndKeeps ==
  ASSUME NEW c, Kept(c), NEW s \in Seq(Messages)
  PROVE  LET r == sendPendingTerminalEnd(c, s)
         IN  /\ Served(r)
             /\ r.c = [c EXCEPT !.pendingEnd = 0]
             /\ r = [c |-> r.c, sent |-> r.sent]
<1> DEFINE r == sendPendingTerminalEnd(c, s)
<1>1. r.c = [c EXCEPT !.pendingEnd = 0]
  BY DEF sendPendingTerminalEnd
<1>2. r.c \in CliStates
  <2>1. 0 \in Requests
    BY LimitsAreNumbers DEF Requests
  <2>2. QED
    BY <1>1, <2>1 DEF Kept, CliStates
<1>3. r.c.pending = c.pending /\ r.c.channelPaused = c.channelPaused /\ r.c.pollTimer = c.pollTimer
  BY <1>1 DEF Kept, CliStates
<1>4. r.sent \in Seq(Messages)
  <2>1. c.pendingEnd \in Requests
    BY DEF Kept, CliStates
  <2>2. Ended(c.pendingEnd) \in Messages
    BY <2>1 DEF Ended, Messages, Events
  <2>3. r.sent = IF c.pendingEnd # 0 THEN Append(s, Ended(c.pendingEnd)) ELSE s
    BY DEF sendPendingTerminalEnd
  <2>4. QED
    BY <2>2, <2>3
<1>5. QED
  BY <1>1, <1>2, <1>3, <1>4 DEF Served, Kept, sendPendingTerminalEnd

LEMMA BurstFits ==
  ASSUME NEW c, Kept(c), toCtl \in Seq(Messages), NEW gone \in Gone,
         Buffered(<<>>, gone) <= ChannelLow
  PROVE  Burst(c, gone) \in 0..Len(c.pending)
<1>1. toCtl \o <<>> \in Seq(Messages)
  OBVIOUS
<1>2. Units(toCtl \o <<>>) \in Nat /\ Units(toCtl) \in Nat
  BY <1>1, UnitsType
<1>3. gone \in Int /\ Buffered(<<>>, gone) \in Int
  BY <1>2 DEF Gone, Buffered
<1>4. Len(c.pending) \in Nat
  BY DEF Kept, CliStates
<1>5. ChannelHigh \in Nat /\ ChannelLow \in Nat /\ ChannelLow < ChannelHigh
  BY LimitsAreNumbers
<1>6. QED
  BY <1>3, <1>4, <1>5 DEF Burst

LEMMA AfterBurstKeeps ==
  ASSUME NEW c, Kept(c), NEW k \in 0..Len(c.pending)
  PROVE  LET r == AfterBurst(c, k)
         IN  /\ Served(r)
             /\ r.c = [c EXCEPT !.pending = SubSeq(c.pending, k + 1, Len(c.pending)),
                                !.needsReset = c.needsReset /\ k = 0]
<1> DEFINE r == AfterBurst(c, k)
           rest == SubSeq(c.pending, k + 1, Len(c.pending))
<1>1. c.pending \in Seq(Outputs) /\ c.pending \in Seq(Messages)
  BY DEF Kept, CliStates, Messages
<1>2. r.c = [c EXCEPT !.pending = rest, !.needsReset = c.needsReset /\ k = 0]
  BY DEF AfterBurst, Kept, CliStates
<1>3. rest \in Seq(Outputs)
  BY <1>1
<1>4. Units(rest) <= Units(c.pending)
  BY <1>1, UnitsShrink
<1>5. Units(rest) \in Nat /\ Units(c.pending) \in Nat
  <2>1. rest \in Seq(Messages)
    BY <1>1
  <2>2. QED
    BY <1>1, <2>1, UnitsType, Zenon
<1> HIDE DEF rest
<1>6. r.c \in CliStates
  BY <1>2, <1>3, Zenon DEF Kept, CliStates
<1>7. r.c.pending = rest /\ r.c.channelPaused = c.channelPaused /\ r.c.pollTimer = c.pollTimer
  BY <1>2 DEF Kept, CliStates
<1>8. r.sent \in Seq(Messages)
  <2>1. r.sent = [i \in 1..k |-> IF i = 1 THEN Marked(c, c.pending[1]) ELSE c.pending[i]]
    BY DEF AfterBurst
  <2>2. k \in Nat /\ \A i \in 1..k : c.pending[i] \in Outputs
    BY <1>1
  <2>3. \A m \in Outputs : Marked(c, m) \in Outputs
    BY Zenon DEF Marked, Outputs, Kept, CliStates
  <2>4. \A i \in 1..k : (IF i = 1 THEN Marked(c, c.pending[1]) ELSE c.pending[i]) \in Messages
    BY <2>2, <2>3 DEF Messages
  <2>5. QED
    BY <2>1, <2>2, <2>4
<1>9. Units(rest) <= MaxPendingCli
  BY <1>4, <1>5, LimitsAreNumbers DEF Kept
<1>10. QED
  BY <1>2, <1>6, <1>7, <1>8, <1>9 DEF Served, Kept, rest

LEMMA UnpausedKeeps ==
  ASSUME NEW c, Kept(c)
  PROVE  LET d == Unpaused(c)
         IN  /\ Kept(d) /\ Armed(d) /\ Watched(d)
             /\ d.remotePaused = c.remotePaused /\ d.session = c.session
             /\ c.session = "none" => ~d.outputPaused
<1> DEFINE d == Unpaused(c)
<1>1. d \in CliStates
  BY Zenon DEF Kept, CliStates, Unpaused
<1>2. /\ d.remotePaused = c.remotePaused /\ d.session = c.session /\ d.pending = c.pending
      /\ d.outputPaused = (c.session # "none" /\ c.remotePaused) /\ d.channelPaused = FALSE
  BY DEF Kept, CliStates, Unpaused
<1>3. QED
  BY <1>1, <1>2, Zenon DEF Kept, Armed, Watched

LEMMA PollKeeps ==
  ASSUME NEW c, Kept(c), toCtl \in Seq(Messages), NEW gone \in Gone
  PROVE  LET r == pollTerminalBackpressure(c, gone)
         IN  /\ Served(r)
             /\ r.c.remotePaused = c.remotePaused /\ r.c.session = c.session
             /\ Watched(c) => Watched(r.c)
             /\ Armed(c) => Armed(r.c)
             /\ c.session = "none" /\ ~c.outputPaused => ~r.c.outputPaused
             /\ r = [c |-> r.c, sent |-> r.sent]
<1> DEFINE r == pollTerminalBackpressure(c, gone)
           b == AfterBurst(c, Burst(c, gone))
           a == IF b.c.pending = <<>> THEN sendPendingTerminalEnd(b.c, b.sent) ELSE b
           full == Buffered(<<>>, gone) > ChannelLow \/ (c.pending # <<>> /\ ~c.connected)
           rests == a.c.pending # <<>> \/ Buffered(a.sent, gone) > ChannelLow
<1>1. r = IF full THEN [c |-> c, sent |-> <<>>]
          ELSE IF rests THEN a ELSE [a EXCEPT !.c = Unpaused(@)]
  BY DEF pollTerminalBackpressure
<1>2. CASE full
  <2>1. r = [c |-> c, sent |-> <<>>]
    BY <1>1, <1>2
  <2>3. r.c = c /\ r.sent = <<>>
    BY <2>1
  <2>2. QED
    BY <2>1, <2>3 DEF Served
<1>3. CASE ~full
  <2>1. Buffered(<<>>, gone) <= ChannelLow
    <3>1. toCtl \o <<>> \in Seq(Messages)
      OBVIOUS
    <3>2. Units(toCtl \o <<>>) \in Nat /\ Units(toCtl) \in Nat
      BY <3>1, UnitsType
    <3>3. Buffered(<<>>, gone) \in Int
      BY <3>2 DEF Gone, Buffered
    <3>4. QED
      BY <1>3, <3>3, LimitsAreNumbers
  <2>2. PICK k \in 0..Len(c.pending) : k = Burst(c, gone)
    BY <2>1, BurstFits
  <2>3. /\ Served(b)
        /\ b.c = [c EXCEPT !.pending = SubSeq(c.pending, k + 1, Len(c.pending)),
                           !.needsReset = c.needsReset /\ k = 0]
    <3>1. b = AfterBurst(c, k)
      BY <2>2
    <3>2. QED
      BY <3>1, AfterBurstKeeps, ZenonT(40)
  <2>4. /\ b.c.remotePaused = c.remotePaused /\ b.c.session = c.session
        /\ b.c.outputPaused = c.outputPaused /\ b.c.pollTimer = c.pollTimer
        /\ b.c.channelPaused = c.channelPaused
    BY <2>3 DEF Kept, CliStates
  <2> HIDE DEF b
  <2>5. Served(a) /\ (a.c = b.c \/ a.c = [b.c EXCEPT !.pendingEnd = 0])
    BY <2>3, EndKeeps, Zenon DEF Served
  <2>6. /\ a.c.remotePaused = c.remotePaused /\ a.c.session = c.session
        /\ a.c.outputPaused = c.outputPaused /\ a.c.pollTimer = c.pollTimer
        /\ a.c.channelPaused = c.channelPaused
    <3>1. PICK d : d = b.c
      OBVIOUS
    <3>2. d \in CliStates
      BY <2>3, <3>1, Zenon DEF Kept, Served
    <3>3. [d EXCEPT !.pendingEnd = 0].remotePaused = d.remotePaused
          /\ [d EXCEPT !.pendingEnd = 0].session = d.session
          /\ [d EXCEPT !.pendingEnd = 0].outputPaused = d.outputPaused
          /\ [d EXCEPT !.pendingEnd = 0].pollTimer = d.pollTimer
          /\ [d EXCEPT !.pendingEnd = 0].channelPaused = d.channelPaused
      BY <3>2 DEF CliStates
    <3>4. QED
      BY <2>4, <2>5, <3>1, <3>3, Zenon
  <2>7. a = [c |-> a.c, sent |-> a.sent]
    BY Zenon DEF b, AfterBurst, sendPendingTerminalEnd
  <2> HIDE DEF a
  <2>8. CASE rests
    <3>1. r = a
      BY <1>1, <1>3, <2>8
    <3>2. QED
      BY <2>5, <2>6, <2>7, <3>1 DEF Watched, Armed
  <2>9. CASE ~rests
    <3>1. r = [a EXCEPT !.c = Unpaused(@)]
      BY <1>1, <1>3, <2>9
    <3>2. r.c = Unpaused(a.c) /\ r.sent = a.sent /\ r = [c |-> r.c, sent |-> r.sent]
      BY <2>7, <3>1
    <3>3. Kept(a.c)
      BY <2>5 DEF Served
    <3>4. /\ Kept(r.c) /\ Armed(r.c) /\ Watched(r.c)
          /\ r.c.remotePaused = a.c.remotePaused /\ r.c.session = a.c.session
          /\ a.c.session = "none" => ~r.c.outputPaused
      BY <3>2, <3>3, UnpausedKeeps
    <3>5. QED
      BY <2>5, <2>6, <3>2, <3>4 DEF Served
  <2>10. QED
    BY <2>8, <2>9
<1>4. QED
  BY <1>2, <1>3

LEMMA OfferKeeps ==
  ASSUME NEW c, Kept(c), NEW m \in Outputs
  PROVE  LET r == OfferOutput(c, m)
         IN  /\ Served(r)
             /\ r.c.remotePaused = c.remotePaused /\ r.c.session = c.session
             /\ r.c.outputPaused = c.outputPaused /\ r.c.pollTimer = c.pollTimer
             /\ r.c.channelPaused = c.channelPaused
             /\ r = [c |-> r.c, sent |-> r.sent]
<1>1. /\ c.pending \in Seq(Outputs) /\ c.pending \in Seq(Messages) /\ Len(c.pending) \in Nat
      /\ MaxPendingCli \in Nat
  BY LimitsAreNumbers DEF Kept, CliStates, Messages
<1>2. PICK d, s : /\ OfferOutput(c, m) = [c |-> d, sent |-> s]
                  /\ \/ d = [c EXCEPT !.needsReset = FALSE] /\ s = <<Marked(c, m)>>
                     \/ d = [c EXCEPT !.pending = <<>>, !.needsReset = TRUE] /\ s = <<>>
                     \/ /\ Len(c.pending) < MaxPendingCli
                        /\ d = [c EXCEPT !.pending = Append(c.pending, m)] /\ s = <<>>
  <2>1. CASE c.pending = <<>> /\ c.connected
    BY <2>1 DEF OfferOutput
  <2>2. CASE ~(c.pending = <<>> /\ c.connected) /\ Len(c.pending) >= MaxPendingCli
    BY <2>2, Zenon DEF OfferOutput
  <2>3. CASE ~(c.pending = <<>> /\ c.connected) /\ Len(c.pending) < MaxPendingCli
    <3>1. ~(Len(c.pending) >= MaxPendingCli)
      BY <1>1, <2>3
    <3>2. OfferOutput(c, m) = [c |-> [c EXCEPT !.pending = Append(@, m)], sent |-> <<>>]
      BY <2>3, <3>1, Zenon DEF OfferOutput
    <3>3. [c EXCEPT !.pending = Append(@, m)] = [c EXCEPT !.pending = Append(c.pending, m)]
      OBVIOUS
    <3>4. QED
      BY <2>3, <3>2, <3>3, Zenon
  <2>4. QED
    BY <1>1, <2>1, <2>2, <2>3
<1>3. s \in Seq(Messages)
  <2>1. Marked(c, m) \in Messages
    BY Zenon DEF Marked, Messages, Outputs, Kept, CliStates
  <2>2. s = <<Marked(c, m)>> \/ s = <<>>
    BY <1>2, Zenon
  <2>3. <<Marked(c, m)>> \in Seq(Messages) /\ <<>> \in Seq(Messages)
    BY <2>1
  <2>4. QED
    BY <2>2, <2>3, Zenon
<1>4. /\ d \in CliStates
      /\ d.remotePaused = c.remotePaused /\ d.session = c.session
      /\ d.outputPaused = c.outputPaused /\ d.pollTimer = c.pollTimer
      /\ d.channelPaused = c.channelPaused
      /\ \/ d.pending = c.pending \/ d.pending = <<>>
         \/ Len(c.pending) < MaxPendingCli /\ d.pending = Append(c.pending, m)
  <2>1. CASE d = [c EXCEPT !.needsReset = FALSE]
    BY <2>1, Zenon DEF Kept, CliStates
  <2>2. CASE d = [c EXCEPT !.pending = <<>>, !.needsReset = TRUE]
    <3>1. <<>> \in Seq(Outputs)
      OBVIOUS
    <3>2. d \in CliStates
      BY <2>2, <3>1, Zenon DEF Kept, CliStates
    <3>3. QED
      BY <2>2, <3>2 DEF Kept, CliStates
  <2>3. CASE Len(c.pending) < MaxPendingCli /\ d = [c EXCEPT !.pending = Append(c.pending, m)]
    <3>1. Append(c.pending, m) \in Seq(Outputs)
      BY <1>1
    <3>2. QED
      BY <2>3, <3>1, Zenon DEF Kept, CliStates
  <2>4. QED
    BY <1>2, <2>1, <2>2, <2>3
<1>5. Units(d.pending) <= MaxPendingCli
  <2>1. CASE d.pending = c.pending
    BY <2>1 DEF Kept
  <2>2. CASE d.pending = <<>>
    BY <1>1, <2>2, NothingCounts
  <2>3. CASE Len(c.pending) < MaxPendingCli /\ d.pending = Append(c.pending, m)
    <3>1. Append(c.pending, m) \in Seq(Messages) /\ Len(Append(c.pending, m)) <= MaxPendingCli
      BY <1>1, <2>3 DEF Messages
    <3>2. /\ Units(Append(c.pending, m)) \in Nat
          /\ Units(Append(c.pending, m)) <= Len(Append(c.pending, m))
      BY <3>1, UnitsType, Zenon
    <3>3. Len(Append(c.pending, m)) \in Nat
      BY <3>1
    <3>4. QED
      BY <1>1, <2>3, <3>1, <3>2, <3>3
  <2>4. QED
    BY <1>4, <2>1, <2>2, <2>3
<1>6. Kept(d)
  BY <1>4, <1>5 DEF Kept
<1>7. QED
  BY <1>2, <1>3, <1>4, <1>6 DEF Served

LEMMA OutputReadyKeeps ==
  ASSUME NEW c, Kept(c), NEW m \in Outputs, NEW gone
  PROVE  LET r == onTerminalOutputReady(c, m, gone)
         IN  /\ Served(r)
             /\ r.c.remotePaused = c.remotePaused /\ r.c.session = c.session
             /\ Watched(c) => Watched(r.c)
             /\ Timed(c) => Timed(r.c)
             /\ Armed(c) => Armed(r.c)
             /\ r = [c |-> r.c, sent |-> r.sent]
<1> DEFINE r == onTerminalOutputReady(c, m, gone)
           o == OfferOutput(c, m)
<1>1. /\ Served(o)
      /\ o.c.remotePaused = c.remotePaused /\ o.c.session = c.session
      /\ o.c.outputPaused = c.outputPaused /\ o.c.pollTimer = c.pollTimer
      /\ o.c.channelPaused = c.channelPaused
      /\ o = [c |-> o.c, sent |-> o.sent]
  BY OfferKeeps
<1>2. r = o \/ r = [o EXCEPT !.c = scheduleTerminalBackpressurePoll(@)]
  BY DEF onTerminalOutputReady
<1> HIDE DEF o, r
<1>3. CASE r = o
  BY <1>1, <1>3 DEF Watched, Timed, Armed, r
<1>4. CASE r = [o EXCEPT !.c = scheduleTerminalBackpressurePoll(@)]
  <2>1. r.c = scheduleTerminalBackpressurePoll(o.c) /\ r.sent = o.sent /\ r = [c |-> r.c, sent |-> r.sent]
    BY <1>1, <1>4
  <2>2. Kept(o.c) /\ o.sent \in Seq(Messages)
    BY <1>1 DEF Served
  <2>3. /\ Kept(r.c) /\ Timed(r.c) /\ Armed(r.c)
        /\ r.c.remotePaused = o.c.remotePaused /\ r.c.session = o.c.session
    BY <2>1, <2>2, ScheduleKeeps
  <2>4. QED
    BY <1>1, <2>1, <2>2, <2>3 DEF Served, Watched, Timed, r
<1>5. QED
  BY <1>2, <1>3, <1>4 DEF r

LEMMA MarkAloneCountsNothing ==
  ASSUME NEW m \in Messages, ~IsText(m)
  PROVE  <<m>> \in Seq(Messages) /\ Units(<<m>>) = 0
<1>1. <<>> \in Seq(Messages) /\ Append(<<>>, m) = <<m>> /\ <<m>> \in Seq(Messages)
  OBVIOUS
<1>2. Tally(Append(<<>>, m), Texts) = Tally(<<>>, Texts) + (IF m \in Texts THEN 1 ELSE 0)
  BY <1>1, TallyAppend, Zenon
<1>3. Tally(<<>>, Texts) = 0
  BY TallyEmpty
<1>4. m \notin Texts
  BY DEF Texts
<1>5. Units(<<m>>) = Tally(<<m>>, Texts)
  BY <1>1, UnitsAreTally, Zenon
<1>6. Tally(Append(<<>>, m), Texts) = 0
  BY <1>2, <1>3, <1>4
<1>7. QED
  BY <1>1, <1>5, <1>6, Zenon

LEMMA EndOfShellKeeps ==
  ASSUME NEW c, Kept(c), toCtl \in Seq(Messages), NEW gone \in Gone
  PROVE  LET r == EndOfShell(c, gone)
         IN  /\ Served(r) /\ r.c.session = "none"
             /\ ~r.c.remotePaused /\ ~r.c.outputPaused
             /\ Armed(c) => Armed(r.c)
             /\ r = [c |-> r.c, sent |-> r.sent]
<1> DEFINE r == EndOfShell(c, gone)
           over == [c EXCEPT !.session = "none", !.emitted = <<>>, !.hoard = FALSE,
                             !.outputPaused = FALSE, !.remotePaused = FALSE,
                             !.pendingEnd = c.request,
                             !.pending = IF c.needsReset /\ @ = <<>>
                                         THEN <<Output(c.request, 0, FALSE)>> ELSE @]
           last == IF c.needsReset /\ c.pending = <<>>
                   THEN <<Output(c.request, 0, FALSE)>> ELSE c.pending
<1>1. r = IF over.pending = <<>>
          THEN sendPendingTerminalEnd(over, <<>>)
          ELSE pollTerminalBackpressure(scheduleTerminalBackpressurePoll(over), gone)
  BY Zenon DEF EndOfShell
<1>2. Output(c.request, 0, FALSE) \in Outputs /\ ~IsText(Output(c.request, 0, FALSE))
  BY DEF Output, Outputs, IsText, Kept, CliStates
<1>3. last \in Seq(Outputs) /\ Units(last) <= MaxPendingCli
  <2>1. CASE c.needsReset /\ c.pending = <<>>
    <3>1. Output(c.request, 0, FALSE) \in Messages
      BY <1>2, Zenon DEF Messages
    <3>2. Units(<<Output(c.request, 0, FALSE)>>) = 0
      BY <1>2, <3>1, MarkAloneCountsNothing, Zenon
    <3>3. \A m \in Outputs : <<m>> \in Seq(Outputs)
      OBVIOUS
    <3>4. last = <<Output(c.request, 0, FALSE)>>
      BY <2>1, Zenon
    <3>5. last \in Seq(Outputs) /\ Units(last) = 0
      BY <1>2, <3>2, <3>3, <3>4, Zenon
    <3>6. 0 <= MaxPendingCli
      BY LimitsAreNumbers
    <3>7. QED
      BY <3>5, <3>6, Zenon
  <2>2. CASE ~(c.needsReset /\ c.pending = <<>>)
    BY <2>2, Zenon DEF Kept, CliStates
  <2>3. QED
    BY <2>1, <2>2, Zenon
<1>4. over = [c EXCEPT !.session = "none", !.emitted = <<>>, !.hoard = FALSE,
                       !.outputPaused = FALSE, !.remotePaused = FALSE,
                       !.pendingEnd = c.request, !.pending = last]
  BY Zenon
<1> HIDE DEF over, last, r
<1>5. <<>> \in Seq(Outputs \cup {Exit})
  OBVIOUS
<1>6. over \in CliStates
  BY <1>3, <1>4, <1>5, Zenon DEF Kept, CliStates
<1>7. /\ over.pending = last /\ over.channelPaused = c.channelPaused
      /\ over.pollTimer = c.pollTimer /\ over.session = "none"
      /\ over.outputPaused = FALSE /\ over.remotePaused = FALSE
  BY <1>4 DEF Kept, CliStates
<1>8. Kept(over)
  BY <1>3, <1>6, <1>7 DEF Kept
<1>9. CASE over.pending = <<>>
  <2>1. r = sendPendingTerminalEnd(over, <<>>)
    BY <1>1, <1>9
  <2>2. <<>> \in Seq(Messages)
    OBVIOUS
  <2>3. Served(r) /\ r.c = [over EXCEPT !.pendingEnd = 0] /\ r = [c |-> r.c, sent |-> r.sent]
    BY <1>8, <2>1, <2>2, EndKeeps, Zenon
  <2>4. /\ r.c.remotePaused = FALSE /\ r.c.outputPaused = FALSE /\ r.c.session = "none"
        /\ r.c.channelPaused = c.channelPaused /\ r.c.pollTimer = c.pollTimer
    BY <1>6, <1>7, <2>3 DEF CliStates
  <2>5. QED
    BY <2>3, <2>4 DEF r, Armed
<1>10. CASE over.pending # <<>>
  <2>1. PICK d : d = scheduleTerminalBackpressurePoll(over)
    OBVIOUS
  <2>2. Kept(d) /\ Armed(d) /\ d.remotePaused = FALSE /\ d.session = "none" /\ d.outputPaused = FALSE
    BY <1>7, <1>8, <2>1, ScheduleKeeps, Zenon
  <2>3. r = pollTerminalBackpressure(d, gone)
    BY <1>1, <1>10, <2>1
  <2>4. /\ Served(r) /\ r.c.remotePaused = FALSE /\ r.c.session = "none"
        /\ ~r.c.outputPaused /\ Armed(r.c) /\ r = [c |-> r.c, sent |-> r.sent]
    BY <2>2, <2>3, PollKeeps
  <2>5. QED
    BY <2>4 DEF r
<1>11. QED
  BY <1>9, <1>10

LEMMA NewGenerationKeeps ==
  ASSUME NEW c, Kept(c)
  PROVE  /\ NewGeneration(c) \in CliStates
         /\ NewGeneration(c).pending = <<>>
         /\ NewGeneration(c).outputPaused = FALSE
<1>1. <<>> \in Seq(Outputs \cup {Exit}) /\ <<>> \in Seq(Outputs) /\ 0 \in Requests
  BY LimitsAreNumbers DEF Requests
<1>2. QED
  BY <1>1, Zenon DEF Kept, CliStates, NewGeneration

LEMMA PausesClearedKeeps ==
  ASSUME NEW c, Kept(c), Timed(c)
  PROVE  LET d == PausesCleared(c)
         IN  Kept(d) /\ Armed(d) /\ Watched(d) /\ d.remotePaused = FALSE
<1> DEFINE d == PausesCleared(c)
<1>1. d \in CliStates
  BY Zenon DEF Kept, CliStates, PausesCleared
<1>2. /\ d.pending = c.pending /\ d.outputPaused = c.outputPaused /\ d.pollTimer = c.pollTimer
      /\ d.channelPaused = FALSE /\ d.remotePaused = FALSE
  BY DEF Kept, CliStates, PausesCleared
<1>3. QED
  BY <1>1, <1>2 DEF Kept, Armed, Watched, Timed

LEMMA StartedKeeps ==
  ASSUME NEW c, Kept(c), toCtl \in Seq(Messages), NEW gone \in Gone,
         NEW mode \in {"none", "pty", "pipe"}, Head(toCli) \in StartOrders
  PROVE  LET r == Started(c, mode, gone)
         IN  Served(r) /\ Timed(r.c) /\ r = [c |-> r.c, sent |-> r.sent]
<1> DEFINE r == Started(c, mode, gone)
           q == Head(toCli).of
           n == IF mode = "pipe" THEN 1 ELSE 0
           fresh == [NewGeneration(c) EXCEPT !.request = Head(toCli).of, !.session = mode,
                                             !.written = IF mode = "pipe" THEN 1 ELSE 0]
           banner == onTerminalOutputReady(fresh, Output(fresh.request, 1, FALSE), gone)
<1>1. r = IF mode = "none" THEN EndOfShell(fresh, gone)
          ELSE IF mode = "pty" THEN [c |-> fresh, sent |-> <<Info(fresh.request)>>]
          ELSE [banner EXCEPT !.sent = <<Info(fresh.request)>> \o @]
  BY Zenon DEF Started
<1>2. fresh = [NewGeneration(c) EXCEPT !.request = q, !.session = mode, !.written = n]
  OBVIOUS
<1>3. q \in Requests /\ n \in Nat
  BY DEF StartOrders
<1> HIDE DEF fresh, q, n
<1>4. fresh \in CliStates /\ fresh.pending = <<>> /\ fresh.outputPaused = FALSE
  BY <1>2, <1>3, NewGenerationKeeps, Zenon DEF CliStates
<1>5. Kept(fresh) /\ Timed(fresh)
  BY <1>4, NothingCounts, LimitsAreNumbers DEF Kept, Timed
<1>6. fresh.request \in Requests
  BY <1>4 DEF CliStates
<1>7. Info(fresh.request) \in Messages
  BY <1>6 DEF Info, Messages, Events
<1>8. CASE mode = "none"
  <2>1. r = EndOfShell(fresh, gone)
    BY <1>1, <1>8
  <2>2. QED
    BY <1>5, <2>1, EndOfShellKeeps DEF Timed
<1>9. CASE mode = "pty"
  <2>1. r = [c |-> fresh, sent |-> <<Info(fresh.request)>>]
    BY <1>1, <1>9
  <2>2. r.c = fresh /\ r.sent = <<Info(fresh.request)>>
    BY <2>1
  <2>3. \A m \in Messages : <<m>> \in Seq(Messages)
    OBVIOUS
  <2>4. QED
    BY <1>5, <1>7, <2>1, <2>2, <2>3, Zenon DEF Served
<1>10. CASE mode = "pipe"
  <2>1. r = [banner EXCEPT !.sent = <<Info(fresh.request)>> \o @]
    BY <1>1, <1>10
  <2>2. Output(fresh.request, 1, FALSE) \in Outputs
    BY <1>6 DEF Output, Outputs
  <2>3. Served(banner) /\ Timed(banner.c) /\ banner = [c |-> banner.c, sent |-> banner.sent]
    BY <1>5, <2>2, OutputReadyKeeps, Zenon
  <2> HIDE DEF banner
  <2>4. r.c = banner.c /\ r.sent = <<Info(fresh.request)>> \o banner.sent /\ r = [c |-> r.c, sent |-> r.sent]
    BY <2>1, <2>3, Zenon
  <2>5. \A m \in Messages, s \in Seq(Messages) : <<m>> \o s \in Seq(Messages)
    OBVIOUS
  <2>6. r.sent \in Seq(Messages)
    BY <1>7, <2>3, <2>4, <2>5, Zenon DEF Served
  <2>7. QED
    BY <2>3, <2>4, <2>6, Zenon DEF Served
<1>11. QED
  BY <1>8, <1>9, <1>10

-----------------------------------------------------------------------------
(***************************************************************************)
(* The invariant.                                                          *)
(***************************************************************************)

CtlStates == [request : Requests, pending : Seq(Chunks), needsReset : BOOLEAN,
              inFlight : Nat, flowPaused : BOOLEAN]

\* What ctl holds itself, without the ingress, pauses the shell at FlowHigh.  So
\* a message that finds the buffer full finds the shell paused.
Loaded(c) == Capped(PendingUnits(c)) + Capped(c.inFlight) >= FlowHigh => c.flowPaused

\* A pause comes with so much text that its acknowledgements will lift it.
Heavy == ctl.flowPaused => QueuedBytes(ctl, ingress) > FlowLow

WindowOK == win \in [started : BOOLEAN, fallback : BOOLEAN, startTimer : BOOLEAN,
                     request : Requests]

WorkerOK ==
    /\ ctl \in CtlStates
    /\ PendingUnits(ctl) <= MaxPendingCtl
    /\ Loaded(ctl)
    /\ Heavy
    /\ emulator \in Nat /\ ctl.inFlight <= emulator

CliOK == Kept(cli) /\ Armed(cli) /\ Watched(cli)

WiresOK ==
    /\ ingress \in Seq(Messages) /\ batch \in Seq(Messages) /\ toCtl \in Seq(Messages)
    /\ toCli \in Seq(Orders)
    /\ signals \in Seq(Events)

HistoryOK ==
    /\ flickers \in 0..MaxFlickers
    /\ shown \in Seq(Chunks)
    /\ torn \subseteq Chunks

PauseKnown == LastPause => ctl.flowPaused \/ torn # {}

StreamInv == WindowOK /\ WorkerOK /\ CliOK /\ WiresOK /\ HistoryOK /\ PauseKnown

LEMMA StreamInvMeans == StreamInv => TypeOK /\ PauseHasAnEnd
<1> SUFFICES ASSUME StreamInv
             PROVE  TypeOK /\ PauseHasAnEnd
  OBVIOUS
<1>1. TypeOK
  BY Zenon DEF StreamInv, WindowOK, WorkerOK, CliOK, WiresOK, HistoryOK, Kept, CtlStates, Messages, TypeOK
<1>2. PauseHasAnEnd
  BY Zenon DEF StreamInv, WorkerOK, CliOK, Heavy, Watched, PauseKnown, PauseHasAnEnd
<1>3. QED
  BY <1>1, <1>2

-----------------------------------------------------------------------------
(* The end of the orders under way.                                        *)

LEMMA LastOfAppend ==
  ASSUME NEW s \in Seq(Orders), NEW x \in Orders
  PROVE  Append(s, x) \in Seq(Orders) /\ Append(s, x) # <<>> /\ Last(Append(s, x)) = x
  BY DEF Last

LEMMA LastOfTail ==
  ASSUME NEW s \in Seq(Orders)
  PROVE  s # <<>> => /\ Head(s) \in Orders /\ Tail(s) \in Seq(Orders)
                     /\ IF Tail(s) = <<>> THEN Last(s) = Head(s) ELSE Last(Tail(s)) = Last(s)
<1> HAVE s # <<>>
<1>1. Head(s) = s[1] /\ Head(s) \in Orders /\ Tail(s) \in Seq(Orders)
  OBVIOUS
<1>2. Len(s) \in Nat /\ Len(s) > 0 /\ Len(Tail(s)) = Len(s) - 1
  OBVIOUS
<1>3. \A i \in 1..Len(s) - 1 : Tail(s)[i] = s[i + 1]
  OBVIOUS
<1>4. \A t \in Seq(Orders) : t = <<>> <=> Len(t) = 0
  OBVIOUS
<1>5. Tail(s) = <<>> <=> Len(s) = 1
  <2>1. Len(s) - 1 = 0 <=> Len(s) = 1
    BY <1>2
  <2>2. QED
    BY <1>1, <1>2, <1>4, <2>1, Zenon
<1>6. CASE Len(s) = 1
  BY <1>1, <1>5, <1>6 DEF Last
<1>7. CASE Len(s) # 1
  <2>1. Len(s) - 1 \in 1..Len(s) - 1 /\ (Len(s) - 1) + 1 = Len(s)
    BY <1>2, <1>7
  <2>2. Tail(s)[Len(s) - 1] = s[Len(s)]
    BY <1>3, <2>1
  <2>3. QED
    BY <1>1, <1>2, <1>5, <1>7, <2>2 DEF Last
<1>8. QED
  BY <1>6, <1>7

LEMMA OrdersDiffer ==
  /\ Flow(TRUE) # Flow(FALSE) /\ Stop # Flow(FALSE)
  /\ \A m \in StartOrders : m # Flow(FALSE)
  /\ Flow(TRUE) \in Orders /\ Flow(FALSE) \in Orders /\ Stop \in Orders
<1>1. Flow(TRUE).enabled = TRUE /\ Flow(FALSE).enabled = FALSE /\ Flow(FALSE).type = "flow"
  BY DEF Flow
<1>2. Stop.type = "stop" /\ \A m \in StartOrders : m.type = "start"
  BY DEF Stop, StartOrders
<1>3. QED
  BY <1>1, <1>2, Zenon DEF Orders

-----------------------------------------------------------------------------
(* Counting what ctl holds.                                                *)

LEMMA CappedType ==
  ASSUME NEW n \in Nat
  PROVE  /\ Capped(n) \in Nat /\ Capped(n) <= FlowHigh /\ (n >= FlowHigh => Capped(n) = FlowHigh)
         /\ \A m \in Nat : m <= n => Capped(m) <= Capped(n)
  BY LimitsAreNumbers DEF Capped

LEMMA ZeroCapped == Capped(0) = 0
  BY LimitsAreNumbers DEF Capped

LEMMA FlowControl ==
  ASSUME NEW c, c \in CtlStates, NEW in, in \in Seq(Messages), toCli \in Seq(Orders),
         updateTerminalFlowControl(c, in)
  PROVE  /\ ctl' \in CtlStates
         /\ ctl'.pending = c.pending /\ ctl'.inFlight = c.inFlight
         /\ ctl'.request = c.request /\ ctl'.needsReset = c.needsReset
         /\ PendingUnits(ctl') = PendingUnits(c)
         /\ Loaded(ctl')
         /\ ctl'.flowPaused => QueuedBytes(ctl', in) > FlowLow
         /\ toCli' \in Seq(Orders)
         /\ \/ toCli' = toCli /\ ctl'.flowPaused = c.flowPaused
            \/ toCli' = Append(toCli, Flow(FALSE)) /\ ctl'.flowPaused
            \/ toCli' = Append(toCli, Flow(TRUE))
<1>1. PendingUnits(c) \in Nat /\ c.inFlight \in Nat /\ Units(in) \in Nat
  BY PendingType, UnitsType DEF CtlStates
<1>2. PICK p, f, u : p = Capped(PendingUnits(c)) /\ f = Capped(c.inFlight) /\ u = Capped(Units(in))
  OBVIOUS
<1>3. p \in Nat /\ f \in Nat /\ u \in Nat
  BY <1>1, <1>2, CappedType, Zenon
<1>4. QueuedBytes(c, in) = u + p + f
  BY <1>2 DEF QueuedBytes
<1>5. PICK pause, resume \in BOOLEAN :
        /\ pause = (~c.flowPaused /\ u + p + f >= FlowHigh)
        /\ resume = (c.flowPaused /\ u + p + f <= FlowLow)
        /\ pause = MustPause(c, in) /\ resume = MustResume(c, in)
  BY <1>4, Zenon DEF MustPause, MustResume
<1>6. ctl' = [c EXCEPT !.flowPaused = (c.flowPaused \/ pause) /\ ~resume]
  BY <1>5 DEF updateTerminalFlowControl
<1>7. /\ ctl' \in CtlStates
      /\ ctl'.pending = c.pending /\ ctl'.inFlight = c.inFlight
      /\ ctl'.request = c.request /\ ctl'.needsReset = c.needsReset
      /\ ctl'.flowPaused = ((c.flowPaused \/ pause) /\ ~resume)
  BY <1>6, Zenon DEF CtlStates
<1>8. PendingUnits(ctl') = PendingUnits(c)
  BY <1>7 DEF PendingUnits
<1>9. QueuedBytes(ctl', in) = u + p + f
  BY <1>2, <1>7, <1>8 DEF QueuedBytes
<1>10. Loaded(ctl')
  <2>1. p + f >= FlowHigh => u + p + f >= FlowHigh /\ ~(u + p + f <= FlowLow)
    BY <1>3, LimitsAreNumbers
  <2>2. p + f >= FlowHigh => (c.flowPaused \/ pause) /\ ~resume
    BY <1>5, <2>1, Zenon
  <2>3. QED
    BY <1>2, <1>7, <1>8, <2>2, Zenon DEF Loaded
<1>11. ctl'.flowPaused => QueuedBytes(ctl', in) > FlowLow
  <2>1. u + p + f >= FlowHigh \/ ~(u + p + f <= FlowLow) => u + p + f > FlowLow
    BY <1>3, LimitsAreNumbers
  <2>2. (c.flowPaused \/ pause) /\ ~resume => u + p + f >= FlowHigh \/ ~(u + p + f <= FlowLow)
    BY <1>5, Zenon
  <2>3. QED
    BY <1>7, <1>9, <2>1, <2>2, Zenon
<1>12. toCli' = IF pause \/ resume THEN Append(toCli, Flow(resume)) ELSE toCli
  BY <1>5 DEF updateTerminalFlowControl
<1>13. ~(pause /\ resume)
  BY <1>5, Zenon
<1>14. CASE pause
  <2>1. toCli' = Append(toCli, Flow(FALSE)) /\ ctl'.flowPaused
    BY <1>7, <1>12, <1>13, <1>14, Zenon
  <2>2. QED
    BY <1>7, <1>8, <1>10, <1>11, <2>1, OrdersDiffer, LastOfAppend, Zenon
<1>15. CASE resume
  <2>1. toCli' = Append(toCli, Flow(TRUE))
    BY <1>12, <1>13, <1>15, Zenon
  <2>2. QED
    BY <1>7, <1>8, <1>10, <1>11, <2>1, OrdersDiffer, LastOfAppend, Zenon
<1>16. CASE ~pause /\ ~resume
  <2>1. toCli' = toCli /\ ctl'.flowPaused = c.flowPaused
    BY <1>7, <1>12, <1>16 DEF CtlStates
  <2>2. QED
    BY <1>7, <1>8, <1>10, <1>11, <2>1, Zenon
<1>17. QED
  BY <1>14, <1>15, <1>16, Zenon

-----------------------------------------------------------------------------
(***************************************************************************)
(* The invariant holds at first and is kept.                               *)
(***************************************************************************)

LEMMA StreamInitial == Init => StreamInv
<1> SUFFICES ASSUME Init
             PROVE  StreamInv
  OBVIOUS
<1>1. /\ 0 \in Requests /\ 0 \in 0..MaxFlickers
      /\ 0 <= MaxPendingCtl /\ 0 <= MaxPendingCli /\ ~(0 + 0 >= FlowHigh)
  BY LimitsAreNumbers DEF Requests
<1>2. /\ <<>> \in Seq(Chunks) /\ <<>> \in Seq(Outputs) /\ <<>> \in Seq(Messages)
      /\ <<>> \in Seq(Orders) /\ <<>> \in Seq(Events) /\ <<>> \in Seq(Outputs \cup {Exit})
  OBVIOUS
<1>3. WindowOK
  BY <1>1 DEF Init, WindowOK
<1>4. WorkerOK
  <2>1. ctl \in CtlStates /\ ctl.pending = <<>> /\ ctl.inFlight = 0 /\ ctl.flowPaused = FALSE
    BY <1>1, <1>2 DEF Init, CtlStates
  <2>2. PendingUnits(ctl) = 0
    BY <1>2, <2>1, PendingIsTally, TallyEmpty, Zenon
  <2>3. Loaded(ctl)
    BY <1>1, <2>1, <2>2, ZeroCapped DEF Loaded
  <2>4. emulator = 0
    BY DEF Init
  <2>5. QED
    BY <1>1, <2>1, <2>2, <2>3, <2>4 DEF WorkerOK, Heavy
<1>5. CliOK
  <2>1. cli \in CliStates
    BY <1>1, <1>2 DEF Init, CliStates
  <2>2. cli.pending = <<>> /\ cli.channelPaused = FALSE /\ cli.outputPaused = FALSE
    BY DEF Init
  <2>3. QED
    BY <1>1, <2>1, <2>2, NothingCounts DEF CliOK, Kept, Armed, Watched
<1>6. WiresOK /\ HistoryOK
  BY <1>1, <1>2 DEF Init, WiresOK, HistoryOK
<1>7. PauseKnown
  <2>1. toCli = <<>> /\ cli.remotePaused = FALSE
    BY DEF Init
  <2>2. QED
    BY <2>1 DEF PauseKnown, LastPause
<1>8. QED
  BY <1>3, <1>4, <1>5, <1>6, <1>7 DEF StreamInv

\* A step of WebRtcCli that takes no order.
LEMMA CliStepKeeps ==
  ASSUME StreamInv, CliOK', toCtl' \in Seq(Messages), cli'.remotePaused => cli.remotePaused,
         UNCHANGED <<win, signals, worker, toCli>>, flickers' \in 0..MaxFlickers
  PROVE  StreamInv'
<1>1. /\ win' = win /\ signals' = signals /\ ctl' = ctl /\ ingress' = ingress /\ batch' = batch
      /\ emulator' = emulator /\ shown' = shown /\ torn' = torn /\ toCli' = toCli
  BY DEF worker
<1>2. WindowOK' /\ WorkerOK' /\ WiresOK' /\ HistoryOK'
  <2>1. WorkerOK'
    BY <1>1 DEF StreamInv, WorkerOK, Heavy, QueuedBytes, Loaded, PendingUnits
  <2>2. QED
    BY <1>1, <2>1 DEF StreamInv, WindowOK, WiresOK, HistoryOK
<1>3. PauseKnown'
  BY <1>1, Zenon DEF StreamInv, PauseKnown, LastPause
<1>4. QED
  BY <1>2, <1>3 DEF StreamInv

\* Its helpers' results, taken without an order.
LEMMA TakesKeeps ==
  ASSUME StreamInv, NEW r, Takes(r), Served(r), Armed(r.c), Watched(r.c),
         r.c.remotePaused => cli.remotePaused, CliAlone
  PROVE  StreamInv'
<1>1. cli' = r.c /\ toCtl' = toCtl \o r.sent
  BY DEF Takes
<1>2. CliOK'
  <2>1. Kept(r.c)
    BY DEF Served
  <2>2. QED
    BY <1>1, <2>1, Zenon DEF CliOK, Kept, Armed, Watched
<1>3. toCtl' \in Seq(Messages)
  <2>1. toCtl \in Seq(Messages) /\ r.sent \in Seq(Messages)
    BY DEF StreamInv, WiresOK, Served
  <2>2. \A s, t \in Seq(Messages) : s \o t \in Seq(Messages)
    OBVIOUS
  <2>3. QED
    BY <1>1, <2>1, <2>2, Zenon
<1>4. UNCHANGED <<win, signals, worker, toCli>> /\ flickers' \in 0..MaxFlickers
  BY DEF CliAlone, StreamInv, HistoryOK
<1>5. cli'.remotePaused => cli.remotePaused
  BY <1>1
<1>6. QED
  BY <1>2, <1>3, <1>4, <1>5, CliStepKeeps

LEMMA onTerminalErrorKeeps ==
  ASSUME StreamInv, onTerminalError
  PROVE  StreamInv'
<1>1. PICK gone \in Gone : Takes(EndOfShell(cli, gone))
  BY DEF onTerminalError
<1>2. Kept(cli) /\ Armed(cli) /\ toCtl \in Seq(Messages) /\ CliAlone
  BY DEF StreamInv, CliOK, WiresOK, onTerminalError
<1>3. PICK r : r = EndOfShell(cli, gone)
  OBVIOUS
<1>4. Served(r) /\ Armed(r.c) /\ ~r.c.remotePaused /\ ~r.c.outputPaused
  BY <1>2, <1>3, EndOfShellKeeps
<1>5. QED
  BY <1>1, <1>2, <1>3, <1>4, TakesKeeps DEF Watched

LEMMA PollTimerKeeps ==
  ASSUME StreamInv, PollTimer
  PROVE  StreamInv'
<1>1. PICK gone \in Gone : Takes(pollTerminalBackpressure(cli, gone))
  BY DEF PollTimer
<1>2. Kept(cli) /\ Armed(cli) /\ Watched(cli) /\ toCtl \in Seq(Messages) /\ CliAlone
  BY DEF StreamInv, CliOK, WiresOK, PollTimer
<1>3. PICK r : r = pollTerminalBackpressure(cli, gone)
  OBVIOUS
<1>4. Served(r) /\ Armed(r.c) /\ Watched(r.c) /\ r.c.remotePaused = cli.remotePaused
  BY <1>2, <1>3, PollKeeps
<1>5. QED
  BY <1>1, <1>2, <1>3, <1>4, TakesKeeps

LEMMA HandleSignalKeeps ==
  ASSUME StreamInv, HandleSignal
  PROVE  StreamInv'
<1> DEFINE rest == [cli EXCEPT !.emitted = Tail(@)]
           m == Head(cli.emitted)
<1>1. cli.emitted # <<>> /\ CliAlone
  BY DEF HandleSignal
<1>2. PICK gone \in Gone : Takes(IF m = Exit THEN EndOfShell(rest, gone)
                                 ELSE onTerminalOutputReady(rest, m, gone))
  BY DEF HandleSignal
<1>3. /\ cli \in CliStates /\ Kept(cli) /\ Armed(cli) /\ Watched(cli)
      /\ toCtl \in Seq(Messages) /\ cli.emitted \in Seq(Outputs \cup {Exit})
  BY DEF StreamInv, CliOK, WiresOK, Kept, CliStates
<1>4. m \in Outputs \cup {Exit} /\ Tail(cli.emitted) \in Seq(Outputs \cup {Exit})
  BY <1>1, <1>3
<1>5. rest \in CliStates
  BY <1>3, <1>4, Zenon DEF CliStates
<1>6. /\ rest.pending = cli.pending /\ rest.channelPaused = cli.channelPaused
      /\ rest.pollTimer = cli.pollTimer /\ rest.outputPaused = cli.outputPaused
      /\ rest.remotePaused = cli.remotePaused
  BY <1>3 DEF CliStates
<1> HIDE DEF rest, m
<1>7. Kept(rest) /\ Armed(rest) /\ Watched(rest)
  BY <1>3, <1>5, <1>6 DEF Kept, Armed, Watched
<1>8. CASE m = Exit
  <2>1. PICK r : r = EndOfShell(rest, gone)
    OBVIOUS
  <2>2. Served(r) /\ Armed(r.c) /\ ~r.c.remotePaused /\ ~r.c.outputPaused
    BY <1>3, <1>7, <2>1, EndOfShellKeeps
  <2>3. QED
    BY <1>1, <1>2, <1>8, <2>1, <2>2, TakesKeeps DEF Watched
<1>9. CASE m # Exit
  <2>1. PICK r : r = onTerminalOutputReady(rest, m, gone)
    OBVIOUS
  <2>2. m \in Outputs
    BY <1>4, <1>9
  <2>3. Served(r) /\ Armed(r.c) /\ Watched(r.c) /\ r.c.remotePaused = cli.remotePaused
    BY <1>6, <1>7, <2>1, <2>2, OutputReadyKeeps
  <2>4. QED
    BY <1>1, <1>2, <1>9, <2>1, <2>3, TakesKeeps
<1>10. QED
  BY <1>8, <1>9

\* A step of the shell changes only what it wrote and signalled.
LEMMA ShellStepKeeps ==
  ASSUME StreamInv, cli' \in CliStates,
         cli'.pending = cli.pending, cli'.channelPaused = cli.channelPaused,
         cli'.pollTimer = cli.pollTimer, cli'.outputPaused = cli.outputPaused,
         cli'.remotePaused = cli.remotePaused,
         UNCHANGED <<win, signals, worker, network>>, flickers' \in 0..MaxFlickers
  PROVE  StreamInv'
<1>1. CliOK'
  BY Zenon DEF StreamInv, CliOK, Kept, Armed, Watched
<1>2. toCtl' \in Seq(Messages) /\ UNCHANGED <<win, signals, worker, toCli>>
  BY DEF network, StreamInv, WiresOK
<1>3. QED
  BY <1>1, <1>2, CliStepKeeps

LEMMA ShellKeeps ==
  ASSUME StreamInv, ShellNext
  PROVE  StreamInv'
<1>1. cli \in CliStates /\ cli.written \in Nat /\ cli.request \in Requests
  BY DEF StreamInv, CliOK, Kept, CliStates
<1>2. cli.emitted \in Seq(Outputs \cup {Exit})
  BY DEF StreamInv, CliOK, Kept, CliStates
<1>3. flickers \in 0..MaxFlickers
  BY DEF StreamInv, HistoryOK
<1>4. CASE ShellWrites
  <2>1. UNCHANGED <<win, signals, worker, network, flickers>>
    BY <1>4 DEF ShellWrites, CliAlone, network
  <2>2. PICK w, m, e :
          /\ \E big \in BOOLEAN : m = Output(cli.request, w, big)
          /\ w = cli.written + 1
          /\ e = Append(cli.emitted, m)
          /\ cli' = [cli EXCEPT !.written = w, !.hoard = FALSE, !.emitted = e]
    <3>1. cli.hoard \in BOOLEAN
      BY <1>1 DEF CliStates
    <3>2. QED
      BY <1>4, <3>1, Zenon DEF ShellWrites
  <2>3. w \in Nat /\ m \in Outputs
    BY <1>1, <2>2 DEF Output, Outputs
  <2>4. e \in Seq(Outputs \cup {Exit})
    BY <1>2, <2>2, <2>3
  <2>5. cli' \in CliStates
    BY <1>1, <2>2, <2>3, <2>4, Zenon DEF CliStates
  <2>6. /\ cli'.pending = cli.pending /\ cli'.channelPaused = cli.channelPaused
        /\ cli'.pollTimer = cli.pollTimer /\ cli'.outputPaused = cli.outputPaused
        /\ cli'.remotePaused = cli.remotePaused
    BY <1>1, <2>2 DEF CliStates
  <2>7. QED
    BY <1>3, <2>1, <2>5, <2>6, ShellStepKeeps
<1>5. CASE ProcessHoards
  <2>1. UNCHANGED <<win, signals, worker, network, flickers>> /\ cli' = [cli EXCEPT !.hoard = TRUE]
    BY <1>5 DEF ProcessHoards, CliAlone, network
  <2>2. cli' \in CliStates
    BY <1>1, <2>1, Zenon DEF CliStates
  <2>3. /\ cli'.pending = cli.pending /\ cli'.channelPaused = cli.channelPaused
        /\ cli'.pollTimer = cli.pollTimer /\ cli'.outputPaused = cli.outputPaused
        /\ cli'.remotePaused = cli.remotePaused
    BY <1>1, <2>1 DEF CliStates
  <2>4. QED
    BY <1>3, <2>1, <2>2, <2>3, ShellStepKeeps
<1>6. CASE ShellExits
  <2>1. UNCHANGED <<win, signals, worker, network, flickers>>
    BY <1>6 DEF ShellExits, CliAlone, network
  <2>2. PICK e : e = Append(cli.emitted, Exit) /\ cli' = [cli EXCEPT !.emitted = e]
    BY <1>6, Zenon DEF ShellExits
  <2>3. e \in Seq(Outputs \cup {Exit})
    BY <1>2, <2>2
  <2>4. cli' \in CliStates
    BY <1>1, <2>2, <2>3, Zenon DEF CliStates
  <2>5. /\ cli'.pending = cli.pending /\ cli'.channelPaused = cli.channelPaused
        /\ cli'.pollTimer = cli.pollTimer /\ cli'.outputPaused = cli.outputPaused
        /\ cli'.remotePaused = cli.remotePaused
    BY <1>1, <2>2 DEF CliStates
  <2>6. QED
    BY <1>3, <2>1, <2>4, <2>5, ShellStepKeeps
<1>7. QED
  BY <1>4, <1>5, <1>6, onTerminalErrorKeeps DEF ShellNext

LEMMA FlickerKeeps ==
  ASSUME StreamInv, ConnectionFlickers
  PROVE  StreamInv'
<1>1. cli \in CliStates /\ flickers \in 0..MaxFlickers /\ MaxFlickers \in Nat
  BY LimitsAreNumbers DEF StreamInv, CliOK, Kept, HistoryOK
<1>2. cli' = [cli EXCEPT !.connected = ~cli.connected]
  BY DEF ConnectionFlickers
<1>3. UNCHANGED <<win, signals, worker, network>>
  BY DEF ConnectionFlickers
<1>4. flickers' \in 0..MaxFlickers
  BY <1>1 DEF ConnectionFlickers
<1>5. cli' \in CliStates
  BY <1>1, <1>2, Zenon DEF CliStates
<1>6. /\ cli'.pending = cli.pending /\ cli'.channelPaused = cli.channelPaused
      /\ cli'.pollTimer = cli.pollTimer /\ cli'.outputPaused = cli.outputPaused
      /\ cli'.remotePaused = cli.remotePaused
  BY <1>1, <1>2 DEF CliStates
<1>7. QED
  BY <1>3, <1>4, <1>5, <1>6, ShellStepKeeps

\* A step of WebRtcCli that takes an order: the pause in force at the end of
\* the line is the same one, or there is none.
LEMMA OrderTaken ==
  ASSUME StreamInv, CliOK', toCtl' \in Seq(Messages),
         toCli # <<>>, toCli' = Tail(toCli), cli'.remotePaused => Head(toCli) = Flow(FALSE),
         UNCHANGED <<win, signals, worker, flickers>>
  PROVE  StreamInv'
<1>1. /\ win' = win /\ signals' = signals /\ ctl' = ctl /\ ingress' = ingress /\ batch' = batch
      /\ emulator' = emulator /\ shown' = shown /\ torn' = torn /\ flickers' = flickers
  BY DEF worker
<1>2. toCli \in Seq(Orders)
  BY DEF StreamInv, WiresOK
<1>3. /\ toCli' \in Seq(Orders)
      /\ IF toCli' = <<>> THEN Last(toCli) = Head(toCli) ELSE Last(toCli') = Last(toCli)
  BY <1>2, LastOfTail, Zenon
<1>4. WindowOK' /\ WorkerOK' /\ WiresOK' /\ HistoryOK'
  <2>1. WorkerOK'
    BY <1>1 DEF StreamInv, WorkerOK, Heavy, QueuedBytes, Loaded, PendingUnits
  <2>2. QED
    BY <1>1, <1>3, <2>1 DEF StreamInv, WindowOK, WiresOK, HistoryOK
<1>5. PauseKnown'
  BY <1>1, <1>3, Zenon DEF StreamInv, PauseKnown, LastPause
<1>6. QED
  BY <1>4, <1>5 DEF StreamInv

LEMMA HearStartKeeps ==
  ASSUME StreamInv, HearStart
  PROVE  StreamInv'
<1>1. /\ toCli # <<>> /\ toCli' = Tail(toCli) /\ Head(toCli).type = "start"
      /\ UNCHANGED <<win, signals, worker, flickers>>
  BY DEF HearStart
<1>2. Kept(cli) /\ toCtl \in Seq(Messages) /\ toCli \in Seq(Orders)
  BY DEF StreamInv, CliOK, WiresOK
<1>3. Head(toCli) \in StartOrders
  <2>1. Head(toCli) \in Orders
    BY <1>1, <1>2
  <2>2. QED
    BY <1>1, <2>1 DEF Orders, Stop, Flow
<1>4. PICK mode \in {"none", "pty", "pipe"}, gone \in Gone :
        Takes([Started(cli, mode, gone) EXCEPT !.c = PausesCleared(@)])
  BY DEF HearStart
<1>r. PICK r : /\ r = Started(cli, mode, gone)
               /\ cli' = PausesCleared(r.c) /\ toCtl' = toCtl \o r.sent
  <2>1. PICK r : r = Started(cli, mode, gone)
    OBVIOUS
  <2>2. r = [c |-> r.c, sent |-> r.sent]
    BY <1>2, <1>3, <2>1, StartedKeeps
  <2>3. QED
    BY <1>4, <2>1, <2>2 DEF Takes
<1>5. Served(r) /\ Timed(r.c)
  BY <1>2, <1>3, <1>r, StartedKeeps
<1>6. Kept(cli') /\ Armed(cli') /\ Watched(cli') /\ cli'.remotePaused = FALSE
  BY <1>r, <1>5, PausesClearedKeeps, Zenon DEF Served
<1>7. toCtl' \in Seq(Messages)
  <2>1. \A s, t \in Seq(Messages) : s \o t \in Seq(Messages)
    OBVIOUS
  <2>2. QED
    BY <1>2, <1>r, <1>5, <2>1, Zenon DEF Served
<1>8. CliOK'
  BY <1>6, Zenon DEF CliOK, Kept, Armed, Watched
<1>9. QED
  BY <1>1, <1>6, <1>7, <1>8, OrderTaken, Zenon

LEMMA HearStopKeeps ==
  ASSUME StreamInv, HearStop
  PROVE  StreamInv'
<1>1. /\ toCli # <<>> /\ toCli' = Tail(toCli)
      /\ UNCHANGED <<win, signals, worker, flickers>> /\ toCtl' = toCtl
      /\ cli' = [PausesCleared(NewGeneration(cli)) EXCEPT !.session = "none"]
  BY DEF HearStop
<1>2. Kept(cli) /\ toCtl \in Seq(Messages)
  BY DEF StreamInv, CliOK, WiresOK
<1>3. PICK d : d = NewGeneration(cli)
  OBVIOUS
<1>4. d \in CliStates /\ d.pending = <<>> /\ d.outputPaused = FALSE
  BY <1>2, <1>3, NewGenerationKeeps, Zenon
<1>5. PICK e : e = PausesCleared(d)
  OBVIOUS
<1>6. /\ e \in CliStates /\ e.pending = <<>> /\ e.outputPaused = FALSE
      /\ e.channelPaused = FALSE /\ e.remotePaused = FALSE
  BY <1>4, <1>5, Zenon DEF PausesCleared, CliStates
<1>7. cli' = [e EXCEPT !.session = "none"]
  BY <1>1, <1>3, <1>5
<1>8. /\ cli' \in CliStates /\ cli'.pending = <<>> /\ cli'.outputPaused = FALSE
      /\ cli'.channelPaused = FALSE /\ cli'.remotePaused = FALSE
  BY <1>6, <1>7 DEF CliStates
<1>9. CliOK'
  <2>1. Units(<<>>) <= MaxPendingCli
    BY NothingCounts, LimitsAreNumbers
  <2>2. QED
    BY <1>8, <2>1, Zenon DEF CliOK, Kept, Armed, Watched
<1>10. toCtl' \in Seq(Messages)
  BY <1>1, <1>2
<1>11. QED
  BY <1>1, <1>8, <1>9, <1>10, OrderTaken, Zenon

LEMMA HearFlowKeeps ==
  ASSUME StreamInv, HearFlow
  PROVE  StreamInv'
<1>1. /\ toCli # <<>> /\ toCli' = Tail(toCli) /\ Head(toCli).type = "flow"
      /\ UNCHANGED <<win, signals, worker, flickers>> /\ toCtl' = toCtl
  BY DEF HearFlow
<1>2. /\ Kept(cli) /\ cli \in CliStates /\ Armed(cli) /\ toCtl \in Seq(Messages)
      /\ toCli \in Seq(Orders)
  BY DEF StreamInv, CliOK, WiresOK, Kept
<1>3. Head(toCli) = Flow(FALSE) \/ Head(toCli) = Flow(TRUE)
  <2>1. Head(toCli) \in Orders
    BY <1>1, <1>2
  <2>2. Stop.type = "stop" /\ \A m \in StartOrders : m.type = "start"
    BY DEF Stop, StartOrders
  <2>3. QED
    BY <1>1, <2>1, <2>2, Zenon DEF Orders
<1>4. PICK paused \in BOOLEAN, out \in BOOLEAN :
        /\ paused => Head(toCli) = Flow(FALSE)
        /\ out => paused \/ cli.channelPaused
        /\ cli' = [cli EXCEPT !.remotePaused = paused, !.outputPaused = out]
  <2>1. PICK paused, out :
          /\ paused = ~Head(toCli).enabled
          /\ out = (cli.session # "none" /\ (paused \/ cli.channelPaused))
          /\ cli' = [cli EXCEPT !.remotePaused = paused, !.outputPaused = out]
    BY Zenon DEF HearFlow
  <2>2. Flow(FALSE).enabled = FALSE /\ Flow(TRUE).enabled = TRUE
    BY DEF Flow
  <2>3. paused \in BOOLEAN /\ out \in BOOLEAN
    BY <2>1, Zenon
  <2>4. paused => Head(toCli) = Flow(FALSE)
    BY <1>3, <2>1, <2>2, Zenon
  <2>5. QED
    BY <2>1, <2>3, <2>4, Zenon
<1>5. /\ cli' \in CliStates /\ cli'.pending = cli.pending
      /\ cli'.channelPaused = cli.channelPaused /\ cli'.pollTimer = cli.pollTimer
      /\ cli'.outputPaused = out /\ cli'.remotePaused = paused
  BY <1>2, <1>4, Zenon DEF CliStates
<1>6. CliOK'
  BY <1>2, <1>4, <1>5, Zenon DEF CliOK, Kept, Armed, Watched
<1>7. toCtl' \in Seq(Messages) /\ (cli'.remotePaused => Head(toCli) = Flow(FALSE))
  BY <1>1, <1>2, <1>4, <1>5, Zenon
<1>8. QED
  BY <1>1, <1>6, <1>7, OrderTaken, Zenon

-----------------------------------------------------------------------------
(* The worker and the window.                                              *)

\* A step that leaves cli alone and may send it an order, which is a pause only
\* if ctl knows of it.
LEMMA OrderSent ==
  ASSUME StreamInv, WindowOK', WorkerOK', HistoryOK', cli' = cli,
         ingress' \in Seq(Messages), batch' \in Seq(Messages), toCtl' \in Seq(Messages),
         signals' \in Seq(Events), torn \subseteq torn',
         \/ toCli' = toCli /\ (ctl.flowPaused => ctl'.flowPaused)
         \/ \E x \in Orders : /\ toCli' = Append(toCli, x)
                              /\ x = Flow(FALSE) => ctl'.flowPaused \/ torn' # {}
  PROVE  StreamInv'
<1>1. toCli \in Seq(Orders)
  BY DEF StreamInv, WiresOK
<1>2. CliOK'
  BY Zenon DEF StreamInv, CliOK, Kept, Armed, Watched
<1>3. CASE toCli' = toCli /\ (ctl.flowPaused => ctl'.flowPaused)
  <2>1. PauseKnown'
    <3>1. torn # {} => torn' # {}
      OBVIOUS
    <3>2. LastPause' = LastPause
      BY <1>3, Zenon DEF LastPause
    <3>3. QED
      BY <1>3, <3>1, <3>2, Zenon DEF StreamInv, PauseKnown
  <2>2. QED
    BY <1>1, <1>2, <1>3, <2>1, Zenon DEF StreamInv, WiresOK
<1>4. ASSUME NEW x \in Orders, toCli' = Append(toCli, x),
             x = Flow(FALSE) => ctl'.flowPaused \/ torn' # {}
      PROVE  StreamInv'
  <2>1. toCli' \in Seq(Orders) /\ toCli' # <<>> /\ Last(toCli') = x
    BY <1>1, <1>4, LastOfAppend
  <2>2. PauseKnown'
    BY <1>4, <2>1, Zenon DEF PauseKnown, LastPause
  <2>3. QED
    BY <1>2, <2>1, <2>2, Zenon DEF StreamInv, WiresOK
<1>5. QED
  BY <1>3, <1>4, Zenon

\* A step that ends with updateTerminalFlowControl.
LEMMA FlowStepKeeps ==
  ASSUME StreamInv, NEW c, c \in CtlStates, PendingUnits(c) <= MaxPendingCtl,
         c.flowPaused = ctl.flowPaused, NEW in, in \in Seq(Messages), ingress' = in,
         updateTerminalFlowControl(c, in), emulator' \in Nat, c.inFlight <= emulator',
         batch' \in Seq(Messages), shown' \in Seq(Chunks),
         UNCHANGED <<win, signals, toCtl, cli, flickers, torn>>
  PROVE  StreamInv'
<1>1. toCli \in Seq(Orders) /\ toCtl \in Seq(Messages) /\ signals \in Seq(Events)
  BY DEF StreamInv, WiresOK
<1>2. /\ ctl' \in CtlStates /\ ctl'.inFlight = c.inFlight /\ PendingUnits(ctl') = PendingUnits(c)
      /\ Loaded(ctl')
      /\ ctl'.flowPaused => QueuedBytes(ctl', in) > FlowLow
      /\ \/ toCli' = toCli /\ ctl'.flowPaused = c.flowPaused
         \/ toCli' = Append(toCli, Flow(FALSE)) /\ ctl'.flowPaused
         \/ toCli' = Append(toCli, Flow(TRUE))
  BY <1>1, FlowControl, Zenon
<1>3. WorkerOK'
  BY <1>2, Zenon DEF WorkerOK, Heavy
<1>4. WindowOK' /\ HistoryOK'
  BY DEF StreamInv, WindowOK, HistoryOK
<1>5. \/ toCli' = toCli /\ (ctl.flowPaused => ctl'.flowPaused)
      \/ \E x \in Orders : /\ toCli' = Append(toCli, x)
                           /\ x = Flow(FALSE) => ctl'.flowPaused \/ torn' # {}
  BY <1>2, OrdersDiffer, Zenon
<1>6. QED
  BY <1>1, <1>3, <1>4, <1>5, OrderSent, Zenon

LEMMA DeliverKeeps ==
  ASSUME StreamInv, Deliver
  PROVE  StreamInv'
<1>1. toCtl # <<>> /\ toCtl' = Tail(toCtl) /\ ingress' = Append(ingress, Head(toCtl))
  BY DEF Deliver
<1>2. UNCHANGED <<win, signals, ctl, batch, emulator, shown, torn, toCli, cli, flickers>>
  BY DEF Deliver
<1>3. /\ toCtl \in Seq(Messages) /\ ingress \in Seq(Messages) /\ batch \in Seq(Messages)
      /\ signals \in Seq(Events)
  BY DEF StreamInv, WiresOK
<1>4. Head(toCtl) \in Messages /\ toCtl' \in Seq(Messages)
  BY <1>1, <1>3
<1>5. ingress' \in Seq(Messages) /\ Units(ingress') >= Units(ingress)
  BY <1>1, <1>3, <1>4, UnitsGrow
<1>6. Units(ingress) \in Nat /\ Units(ingress') \in Nat
  BY <1>3, <1>5, UnitsType
<1>7. WorkerOK'
  <2>1. ctl \in CtlStates /\ PendingUnits(ctl) \in Nat /\ ctl.inFlight \in Nat
    BY PendingType DEF StreamInv, WorkerOK, CtlStates
  <2>2. PICK p, f, u, v : /\ p = Capped(PendingUnits(ctl)) /\ f = Capped(ctl.inFlight)
                          /\ u = Capped(Units(ingress)) /\ v = Capped(Units(ingress'))
    OBVIOUS
  <2>3. p \in Nat /\ f \in Nat /\ u \in Nat /\ v \in Nat /\ u <= v
    BY <1>5, <1>6, <2>1, <2>2, CappedType, Zenon
  <2>4. QueuedBytes(ctl, ingress) = u + p + f
    BY <2>2 DEF QueuedBytes
  <2>5. QueuedBytes(ctl', ingress') = v + p + f
    BY <1>2, <2>2 DEF QueuedBytes
  <2>6. Heavy'
    <3>1. u + p + f > FlowLow => v + p + f > FlowLow
      BY <2>3, LimitsAreNumbers
    <3>2. ctl.flowPaused => u + p + f > FlowLow
      BY <2>4, Zenon DEF StreamInv, WorkerOK, Heavy
    <3>3. QED
      BY <1>2, <2>5, <3>1, <3>2, Zenon DEF Heavy
  <2>7. QED
    BY <1>2, <2>6, Zenon DEF StreamInv, WorkerOK, Loaded, PendingUnits
<1>8. WindowOK' /\ HistoryOK'
  BY <1>2 DEF StreamInv, WindowOK, HistoryOK
<1>9. QED
  BY <1>2, <1>3, <1>4, <1>5, <1>7, <1>8, OrderSent, Zenon

\* What drainFileTextIngress takes, and what it leaves.
LEMMA DrainSplits ==
  ASSUME StreamInv, drainFileTextIngress
  PROVE  \E b, in \in Seq(Messages) :
           /\ b \o in = ingress
           /\ batch' = b /\ ingress' = in /\ updateTerminalFlowControl(ctl, in)
<1>1. PICK n : /\ n = IF Len(ingress) < MaxDrain THEN Len(ingress) ELSE MaxDrain
               /\ batch' = SubSeq(ingress, 1, n)
               /\ ingress' = SubSeq(ingress, n + 1, Len(ingress))
               /\ updateTerminalFlowControl(ctl, SubSeq(ingress, n + 1, Len(ingress)))
  BY Zenon DEF drainFileTextIngress
<1>2. ingress \in Seq(Messages) /\ Len(ingress) \in Nat
  BY DEF StreamInv, WiresOK
<1>3. n \in Nat /\ n <= Len(ingress)
  BY <1>1, <1>2, DrainAssumption
<1>4. PICK b, in : b = SubSeq(ingress, 1, n) /\ in = SubSeq(ingress, n + 1, Len(ingress))
  OBVIOUS
<1>5. b \in Seq(Messages) /\ in \in Seq(Messages)
  BY <1>2, <1>3, <1>4
<1>6. b \o in = ingress
  <2>1. /\ Len(b) = n /\ Len(in) = Len(ingress) - n
        /\ \A i \in 1..n : b[i] = ingress[i]
        /\ \A i \in 1..Len(ingress) - n : in[i] = ingress[n + i]
    BY <1>2, <1>3, <1>4
  <2>2. b \o in \in Seq(Messages) /\ Len(b \o in) = Len(ingress)
    <3>1. b \o in \in Seq(Messages) /\ Len(b \o in) = Len(b) + Len(in)
      BY <1>5
    <3> QED
      BY <1>2, <1>3, <2>1, <3>1
  <2>3. ASSUME NEW i \in 1..Len(ingress)
        PROVE  (b \o in)[i] = ingress[i]
    <3>1. CASE i <= n
      BY <1>2, <1>3, <1>5, <2>1, <3>1
    <3>2. CASE i > n
      <4>1. i - n \in 1..Len(ingress) - n /\ n + (i - n) = i
        BY <1>2, <1>3, <3>2
      <4>2. (b \o in)[i] = in[i - n]
        BY <1>2, <1>3, <1>5, <2>1, <3>2, <4>1
      <4> QED
        BY <2>1, <4>1, <4>2
    <3>3. i <= n \/ i > n
      BY <1>2, <1>3
    <3> QED
      BY <3>1, <3>2, <3>3, Zenon
  <2>4. \A i \in 1..Len(b \o in) : (b \o in)[i] = ingress[i]
    BY <2>2, <2>3, Zenon
  <2> QED
    BY <1>2, <2>2, <2>4, SeqEqual, Zenon
<1>7. QED
  BY <1>1, <1>4, <1>5, <1>6

LEMMA DrainKeepsStream ==
  ASSUME StreamInv, drainFileTextIngress
  PROVE  StreamInv'
<1>1. PICK b, in \in Seq(Messages) :
        batch' = b /\ ingress' = in /\ updateTerminalFlowControl(ctl, in)
  BY DrainSplits, Zenon
<1>5. UNCHANGED <<win, signals, emulator, shown, torn, toCtl, cli, flickers>>
  BY DEF drainFileTextIngress
<1>2. /\ ctl \in CtlStates /\ PendingUnits(ctl) <= MaxPendingCtl
      /\ emulator \in Nat /\ ctl.inFlight <= emulator
  BY DEF StreamInv, WorkerOK
<1>3. shown \in Seq(Chunks)
  BY DEF StreamInv, HistoryOK
<1>4. QED
  BY <1>1, <1>2, <1>3, <1>5, FlowStepKeeps, Zenon

LEMMA AcknowledgeKeeps ==
  ASSUME StreamInv, acknowledgeTerminalOutput
  PROVE  StreamInv'
<1>1. PICK n : n = IF ctl.inFlight > 0 THEN ctl.inFlight - 1 ELSE 0
  OBVIOUS
<1>2. PICK c : c = [ctl EXCEPT !.inFlight = n]
  BY Zenon
<1>3. /\ emulator > 0 /\ emulator' = emulator - 1
      /\ updateTerminalFlowControl(c, ingress)
      /\ UNCHANGED <<win, signals, ingress, batch, shown, torn, toCtl, cli, flickers>>
  <2>1. updateTerminalFlowControl(
           [ctl EXCEPT !.inFlight = IF @ > 0 THEN @ - 1 ELSE 0], ingress)
    BY DEF acknowledgeTerminalOutput
  <2>2. [ctl EXCEPT !.inFlight = IF @ > 0 THEN @ - 1 ELSE 0] = c
    BY <1>1, <1>2
  <2>3. QED
    BY <2>1, <2>2 DEF acknowledgeTerminalOutput
<1>4. /\ ctl \in CtlStates /\ ctl.inFlight \in Nat /\ PendingUnits(ctl) <= MaxPendingCtl
      /\ emulator \in Nat /\ ctl.inFlight <= emulator
  BY DEF StreamInv, WorkerOK, CtlStates
<1>5. n \in Nat /\ emulator' \in Nat /\ n <= emulator'
  BY <1>1, <1>3, <1>4
<1>6. /\ c \in CtlStates /\ c.inFlight = n /\ c.flowPaused = ctl.flowPaused
      /\ c.pending = ctl.pending
  BY <1>2, <1>4, <1>5 DEF CtlStates
<1>7. PendingUnits(c) <= MaxPendingCtl
  BY <1>4, <1>6 DEF PendingUnits
<1>8. ingress \in Seq(Messages) /\ batch \in Seq(Messages) /\ shown \in Seq(Chunks)
  BY DEF StreamInv, WiresOK, HistoryOK
<1>9. PICK in : in = ingress
  OBVIOUS
<1>10. updateTerminalFlowControl(c, in) /\ ingress' = in /\ in \in Seq(Messages)
  BY <1>3, <1>8, <1>9
<1>11. QED
  BY <1>3, <1>5, <1>6, <1>7, <1>8, <1>10, FlowStepKeeps

LEMMA FlushKeeps ==
  ASSUME StreamInv, flushTerminalOutput
  PROVE  StreamInv'
<1>1. PICK u : u = IF Head(ctl.pending) = T!Mark THEN 0 ELSE 1
  OBVIOUS
<1>2. PICK c : c = [ctl EXCEPT !.pending = Tail(ctl.pending), !.inFlight = ctl.inFlight + u]
  OBVIOUS
<1>3. /\ ctl.pending # <<>> /\ emulator' = emulator + u
      /\ updateTerminalFlowControl(c, ingress)
      /\ shown' = Append(shown, Head(ctl.pending))
      /\ UNCHANGED <<win, signals, ingress, batch, torn, toCtl, cli, flickers>>
  <2>1. updateTerminalFlowControl([ctl EXCEPT !.pending = Tail(@), !.inFlight = @ + u], ingress)
    BY <1>1 DEF flushTerminalOutput
  <2>2. [ctl EXCEPT !.pending = Tail(@), !.inFlight = @ + u] = c
    BY <1>2
  <2>3. QED
    BY <1>1, <2>1, <2>2 DEF flushTerminalOutput
<1>4. /\ ctl \in CtlStates /\ ctl.inFlight \in Nat /\ ctl.pending \in Seq(Chunks)
      /\ PendingUnits(ctl) <= MaxPendingCtl /\ emulator \in Nat /\ ctl.inFlight <= emulator
  BY DEF StreamInv, WorkerOK, CtlStates
<1>5. u \in Nat
  BY <1>1
<1>6. Head(ctl.pending) \in Chunks /\ Tail(ctl.pending) \in Seq(Chunks)
  BY <1>3, <1>4
<1>7. /\ c \in CtlStates /\ c.inFlight = ctl.inFlight + u /\ c.flowPaused = ctl.flowPaused
      /\ c.pending = Tail(ctl.pending)
  <2>1. PICK f : f = ctl.inFlight + u
    OBVIOUS
  <2>2. f \in Nat
    BY <1>4, <1>5, <2>1
  <2>3. c = [ctl EXCEPT !.pending = Tail(ctl.pending), !.inFlight = f]
    BY <1>2, <2>1
  <2>4. QED
    BY <1>4, <1>6, <2>1, <2>2, <2>3, Zenon DEF CtlStates
<1>8. emulator' \in Nat /\ c.inFlight <= emulator'
  BY <1>3, <1>4, <1>5, <1>7
<1>9. PendingUnits(c) <= MaxPendingCtl
  <2>1. Tally(ctl.pending, Written) = Tally(Tail(ctl.pending), Written)
                                        + (IF Head(ctl.pending) \in Written THEN 1 ELSE 0)
    BY <1>3, <1>4, TallyTail
  <2>2. PendingUnits(c) = Tally(Tail(ctl.pending), Written)
    BY <1>6, <1>7, PendingIsTally, Zenon
  <2>3. PendingUnits(ctl) = Tally(ctl.pending, Written)
    BY <1>4, PendingIsTally
  <2>4. PendingUnits(c) \in Nat /\ PendingUnits(ctl) \in Nat
    BY <1>4, <1>6, <1>7, PendingType, Zenon
  <2>5. QED
    BY <1>4, <2>1, <2>2, <2>3, <2>4, LimitsAreNumbers
<1>10. /\ ingress \in Seq(Messages) /\ batch \in Seq(Messages)
       /\ Append(shown, Head(ctl.pending)) \in Seq(Chunks)
  BY <1>6 DEF StreamInv, WiresOK, HistoryOK
<1>11. PICK in : in = ingress
  OBVIOUS
<1>12. updateTerminalFlowControl(c, in) /\ ingress' = in /\ in \in Seq(Messages)
  BY <1>3, <1>10, <1>11
<1>13. QED
  BY <1>3, <1>7, <1>8, <1>9, <1>10, <1>12, FlowStepKeeps

\* A text that is accepted finds room for one more chunk.
LEMMA AcceptedText ==
  ASSUME NEW c, c \in CtlStates, PendingUnits(c) <= MaxPendingCtl, NEW m \in Outputs,
         ~(IsText(m) /\ PendingUnits(c) >= MaxPendingCtl), NEW p,
         p = c.pending \o (IF c.needsReset THEN <<T!Mark>> ELSE <<>>) \o TextOf(m)
  PROVE  p \in Seq(Chunks) /\ Tally(p, Written) <= MaxPendingCtl
<1>1. c.pending \in Seq(Chunks) /\ T!Mark \in Chunks
  BY MarkIsChunk DEF CtlStates
<1>2. PICK n \in Nat : n = PendingUnits(c)
  BY <1>1, PendingType
<1>3. Tally(c.pending, Written) = n
  BY <1>1, <1>2, PendingIsTally
<1>4. ASSUME NEW s \in Seq(Chunks)
      PROVE  /\ s \o <<T!Mark>> \in Seq(Chunks)
             /\ Tally(s \o <<T!Mark>>, Written) = Tally(s, Written)
  <2>1. s \o <<T!Mark>> = Append(s, T!Mark) /\ Append(s, T!Mark) \in Seq(Chunks)
    BY <1>1
  <2>2. Tally(Append(s, T!Mark), Written) =
          Tally(s, Written) + (IF T!Mark \in Written THEN 1 ELSE 0)
    BY <1>1, TallyAppend
  <2>3. T!Mark \notin Written /\ Tally(s, Written) \in Nat
    BY TallyType DEF Written
  <2>4. Tally(Append(s, T!Mark), Written) = Tally(s, Written)
    BY <2>2, <2>3
  <2>5. QED
    BY <2>1, <2>4, Zenon
<1>5. ASSUME NEW s \in Seq(Chunks), NEW x \in Chunks
      PROVE  /\ s \o <<x>> \in Seq(Chunks)
             /\ Tally(s \o <<x>>, Written) <= Tally(s, Written) + 1
  <2>1. s \o <<x>> = Append(s, x) /\ Append(s, x) \in Seq(Chunks)
    OBVIOUS
  <2>2. Tally(Append(s, x), Written) = Tally(s, Written) + (IF x \in Written THEN 1 ELSE 0)
    BY TallyAppend
  <2>3. Tally(s, Written) \in Nat
    BY TallyType
  <2>4. Tally(Append(s, x), Written) <= Tally(s, Written) + 1
    BY <2>2, <2>3
  <2>5. QED
    BY <2>1, <2>4, Zenon
<1>6. PICK s : s = c.pending \o (IF c.needsReset THEN <<T!Mark>> ELSE <<>>)
  BY Zenon
<1>7. s \in Seq(Chunks) /\ Tally(s, Written) = n
  <2>1. CASE c.needsReset
    BY <1>1, <1>3, <1>4, <1>6, <2>1, Zenon
  <2>2. CASE ~c.needsReset
    <3>1. c.pending \o <<>> = c.pending
      BY <1>1
    <3>2. QED
      BY <1>1, <1>3, <1>6, <2>2, <3>1, Zenon
  <2>3. QED
    BY <2>1, <2>2
<1>8. PICK q : q = s \o (IF m.reset THEN <<T!Mark>> ELSE <<>>)
  BY Zenon
<1>9. q \in Seq(Chunks) /\ Tally(q, Written) = n
  <2>1. CASE m.reset
    BY <1>4, <1>7, <1>8, <2>1, Zenon
  <2>2. CASE ~m.reset
    <3>1. s \o <<>> = s
      BY <1>7
    <3>2. QED
      BY <1>7, <1>8, <2>2, <3>1, Zenon
  <2>3. QED
    BY <2>1, <2>2
<1>10. T!Chunk(m.of, m.n) \in Chunks
  BY DEF T!Chunk, Chunks, Outputs
<1>11. p = q \o (IF m.n > 0 THEN <<T!Chunk(m.of, m.n)>> ELSE <<>>)
  <2>1. \A a, x, y \in Seq(Chunks) : (a \o x) \o y = a \o (x \o y)
    BY JoinedInTurn
  <2>2. <<>> \in Seq(Chunks) /\ \A x \in Chunks : <<x>> \in Seq(Chunks)
    OBVIOUS
  <2>3. PICK a, b : /\ a = (IF m.reset THEN <<T!Mark>> ELSE <<>>)
                    /\ b = (IF m.n > 0 THEN <<T!Chunk(m.of, m.n)>> ELSE <<>>)
    BY Zenon
  <2>4. a \in Seq(Chunks) /\ b \in Seq(Chunks)
    BY <1>1, <1>10, <2>2, <2>3, Zenon
  <2>5. p = s \o (a \o b) /\ q = s \o a
    BY <1>6, <1>8, <2>3, Zenon DEF TextOf
  <2>6. p = q \o b
    BY <1>7, <2>1, <2>4, <2>5, Zenon
  <2>7. QED
    BY <2>3, <2>6, Zenon
<1>12. CASE m.n > 0
  <2>1. n < MaxPendingCtl
    BY <1>2, <1>12, LimitsAreNumbers DEF IsText, Outputs
  <2>2. p = q \o <<T!Chunk(m.of, m.n)>>
    BY <1>11, <1>12, Zenon
  <2>3. p \in Seq(Chunks) /\ Tally(p, Written) <= n + 1
    BY <1>5, <1>9, <1>10, <2>2, Zenon
  <2>4. Tally(p, Written) \in Nat
    BY <2>3, TallyType, Zenon
  <2>5. QED
    BY <1>2, <2>1, <2>3, <2>4, LimitsAreNumbers
<1>13. CASE ~(m.n > 0)
  <2>1. p = q \o <<>>
    BY <1>11, <1>13, Zenon
  <2>3. q \o <<>> = q
    BY <1>9
  <2>2. QED
    BY <1>2, <1>9, <2>1, <2>3, Zenon
<1>14. QED
  BY <1>12, <1>13

LEMMA ProcessOutputKeeps ==
  ASSUME StreamInv, batch # <<>>, batch' = Tail(batch), ProcessOutput(Head(batch)),
         UNCHANGED <<win, ingress, toCtl, cli, flickers>>
  PROVE  StreamInv'
<1> DEFINE m == Head(batch)
<1>1. /\ batch \in Seq(Messages) /\ ingress \in Seq(Messages) /\ toCtl \in Seq(Messages)
      /\ toCli \in Seq(Orders) /\ signals \in Seq(Events) /\ shown \in Seq(Chunks)
  BY DEF StreamInv, WiresOK, HistoryOK
<1>2. m \in Messages /\ batch' \in Seq(Messages)
  BY <1>1
<1>3. m \in Outputs
  BY <1>2 DEF ProcessOutput, Messages, Events
<1>4. /\ ctl \in CtlStates /\ PendingUnits(ctl) <= MaxPendingCtl /\ Loaded(ctl) /\ Heavy
      /\ emulator \in Nat /\ ctl.inFlight <= emulator /\ ctl.inFlight \in Nat
      /\ ctl.pending \in Seq(Chunks)
  BY DEF StreamInv, WorkerOK, CtlStates
<1>5. UNCHANGED <<signals, emulator, shown>>
  BY DEF ProcessOutput
<1> HIDE DEF m
<1>6. CASE RefuseBig(m)
  <2>1. /\ toCli' = Append(toCli, Flow(FALSE)) /\ ctl' = ctl
        /\ torn' = torn \cup {T!Chunk(m.of, m.n)}
    BY <1>6 DEF RefuseBig
  <2>2. T!Chunk(m.of, m.n) \in Chunks
    BY <1>3 DEF T!Chunk, Chunks, Outputs
  <2>3. HistoryOK'
    BY <1>5, <2>1, <2>2 DEF StreamInv, HistoryOK
  <2>4. WindowOK' /\ WorkerOK'
    BY <1>5, <2>1 DEF StreamInv, WindowOK, WorkerOK, Heavy, Loaded, PendingUnits, QueuedBytes
  <2>5. torn \subseteq torn' /\ torn' # {}
    BY <2>1
  <2>6. \E x \in Orders : /\ toCli' = Append(toCli, x)
                          /\ x = Flow(FALSE) => ctl'.flowPaused \/ torn' # {}
    BY <2>1, <2>5, OrdersDiffer, Zenon
  <2>7. QED
    BY <1>1, <1>2, <1>5, <2>3, <2>4, <2>5, <2>6, OrderSent, Zenon
<1>7. CASE DropFull(m)
  <2>1. /\ toCli' = Append(toCli, Flow(FALSE)) /\ torn' = torn /\ IsFull(m)
        /\ ctl' = [ctl EXCEPT !.needsReset = TRUE]
    BY <1>7 DEF DropFull
  <2>2. /\ ctl' \in CtlStates /\ ctl'.pending = ctl.pending /\ ctl'.inFlight = ctl.inFlight
        /\ ctl'.flowPaused = ctl.flowPaused
    BY <1>4, <2>1, Zenon DEF CtlStates
  <2>3. ctl.flowPaused
    <3>1. PICK n \in Nat, f \in Nat : n = PendingUnits(ctl) /\ f = Capped(ctl.inFlight)
      BY <1>4, PendingType, CappedType, Zenon
    <3>2. n >= FlowHigh
      BY <2>1, <3>1, LimitsAreNumbers DEF IsFull
    <3>3. Capped(n) + f >= FlowHigh
      BY <3>1, <3>2, LimitsAreNumbers, CappedType
    <3>4. QED
      BY <1>4, <3>1, <3>3, Zenon DEF Loaded
  <2>4. WorkerOK'
    BY <1>4, <1>5, <2>2 DEF WorkerOK, Heavy, Loaded, PendingUnits, QueuedBytes
  <2>5. WindowOK' /\ HistoryOK' /\ torn \subseteq torn'
    BY <1>5, <2>1 DEF StreamInv, WindowOK, HistoryOK
  <2>6. \E x \in Orders : /\ toCli' = Append(toCli, x)
                          /\ x = Flow(FALSE) => ctl'.flowPaused \/ torn' # {}
    BY <2>1, <2>2, <2>3, OrdersDiffer, Zenon
  <2>7. QED
    BY <1>1, <1>2, <1>5, <2>4, <2>5, <2>6, OrderSent, Zenon
<1>8. CASE AcceptText(m)
  <2>1. /\ ~(IsText(m) /\ PendingUnits(ctl) >= MaxPendingCtl) /\ torn' = torn
        /\ updateTerminalFlowControl(WithText(m), ingress)
    BY <1>8 DEF AcceptText, IsFull
  <2>2. PICK p : p = ctl.pending \o (IF ctl.needsReset THEN <<T!Mark>> ELSE <<>>) \o TextOf(m)
    BY Zenon
  <2>3. PICK c, in : c = [ctl EXCEPT !.pending = p, !.needsReset = FALSE] /\ in = ingress
    OBVIOUS
  <2>4. WithText(m) = c
    BY <2>2, <2>3 DEF WithText
  <2>5. p \in Seq(Chunks) /\ Tally(p, Written) <= MaxPendingCtl
    BY <1>3, <1>4, <2>1, <2>2, AcceptedText, Zenon
  <2>6. /\ c \in CtlStates /\ c.pending = p /\ c.inFlight = ctl.inFlight
        /\ c.flowPaused = ctl.flowPaused
    BY <1>4, <2>3, <2>5, Zenon DEF CtlStates
  <2>7. PendingUnits(c) <= MaxPendingCtl
    BY <2>5, <2>6, PendingIsTally
  <2>8. updateTerminalFlowControl(c, in) /\ in \in Seq(Messages) /\ ingress' = in
    BY <1>1, <2>1, <2>3, <2>4
  <2>9. QED
    BY <1>1, <1>2, <1>4, <1>5, <2>1, <2>6, <2>7, <2>8, FlowStepKeeps
<1>9. QED
  BY <1>6, <1>7, <1>8 DEF ProcessOutput, m

LEMMA ProcessEndKeeps ==
  ASSUME StreamInv, batch # <<>>, batch' = Tail(batch), ProcessEnd(Head(batch)),
         UNCHANGED <<win, ingress, toCtl, cli, flickers>>
  PROVE  StreamInv'
<1> DEFINE m == Head(batch)
<1>1. /\ batch \in Seq(Messages) /\ ingress \in Seq(Messages) /\ toCtl \in Seq(Messages)
      /\ toCli \in Seq(Orders) /\ signals \in Seq(Events) /\ shown \in Seq(Chunks)
  BY DEF StreamInv, WiresOK, HistoryOK
<1>2. m \in Messages /\ batch' \in Seq(Messages)
  BY <1>1
<1>3. m \in Events
  BY <1>2 DEF ProcessEnd, Messages, Outputs
<1>4. ctl \in CtlStates /\ emulator \in Nat /\ ctl.pending \in Seq(Chunks)
  BY DEF StreamInv, WorkerOK, CtlStates
<1> HIDE DEF m
<1>5. /\ shown' = shown \o ctl.pending \o (IF ctl.needsReset THEN <<T!Mark>> ELSE <<>>)
                        \o <<T!End(m.of)>>
      /\ emulator' = emulator + PendingUnits(ctl)
      /\ ctl' = [ctl EXCEPT !.pending = <<>>, !.needsReset = FALSE,
                            !.inFlight = 0, !.flowPaused = FALSE]
      /\ toCli' = IF ctl.flowPaused THEN Append(toCli, Flow(TRUE)) ELSE toCli
      /\ signals' = Append(signals, m) /\ torn' = torn
  BY DEF ProcessEnd, m
<1>6. signals' \in Seq(Events)
  BY <1>1, <1>3, <1>5
<1>7. HistoryOK'
  <2>1. <<T!End(m.of)>> \in Seq(Chunks)
    <3>1. T!End(m.of) \in Chunks
      BY <1>3 DEF T!End, T!Chunk, Chunks, Events
    <3>2. \A x \in Chunks : <<x>> \in Seq(Chunks)
      OBVIOUS
    <3>3. QED
      BY <3>1, <3>2, Zenon
  <2>2. PICK a : a = (IF ctl.needsReset THEN <<T!Mark>> ELSE <<>>)
    BY Zenon
  <2>3. a \in Seq(Chunks)
    <3>1. <<>> \in Seq(Chunks) /\ \A x \in Chunks : <<x>> \in Seq(Chunks)
      OBVIOUS
    <3>2. QED
      BY <2>2, <3>1, MarkIsChunk, Zenon
  <2>4. \A s, t \in Seq(Chunks) : s \o t \in Seq(Chunks)
    OBVIOUS
  <2>5. shown' \in Seq(Chunks)
    BY <1>1, <1>4, <1>5, <2>1, <2>2, <2>3, <2>4, Zenon
  <2>6. QED
    BY <1>5, <2>5 DEF StreamInv, HistoryOK
<1>8. WorkerOK'
  <2>1. <<>> \in Seq(Chunks)
    OBVIOUS
  <2>2. /\ ctl' \in CtlStates /\ ctl'.pending = <<>> /\ ctl'.inFlight = 0
        /\ ctl'.flowPaused = FALSE
    BY <1>4, <1>5, <2>1, Zenon DEF CtlStates
  <2>3. PendingUnits(ctl') = 0
    BY <2>1, <2>2, PendingIsTally, TallyEmpty, Zenon
  <2>4. Loaded(ctl')
    <3>1. ~(0 + 0 >= FlowHigh)
      BY LimitsAreNumbers
    <3>2. QED
      BY <2>2, <2>3, <3>1, ZeroCapped, Zenon DEF Loaded
  <2>5. PendingUnits(ctl) \in Nat
    BY <1>4, PendingType
  <2>6. emulator' \in Nat /\ 0 <= emulator' /\ 0 <= MaxPendingCtl
    BY <1>4, <1>5, <2>5, LimitsAreNumbers, SMTT(40)
  <2>7. QED
    BY <2>2, <2>3, <2>4, <2>6, Zenon DEF WorkerOK, Heavy
<1>9. WindowOK'
  BY DEF StreamInv, WindowOK
<1>10. \/ toCli' = toCli /\ (ctl.flowPaused => ctl'.flowPaused)
       \/ \E x \in Orders : /\ toCli' = Append(toCli, x)
                            /\ x = Flow(FALSE) => ctl'.flowPaused \/ torn' # {}
  BY <1>5, OrdersDiffer, Zenon
<1>11. torn \subseteq torn'
  BY <1>5
<1>12. QED
  BY <1>1, <1>2, <1>6, <1>7, <1>8, <1>9, <1>10, <1>11, OrderSent, Zenon

LEMMA MessageKeeps ==
  ASSUME StreamInv, handleTerminalTextChannelObject
  PROVE  StreamInv'
<1> DEFINE m == Head(batch)
<1>1. /\ batch # <<>> /\ batch' = Tail(batch)
      /\ UNCHANGED <<win, ingress, toCtl, cli, flickers>>
  BY DEF handleTerminalTextChannelObject
<1>2. CASE ProcessOutput(m)
  BY <1>1, <1>2, ProcessOutputKeeps
<1>3. CASE ProcessEnd(m)
  BY <1>1, <1>3, ProcessEndKeeps
<1>4. CASE ProcessInfo(m) \/ IgnoreStale(m)
  <2>1. UNCHANGED <<ctl, emulator, shown, torn, toCli>>
    BY <1>4 DEF ProcessInfo, IgnoreStale
  <2>2. /\ batch \in Seq(Messages) /\ ingress \in Seq(Messages) /\ toCtl \in Seq(Messages)
        /\ signals \in Seq(Events)
    BY DEF StreamInv, WiresOK
  <2>3. m \in Messages /\ batch' \in Seq(Messages)
    BY <1>1, <2>2
  <2>4. signals' \in Seq(Events)
    <3>1. CASE ProcessInfo(m)
      <4>1. m \in Events /\ signals' = Append(signals, m)
        BY <2>3, <3>1 DEF ProcessInfo, Messages, Outputs
      <4>2. QED
        BY <2>2, <4>1
    <3>2. CASE IgnoreStale(m)
      BY <2>2, <3>2 DEF IgnoreStale
    <3>3. QED
      BY <1>4, <3>1, <3>2
  <2>5. WorkerOK'
    BY <1>1, <2>1 DEF StreamInv, WorkerOK, Heavy, Loaded, PendingUnits, QueuedBytes
  <2>6. WindowOK' /\ HistoryOK'
    BY <1>1, <2>1 DEF StreamInv, WindowOK, HistoryOK
  <2>7. QED
    BY <1>1, <2>1, <2>2, <2>3, <2>4, <2>5, <2>6, OrderSent, Zenon
<1>5. QED
  BY <1>2, <1>3, <1>4 DEF handleTerminalTextChannelObject

\* The window calls a shell or gives one up.
LEMMA CallKeeps ==
  ASSUME StreamInv, NEW fallback \in BOOLEAN, sendTerminalStart(fallback), WindowAlone
  PROVE  StreamInv'
<1>1. win.request \in Nat /\ win.request \in Requests
  BY LimitsAreNumbers DEF StreamInv, WindowOK, Requests
<1>2. PICK r : r = win.request + 1
  OBVIOUS
<1>3. r \in Requests
  BY <1>1, <1>2, LimitsAreNumbers DEF sendTerminalStart, Requests
<1>4. /\ win' = [started |-> TRUE, fallback |-> fallback, startTimer |-> TRUE, request |-> r]
      /\ beginTerminalStartGeneration(r)
      /\ toCli' = Append(toCli, Start(r, IF fallback THEN "fallback" ELSE "auto"))
  BY <1>2 DEF sendTerminalStart
<1>5. UNCHANGED <<signals, ingress, batch, emulator, shown, torn, toCtl, cli, flickers>>
  BY DEF WindowAlone
<1>6. /\ ctl \in CtlStates /\ emulator \in Nat
      /\ PendingUnits(ctl) <= MaxPendingCtl /\ Loaded(ctl) /\ Heavy /\ ctl.inFlight <= emulator
  BY DEF StreamInv, WorkerOK
<1>7. WorkerOK'
  <2>1. CASE ctl.request = 0
    <3>1. ctl' = [ctl EXCEPT !.request = r]
      BY <1>4, <2>1 DEF beginTerminalStartGeneration
    <3>2. /\ ctl' \in CtlStates /\ ctl'.pending = ctl.pending /\ ctl'.inFlight = ctl.inFlight
          /\ ctl'.flowPaused = ctl.flowPaused
      BY <1>3, <1>6, <3>1 DEF CtlStates
    <3>3. QED
      BY <1>5, <1>6, <3>2 DEF WorkerOK, Heavy, Loaded, PendingUnits, QueuedBytes
  <2>2. CASE ctl.request # 0
    <3>1. <<>> \in Seq(Chunks)
      OBVIOUS
    <3>2. ctl' = [request |-> r, pending |-> <<>>, needsReset |-> TRUE,
                  inFlight |-> 0, flowPaused |-> FALSE]
      BY <1>4, <2>2 DEF beginTerminalStartGeneration
    <3>3. /\ ctl' \in CtlStates /\ ctl'.pending = <<>> /\ ctl'.inFlight = 0
          /\ ctl'.flowPaused = FALSE
      BY <1>3, <3>1, <3>2 DEF CtlStates
    <3>4. PendingUnits(ctl') = 0
      BY <3>1, <3>3, PendingIsTally, TallyEmpty, Zenon
    <3>5. ~(0 + 0 >= FlowHigh) /\ 0 <= MaxPendingCtl /\ 0 <= emulator
      BY <1>6, LimitsAreNumbers
    <3>6. Loaded(ctl')
      BY <3>3, <3>4, <3>5, ZeroCapped, Zenon DEF Loaded
    <3>7. QED
      BY <1>5, <1>6, <3>3, <3>4, <3>5, <3>6, Zenon DEF WorkerOK, Heavy
  <2>3. QED
    BY <2>1, <2>2
<1>8. WindowOK' /\ HistoryOK'
  BY <1>3, <1>4, <1>5 DEF StreamInv, WindowOK, HistoryOK
<1>9. PICK x : x = Start(r, IF fallback THEN "fallback" ELSE "auto")
  OBVIOUS
<1>10. x \in StartOrders
  BY <1>3, <1>9 DEF Start, StartOrders
<1>11. x \in Orders /\ x # Flow(FALSE)
  BY <1>10, OrdersDiffer, Zenon DEF Orders
<1>12. \E y \in Orders : /\ toCli' = Append(toCli, y)
                         /\ y = Flow(FALSE) => ctl'.flowPaused \/ torn' # {}
  BY <1>4, <1>9, <1>11, Zenon
<1>13. /\ ingress' \in Seq(Messages) /\ batch' \in Seq(Messages) /\ toCtl' \in Seq(Messages)
       /\ signals' \in Seq(Events) /\ torn \subseteq torn' /\ cli' = cli
  BY <1>5 DEF StreamInv, WiresOK
<1>14. QED
  BY <1>7, <1>8, <1>12, <1>13, OrderSent, Zenon

LEMMA WindowKeeps ==
  ASSUME StreamInv, WindowNext
  PROVE  StreamInv'
<1>1. CASE TryStart
  BY <1>1, CallKeeps, Zenon DEF TryStart
<1>2. CASE RetryInFallback
  BY <1>2, CallKeeps, Zenon DEF RetryInFallback
<1>3. /\ ingress \in Seq(Messages) /\ batch \in Seq(Messages) /\ toCtl \in Seq(Messages)
      /\ signals \in Seq(Events)
  BY DEF StreamInv, WiresOK
<1>4. CASE GiveUp
  <2>1. /\ UNCHANGED <<signals, ctl, ingress, batch, emulator, shown, torn, toCtl, cli, flickers>>
        /\ win' = [win EXCEPT !.started = FALSE, !.fallback = FALSE, !.startTimer = FALSE]
        /\ toCli' = Append(toCli, Stop)
    BY <1>4 DEF GiveUp, WindowAlone
  <2>2. WindowOK'
    BY <2>1, Zenon DEF StreamInv, WindowOK
  <2>3. WorkerOK'
    BY <2>1 DEF StreamInv, WorkerOK, Heavy, Loaded, PendingUnits, QueuedBytes
  <2>4. HistoryOK' /\ torn \subseteq torn'
    BY <2>1 DEF StreamInv, HistoryOK
  <2>5. \E x \in Orders : /\ toCli' = Append(toCli, x)
                          /\ x = Flow(FALSE) => ctl'.flowPaused \/ torn' # {}
    BY <2>1, OrdersDiffer, Zenon
  <2>6. QED
    BY <1>3, <2>1, <2>2, <2>3, <2>4, <2>5, OrderSent, Zenon
<1>5. CASE HearSignal
  <2>1. /\ signals # <<>> /\ signals' = Tail(signals)
        /\ UNCHANGED <<ctl, ingress, batch, emulator, shown, torn, toCli, toCtl, cli, flickers>>
    BY <1>5 DEF HearSignal, worker, network
  <2>2. PICK info \in BOOLEAN :
          \/ win' = [win EXCEPT !.startTimer = FALSE, !.fallback = FALSE, !.started = info]
          \/ win' = win
    BY <1>5, Zenon DEF HearSignal
  <2>3. WindowOK'
    BY <2>2, Zenon DEF StreamInv, WindowOK
  <2>4. WorkerOK'
    BY <2>1 DEF StreamInv, WorkerOK, Heavy, Loaded, PendingUnits, QueuedBytes
  <2>5. HistoryOK' /\ torn \subseteq torn'
    BY <2>1 DEF StreamInv, HistoryOK
  <2>6. signals' \in Seq(Events)
    BY <1>3, <2>1
  <2>7. QED
    BY <1>3, <2>1, <2>3, <2>4, <2>5, <2>6, OrderSent, Zenon
<1>6. QED
  BY <1>1, <1>2, <1>4, <1>5 DEF WindowNext

LEMMA StreamKept == StreamInv /\ [Next]_vars => StreamInv'
<1> SUFFICES ASSUME StreamInv, [Next]_vars
             PROVE  StreamInv'
  OBVIOUS
<1>1. CASE UNCHANGED vars
  <2>1. /\ win' = win /\ signals' = signals /\ ctl' = ctl /\ ingress' = ingress
        /\ batch' = batch /\ emulator' = emulator /\ shown' = shown /\ torn' = torn
        /\ toCli' = toCli /\ toCtl' = toCtl /\ cli' = cli /\ flickers' = flickers
    BY <1>1 DEF vars, worker, network
  <2>2. CliOK' /\ toCtl' \in Seq(Messages) /\ flickers' \in 0..MaxFlickers
    BY <2>1, Zenon DEF StreamInv, CliOK, Kept, Armed, Watched, WiresOK, HistoryOK
  <2>3. UNCHANGED <<win, signals, worker, toCli>> /\ (cli'.remotePaused => cli.remotePaused)
    BY <2>1 DEF worker
  <2>4. QED
    BY <2>2, <2>3, CliStepKeeps
<1>2. CASE WorkerNext
  BY <1>2, DrainKeepsStream, MessageKeeps, FlushKeeps, AcknowledgeKeeps DEF WorkerNext
<1>3. CASE CliNext
  BY <1>3, HearStartKeeps, HearStopKeeps, HearFlowKeeps, HandleSignalKeeps, PollTimerKeeps DEF CliNext
<1>4. QED
  BY <1>1, <1>2, <1>3, WindowKeeps, ShellKeeps, DeliverKeeps, FlickerKeeps DEF Next

\* The buffers of pending output, the flow control and the pauses, together.
THEOREM StreamInvariant == Spec => []StreamInv
  BY StreamInitial, StreamKept, PTL DEF Spec

\* Type correctness of window, workers and wires; both buffers of pending output
\* keep to their limits.
THEOREM StreamTypes == Spec => []TypeOK
<1>1. StreamInv => TypeOK
  BY StreamInvMeans
<1>2. QED
  BY <1>1, StreamInvariant, PTL

\* Whoever pauses the shell is going to resume it, whatever START, STOP, end of
\* shell or overflow the pause crosses on its way.
THEOREM PausesEnd == Spec => []PauseHasAnEnd
<1>1. StreamInv => PauseHasAnEnd
  BY StreamInvMeans
<1>2. QED
  BY <1>1, StreamInvariant, PTL

-----------------------------------------------------------------------------
(***************************************************************************)
(* The transcript.  Told is the output that the session of cli has         *)
(* signalled, Coming what it signals after that: its end, or the next      *)
(* chunk of a shell that lives.  Behind is all that cli has still to send, *)
(* and Line all that is on its way to ctl, oldest first, a chunk carrying  *)
(* the mark it is going to be sent with.                                   *)
(***************************************************************************)

HasExit(c) == c.emitted # <<>> /\ c.emitted[Len(c.emitted)] = Exit
Told(c) == IF HasExit(c) THEN SubSeq(c.emitted, 1, Len(c.emitted) - 1) ELSE c.emitted
Coming(c) == IF HasExit(c) THEN Ended(c.request) ELSE Output(c.request, c.written + 1, FALSE)

Rest(c) == IF c.pendingEnd # 0 THEN <<Ended(c.pendingEnd)>>
           ELSE IF c.session = "none" THEN <<>>
           ELSE Append(Told(c), Coming(c))

MarkedFirst(b, s) ==
    IF b /\ s # <<>> /\ s[1].type = "output" THEN [s EXCEPT ![1] = [s[1] EXCEPT !.reset = TRUE]] ELSE s

Behind(c) == MarkedFirst(c.needsReset, c.pending \o Rest(c))

Line == ((batch \o ingress) \o toCtl) \o Behind(cli)
Page == shown \o ctl.pending

\* The requests grow from START to START.
RequestsGrow ==
    /\ win.request = ctl.request
    /\ cli.request <= ctl.request
    /\ \A i \in DOMAIN toCli : toCli[i].type = "start" =>
         /\ cli.request < toCli[i].of /\ toCli[i].of <= ctl.request
         /\ \A j \in 1..i - 1 : toCli[j].type = "start" => toCli[j].of < toCli[i].of

Plain(c, m) == m.of = c.request /\ m.reset = FALSE

\* What the controlled side holds belongs to its shell, and is marked when it is sent.
ShellTidy(c) ==
    /\ c.session = "none" => c.emitted = <<>>
    /\ c.session # "none" => c.pendingEnd = 0 /\ c.request # 0
    /\ c.pendingEnd # 0 => c.pendingEnd = c.request
    /\ \A i \in DOMAIN c.pending : Plain(c, c.pending[i])
    /\ \A i \in DOMAIN c.emitted :
         IF c.emitted[i] = Exit THEN i = Len(c.emitted) ELSE Plain(c, c.emitted[i])

\* The page p can go on with the chunk n of the request q, where gap says that a
\* mark comes first and u holds the chunks refused for their size.
Joins(p, q, n, gap, u) ==
    \/ gap
    \/ p # <<>> /\ p[Len(p)] = T!Mark
    \/ /\ p = <<>> \/ p[Len(p)].of = q
       /\ \/ n = 1 + (IF p = <<>> THEN 0 ELSE p[Len(p)].n)
          \/ T!Chunk(q, n - 1) \in u

\* Before the place j, the line s tells nothing of the text or the end of q.
IsFirst(s, q, j) == \A i \in 1..j - 1 : s[i].of = q => s[i].type = "info"

Follows(s, q, j) == j > 1 /\ IsText(s[j - 1]) /\ s[j - 1].of = q /\ s[j].n = s[j - 1].n + 1

InTurn(s) ==
    \A i, j \in DOMAIN s : i < j =>
        /\ s[i].of <= s[j].of
        /\ s[i].type = "ended" => s[i].of # s[j].of
        /\ IsText(s[i]) /\ IsText(s[j]) /\ s[i].of = s[j].of => s[i].n < s[j].n

\* Wherever text of q is missing in the line, or between the page and the line,
\* there is a mark.
Linked(s, p, q, gap, u) ==
    \A j \in DOMAIN s : s[j].of = q /\ IsText(s[j]) =>
        s[j].reset \/ Follows(s, q, j) \/ (IsFirst(s, q, j) /\ Joins(p, q, s[j].n, gap, u))

\* What the line brings of q is not yet on the page, nor is the end of q.
IsNew(s, p, q) ==
    \A j \in DOMAIN s, k \in DOMAIN p : s[j].of = q /\ s[j].type # "info" /\ p[k].of = q =>
        p[k].n # 0 /\ (IsText(s[j]) => p[k].n < s[j].n)

LineOK(s, p, q, r, gap, u) ==
    /\ \A i \in DOMAIN s : 0 < s[i].of /\ s[i].of <= r
    /\ InTurn(s) /\ Linked(s, p, q, gap, u) /\ IsNew(s, p, q)

\* The page keeps the promise, also with what is not shown yet.
PageOK ==
    /\ \A k \in DOMAIN Page : Page[k].of <= cli.request
    /\ \/ ctl.needsReset \/ Page = <<>>
       \/ Page[Len(Page)] = T!Mark \/ Page[Len(Page)].of = ctl.request
    /\ \A k \in Len(shown) + 1 .. Len(Page) : T!Allowed(Page, k)
    /\ ctl.request = 0 => Page = <<>>

\* The invariant: what is on its way continues what is on the page.
TranscriptOK ==
    /\ RequestsGrow
    /\ ShellTidy(cli)
    /\ LineOK(Line, Page, ctl.request, cli.request, ctl.needsReset, torn)
    /\ PageOK

\* x stands for y in a line: their size does not matter, and a mark more does not.
Alike(x, y) ==
    /\ x.type = y.type /\ x.of = y.of
    /\ x.type = "output" => x.n = y.n /\ (y.reset => x.reset)

LEMMA LineAlike ==
  ASSUME NEW s \in Seq(Messages), NEW t \in Seq(Messages), NEW p, NEW q, NEW r, NEW gap, NEW u,
         Len(t) <= Len(s), \A i \in 1..Len(t) : Alike(t[i], s[i]),
         LineOK(s, p, q, r, gap, u)
  PROVE  LineOK(t, p, q, r, gap, u)
<1>1. /\ Len(s) \in Nat /\ Len(t) \in Nat /\ DOMAIN s = 1..Len(s) /\ DOMAIN t = 1..Len(t)
      /\ \A i \in 1..Len(t) : i \in 1..Len(s)
  OBVIOUS
<1>2. ASSUME NEW i \in 1..Len(t)
      PROVE  /\ i \in DOMAIN s /\ t[i].of = s[i].of /\ t[i].type = s[i].type
             /\ IsText(t[i]) <=> IsText(s[i])
             /\ IsText(t[i]) => t[i].n = s[i].n /\ (s[i].reset => t[i].reset)
  <2>1. Alike(t[i], s[i]) /\ i \in DOMAIN s
    BY <1>1
  <2>2. QED
    BY <2>1, Zenon DEF Alike, IsText
<1>3. \A i \in DOMAIN t : 0 < t[i].of /\ t[i].of <= r
  BY <1>1, <1>2 DEF LineOK
<1>4. InTurn(t)
  <2>1. SUFFICES ASSUME NEW i \in DOMAIN t, NEW j \in DOMAIN t, i < j
                 PROVE  /\ t[i].of <= t[j].of
                        /\ t[i].type = "ended" => t[i].of # t[j].of
                        /\ IsText(t[i]) /\ IsText(t[j]) /\ t[i].of = t[j].of => t[i].n < t[j].n
    BY Zenon DEF InTurn
  <2>2. /\ s[i].of <= s[j].of
        /\ s[i].type = "ended" => s[i].of # s[j].of
        /\ IsText(s[i]) /\ IsText(s[j]) /\ s[i].of = s[j].of => s[i].n < s[j].n
    <3>1. i \in DOMAIN s /\ j \in DOMAIN s
      BY <1>1, <1>2
    <3>2. QED
      BY <2>1, <3>1, Zenon DEF LineOK, InTurn
  <2>3. QED
    BY <1>1, <1>2, <2>2, Zenon
<1>5. Linked(t, p, q, gap, u)
  <2>1. SUFFICES ASSUME NEW j \in DOMAIN t, t[j].of = q, IsText(t[j])
                 PROVE  t[j].reset \/ Follows(t, q, j) \/ (IsFirst(t, q, j) /\ Joins(p, q, t[j].n, gap, u))
    BY Zenon DEF Linked
  <2>2. /\ j \in DOMAIN s /\ s[j].of = q /\ IsText(s[j]) /\ t[j].n = s[j].n
        /\ s[j].reset => t[j].reset
    BY <1>1, <1>2, <2>1
  <2>3. s[j].reset \/ Follows(s, q, j) \/ (IsFirst(s, q, j) /\ Joins(p, q, s[j].n, gap, u))
    BY <2>2, Zenon DEF LineOK, Linked
  <2>4. ASSUME Follows(s, q, j)
        PROVE  Follows(t, q, j)
    <3>1. j - 1 \in 1..Len(t)
      BY <1>1, <2>4 DEF Follows
    <3>2. j > 1 /\ IsText(t[j - 1]) /\ t[j - 1].of = q /\ t[j - 1].n = s[j - 1].n
      BY <1>2, <2>4, <3>1 DEF Follows
    <3>3. QED
      BY <2>2, <2>4, <3>2, Zenon DEF Follows
  <2>5. ASSUME IsFirst(s, q, j)
        PROVE  IsFirst(t, q, j)
    <3>1. \A i \in 1..j - 1 : i \in 1..Len(t)
      BY <1>1
    <3>2. QED
      BY <1>2, <2>5, <3>1, Zenon DEF IsFirst
  <2>6. QED
    BY <2>2, <2>3, <2>4, <2>5, Zenon
<1>6. IsNew(t, p, q)
  BY <1>1, <1>2, Zenon DEF LineOK, IsNew
<1>7. QED
  BY <1>3, <1>4, <1>5, <1>6 DEF LineOK

LEMMA LinePrefix ==
  ASSUME NEW s \in Seq(Messages), NEW p, NEW q, NEW r, NEW gap, NEW u, NEW k \in 0..Len(s),
         LineOK(s, p, q, r, gap, u)
  PROVE  SubSeq(s, 1, k) \in Seq(Messages) /\ LineOK(SubSeq(s, 1, k), p, q, r, gap, u)
<1>1. PICK t : t = SubSeq(s, 1, k)
  BY Zenon
<1>2. t \in Seq(Messages) /\ Len(t) = k /\ Len(t) <= Len(s) /\ \A i \in 1..Len(t) : t[i] = s[i]
  BY <1>1
<1>3. \A i \in 1..Len(t) : Alike(t[i], s[i])
  BY <1>2 DEF Alike
<1>4. QED
  BY <1>1, <1>2, <1>3, LineAlike, Zenon

\* A message m of the request r comes to the end of the line.
LEMMA LineGrows ==
  ASSUME NEW s \in Seq(Messages), NEW p, NEW q, NEW r \in Nat, NEW gap, NEW u, NEW m \in Messages,
         LineOK(s, p, q, r, gap, u), m.of = r, r > 0,
         \A i \in DOMAIN s : s[i].type = "ended" => s[i].of # r,
         \A i \in DOMAIN s : IsText(m) /\ IsText(s[i]) /\ s[i].of = r => s[i].n < m.n,
         r = q /\ IsText(m) =>
            \/ m.reset
            \/ s # <<>> /\ IsText(s[Len(s)]) /\ s[Len(s)].of = q /\ m.n = s[Len(s)].n + 1
            \/ IsFirst(s, q, Len(s) + 1) /\ Joins(p, q, m.n, gap, u),
         r = q /\ m.type # "info" =>
            \A k \in DOMAIN p : p[k].of = q => p[k].n # 0 /\ (IsText(m) => p[k].n < m.n)
  PROVE  Append(s, m) \in Seq(Messages) /\ LineOK(Append(s, m), p, q, r, gap, u)
<1>1. PICK t : t = Append(s, m)
  BY Zenon
<1>2. PICK N : N = Len(s) + 1
  OBVIOUS
<1>3. /\ Len(s) \in Nat /\ N \in Nat /\ N = Len(s) + 1 /\ DOMAIN s = 1..Len(s) /\ DOMAIN t = 1..N
      /\ t \in Seq(Messages) /\ t[N] = m /\ \A i \in 1..Len(s) : t[i] = s[i]
  BY <1>1, <1>2
<1>4. \A i \in 1..N : i \in 1..Len(s) \/ i = N
  BY <1>3
<1>5. \A i \in DOMAIN t : 0 < t[i].of /\ t[i].of <= r
  BY <1>3, <1>4 DEF LineOK
<1>6. InTurn(t)
  <2>1. SUFFICES ASSUME NEW i \in 1..N, NEW j \in 1..N, i < j
                 PROVE  /\ t[i].of <= t[j].of
                        /\ t[i].type = "ended" => t[i].of # t[j].of
                        /\ IsText(t[i]) /\ IsText(t[j]) /\ t[i].of = t[j].of => t[i].n < t[j].n
    BY <1>3, Zenon DEF InTurn
  <2>2. i \in 1..Len(s) /\ i \in DOMAIN s /\ t[i] = s[i]
    BY <1>3, <2>1
  <2>3. CASE j = N
    BY <1>3, <2>2, <2>3 DEF LineOK
  <2>4. CASE j \in 1..Len(s)
    <3>1. j \in DOMAIN s /\ t[j] = s[j]
      BY <1>3, <2>4
    <3>2. QED
      BY <2>1, <2>2, <3>1, Zenon DEF LineOK, InTurn
  <2>5. QED
    BY <1>4, <2>3, <2>4
<1>7. Linked(t, p, q, gap, u)
  <2>1. SUFFICES ASSUME NEW j \in 1..N, t[j].of = q, IsText(t[j])
                 PROVE  t[j].reset \/ Follows(t, q, j) \/ (IsFirst(t, q, j) /\ Joins(p, q, t[j].n, gap, u))
    BY <1>3, Zenon DEF Linked
  <2>2. \A i \in 1..j - 1 : i \in 1..Len(s) /\ t[i] = s[i]
    BY <1>3
  <2>3. IsFirst(s, q, j) => IsFirst(t, q, j)
    BY <2>2, Zenon DEF IsFirst
  <2>4. Follows(s, q, j) /\ t[j] = s[j] => Follows(t, q, j)
    <3>1. j > 1 => j - 1 \in 1..j - 1
      BY <1>3
    <3>2. QED
      BY <2>2, <3>1, Zenon DEF Follows
  <2>5. CASE j = N
    <3>1. s # <<>> => N > 1 /\ N - 1 = Len(s) /\ Len(s) \in 1..Len(s)
      BY <1>3
    <3>2. s # <<>> => t[N - 1] = s[Len(s)]
      BY <1>3, <3>1
    <3>3. QED
      BY <1>3, <2>1, <2>3, <2>5, <3>1, <3>2, Zenon DEF Follows
  <2>6. CASE j \in 1..Len(s)
    <3>1. j \in DOMAIN s /\ t[j] = s[j]
      BY <1>3, <2>6
    <3>2. s[j].reset \/ Follows(s, q, j) \/ (IsFirst(s, q, j) /\ Joins(p, q, s[j].n, gap, u))
      BY <2>1, <3>1, Zenon DEF LineOK, Linked
    <3>3. QED
      BY <2>3, <2>4, <3>1, <3>2
  <2>7. QED
    BY <1>4, <2>5, <2>6
<1>8. IsNew(t, p, q)
  <2>1. SUFFICES ASSUME NEW j \in 1..N, NEW k \in DOMAIN p, t[j].of = q, t[j].type # "info", p[k].of = q
                 PROVE  p[k].n # 0 /\ (IsText(t[j]) => p[k].n < t[j].n)
    BY <1>3, Zenon DEF IsNew
  <2>2. CASE j = N
    BY <1>3, <2>1, <2>2, Zenon
  <2>3. CASE j \in 1..Len(s)
    BY <1>3, <2>1, <2>3, Zenon DEF LineOK, IsNew
  <2>4. QED
    BY <1>4, <2>2, <2>3
<1>9. QED
  BY <1>1, <1>3, <1>5, <1>6, <1>7, <1>8 DEF LineOK

LEMMA TailByPlace ==
  ASSUME NEW s \in Seq(Messages), s # <<>>
  PROVE  /\ Tail(s) \in Seq(Messages) /\ Len(s) \in Nat /\ Len(s) > 0 /\ DOMAIN s = 1..Len(s)
         /\ DOMAIN Tail(s) = 1..Len(s) - 1
         /\ \A i \in 1..Len(s) - 1 : Tail(s)[i] = s[i + 1] /\ i + 1 \in DOMAIN s
         /\ \A i \in 2..Len(s) - 1 : Tail(s)[i - 1] = s[i] /\ i - 1 \in 1..Len(s) - 1
         /\ 1 \in DOMAIN s /\ s[1] = Head(s)
  OBVIOUS

\* The places of a line without its first message are the later places.
LEMMA TailInTurn ==
  ASSUME NEW s \in Seq(Messages), s # <<>>, NEW r, InTurn(s), \A i \in DOMAIN s : 0 < s[i].of /\ s[i].of <= r
  PROVE  InTurn(Tail(s)) /\ \A i \in DOMAIN Tail(s) : 0 < Tail(s)[i].of /\ Tail(s)[i].of <= r
<1>0. PICK t, N : t = Tail(s) /\ N = Len(s)
  BY Zenon
<1>1. /\ t = Tail(s) /\ N = Len(s) /\ N \in Nat /\ DOMAIN t = 1..N - 1
      /\ \A i \in 1..N - 1 : t[i] = s[i + 1] /\ i + 1 \in DOMAIN s
  BY <1>0, TailByPlace
<1>2. InTurn(t)
  <2>0. DOMAIN t = 1..N - 1
    BY <1>1
  <2>1. SUFFICES ASSUME NEW i \in 1..N - 1, NEW j \in 1..N - 1, i < j
                 PROVE  /\ t[i].of <= t[j].of
                        /\ t[i].type = "ended" => t[i].of # t[j].of
                        /\ IsText(t[i]) /\ IsText(t[j]) /\ t[i].of = t[j].of => t[i].n < t[j].n
    BY <2>0, Zenon DEF InTurn
  <2>2. PICK a, b : a = i + 1 /\ b = j + 1
    OBVIOUS
  <2>3. a \in DOMAIN s /\ b \in DOMAIN s /\ a < b /\ t[i] = s[a] /\ t[j] = s[b]
    BY <1>1, <2>1, <2>2
  <2>4. QED
    BY <2>3, Zenon DEF InTurn
<1>3. \A i \in DOMAIN t : 0 < t[i].of /\ t[i].of <= r
  BY <1>1, Zenon
<1>4. QED
  BY <1>1, <1>2, <1>3

\* The first message of the line says nothing of the text or the end of q.
LEMMA LineTail ==
  ASSUME NEW s \in Seq(Messages), NEW p, NEW q, NEW r, NEW gap, NEW u, s # <<>>,
         LineOK(s, p, q, r, gap, u), s[1].of = q => s[1].type = "info"
  PROVE  LineOK(Tail(s), p, q, r, gap, u)
<1>0. PICK t, N : t = Tail(s) /\ N = Len(s)
  BY Zenon
<1>1. /\ t = Tail(s) /\ N = Len(s) /\ N \in Nat /\ N > 0 /\ DOMAIN t = 1..N - 1
      /\ DOMAIN s = 1..N
      /\ \A i \in 1..N - 1 : t[i] = s[i + 1] /\ i + 1 \in DOMAIN s
      /\ \A i \in 2..N - 1 : t[i - 1] = s[i] /\ i - 1 \in 1..N - 1
  BY <1>0, TailByPlace
<1>2. InTurn(t) /\ \A i \in DOMAIN t : 0 < t[i].of /\ t[i].of <= r
  BY <1>1, TailInTurn, Zenon DEF LineOK
<1>3. Linked(t, p, q, gap, u)
  <2>1. SUFFICES ASSUME NEW i \in 1..N - 1, t[i].of = q, IsText(t[i])
                 PROVE  t[i].reset \/ Follows(t, q, i) \/ (IsFirst(t, q, i) /\ Joins(p, q, t[i].n, gap, u))
    BY <1>1, Zenon DEF Linked
  <2>2. PICK j : j = i + 1
    OBVIOUS
  <2>3. j \in 2..N /\ j \in DOMAIN s /\ t[i] = s[j] /\ j - 1 = i /\ i \in DOMAIN s
    BY <1>1, <2>2
  <2>4. s[j].reset \/ Follows(s, q, j) \/ (IsFirst(s, q, j) /\ Joins(p, q, s[j].n, gap, u))
    BY <2>1, <2>3, Zenon DEF LineOK, Linked
  <2>5. ASSUME Follows(s, q, j)
        PROVE  Follows(t, q, i)
    <3>1. IsText(s[i]) /\ s[i].of = q /\ s[j].n = s[i].n + 1
      BY <2>3, <2>5 DEF Follows
    <3>2. i # 1
      BY <3>1 DEF IsText
    <3>3. i - 1 \in 1..N - 1 /\ i > 1 /\ t[i - 1] = s[i]
      <4>1. i \in 2..N - 1
        BY <1>1, <3>2
      <4>2. QED
        BY <1>1, <4>1
    <3>4. QED
      BY <2>3, <3>1, <3>3, Zenon DEF Follows
  <2>6. ASSUME IsFirst(s, q, j)
        PROVE  IsFirst(t, q, i)
    <3>1. SUFFICES ASSUME NEW h \in 1..i - 1
                   PROVE  t[h].of = q => t[h].type = "info"
      BY DEF IsFirst
    <3>2. PICK g : g = h + 1
      OBVIOUS
    <3>3. g \in 1..j - 1 /\ t[h] = s[g]
      BY <1>1, <2>2, <3>2
    <3>4. QED
      BY <2>6, <3>3 DEF IsFirst
  <2>7. QED
    BY <2>3, <2>4, <2>5, <2>6, Zenon
<1>4. IsNew(t, p, q)
  <2>1. \A i \in DOMAIN t : i + 1 \in DOMAIN s /\ t[i] = s[i + 1]
    BY <1>1
  <2>2. QED
    BY <2>1, Zenon DEF LineOK, IsNew
<1>5. QED
  BY <1>1, <1>2, <1>3, <1>4 DEF LineOK

\* The first message of the line is text of q or its end and moves to the page.
LEMMA LineMoves ==
  ASSUME NEW s \in Seq(Messages), NEW p, NEW q, NEW r, NEW gap, NEW u, s # <<>>,
         LineOK(s, p, q, r, gap, u), s[1].of = q, s[1].type # "info",
         NEW p2, NEW gap2, NEW u2,
         \A n : IsText(s[1]) /\ n = s[1].n + 1 => Joins(p2, q, n, gap2, u2),
         \A j \in DOMAIN s : \A k \in DOMAIN p2 :
             j # 1 /\ s[j].of = q /\ s[j].type # "info" /\ p2[k].of = q =>
                 p2[k].n # 0 /\ (IsText(s[j]) => p2[k].n < s[j].n)
  PROVE  LineOK(Tail(s), p2, q, r, gap2, u2)
<1>0. PICK t, N : t = Tail(s) /\ N = Len(s)
  BY Zenon
<1>1. /\ t = Tail(s) /\ N = Len(s) /\ N \in Nat /\ N > 0 /\ DOMAIN t = 1..N - 1
      /\ DOMAIN s = 1..N
      /\ \A i \in 1..N - 1 : t[i] = s[i + 1] /\ i + 1 \in DOMAIN s
      /\ \A i \in 2..N - 1 : t[i - 1] = s[i] /\ i - 1 \in 1..N - 1
  BY <1>0, TailByPlace
<1>2. InTurn(t) /\ \A i \in DOMAIN t : 0 < t[i].of /\ t[i].of <= r
  BY <1>1, TailInTurn, Zenon DEF LineOK
<1>3. Linked(t, p2, q, gap2, u2)
  <2>1. SUFFICES ASSUME NEW i \in 1..N - 1, t[i].of = q, IsText(t[i])
                 PROVE  t[i].reset \/ Follows(t, q, i) \/ (IsFirst(t, q, i) /\ Joins(p2, q, t[i].n, gap2, u2))
    BY <1>1, Zenon DEF Linked
  <2>2. PICK j : j = i + 1
    OBVIOUS
  <2>3. j \in 2..N /\ j \in DOMAIN s /\ t[i] = s[j] /\ j - 1 = i /\ i \in DOMAIN s /\ 1 \in 1..j - 1
    BY <1>1, <2>2
  <2>4. s[j].reset \/ Follows(s, q, j) \/ IsFirst(s, q, j)
    BY <2>1, <2>3, Zenon DEF LineOK, Linked
  <2>5. ~IsFirst(s, q, j)
    BY <2>3 DEF IsFirst
  <2>6. CASE s[j].reset
    BY <2>3, <2>6
  <2>7. CASE Follows(s, q, j)
    <3>1. IsText(s[i]) /\ s[i].of = q /\ s[j].n = s[i].n + 1
      BY <2>3, <2>7 DEF Follows
    <3>2. CASE i = 1
      <4>1. Joins(p2, q, s[j].n, gap2, u2)
        BY <3>1, <3>2
      <4>2. \A h \in 1..i - 1 : FALSE
        BY <3>2
      <4>3. IsFirst(t, q, i)
        BY <4>2 DEF IsFirst
      <4>4. QED
        BY <2>3, <4>1, <4>3
    <3>3. CASE i # 1
      <4>1. i \in 2..N - 1
        BY <1>1, <3>3
      <4>2. i - 1 \in 1..N - 1 /\ i > 1 /\ t[i - 1] = s[i]
        BY <1>1, <4>1
      <4>3. QED
        BY <2>3, <3>1, <4>2, Zenon DEF Follows
    <3>4. QED
      BY <3>2, <3>3
  <2>8. QED
    BY <2>4, <2>5, <2>6, <2>7
<1>4. IsNew(t, p2, q)
  <2>1. SUFFICES ASSUME NEW i \in 1..N - 1, NEW k \in DOMAIN p2,
                        t[i].of = q, t[i].type # "info", p2[k].of = q
                 PROVE  p2[k].n # 0 /\ (IsText(t[i]) => p2[k].n < t[i].n)
    BY <1>1, Zenon DEF IsNew
  <2>2. PICK j : j = i + 1
    OBVIOUS
  <2>3. j # 1 /\ j \in DOMAIN s /\ t[i] = s[j]
    BY <1>1, <2>2
  <2>4. QED
    BY <2>1, <2>3, Zenon
<1>5. QED
  BY <1>1, <1>2, <1>3, <1>4 DEF LineOK

\* Messages are dropped after the place a, and what comes next is marked.
LEMMA LineDrops ==
  ASSUME NEW s \in Seq(Messages), NEW t \in Seq(Messages), NEW p, NEW q, NEW r, NEW gap, NEW u,
         LineOK(s, p, q, r, gap, u),
         NEW a \in Nat, NEW d \in Nat, d > 0, Len(t) + d = Len(s),
         \A i \in 1..Len(t) : i <= a => t[i] = s[i],
         \A i \in 1..Len(t) : i > a => Alike(t[i], s[i + d]),
         \A i \in 1..Len(t) : i = a + 1 /\ IsText(t[i]) => t[i].reset
  PROVE  LineOK(t, p, q, r, gap, u)
<1> DEFINE Old(i) == IF i <= a THEN i ELSE i + d
<1>1. /\ Len(s) \in Nat /\ Len(t) \in Nat /\ DOMAIN s = 1..Len(s) /\ DOMAIN t = 1..Len(t)
      /\ \A i \in 1..Len(t) : Old(i) \in 1..Len(s) /\ Old(i) \in DOMAIN s
      /\ \A i, j \in 1..Len(t) : i < j => Old(i) < Old(j)
  OBVIOUS
<1>2. \A i \in 1..Len(t) : Alike(t[i], s[Old(i)])
  <2>1. TAKE i \in 1..Len(t)
  <2>2. CASE i <= a
    BY <2>2 DEF Alike
  <2>3. CASE ~(i <= a)
    BY <2>3
  <2>4. QED
    BY <2>2, <2>3
<1>3. ASSUME NEW i \in 1..Len(t)
      PROVE  /\ Old(i) \in DOMAIN s /\ t[i].of = s[Old(i)].of /\ t[i].type = s[Old(i)].type
             /\ IsText(t[i]) <=> IsText(s[Old(i)])
             /\ IsText(t[i]) => t[i].n = s[Old(i)].n /\ (s[Old(i)].reset => t[i].reset)
  <2>1. PICK o : o = Old(i)
    OBVIOUS
  <2>2. Alike(t[i], s[o]) /\ o \in DOMAIN s
    BY <1>1, <1>2, <2>1
  <2>3. QED
    BY <2>1, <2>2, Zenon DEF Alike, IsText
<1>4. \A i \in DOMAIN t : 0 < t[i].of /\ t[i].of <= r
  BY <1>1, <1>3, Zenon DEF LineOK
<1>5. InTurn(t)
  <2>1. SUFFICES ASSUME NEW i \in 1..Len(t), NEW j \in 1..Len(t), i < j
                 PROVE  /\ t[i].of <= t[j].of
                        /\ t[i].type = "ended" => t[i].of # t[j].of
                        /\ IsText(t[i]) /\ IsText(t[j]) /\ t[i].of = t[j].of => t[i].n < t[j].n
    BY <1>1, Zenon DEF InTurn
  <2>2. PICK o, w : o = Old(i) /\ w = Old(j)
    OBVIOUS
  <2>3. o \in DOMAIN s /\ w \in DOMAIN s /\ o < w
    BY <1>1, <2>1, <2>2
  <2>4. /\ s[o].of <= s[w].of
        /\ s[o].type = "ended" => s[o].of # s[w].of
        /\ IsText(s[o]) /\ IsText(s[w]) /\ s[o].of = s[w].of => s[o].n < s[w].n
    BY <2>3, Zenon DEF LineOK, InTurn
  <2>5. QED
    BY <1>3, <2>2, <2>4, Zenon
<1>6. Linked(t, p, q, gap, u)
  <2>1. SUFFICES ASSUME NEW j \in 1..Len(t), t[j].of = q, IsText(t[j])
                 PROVE  t[j].reset \/ Follows(t, q, j) \/ (IsFirst(t, q, j) /\ Joins(p, q, t[j].n, gap, u))
    BY <1>1, Zenon DEF Linked
  <2>2. PICK w : w = Old(j)
    OBVIOUS
  <2>3. /\ w \in DOMAIN s /\ s[w].of = q /\ IsText(s[w]) /\ t[j].n = s[w].n
        /\ s[w].reset => t[j].reset
    BY <1>3, <2>1, <2>2
  <2>4. s[w].reset \/ Follows(s, q, w) \/ (IsFirst(s, q, w) /\ Joins(p, q, s[w].n, gap, u))
    BY <2>3, Zenon DEF LineOK, Linked
  <2>5. ASSUME Follows(s, q, w)
        PROVE  Follows(t, q, j) \/ t[j].reset
    <3>1. w > 1 /\ IsText(s[w - 1]) /\ s[w - 1].of = q /\ s[w].n = s[w - 1].n + 1
      BY <2>5 DEF Follows
    <3>2. CASE j = a + 1
      BY <2>1, <3>2
    <3>3. CASE j # a + 1
      <4>1. j - 1 \in 1..Len(t) /\ j > 1 /\ Old(j - 1) = w - 1
        <5>1. CASE j <= a
          BY <1>1, <2>2, <3>1, <5>1
        <5>2. CASE ~(j <= a)
          BY <1>1, <2>2, <3>1, <3>3, <5>2
        <5>3. QED
          BY <5>1, <5>2
      <4>2. PICK h : h = j - 1
        OBVIOUS
      <4>3. h \in 1..Len(t) /\ Old(h) = w - 1
        BY <4>1, <4>2
      <4>4. IsText(t[h]) /\ t[h].of = q /\ t[h].n = s[w - 1].n
        BY <1>3, <3>1, <4>3
      <4>5. QED
        BY <2>3, <3>1, <4>1, <4>2, <4>4 DEF Follows
    <3>4. QED
      BY <3>2, <3>3
  <2>6. ASSUME IsFirst(s, q, w)
        PROVE  IsFirst(t, q, j)
    <3>1. SUFFICES ASSUME NEW h \in 1..j - 1
                   PROVE  t[h].of = q => t[h].type = "info"
      BY DEF IsFirst
    <3>2. PICK o : o = Old(h)
      OBVIOUS
    <3>3. h \in 1..Len(t) /\ o \in 1..w - 1
      BY <1>1, <2>2, <3>2
    <3>4. QED
      BY <1>3, <2>6, <3>2, <3>3, ZenonT(40) DEF IsFirst
  <2>7. QED
    BY <2>3, <2>4, <2>5, <2>6, Zenon
<1>7. IsNew(t, p, q)
  <2>1. SUFFICES ASSUME NEW j \in 1..Len(t), NEW k \in DOMAIN p,
                        t[j].of = q, t[j].type # "info", p[k].of = q
                 PROVE  p[k].n # 0 /\ (IsText(t[j]) => p[k].n < t[j].n)
    BY <1>1, Zenon DEF IsNew
  <2>2. PICK w : w = Old(j)
    OBVIOUS
  <2>3. /\ w \in DOMAIN s /\ t[j].of = s[w].of /\ t[j].type = s[w].type
        /\ IsText(t[j]) <=> IsText(s[w])
        /\ IsText(t[j]) => t[j].n = s[w].n
    BY <1>3, <2>2
  <2>4. QED
    BY <2>1, <2>3, Zenon DEF LineOK, IsNew
<1>8. QED
  BY <1>4, <1>5, <1>6, <1>7 DEF LineOK

\* The line is cut before its last message, of the newest request, and ends
\* there with m.
LEMMA LineCut ==
  ASSUME NEW s \in Seq(Messages), NEW p, NEW q, NEW r \in Nat, NEW gap, NEW u, s # <<>>,
         LineOK(s, p, q, r, gap, u), s[Len(s)].of = r, s[Len(s)].type # "info",
         NEW k \in Nat, k < Len(s),
         NEW m \in Messages, m.of = r, m.type # "info", ~IsText(m),
         NEW z, z = Append(SubSeq(s, 1, k), m)
  PROVE  z \in Seq(Messages) /\ LineOK(z, p, q, r, gap, u)
<1>1. PICK t, N : t = SubSeq(s, 1, k) /\ N = Len(s)
  BY Zenon
<1>2. /\ N \in Nat /\ N > 0 /\ N \in DOMAIN s /\ t \in Seq(Messages) /\ Len(t) = k
      /\ k \in 0..Len(s) /\ DOMAIN t = 1..k
      /\ \A i \in 1..k : t[i] = s[i] /\ i \in DOMAIN s /\ i < N
  BY <1>1
<1>3. LineOK(t, p, q, r, gap, u)
  BY <1>1, <1>2, LinePrefix
<1>4. s[N].of = r /\ s[N].type # "info"
  BY <1>1
<1>5. r > 0
  BY <1>2, <1>4 DEF LineOK
<1>6. \A i \in DOMAIN t : t[i].type = "ended" => t[i].of # r
  <2>1. TAKE i \in DOMAIN t
  <2>2. i \in DOMAIN s /\ i < N /\ t[i] = s[i]
    BY <1>2
  <2>3. QED
    BY <1>2, <1>4, <2>2, Zenon DEF LineOK, InTurn
<1>7. r = q => \A j \in DOMAIN p : p[j].of = q => p[j].n # 0
  BY <1>2, <1>4, Zenon DEF LineOK, IsNew
<1>8. Append(t, m) \in Seq(Messages) /\ LineOK(Append(t, m), p, q, r, gap, u)
  BY <1>2, <1>3, <1>5, <1>6, <1>7, LineGrows, Zenon
<1>9. z = Append(t, m)
  BY <1>1
<1>10. QED
  BY <1>8, <1>9, Zenon

\* After a cut that ends with a mark alone comes the end of the request.
LEMMA LineEnds ==
  ASSUME NEW s \in Seq(Messages), NEW p, NEW q, NEW r \in Nat, NEW gap, NEW u, s # <<>>,
         LineOK(s, p, q, r, gap, u), s[Len(s)].of = r, s[Len(s)].type = "output",
         \A i \in DOMAIN s : s[i].type = "ended" => s[i].of # r,
         NEW m \in Messages, m.of = r, ~IsText(m)
  PROVE  /\ Append(s, m) \in Seq(Messages)
         /\ LineOK(Append(s, m), p, q, r, gap, u)
<1>1. Len(s) \in DOMAIN s
  OBVIOUS
<1>2. r > 0
  BY <1>1 DEF LineOK
<1>3. r = q => \A j \in DOMAIN p : p[j].of = q => p[j].n # 0
  BY <1>1, Zenon DEF LineOK, IsNew
<1>4. QED
  BY <1>2, <1>3, LineGrows, Zenon

\* The shell writes the chunk that was to come, and another one is to come.
LEMMA LineWrites ==
  ASSUME NEW s \in Seq(Messages), NEW p \in Seq(Chunks), NEW q, NEW r \in Nat, NEW gap, NEW u, s # <<>>,
         LineOK(s, p, q, r, gap, u), s[Len(s)].of = r, IsText(s[Len(s)]),
         NEW m \in Outputs, m.of = r, m.n = s[Len(s)].n + 1
  PROVE  Append(s, m) \in Seq(Messages) /\ LineOK(Append(s, m), p, q, r, gap, u)
<1>1. PICK N : N = Len(s)
  OBVIOUS
<1>2. /\ N \in Nat /\ N > 0 /\ N \in DOMAIN s /\ m \in Messages /\ DOMAIN s = 1..N
      /\ s[N] \in Messages /\ \A i \in 1..N : s[i] \in Messages
      /\ s[N].of = r /\ IsText(s[N]) /\ m.n = s[N].n + 1
  BY <1>1 DEF Messages
<1>3. /\ \A x \in Messages : IsText(x) => x \in Outputs /\ x.n \in Nat
      /\ \A x \in Messages : IsText(x) => x.type # "ended" /\ x.type # "info"
  BY DEF IsText, Messages, Events, Outputs
<1>4. r > 0
  BY <1>2 DEF LineOK
<1>5. \A i \in DOMAIN s : s[i].type = "ended" => s[i].of # r
  <2>1. TAKE i \in DOMAIN s
  <2>2. CASE i < N
    BY <1>2, <2>2, Zenon DEF LineOK, InTurn
  <2>3. CASE i = N
    BY <1>2, <1>3, <2>3
  <2>4. QED
    BY <1>2, <2>2, <2>3
<1>6. \A i \in DOMAIN s : IsText(s[i]) /\ s[i].of = r => s[i].n < m.n
  <2>1. SUFFICES ASSUME NEW i \in DOMAIN s, IsText(s[i]), s[i].of = r
                 PROVE  s[i].n < m.n
    OBVIOUS
  <2>2. s[i].n \in Nat /\ s[N].n \in Nat
    BY <1>2, <1>3, <2>1
  <2>3. CASE i < N
    <3>1. s[i].n < s[N].n
      BY <1>2, <2>1, <2>3, Zenon DEF LineOK, InTurn
    <3>2. QED
      BY <1>2, <2>2, <3>1
  <2>4. CASE i = N
    BY <1>2, <2>2, <2>4
  <2>5. QED
    BY <1>2, <2>3, <2>4
<1>7. r = q => \A j \in DOMAIN p : p[j].of = q => p[j].n # 0 /\ p[j].n < s[N].n
  BY <1>2, <1>3, Zenon DEF LineOK, IsNew
<1>8. r = q => \A j \in DOMAIN p : p[j].of = q => p[j].n # 0 /\ p[j].n < m.n
  <2>1. SUFFICES ASSUME r = q, NEW j \in DOMAIN p, p[j].of = q
                 PROVE  p[j].n # 0 /\ p[j].n < m.n
    OBVIOUS
  <2>2. p[j].n \in Nat /\ s[N].n \in Nat
    <3>1. p[j] \in Chunks
      OBVIOUS
    <3>2. QED
      BY <1>2, <1>3, <3>1 DEF Chunks
  <2>3. QED
    BY <1>2, <1>7, <2>1, <2>2
<1>9. QED
  BY <1>1, <1>2, <1>4, <1>5, <1>6, <1>8, LineGrows, Zenon

-----------------------------------------------------------------------------
(* What cli has still to send.                                             *)

LEMMA MessagesInTurn ==
  \A a, b, c \in Seq(Messages) : (a \o b) \o c = a \o (b \o c)
  BY JoinedInTurn

LEMMA MarkType ==
  ASSUME NEW s \in Seq(Messages), NEW b \in BOOLEAN
  PROVE  /\ MarkedFirst(b, s) \in Seq(Messages) /\ Len(MarkedFirst(b, s)) = Len(s)
         /\ \A i \in 1..Len(s) : i # 1 => MarkedFirst(b, s)[i] = s[i]
         /\ s # <<>> => MarkedFirst(b, s)[1] = IF b /\ s[1].type = "output"
                                               THEN [s[1] EXCEPT !.reset = TRUE] ELSE s[1]
         /\ ~b => MarkedFirst(b, s) = s
<1>1. CASE ~(b /\ s # <<>> /\ s[1].type = "output")
  BY <1>1, Zenon DEF MarkedFirst
<1>2. CASE b /\ s # <<>> /\ s[1].type = "output"
  <2>1. 1 \in 1..Len(s) /\ Len(s) \in Nat /\ s[1] \in Messages /\ DOMAIN s = 1..Len(s)
    BY <1>2
  <2>2. PICK x : x = [s[1] EXCEPT !.reset = TRUE]
    BY Zenon
  <2>3. x \in Messages
    BY <1>2, <2>1, <2>2, Zenon DEF Messages, Outputs, Events
  <2>4. MarkedFirst(b, s) = [s EXCEPT ![1] = x]
    BY <1>2, <2>2 DEF MarkedFirst
  <2>5. /\ [s EXCEPT ![1] = x] \in Seq(Messages) /\ Len([s EXCEPT ![1] = x]) = Len(s)
        /\ [s EXCEPT ![1] = x][1] = x
        /\ \A i \in 1..Len(s) : i # 1 => [s EXCEPT ![1] = x][i] = s[i]
    BY <2>1, <2>3
  <2>6. QED
    BY <1>2, <2>2, <2>4, <2>5, Zenon
<1>3. QED
  BY <1>1, <1>2

LEMMA MarkConcat ==
  ASSUME NEW s \in Seq(Messages), NEW t \in Seq(Messages), NEW b \in BOOLEAN,
         s # <<>> \/ ~b
  PROVE  MarkedFirst(b, s \o t) = MarkedFirst(b, s) \o t
<1>1. CASE ~b
  <2>1. s \o t \in Seq(Messages)
    OBVIOUS
  <2>2. QED
    BY <1>1, <2>1, MarkType, Zenon
<1>2. CASE b /\ s # <<>>
  <2>1. PICK x, m, y : x = s \o t /\ m = MarkedFirst(b, s) /\ y = MarkedFirst(b, x)
    BY Zenon
  <2>2. /\ x \in Seq(Messages) /\ Len(x) = Len(s) + Len(t) /\ Len(s) \in Nat /\ Len(t) \in Nat
        /\ Len(s) > 0 /\ x # <<>> /\ x[1] = s[1]
        /\ \A i \in 1..Len(s) : x[i] = s[i]
        /\ \A i \in Len(s) + 1..Len(s) + Len(t) : x[i] = t[i - Len(s)]
    BY <1>2, <2>1
  <2>3. /\ m \in Seq(Messages) /\ Len(m) = Len(s) /\ \A i \in 1..Len(s) : i # 1 => m[i] = s[i]
        /\ m[1] = IF b /\ s[1].type = "output" THEN [s[1] EXCEPT !.reset = TRUE] ELSE s[1]
    BY <1>2, <2>1, MarkType, Zenon
  <2>4. /\ y \in Seq(Messages) /\ Len(y) = Len(x) /\ \A i \in 1..Len(x) : i # 1 => y[i] = x[i]
        /\ y[1] = IF b /\ x[1].type = "output" THEN [x[1] EXCEPT !.reset = TRUE] ELSE x[1]
    BY <2>1, <2>2, MarkType, Zenon
  <2>5. m[1] = y[1]
    BY <2>2, <2>3, <2>4
  <2>6. \A a \in Seq(Messages) :
          /\ a \o t \in Seq(Messages) /\ Len(a \o t) = Len(a) + Len(t)
          /\ \A i \in 1..Len(a) : (a \o t)[i] = a[i]
          /\ \A i \in Len(a) + 1..Len(a) + Len(t) : (a \o t)[i] = t[i - Len(a)]
    OBVIOUS
  <2>9. PICK z : z = m \o t
    BY Zenon
  <2>10. /\ z \in Seq(Messages) /\ Len(z) = Len(m) + Len(t)
         /\ \A i \in 1..Len(m) : z[i] = m[i]
         /\ \A i \in Len(m) + 1..Len(m) + Len(t) : z[i] = t[i - Len(m)]
    BY <2>3, <2>6, <2>9, Zenon
  <2>7. \A i \in 1..Len(x) : y[i] = z[i]
    <3>1. TAKE i \in 1..Len(x)
    <3>2. CASE i = 1
      BY <2>2, <2>3, <2>5, <2>10, <3>2, SMTT(40)
    <3>3. CASE i # 1 /\ i <= Len(s)
      BY <2>2, <2>3, <2>4, <2>10, <3>3
    <3>4. CASE i > Len(s)
      <4>1. i # 1 /\ i \in Len(s) + 1..Len(s) + Len(t) /\ Len(m) = Len(s)
        BY <2>2, <2>3, <3>4
      <4>2. z[i] = t[i - Len(s)] /\ x[i] = t[i - Len(s)]
        BY <2>2, <2>10, <4>1
      <4>3. QED
        BY <2>4, <4>1, <4>2
    <3>5. QED
      BY <2>2, <3>2, <3>3, <3>4
  <2>8. QED
    <3>1. Len(y) = Len(z)
      BY <2>2, <2>3, <2>4, <2>10
    <3>2. \A i \in 1..Len(y) : y[i] = z[i]
      BY <2>4, <2>7
    <3>3. y = z
      BY <2>4, <2>10, <3>1, <3>2, SeqEqual
    <3>4. QED
      BY <2>1, <2>9, <3>3
<1>3. QED
  BY <1>1, <1>2

LEMMA MarkNothing == ASSUME NEW b \in BOOLEAN PROVE MarkedFirst(b, <<>>) = <<>>
  BY DEF MarkedFirst

\* The end of a shell takes no mark.
LEMMA MarkEnd ==
  ASSUME NEW m \in Messages, m.type # "output", NEW b \in BOOLEAN
  PROVE  <<m>> \in Seq(Messages) /\ MarkedFirst(b, <<m>>) = <<m>>
<1>1. <<m>> \in Seq(Messages) /\ <<m>>[1] = m
  OBVIOUS
<1>2. QED
  BY <1>1, Zenon DEF MarkedFirst

LEMMA RestType ==
  ASSUME NEW c, Kept(c), ShellTidy(c)
  PROVE  /\ c.pending \in Seq(Messages) /\ Rest(c) \in Seq(Messages) /\ Behind(c) \in Seq(Messages)
         /\ c.needsReset \in BOOLEAN
         /\ Told(c) \in Seq(Messages) /\ Coming(c) \in Messages
<1>1. /\ c.pending \in Seq(Outputs) /\ c.emitted \in Seq(Outputs \cup {Exit}) /\ c.request \in Requests
      /\ c.pendingEnd \in Requests /\ c.written \in Nat /\ c.needsReset \in BOOLEAN
  BY DEF Kept, CliStates
<1>2. c.pending \in Seq(Messages)
  BY <1>1 DEF Messages
<1>3. \A i \in DOMAIN c.emitted : c.emitted[i] = Exit => i = Len(c.emitted)
  BY DEF ShellTidy
<1>4. Told(c) \in Seq(Messages)
  <2>1. CASE HasExit(c)
    <3>1. PICK t : t = SubSeq(c.emitted, 1, Len(c.emitted) - 1)
      BY Zenon
    <3>2. Len(c.emitted) \in Nat /\ Len(c.emitted) > 0
      BY <1>1, <2>1 DEF HasExit
    <3>3. /\ t \in Seq(Outputs \cup {Exit}) /\ Len(t) = Len(c.emitted) - 1
          /\ \A i \in 1..Len(c.emitted) - 1 : t[i] = c.emitted[i] /\ i \in DOMAIN c.emitted
      BY <1>1, <3>1, <3>2
    <3>4. \A i \in 1..Len(c.emitted) - 1 : t[i] \in Messages
      BY <1>1, <1>3, <3>2, <3>3 DEF Messages
    <3>5. t \in Seq(Messages)
      BY <3>2, <3>3, <3>4, ElementOfSeq, SeqDef
    <3>6. QED
      BY <2>1, <3>1, <3>5 DEF Told
  <2>2. CASE ~HasExit(c)
    <3>1. Len(c.emitted) \in Nat /\ (c.emitted # <<>> => c.emitted[Len(c.emitted)] # Exit)
      BY <1>1, <2>2 DEF HasExit
    <3>2. \A i \in 1..Len(c.emitted) : c.emitted[i] \in Messages
      BY <1>1, <1>3, <3>1 DEF Messages
    <3>3. c.emitted \in Seq(Messages)
      BY <1>1, <3>1, <3>2, SeqDef
    <3>4. QED
      BY <2>2, <3>3 DEF Told
  <2>3. QED
    BY <2>1, <2>2
<1>5. Coming(c) \in Messages
  <2>1. Ended(c.request) \in Messages
    BY <1>1 DEF Ended, Messages, Events
  <2>2. Output(c.request, c.written + 1, FALSE) \in Messages
    BY <1>1 DEF Output, Messages, Outputs
  <2>3. QED
    BY <2>1, <2>2, Zenon DEF Coming
<1>6. Rest(c) \in Seq(Messages)
  <2>1. Ended(c.pendingEnd) \in Messages
    BY <1>1 DEF Ended, Messages, Events
  <2>2. <<Ended(c.pendingEnd)>> \in Seq(Messages) /\ <<>> \in Seq(Messages)
    BY <2>1
  <2>3. Append(Told(c), Coming(c)) \in Seq(Messages)
    BY <1>4, <1>5
  <2>4. QED
    BY <2>2, <2>3, Zenon DEF Rest
<1>7. Behind(c) \in Seq(Messages)
  <2>1. c.pending \o Rest(c) \in Seq(Messages)
    BY <1>2, <1>6
  <2>2. QED
    BY <1>1, <2>1, MarkType, Zenon DEF Behind
<1>8. QED
  BY <1>1, <1>2, <1>4, <1>5, <1>6, <1>7

\* What else a helper changes does not matter.
SameShell(c, d) ==
    /\ d.pending = c.pending /\ d.pendingEnd = c.pendingEnd /\ d.session = c.session
    /\ d.emitted = c.emitted /\ d.request = c.request /\ d.written = c.written
    /\ d.needsReset = c.needsReset

LEMMA BehindSame ==
  ASSUME NEW c, NEW d, SameShell(c, d)
  PROVE  Behind(d) = Behind(c) /\ (ShellTidy(c) => ShellTidy(d))
<1>1. Behind(d) = Behind(c)
  <2>1. HasExit(d) = HasExit(c)
    BY Zenon DEF HasExit, SameShell
  <2>2. Told(d) = Told(c) /\ Coming(d) = Coming(c)
    BY <2>1, Zenon DEF Told, Coming, SameShell
  <2>3. Rest(d) = Rest(c)
    BY <2>2, Zenon DEF Rest, SameShell
  <2>4. QED
    BY <2>3, Zenon DEF Behind, SameShell
<1>2. ShellTidy(c) => ShellTidy(d)
  BY Zenon DEF ShellTidy, Plain, SameShell
<1>3. QED
  BY <1>1, <1>2

LEMMA BurstLine ==
  ASSUME NEW c, Kept(c), ShellTidy(c), NEW k \in 0..Len(c.pending)
  PROVE  LET r == AfterBurst(c, k)
         IN  /\ r.sent \o Behind(r.c) = Behind(c) /\ ShellTidy(r.c)
             /\ r.c.pendingEnd = c.pendingEnd /\ r.c.session = c.session
             /\ r.c.emitted = c.emitted /\ r.c.request = c.request /\ r.c.written = c.written
<1> DEFINE r == AfterBurst(c, k)
<1>1. PICK P, R, left, s, d : /\ P = c.pending /\ R = Rest(c) /\ left = SubSeq(P, k + 1, Len(P))
                              /\ s = r.sent /\ d = r.c
  BY Zenon
<1>2. /\ P \in Seq(Messages) /\ R \in Seq(Messages) /\ c.needsReset \in BOOLEAN
      /\ Len(P) \in Nat /\ k \in Nat /\ k <= Len(P) /\ P \in Seq(Outputs)
  <2>1. P \in Seq(Messages) /\ R \in Seq(Messages) /\ c.needsReset \in BOOLEAN
    BY <1>1, RestType
  <2>2. P \in Seq(Outputs)
    BY <1>1 DEF Kept, CliStates
  <2>3. QED
    BY <1>1, <2>1, <2>2
<1>3. d = [c EXCEPT !.pending = left, !.needsReset = c.needsReset /\ k = 0]
  BY <1>1, AfterBurstKeeps, Zenon
<1>4. /\ d.pending = left /\ d.needsReset = (c.needsReset /\ k = 0)
      /\ d.pendingEnd = c.pendingEnd /\ d.session = c.session
      /\ d.emitted = c.emitted /\ d.request = c.request /\ d.written = c.written
  BY <1>3 DEF Kept, CliStates
<1>5. s = [i \in 1..k |-> IF i = 1 THEN Marked(c, P[1]) ELSE P[i]]
  BY <1>1 DEF AfterBurst
<1>6. Rest(d) = R
  <2>1. HasExit(d) = HasExit(c)
    BY <1>4, Zenon DEF HasExit
  <2>2. Told(d) = Told(c) /\ Coming(d) = Coming(c)
    BY <1>4, <2>1, Zenon DEF Told, Coming
  <2>3. QED
    BY <1>1, <1>4, <2>2, Zenon DEF Rest
<1>7. s \o Behind(d) = Behind(c)
  <2>1. Behind(c) = MarkedFirst(c.needsReset, P \o R)
    BY <1>1 DEF Behind
  <2>2. Behind(d) = MarkedFirst(c.needsReset /\ k = 0, left \o R)
    BY <1>4, <1>6 DEF Behind
  <2>3. CASE k = 0
    <3>1. left = P
      BY <1>1, <1>2, <2>3
    <3>2. s = <<>>
      BY <1>5, <2>3
    <3>3. Behind(d) = Behind(c)
      BY <1>2, <2>1, <2>2, <2>3, <3>1
    <3>4. Behind(c) \in Seq(Messages)
      BY RestType
    <3>5. QED
      BY <3>2, <3>3, <3>4
  <2>4. CASE k # 0
    <3>1. PICK gone : gone = SubSeq(P, 1, k)
      BY Zenon
    <3>2. /\ gone \in Seq(Messages) /\ left \in Seq(Messages) /\ gone # <<>> /\ Len(gone) = k
          /\ \A i \in 1..k : gone[i] = P[i]
          /\ gone \o left = P /\ left \o R \in Seq(Messages) /\ 1 \in DOMAIN P /\ P[1] \in Outputs
      <4>1. /\ gone \in Seq(Messages) /\ Len(gone) = k /\ \A i \in 1..k : gone[i] = P[i]
            /\ left \in Seq(Messages) /\ Len(left) = Len(P) - k
            /\ \A i \in 1..Len(P) - k : left[i] = P[i + k]
        BY <1>1, <1>2, <3>1, SMTT(40)
      <4>2. gone # <<>> /\ 1 \in DOMAIN P /\ P[1] \in Outputs
        BY <1>2, <2>4, <4>1
      <4>3. left \o R \in Seq(Messages)
        BY <1>2, <4>1
      <4>4. gone \o left = P
        <5>1. PICK z : z = gone \o left
          BY Zenon
        <5>2. /\ z \in Seq(Messages) /\ Len(z) = Len(gone) + Len(left)
              /\ \A i \in 1..Len(gone) : z[i] = gone[i]
              /\ \A i \in Len(gone) + 1..Len(gone) + Len(left) : z[i] = left[i - Len(gone)]
          BY <4>1, <5>1
        <5>3. Len(z) = Len(P)
          BY <1>2, <4>1, <5>2
        <5>4. \A i \in 1..Len(z) : z[i] = P[i]
          <6>1. TAKE i \in 1..Len(z)
          <6>2. CASE i <= k
            BY <1>2, <4>1, <5>2, <6>2
          <6>3. CASE i > k
            <7>1. i - k \in 1..Len(P) - k /\ i \in Len(gone) + 1..Len(gone) + Len(left) /\ (i - k) + k = i
              BY <1>2, <4>1, <5>3, <6>3
            <7>2. QED
              BY <4>1, <5>2, <7>1
          <6>4. QED
            BY <1>2, <6>2, <6>3
        <5>5. QED
          BY <1>2, <5>1, <5>2, <5>3, <5>4, SeqEqual, Zenon
      <4>5. QED
        BY <4>1, <4>2, <4>3, <4>4
    <3>3. P \o R = gone \o (left \o R)
      <4>1. (gone \o left) \o R = gone \o (left \o R)
        <5>1. gone \in Seq(Messages) /\ left \in Seq(Messages) /\ R \in Seq(Messages)
          BY <1>2, <3>2
        <5>2. QED
          BY <5>1, MessagesInTurn, ZenonT(40)
      <4>2. QED
        BY <3>2, <4>1
    <3>4. MarkedFirst(c.needsReset, P \o R) = MarkedFirst(c.needsReset, gone) \o (left \o R)
      <4>1. PICK rest : rest = left \o R
        BY Zenon
      <4>2. MarkedFirst(c.needsReset, gone \o rest) = MarkedFirst(c.needsReset, gone) \o rest
        BY <1>2, <3>2, <4>1, MarkConcat, Zenon
      <4>3. QED
        BY <3>3, <4>1, <4>2
    <3>5. PICK m : m = MarkedFirst(c.needsReset, gone)
      OBVIOUS
    <3>6. /\ m \in Seq(Messages) /\ Len(m) = k /\ \A i \in 1..k : i # 1 => m[i] = P[i]
          /\ m[1] = IF c.needsReset /\ P[1].type = "output" THEN [P[1] EXCEPT !.reset = TRUE] ELSE P[1]
      <4>1. 1 \in 1..k
        BY <1>2, <2>4
      <4>2. /\ m \in Seq(Messages) /\ Len(m) = Len(gone)
            /\ \A i \in 1..Len(gone) : i # 1 => m[i] = gone[i]
            /\ m[1] = IF c.needsReset /\ gone[1].type = "output"
                      THEN [gone[1] EXCEPT !.reset = TRUE] ELSE gone[1]
        BY <1>2, <3>2, <3>5, MarkType, Zenon
      <4>3. gone[1] = P[1]
        BY <3>2, <4>1
      <4>4. QED
        BY <3>2, <4>2, <4>3
    <3>7. Marked(c, P[1]) = m[1]
      <4>1. P[1].reset = FALSE /\ P[1].type = "output"
        <5>1. P[1].reset = FALSE
          BY <1>1, <3>2, Zenon DEF ShellTidy, Plain
        <5>2. QED
          BY <3>2, <5>1 DEF Outputs
      <4>2. Marked(c, P[1]) = [P[1] EXCEPT !.reset = c.needsReset]
        BY DEF Marked
      <4>3. CASE c.needsReset
        BY <3>6, <4>1, <4>2, <4>3
      <4>4. CASE ~c.needsReset
        <5>1. [P[1] EXCEPT !.reset = FALSE] = P[1]
          BY <3>2, <4>1 DEF Outputs
        <5>2. c.needsReset = FALSE
          BY <1>2, <4>4
        <5>3. QED
          BY <3>6, <4>2, <4>4, <5>1, <5>2, Zenon
      <4>5. QED
        BY <4>3, <4>4
    <3>8. s \in Seq(Messages) /\ Len(s) = k /\ \A i \in 1..k : s[i] = m[i]
      <4>1. s \in Seq(Messages)
        <5>1. Served(r)
          BY AfterBurstKeeps, Zenon
        <5>2. QED
          BY <1>1, <5>1 DEF Served
      <4>2. Len(s) = k
        BY <1>2, <1>5
      <4>3. \A i \in 1..k : s[i] = m[i]
        BY <1>5, <3>6, <3>7
      <4>4. QED
        BY <4>1, <4>2, <4>3
    <3>9. s = m
      BY <3>6, <3>8, SeqEqual
    <3>10. Behind(d) = left \o R
      <4>1. (c.needsReset /\ k = 0) = FALSE
        BY <2>4
      <4>2. QED
        BY <2>2, <3>2, <4>1, MarkType, Zenon
    <3>11. QED
      BY <2>1, <3>4, <3>5, <3>9, <3>10
  <2>5. QED
    BY <2>3, <2>4
<1>8. ShellTidy(d)
  <2>1. \A i \in DOMAIN left : left[i] = P[i + k] /\ i + k \in DOMAIN P
    BY <1>1, <1>2, SMTT(40)
  <2>2. \A i \in DOMAIN d.pending : Plain(d, d.pending[i])
    <3>1. \A i \in DOMAIN P : Plain(c, P[i])
      BY <1>1 DEF ShellTidy
    <3>2. \A i \in DOMAIN left : Plain(c, left[i])
      BY <2>1, <3>1, Zenon
    <3>3. QED
      BY <1>4, <3>2, Zenon DEF Plain
  <2>3. QED
    BY <1>4, <2>2, Zenon DEF ShellTidy, Plain
<1>9. QED
  BY <1>1, <1>4, <1>7, <1>8

LEMMA NothingJoined ==
  <<>> \in Seq(Messages) /\ \A s \in Seq(Messages) : s \o <<>> = s /\ <<>> \o s = s
  OBVIOUS

\* The messages r.sent, and what cli is left with, are what it had to send.
SendsOn(c, r) ==
    /\ r.sent \o Behind(r.c) = Behind(c)
    /\ ShellTidy(r.c) /\ r.c.request = c.request

LEMMA EndLine ==
  ASSUME NEW c, Kept(c), ShellTidy(c), c.pending = <<>>, NEW s \in Seq(Messages)
  PROVE  LET r == sendPendingTerminalEnd(c, s)
         IN  r.sent \o Behind(r.c) = s \o Behind(c) /\ ShellTidy(r.c) /\ r.c.request = c.request
<1> DEFINE r == sendPendingTerminalEnd(c, s)
<1>1. r.c = [c EXCEPT !.pendingEnd = 0] /\ Kept(r.c)
  BY EndKeeps DEF Served
<1>2. PICK d : d = r.c
  OBVIOUS
<1>3. /\ d.pending = c.pending /\ d.pendingEnd = 0 /\ d.session = c.session
      /\ d.emitted = c.emitted /\ d.request = c.request /\ d.written = c.written
      /\ d.needsReset = c.needsReset
  BY <1>1, <1>2 DEF Kept, CliStates
<1>4. CASE c.pendingEnd = 0
  <2>1. r.sent = s
    BY <1>4 DEF sendPendingTerminalEnd
  <2>2. Behind(d) = Behind(c) /\ ShellTidy(d)
    BY <1>3, <1>4, BehindSame DEF SameShell
  <2>3. QED
    BY <1>2, <1>3, <2>1, <2>2
<1>5. CASE c.pendingEnd # 0
  <2>1. PICK E : E = Ended(c.pendingEnd)
    OBVIOUS
  <2>2. E \in Messages /\ E.type # "output" /\ c.needsReset \in BOOLEAN
    BY <2>1 DEF Ended, Messages, Events, Kept, CliStates
  <2>3. r.sent = Append(s, E)
    BY <1>5, <2>1 DEF sendPendingTerminalEnd
  <2>4. c.session = "none"
    BY <1>5, Zenon DEF ShellTidy
  <2>5. <<E>> \in Seq(Messages) /\ MarkedFirst(c.needsReset, <<E>>) = <<E>>
    BY <2>2, MarkEnd
  <2>6. Behind(c) = <<E>>
    <3>1. Rest(c) = <<E>>
      BY <1>5, <2>1 DEF Rest
    <3>2. <<>> \o <<E>> = <<E>>
      BY <2>5, NothingJoined
    <3>3. QED
      BY <2>5, <3>1, <3>2, Zenon DEF Behind
  <2>7. Behind(d) = <<>>
    <3>1. Rest(d) = <<>>
      BY <1>3, <2>4, Zenon DEF Rest
    <3>2. <<>> \o <<>> = <<>>
      BY NothingJoined
    <3>3. QED
      BY <1>3, <2>2, <3>1, <3>2, MarkNothing, Zenon DEF Behind
  <2>8. Append(s, E) \o <<>> = s \o <<E>>
    BY <2>2
  <2>9. ShellTidy(d)
    BY <1>3, Zenon DEF ShellTidy, Plain
  <2>10. QED
    BY <1>2, <1>3, <2>3, <2>6, <2>7, <2>8, <2>9
<1>6. QED
  BY <1>4, <1>5, Zenon

LEMMA PollLine ==
  ASSUME NEW c, Kept(c), ShellTidy(c), toCtl \in Seq(Messages), NEW gone \in Gone
  PROVE  SendsOn(c, pollTerminalBackpressure(c, gone))
<1> DEFINE r == pollTerminalBackpressure(c, gone)
           b == AfterBurst(c, Burst(c, gone))
           a == IF b.c.pending = <<>> THEN sendPendingTerminalEnd(b.c, b.sent) ELSE b
           full == Buffered(<<>>, gone) > ChannelLow \/ (c.pending # <<>> /\ ~c.connected)
           rests == a.c.pending # <<>> \/ Buffered(a.sent, gone) > ChannelLow
<1>1. r = IF full THEN [c |-> c, sent |-> <<>>]
          ELSE IF rests THEN a ELSE [a EXCEPT !.c = Unpaused(@)]
  BY DEF pollTerminalBackpressure
<1>2. CASE full
  <2>1. r.c = c /\ r.sent = <<>>
    BY <1>1, <1>2
  <2>2. <<>> \o Behind(c) = Behind(c)
    BY RestType, NothingJoined
  <2>3. QED
    BY <2>1, <2>2 DEF SendsOn
<1>3. CASE ~full
  <2>1. Buffered(<<>>, gone) <= ChannelLow
    <3>1. toCtl \o <<>> \in Seq(Messages)
      OBVIOUS
    <3>2. Units(toCtl \o <<>>) \in Nat /\ Units(toCtl) \in Nat
      BY <3>1, UnitsType
    <3>3. Buffered(<<>>, gone) \in Int
      BY <3>2 DEF Gone, Buffered
    <3>4. QED
      BY <1>3, <3>3, LimitsAreNumbers
  <2>2. PICK k \in 0..Len(c.pending) : k = Burst(c, gone)
    BY <2>1, BurstFits
  <2>3. Served(b) /\ b.sent \o Behind(b.c) = Behind(c) /\ ShellTidy(b.c) /\ b.c.request = c.request
    <3>1. PICK x : x = AfterBurst(c, k)
      OBVIOUS
    <3>2. Served(x)
      BY <3>1, AfterBurstKeeps, Zenon
    <3>3. x.sent \o Behind(x.c) = Behind(c) /\ ShellTidy(x.c) /\ x.c.request = c.request
      BY <3>1, BurstLine, Zenon
    <3>4. b = x
      BY <2>2, <3>1
    <3>5. QED
      BY <3>2, <3>3, <3>4, Zenon
  <2>4. b = [c |-> b.c, sent |-> b.sent]
    BY DEF AfterBurst
  <2> HIDE DEF b
  <2>5. /\ Served(a) /\ a.sent \o Behind(a.c) = Behind(c) /\ ShellTidy(a.c) /\ a.c.request = c.request
        /\ a = [c |-> a.c, sent |-> a.sent]
    <3>1. PICK d, s : d = b.c /\ s = b.sent
      OBVIOUS
    <3>2. /\ Kept(d) /\ s \in Seq(Messages) /\ ShellTidy(d) /\ s \o Behind(d) = Behind(c)
          /\ d.request = c.request
      BY <2>3, <3>1, Zenon DEF Served
    <3>3. CASE d.pending = <<>>
      <4>1. a = sendPendingTerminalEnd(d, s)
        BY <3>1, <3>3
      <4>2. /\ Served(sendPendingTerminalEnd(d, s))
            /\ sendPendingTerminalEnd(d, s) = [c |-> sendPendingTerminalEnd(d, s).c,
                                               sent |-> sendPendingTerminalEnd(d, s).sent]
        BY <3>2, EndKeeps, Zenon
      <4>3. /\ sendPendingTerminalEnd(d, s).sent \o Behind(sendPendingTerminalEnd(d, s).c) = s \o Behind(d)
            /\ ShellTidy(sendPendingTerminalEnd(d, s).c)
            /\ sendPendingTerminalEnd(d, s).c.request = d.request
        BY <3>2, <3>3, EndLine, Zenon
      <4>4. QED
        BY <3>2, <4>1, <4>2, <4>3, Zenon
    <3>4. CASE d.pending # <<>>
      BY <2>3, <2>4, <3>1, <3>4
    <3>5. QED
      BY <3>3, <3>4, Zenon
  <2> HIDE DEF a
  <2>6. CASE rests
    <3>1. r = a
      BY <1>1, <1>3, <2>6
    <3>2. QED
      BY <2>5, <3>1 DEF SendsOn
  <2>7. CASE ~rests
    <3>1. r = [a EXCEPT !.c = Unpaused(@)]
      BY <1>1, <1>3, <2>7
    <3>2. r.c = Unpaused(a.c) /\ r.sent = a.sent
      BY <2>5, <3>1
    <3>3. PICK d, e : d = a.c /\ e = Unpaused(d)
      OBVIOUS
    <3>4. d \in CliStates
      BY <2>5, <3>3 DEF Served, Kept
    <3>5. SameShell(d, e)
      BY <3>3, <3>4 DEF Unpaused, CliStates, SameShell
    <3>6. Behind(e) = Behind(d) /\ (ShellTidy(d) => ShellTidy(e)) /\ e.request = d.request
      BY <3>5, BehindSame DEF SameShell
    <3>7. QED
      BY <2>5, <3>2, <3>3, <3>6 DEF SendsOn
  <2>8. QED
    BY <2>6, <2>7
<1>4. QED
  BY <1>2, <1>3

\* The end of a shell, after what is pending or a mark alone.
LastText(c) == IF c.needsReset /\ c.pending = <<>>
               THEN <<Output(c.request, 0, FALSE)>> ELSE c.pending

LEMMA EndOfShellLine ==
  ASSUME NEW c, Kept(c), ShellTidy(c), c.request # 0, toCtl \in Seq(Messages), NEW gone \in Gone
  PROVE  LET r == EndOfShell(c, gone)
         IN  /\ r.sent \o Behind(r.c) = MarkedFirst(c.needsReset, LastText(c) \o <<Ended(c.request)>>)
             /\ ShellTidy(r.c) /\ r.c.request = c.request
<1> DEFINE r == EndOfShell(c, gone)
           over == [c EXCEPT !.session = "none", !.emitted = <<>>, !.hoard = FALSE,
                             !.outputPaused = FALSE, !.remotePaused = FALSE,
                             !.pendingEnd = c.request,
                             !.pending = IF c.needsReset /\ @ = <<>>
                                         THEN <<Output(c.request, 0, FALSE)>> ELSE @]
<1>1. r = IF over.pending = <<>>
          THEN sendPendingTerminalEnd(over, <<>>)
          ELSE pollTerminalBackpressure(scheduleTerminalBackpressurePoll(over), gone)
  BY Zenon DEF EndOfShell
<1>2. PICK m : m = Output(c.request, 0, FALSE)
  BY Zenon
<1>3. /\ m \in Outputs /\ m \in Messages /\ ~IsText(m) /\ m.of = c.request /\ m.reset = FALSE
  BY <1>2 DEF Output, Outputs, Messages, IsText, Kept, CliStates
<1>4. PICK last : last = LastText(c)
  OBVIOUS
<1>5. /\ last \in Seq(Outputs) /\ Units(last) <= MaxPendingCli
      /\ \A i \in DOMAIN last : last[i].of = c.request /\ last[i].reset = FALSE
  <2>1. CASE c.needsReset /\ c.pending = <<>>
    <3>1. Units(<<m>>) = 0
      BY <1>3, MarkAloneCountsNothing
    <3>2. last = <<m>>
      BY <1>2, <1>4, <2>1, Zenon DEF LastText
    <3>3. \A x \in Outputs : <<x>> \in Seq(Outputs) /\ \A i \in DOMAIN <<x>> : <<x>>[i] = x
      OBVIOUS
    <3>4. 0 <= MaxPendingCli
      BY LimitsAreNumbers
    <3>5. QED
      BY <1>3, <3>1, <3>2, <3>3, <3>4, Zenon
  <2>2. CASE ~(c.needsReset /\ c.pending = <<>>)
    <3>1. last = c.pending
      BY <1>4, <2>2, Zenon DEF LastText
    <3>2. QED
      BY <3>1 DEF Kept, CliStates, ShellTidy, Plain
  <2>3. QED
    BY <2>1, <2>2, Zenon
<1>6. over = [c EXCEPT !.session = "none", !.emitted = <<>>, !.hoard = FALSE,
                       !.outputPaused = FALSE, !.remotePaused = FALSE,
                       !.pendingEnd = c.request, !.pending = last]
  BY <1>4, Zenon DEF LastText
<1> HIDE DEF over, r
<1>7. <<>> \in Seq(Outputs \cup {Exit})
  OBVIOUS
<1>8. over \in CliStates
  BY <1>5, <1>6, <1>7, Zenon DEF Kept, CliStates
<1>9. /\ over.pending = last /\ over.session = "none" /\ over.emitted = <<>>
      /\ over.pendingEnd = c.request /\ over.request = c.request /\ over.needsReset = c.needsReset
  BY <1>6 DEF Kept, CliStates
<1>10. Kept(over)
  BY <1>5, <1>8, <1>9 DEF Kept
<1>11. ShellTidy(over)
  <2>1. \A i \in DOMAIN over.pending : Plain(over, over.pending[i])
    BY <1>5, <1>9, Zenon DEF Plain
  <2>2. \A i \in DOMAIN over.emitted : FALSE
    BY <1>9
  <2>3. QED
    BY <1>9, <2>1, <2>2, Zenon DEF ShellTidy
<1>12. Behind(over) = MarkedFirst(c.needsReset, LastText(c) \o <<Ended(c.request)>>)
  <2>1. Rest(over) = <<Ended(c.request)>>
    BY <1>9, Zenon DEF Rest
  <2>2. QED
    BY <1>4, <1>9, <2>1, Zenon DEF Behind
<1>13. CASE over.pending = <<>>
  <2>1. r = sendPendingTerminalEnd(over, <<>>)
    BY <1>1, <1>13
  <2>2. /\ r.sent \o Behind(r.c) = <<>> \o Behind(over) /\ ShellTidy(r.c)
        /\ r.c.request = over.request
    BY <1>10, <1>11, <1>13, <2>1, NothingJoined, EndLine, Zenon
  <2>3. <<>> \o Behind(over) = Behind(over)
    BY <1>10, <1>11, RestType, NothingJoined
  <2>4. QED
    BY <1>9, <1>12, <2>2, <2>3 DEF r
<1>14. CASE over.pending # <<>>
  <2>1. PICK d : d = scheduleTerminalBackpressurePoll(over)
    OBVIOUS
  <2>2. Kept(d)
    BY <1>10, <2>1, ScheduleKeeps
  <2>3. SameShell(over, d)
    BY <1>8, <2>1 DEF scheduleTerminalBackpressurePoll, CliStates, SameShell
  <2>4. Behind(d) = Behind(over) /\ ShellTidy(d) /\ d.request = over.request
    BY <1>11, <2>3, BehindSame DEF SameShell
  <2>5. r = pollTerminalBackpressure(d, gone)
    BY <1>1, <1>14, <2>1
  <2>6. SendsOn(d, r)
    BY <2>2, <2>4, <2>5, PollLine
  <2>7. QED
    BY <1>9, <1>12, <2>4, <2>6 DEF SendsOn, r
<1>15. QED
  BY <1>13, <1>14, Zenon

\* Of all that cli has still to send the first k messages are dropped, and what
\* is left is marked.
Drops(c, r, k) ==
    /\ r.sent = <<>>
    /\ Behind(r.c) = MarkedFirst(TRUE, SubSeq(Behind(c), k + 1, Len(Behind(c))))
    /\ ShellTidy(r.c) /\ r.c.request = c.request

LEMMA AllMessages ==
  ASSUME NEW S, NEW s \in Seq(S), \A i \in 1..Len(s) : s[i] \in Messages
  PROVE  s \in Seq(Messages)
  OBVIOUS

\* The first signal of the session is a chunk.
LEMMA FirstTold ==
  ASSUME NEW c, Kept(c), ShellTidy(c), c.session # "none", NEW m \in Outputs,
         c.emitted # <<>>, m = Head(c.emitted),
         NEW d, d.session = c.session, d.request = c.request, d.written = c.written,
         d.pendingEnd = c.pendingEnd, d.emitted = Tail(c.emitted)
  PROVE  /\ Rest(d) \in Seq(Messages) /\ Rest(c) = <<m>> \o Rest(d) /\ Plain(c, m)
         /\ \A i \in DOMAIN d.emitted :
              IF d.emitted[i] = Exit THEN i = Len(d.emitted) ELSE Plain(c, d.emitted[i])
<1>1. PICK s, t : s = c.emitted /\ t = Tail(s)
  BY Zenon
<1>2. /\ s \in Seq(Outputs \cup {Exit}) /\ t \in Seq(Outputs \cup {Exit}) /\ Len(s) \in Nat /\ Len(s) > 0
      /\ Len(t) = Len(s) - 1 /\ s[1] = m /\ \A i \in 1..Len(s) - 1 : t[i] = s[i + 1] /\ i + 1 \in DOMAIN s
      /\ DOMAIN t = 1..Len(s) - 1 /\ 1 \in DOMAIN s
  BY <1>1 DEF Kept, CliStates
<1>3. m # Exit
  BY DEF Exit, Outputs
<1>4. \A i \in DOMAIN s : IF s[i] = Exit THEN i = Len(s) ELSE Plain(c, s[i])
  BY <1>1 DEF ShellTidy
<1>5. Plain(c, m)
  BY <1>2, <1>3, <1>4
<1>6. \A i \in DOMAIN t : IF t[i] = Exit THEN i = Len(t) ELSE Plain(c, t[i])
  <2>1. TAKE i \in DOMAIN t
  <2>2. PICK j : j = i + 1
    OBVIOUS
  <2>3. j \in DOMAIN s /\ t[i] = s[j] /\ (j = Len(s) => i = Len(t))
    BY <1>2, <2>2
  <2>4. QED
    BY <1>4, <2>3
<1>7. HasExit(d) = HasExit(c)
  <2>1. CASE t = <<>>
    <3>1. Len(s) = 1
      BY <1>2, <2>1
    <3>2. s[Len(s)] # Exit
      BY <1>2, <1>3, <3>1
    <3>3. QED
      BY <1>1, <2>1, <3>2 DEF HasExit
  <2>2. CASE t # <<>>
    <3>1. Len(t) > 0 /\ Len(t) \in 1..Len(s) - 1 /\ Len(t) + 1 = Len(s)
      BY <1>2, <2>2
    <3>2. t[Len(t)] = s[Len(s)]
      BY <1>2, <3>1
    <3>3. QED
      BY <1>1, <2>2, <3>2, Zenon DEF HasExit
  <2>3. QED
    BY <2>1, <2>2
<1>8. Coming(d) = Coming(c)
  BY <1>7, Zenon DEF Coming
<1>9. Told(d) \in Seq(Messages) /\ Told(c) = <<m>> \o Told(d)
  <2>1. CASE HasExit(c)
    <3>1. PICK a, b : a = SubSeq(s, 1, Len(s) - 1) /\ b = SubSeq(t, 1, Len(t) - 1)
      BY Zenon
    <3>2. Len(s) > 1
      <4>1. s[Len(s)] = Exit
        BY <1>1, <2>1 DEF HasExit
      <4>2. Len(s) # 1
        BY <1>2, <1>3, <4>1
      <4>3. QED
        BY <1>2, <4>2
    <3>3. /\ Len(a) = Len(s) - 1 /\ Len(b) = Len(s) - 2
          /\ a \in Seq(Outputs \cup {Exit}) /\ b \in Seq(Outputs \cup {Exit})
          /\ \A i \in 1..Len(s) - 1 : a[i] = s[i]
          /\ \A i \in 1..Len(s) - 2 : b[i] = s[i + 1]
      BY <1>2, <3>1, <3>2
    <3>4. \A i \in 1..Len(s) - 1 : a[i] \in Messages
      <4>1. TAKE i \in 1..Len(s) - 1
      <4>2. i \in DOMAIN s /\ i # Len(s) /\ a[i] = s[i]
        BY <1>2, <3>3, SMTT(40)
      <4>3. s[i] # Exit
        BY <1>4, <4>2
      <4>4. QED
        BY <1>2, <4>2, <4>3 DEF Messages
    <3>5. a \in Seq(Messages)
      BY <1>2, <3>2, <3>3, <3>4
    <3>6. b \in Seq(Messages)
      <4>1. \A i \in 1..Len(s) - 2 : b[i] \in Messages
        <5>1. TAKE i \in 1..Len(s) - 2
        <5>2. i + 1 \in 1..Len(s) - 1 /\ b[i] = a[i + 1]
          BY <1>2, <3>2, <3>3
        <5>3. QED
          BY <3>4, <5>2
      <4>2. \A i \in 1..Len(b) : b[i] \in Messages
        BY <3>3, <4>1
      <4>3. QED
        BY <3>3, <4>2, AllMessages
    <3>7. a = <<m>> \o b
      <4>1. PICK z : z = <<m>> \o b
        BY Zenon
      <4>2. /\ z \in Seq(Messages) /\ Len(z) = Len(s) - 1 /\ z[1] = m
            /\ \A i \in 2..Len(s) - 1 : z[i] = b[i - 1]
        BY <1>2, <3>2, <3>3, <3>6, <4>1 DEF Messages
      <4>3. \A i \in 1..Len(s) - 1 : a[i] = z[i]
        <5>1. TAKE i \in 1..Len(s) - 1
        <5>2. CASE i = 1
          BY <1>2, <3>3, <4>2, <5>2
        <5>3. CASE i # 1
          <6>1. i - 1 \in 1..Len(s) - 2 /\ i \in 2..Len(s) - 1 /\ (i - 1) + 1 = i
            BY <1>2, <5>3
          <6>2. b[i - 1] = s[i]
            BY <3>3, <6>1
          <6>3. QED
            BY <3>3, <4>2, <6>1, <6>2
        <5>4. QED
          BY <5>2, <5>3
      <4>4. Len(a) = Len(z) /\ \A i \in 1..Len(a) : a[i] = z[i]
        BY <3>3, <4>2, <4>3
      <4>5. a = z
        BY <3>5, <4>2, <4>4, SeqEqual
      <4>6. QED
        BY <4>1, <4>5
    <3>8. Told(c) = a /\ Told(d) = b
      BY <1>1, <1>7, <2>1, <3>1 DEF Told
    <3>9. QED
      BY <3>6, <3>7, <3>8
  <2>2. CASE ~HasExit(c)
    <3>1. Told(c) = s /\ Told(d) = t
      BY <1>1, <1>7, <2>2 DEF Told
    <3>2. t \in Seq(Messages)
      <4>1. t # <<>> => t[Len(t)] # Exit
        BY <1>1, <1>7, <2>2 DEF HasExit
      <4>2. \A i \in 1..Len(s) - 1 : t[i] \in Messages
        <5>1. TAKE i \in 1..Len(s) - 1
        <5>2. t[i] \in Outputs \cup {Exit} /\ i \in DOMAIN t /\ t # <<>>
          BY <1>2
        <5>3. t[i] # Exit
          BY <1>6, <4>1, <5>2
        <5>4. QED
          BY <5>2, <5>3 DEF Messages
      <4>3. QED
        BY <1>2, <4>2
    <3>3. s = <<m>> \o t
      BY <1>1, <1>2
    <3>4. QED
      BY <3>1, <3>2, <3>3
  <2>3. QED
    BY <2>1, <2>2
<1>10. c.pendingEnd = 0
  BY Zenon DEF ShellTidy
<1>11. Rest(c) = Append(Told(c), Coming(c)) /\ Rest(d) = Append(Told(d), Coming(d))
  BY <1>10, Zenon DEF Rest
<1>12. Coming(c) \in Messages
  BY RestType
<1>13. m \in Messages
  BY DEF Messages
<1>14. Rest(d) \in Seq(Messages) /\ Rest(c) = <<m>> \o Rest(d)
  <2>1. \A x \in Messages, a \in Seq(Messages), y \in Messages :
          /\ Append(a, y) \in Seq(Messages)
          /\ Append(<<x>> \o a, y) = <<x>> \o Append(a, y)
    OBVIOUS
  <2>2. PICK a, y : a = Told(d) /\ y = Coming(c)
    OBVIOUS
  <2>3. a \in Seq(Messages) /\ y \in Messages /\ Rest(d) = Append(a, y) /\ Rest(c) = Append(<<m>> \o a, y)
    BY <1>8, <1>9, <1>11, <1>12, <2>2
  <2>4. Append(a, y) \in Seq(Messages) /\ Append(<<m>> \o a, y) = <<m>> \o Append(a, y)
    BY <1>13, <2>1, <2>3
  <2>5. QED
    BY <2>3, <2>4
<1>15. QED
  BY <1>1, <1>5, <1>6, <1>14

LEMMA RestSame ==
  ASSUME NEW c, NEW d, d.session = c.session, d.request = c.request, d.written = c.written,
         d.pendingEnd = c.pendingEnd, d.emitted = c.emitted
  PROVE  Rest(d) = Rest(c)
<1>1. HasExit(d) = HasExit(c)
  BY Zenon DEF HasExit
<1>2. Told(d) = Told(c) /\ Coming(d) = Coming(c)
  BY <1>1, Zenon DEF Told, Coming
<1>3. QED
  BY <1>2, Zenon DEF Rest

\* The case in which r is what OfferOutput makes of the chunk m.
LEMMA OfferLine ==
  ASSUME NEW c, Kept(c), ShellTidy(c), c.session # "none", NEW m \in Outputs,
         c.emitted # <<>>, m = Head(c.emitted),
         NEW d, Kept(d), d.session = c.session, d.request = c.request, d.written = c.written,
         d.pendingEnd = c.pendingEnd, d.emitted = Tail(c.emitted),
         d.pending = c.pending, d.needsReset = c.needsReset
  PROVE  LET r == OfferOutput(d, m)
         IN  SendsOn(c, r) \/ Drops(c, r, Len(c.pending) + 1)
<1> DEFINE r == OfferOutput(d, m)
<1>1. PICK P, R, nr : P = c.pending /\ R = Rest(d) /\ nr = c.needsReset
  OBVIOUS
<1>2. /\ P \in Seq(Messages) /\ P \in Seq(Outputs) /\ nr \in BOOLEAN /\ Len(P) \in Nat
      /\ Behind(c) \in Seq(Messages) /\ MaxPendingCli \in Nat
  <2>1. P \in Seq(Messages) /\ nr \in BOOLEAN /\ Behind(c) \in Seq(Messages)
    BY <1>1, RestType
  <2>2. P \in Seq(Outputs)
    BY <1>1 DEF Kept, CliStates
  <2>3. QED
    BY <1>1, <2>1, <2>2, LimitsAreNumbers
<1>3. /\ R \in Seq(Messages) /\ Rest(c) = <<m>> \o R /\ Plain(c, m)
      /\ \A i \in DOMAIN d.emitted :
           IF d.emitted[i] = Exit THEN i = Len(d.emitted) ELSE Plain(c, d.emitted[i])
  BY <1>1, FirstTold, Zenon
<1>4. m \in Messages /\ m.reset = FALSE /\ m.of = c.request /\ m.type = "output" /\ <<m>> \in Seq(Messages)
  BY <1>3 DEF Messages, Outputs, Plain
<1>5. Behind(c) = MarkedFirst(nr, P \o (<<m>> \o R))
  BY <1>1, <1>3 DEF Behind
<1>6. \A e : /\ e.session = d.session /\ e.request = d.request /\ e.written = d.written
             /\ e.pendingEnd = d.pendingEnd /\ e.emitted = d.emitted
             /\ \A i \in DOMAIN e.pending : Plain(c, e.pending[i])
             => Rest(e) = R /\ ShellTidy(e) /\ e.request = c.request
  <2>1. TAKE e
  <2>2. HAVE /\ e.session = d.session /\ e.request = d.request /\ e.written = d.written
             /\ e.pendingEnd = d.pendingEnd /\ e.emitted = d.emitted
             /\ \A i \in DOMAIN e.pending : Plain(c, e.pending[i])
  <2>3. Rest(e) = R
    BY <1>1, <2>2, RestSame
  <2>4. c.pendingEnd = 0 /\ c.request # 0
    BY Zenon DEF ShellTidy
  <2>5. ShellTidy(e)
    BY <1>3, <2>2, <2>4, ZenonT(40) DEF ShellTidy, Plain
  <2>6. QED
    BY <2>2, <2>3, <2>5
<1>7. \A i \in DOMAIN P : Plain(c, P[i])
  BY <1>1 DEF ShellTidy
<1>8. CASE d.pending = <<>> /\ d.connected
  <2>1. PICK e : e = [d EXCEPT !.needsReset = FALSE]
    BY Zenon
  <2>2. r = [c |-> e, sent |-> <<Marked(d, m)>>]
    BY <1>8, <2>1 DEF OfferOutput
  <2>3. /\ e.session = d.session /\ e.request = d.request /\ e.written = d.written
        /\ e.pendingEnd = d.pendingEnd /\ e.emitted = d.emitted /\ e.pending = d.pending
        /\ e.needsReset = FALSE
    BY <2>1 DEF Kept, CliStates
  <2>4. Rest(e) = R /\ ShellTidy(e) /\ e.request = c.request
    <3>1. \A i \in DOMAIN e.pending : Plain(c, e.pending[i])
      BY <1>1, <1>7, <2>3
    <3>2. QED
      BY <1>6, <2>3, <3>1
  <2>5. Behind(e) = R
    <3>1. <<>> \o R = R /\ MarkedFirst(FALSE, R) = R
      BY <1>3, NothingJoined, MarkType, Zenon
    <3>2. QED
      BY <1>8, <2>3, <2>4, <3>1, Zenon DEF Behind
  <2>6. Behind(c) = MarkedFirst(nr, <<m>>) \o R
    <3>1. P = <<>> /\ <<m>> \o R \in Seq(Messages)
      BY <1>1, <1>3, <1>4, <1>8
    <3>2. P \o (<<m>> \o R) = <<m>> \o R
      BY <3>1, NothingJoined
    <3>3. <<m>> # <<>>
      OBVIOUS
    <3>4. MarkedFirst(nr, <<m>> \o R) = MarkedFirst(nr, <<m>>) \o R
      BY <1>2, <1>3, <1>4, <3>3, MarkConcat, Zenon
    <3>5. QED
      BY <1>5, <3>2, <3>4, Zenon
  <2>7. MarkedFirst(nr, <<m>>) = <<Marked(d, m)>>
    <3>1. Marked(d, m) = [m EXCEPT !.reset = nr]
      BY <1>1 DEF Marked
    <3>2. CASE nr
      <4>1. MarkedFirst(nr, <<m>>) = [<<m>> EXCEPT ![1] = [m EXCEPT !.reset = TRUE]]
        BY <1>4, <3>2 DEF MarkedFirst
      <4>2. nr = TRUE
        BY <1>2, <3>2
      <4>3. \A x : [<<m>> EXCEPT ![1] = x] = <<x>>
        OBVIOUS
      <4>4. QED
        BY <3>1, <4>1, <4>2, <4>3, Zenon
    <3>3. CASE ~nr
      <4>1. nr = FALSE /\ [m EXCEPT !.reset = FALSE] = m
        BY <1>2, <1>4, <3>3, Zenon DEF Outputs
      <4>2. Marked(d, m) = m
        BY <3>1, <4>1, Zenon
      <4>3. MarkedFirst(nr, <<m>>) = <<m>>
        BY <1>2, <1>4, <3>3, MarkType, Zenon
      <4>4. QED
        BY <4>2, <4>3
    <3>4. QED
      BY <3>2, <3>3
  <2>8. r.c = e /\ r.sent = <<Marked(d, m)>>
    BY <2>2
  <2>9. SendsOn(c, r)
    BY <2>4, <2>5, <2>6, <2>7, <2>8, Zenon DEF SendsOn
  <2>10. QED
    BY <2>9
<1>9. CASE ~(d.pending = <<>> /\ d.connected) /\ Len(d.pending) >= MaxPendingCli
  <2>1. PICK e : e = [d EXCEPT !.pending = <<>>, !.needsReset = TRUE]
    OBVIOUS
  <2>2. r = [c |-> e, sent |-> <<>>]
    BY <1>9, <2>1 DEF OfferOutput
  <2>3. /\ e.session = d.session /\ e.request = d.request /\ e.written = d.written
        /\ e.pendingEnd = d.pendingEnd /\ e.emitted = d.emitted /\ e.pending = <<>>
        /\ e.needsReset = TRUE
    BY <2>1 DEF Kept, CliStates
  <2>4. Rest(e) = R /\ ShellTidy(e) /\ e.request = c.request
    <3>1. \A i \in DOMAIN e.pending : Plain(c, e.pending[i])
      BY <2>3
    <3>2. QED
      BY <1>6, <2>3, <3>1
  <2>5. Behind(e) = MarkedFirst(TRUE, R)
    <3>1. <<>> \o R = R
      BY <1>3, NothingJoined
    <3>2. QED
      BY <2>3, <2>4, <3>1, Zenon DEF Behind
  <2>6. PICK G, M : G = P \o <<m>> /\ M = MarkedFirst(nr, G)
    BY Zenon
  <2>7. G \in Seq(Messages) /\ Len(G) = Len(P) + 1 /\ G # <<>>
    BY <1>2, <1>4, <2>6
  <2>8. Behind(c) = M \o R
    <3>1. G \o R = P \o (<<m>> \o R)
      BY <1>2, <1>3, <1>4, <2>6, MessagesInTurn, ZenonT(40)
    <3>2. MarkedFirst(nr, G \o R) = M \o R
      BY <1>2, <1>3, <2>6, <2>7, MarkConcat, Zenon
    <3>3. QED
      BY <1>5, <3>1, <3>2, Zenon
  <2>9. M \in Seq(Messages) /\ Len(M) = Len(P) + 1
    BY <1>2, <2>6, <2>7, MarkType, Zenon
  <2>10. \A a, b \in Seq(Messages) : SubSeq(a \o b, Len(a) + 1, Len(a \o b)) = b
    <3>1. TAKE a, b \in Seq(Messages)
    <3>2. PICK z : z = SubSeq(a \o b, Len(a) + 1, Len(a \o b))
      OBVIOUS
    <3>3. z \in Seq(Messages) /\ Len(z) = Len(b) /\ \A i \in 1..Len(b) : z[i] = b[i]
      BY <3>2
    <3>4. QED
      BY <3>2, <3>3, SeqEqual
  <2>11. SubSeq(Behind(c), Len(P) + 2, Len(Behind(c))) = R
    <3>1. SubSeq(M \o R, Len(M) + 1, Len(M \o R)) = R
      BY <1>3, <2>9, <2>10
    <3>2. Len(M) + 1 = Len(P) + 2
      BY <1>2, <2>9
    <3>3. QED
      BY <2>8, <3>1, <3>2, Zenon
  <2>12. (Len(P) + 1) + 1 = Len(P) + 2
    BY <1>2
  <2>13. r.c = e /\ r.sent = <<>>
    BY <2>2
  <2>14. SubSeq(Behind(c), (Len(c.pending) + 1) + 1, Len(Behind(c))) = R
    BY <1>1, <2>11, <2>12, Zenon
  <2>15. Drops(c, r, Len(c.pending) + 1)
    BY <2>4, <2>5, <2>13, <2>14, Zenon DEF Drops
  <2>16. QED
    BY <2>15
<1>10. CASE ~(d.pending = <<>> /\ d.connected) /\ Len(d.pending) < MaxPendingCli
  <2>1. PICK e : e = [d EXCEPT !.pending = Append(P, m)]
    BY Zenon
  <2>2. r = [c |-> e, sent |-> <<>>]
    <3>1. ~(Len(d.pending) >= MaxPendingCli)
      BY <1>1, <1>2, <1>10
    <3>2. r = [c |-> [d EXCEPT !.pending = Append(@, m)], sent |-> <<>>]
      BY <1>10, <3>1, Zenon DEF OfferOutput
    <3>3. [d EXCEPT !.pending = Append(@, m)] = e
      BY <1>1, <2>1
    <3>4. QED
      BY <3>2, <3>3
  <2>3. /\ e.session = d.session /\ e.request = d.request /\ e.written = d.written
        /\ e.pendingEnd = d.pendingEnd /\ e.emitted = d.emitted /\ e.pending = Append(P, m)
        /\ e.needsReset = nr
    BY <1>1, <2>1 DEF Kept, CliStates
  <2>4. Rest(e) = R /\ ShellTidy(e) /\ e.request = c.request
    <3>1. \A i \in DOMAIN Append(P, m) : Plain(c, Append(P, m)[i])
      <4>1. TAKE i \in DOMAIN Append(P, m)
      <4>2. CASE i \in 1..Len(P)
        BY <1>2, <1>7, <4>2
      <4>3. CASE i = Len(P) + 1
        BY <1>2, <1>3, <4>3
      <4>4. QED
        BY <1>2, <4>2, <4>3
    <3>2. \A i \in DOMAIN e.pending : Plain(c, e.pending[i])
      BY <2>3, <3>1
    <3>3. QED
      BY <1>6, <2>3, <3>2
  <2>5. Behind(e) = Behind(c)
    <3>1. Append(P, m) = P \o <<m>>
      BY <1>2, <1>4
    <3>2. (P \o <<m>>) \o R = P \o (<<m>> \o R)
      BY <1>2, <1>3, <1>4, MessagesInTurn, ZenonT(40)
    <3>3. Behind(e) = MarkedFirst(nr, Append(P, m) \o R)
      BY <2>3, <2>4 DEF Behind
    <3>4. QED
      BY <1>5, <3>1, <3>2, <3>3, Zenon
  <2>6. <<>> \o Behind(e) = Behind(c)
    BY <1>2, <2>5, NothingJoined
  <2>7. r.c = e /\ r.sent = <<>>
    BY <2>2
  <2>8. SendsOn(c, r)
    BY <2>4, <2>6, <2>7, Zenon DEF SendsOn
  <2>9. QED
    BY <2>8
<1>11. QED
  <2>1. Len(d.pending) \in Nat
    BY <1>1, <1>2
  <2>2. QED
    BY <1>2, <1>8, <1>9, <1>10, <2>1

LEMMA OutputReadyLine ==
  ASSUME NEW c, Kept(c), ShellTidy(c), c.session # "none", NEW m \in Outputs,
         c.emitted # <<>>, m = Head(c.emitted),
         NEW d, Kept(d), d.session = c.session, d.request = c.request, d.written = c.written,
         d.pendingEnd = c.pendingEnd, d.emitted = Tail(c.emitted),
         d.pending = c.pending, d.needsReset = c.needsReset, NEW gone
  PROVE  LET r == onTerminalOutputReady(d, m, gone)
         IN  SendsOn(c, r) \/ Drops(c, r, Len(c.pending) + 1)
<1> DEFINE r == onTerminalOutputReady(d, m, gone)
<1>1. PICK o : o = OfferOutput(d, m)
  OBVIOUS
<1>2. Served(o) /\ o = [c |-> o.c, sent |-> o.sent]
  BY <1>1, OfferKeeps
<1>3. SendsOn(c, o) \/ Drops(c, o, Len(c.pending) + 1)
  BY <1>1, OfferLine, Zenon
<1>4. r = o \/ r = [o EXCEPT !.c = scheduleTerminalBackpressurePoll(@)]
  BY <1>1 DEF onTerminalOutputReady
<1> HIDE DEF r
<1>5. CASE r = [o EXCEPT !.c = scheduleTerminalBackpressurePoll(@)]
  <2>1. PICK e, f : e = o.c /\ f = scheduleTerminalBackpressurePoll(e)
    OBVIOUS
  <2>2. r.c = f /\ r.sent = o.sent
    BY <1>2, <1>5, <2>1
  <2>3. e \in CliStates
    BY <1>2, <2>1 DEF Served, Kept
  <2>4. SameShell(e, f)
    BY <2>1, <2>3 DEF scheduleTerminalBackpressurePoll, CliStates, SameShell
  <2>5. Behind(f) = Behind(e) /\ (ShellTidy(e) => ShellTidy(f)) /\ f.request = e.request
    BY <2>4, BehindSame DEF SameShell
  <2>6. QED
    BY <1>3, <2>1, <2>2, <2>5, Zenon DEF SendsOn, Drops, r
<1>6. QED
  BY <1>3, <1>4, <1>5 DEF r

-----------------------------------------------------------------------------
(* The steps of WebRtcCli and of its shell.                                *)

Before == (batch \o ingress) \o toCtl

LEMMA LineTypes ==
  ASSUME StreamInv, TranscriptOK
  PROVE  /\ Kept(cli) /\ ShellTidy(cli) /\ toCtl \in Seq(Messages) /\ cli.request \in Nat
         /\ Before \in Seq(Messages) /\ Behind(cli) \in Seq(Messages)
         /\ Line = Before \o Behind(cli) /\ Line \in Seq(Messages)
         /\ Len(Line) = Len(Before) + Len(Behind(cli)) /\ Page \in Seq(Chunks)
         /\ LineOK(Line, Page, ctl.request, cli.request, ctl.needsReset, torn)
<1>1. Kept(cli) /\ ShellTidy(cli) /\ toCtl \in Seq(Messages)
  BY DEF StreamInv, CliOK, WiresOK, TranscriptOK
<1>2. Behind(cli) \in Seq(Messages)
  BY <1>1, RestType
<1>3. batch \in Seq(Messages) /\ ingress \in Seq(Messages)
  BY DEF StreamInv, WiresOK
<1>4. batch \o ingress \in Seq(Messages)
  BY <1>3
<1>5. Before \in Seq(Messages)
  BY <1>1, <1>4 DEF Before
<1>6. cli.request \in Nat
  BY <1>1, LimitsAreNumbers DEF Kept, CliStates, Requests
<1>7. ctl.pending \in Seq(Chunks) /\ shown \in Seq(Chunks)
  BY DEF StreamInv, WorkerOK, CtlStates, HistoryOK
<1>8. Page \in Seq(Chunks)
  BY <1>7 DEF Page
<1>9. Line = Before \o Behind(cli)
  BY DEF Line, Before
<1>10. LineOK(Line, Page, ctl.request, cli.request, ctl.needsReset, torn)
  BY DEF TranscriptOK
<1>11. \A a, b \in Seq(Messages) : a \o b \in Seq(Messages) /\ Len(a \o b) = Len(a) + Len(b)
  OBVIOUS
<1>12. QED
  BY <1>1, <1>2, <1>5, <1>6, <1>8, <1>9, <1>10, <1>11

\* A step that leaves the page and the window alone.
LEMMA LineStep ==
  ASSUME StreamInv, TranscriptOK, UNCHANGED <<ctl, shown, torn>>,
         RequestsGrow', ShellTidy(cli'), cli'.request \in Nat, cli.request <= cli'.request,
         LineOK(Line', Page, ctl.request, cli'.request, ctl.needsReset, torn)
  PROVE  TranscriptOK'
<1>1. ctl' = ctl /\ shown' = shown /\ torn' = torn
  OBVIOUS
<1>2. Page' = Page
  BY <1>1 DEF Page
<1>3. PageOK'
  <2>1. \A k \in DOMAIN Page : Page[k].of <= cli'.request
    <3>1. SUFFICES ASSUME NEW k \in DOMAIN Page
                   PROVE  Page[k].of <= cli'.request
      OBVIOUS
    <3>2. Page[k].of <= cli.request /\ cli.request \in Nat
      BY LineTypes DEF TranscriptOK, PageOK
    <3>3. Page[k] \in Chunks
      BY LineTypes
    <3>4. Page[k].of \in Nat
      BY <3>3, LimitsAreNumbers DEF Chunks, Requests
    <3>5. QED
      BY <3>2, <3>4
  <2>2. QED
    BY <1>1, <1>2, <2>1 DEF TranscriptOK, PageOK, T!Allowed, T!Continues
<1>4. QED
  BY <1>1, <1>2, <1>3 DEF TranscriptOK

\* The requests under way when cli takes none of them.
LEMMA RequestsStay ==
  ASSUME StreamInv, TranscriptOK, UNCHANGED <<win, ctl>>, cli'.request = cli.request,
         toCli' = toCli \/ (toCli # <<>> /\ toCli' = Tail(toCli))
  PROVE  RequestsGrow'
<1>1. CASE toCli' = toCli
  BY <1>1 DEF TranscriptOK, RequestsGrow
<1>2. CASE toCli # <<>> /\ toCli' = Tail(toCli)
  <2>1. PICK t, N : t = Tail(toCli) /\ N = Len(toCli)
    BY Zenon
  <2>2. /\ N \in Nat /\ N > 0 /\ DOMAIN t = 1..N - 1 /\ toCli' = t
        /\ \A i \in 1..N - 1 : t[i] = toCli[i + 1] /\ i + 1 \in DOMAIN toCli
        /\ \A i \in 1..N - 1 : \A j \in 1..i - 1 : j + 1 \in 1..(i + 1) - 1 /\ t[j] = toCli[j + 1]
    BY <1>2, <2>1 DEF StreamInv, WiresOK
  <2>3. ASSUME NEW i \in DOMAIN t, t[i].type = "start"
        PROVE  /\ cli.request < t[i].of /\ t[i].of <= ctl.request
               /\ \A j \in 1..i - 1 : t[j].type = "start" => t[j].of < t[i].of
    <3>1. PICK h : h = i + 1
      OBVIOUS
    <3>2. /\ h \in DOMAIN toCli /\ toCli[h] = t[i]
          /\ \A j \in 1..i - 1 : j + 1 \in 1..h - 1 /\ t[j] = toCli[j + 1]
      BY <2>2, <2>3, <3>1, Zenon
    <3>3. /\ cli.request < toCli[h].of /\ toCli[h].of <= ctl.request
          /\ \A j \in 1..h - 1 : toCli[j].type = "start" => toCli[j].of < toCli[h].of
      BY <2>3, <3>2, Zenon DEF TranscriptOK, RequestsGrow
    <3>4. QED
      BY <3>2, <3>3, Zenon
  <2>4. QED
    BY <2>2, <2>3 DEF TranscriptOK, RequestsGrow
<1>3. QED
  BY <1>1, <1>2

\* What cli sends joins what it sent before.
LEMMA TakesLine ==
  ASSUME StreamInv, TranscriptOK, NEW r, Takes(r), Served(r), ShellTidy(r.c),
         UNCHANGED <<batch, ingress>>
  PROVE  /\ Line' = Before \o (r.sent \o Behind(r.c))
         /\ cli' = r.c /\ cli'.request \in Nat
         /\ r.sent \in Seq(Messages) /\ Behind(r.c) \in Seq(Messages)
<1>1. r.sent \in Seq(Messages) /\ Behind(r.c) \in Seq(Messages)
  BY RestType DEF Served
<1>2. PICK a, t, s, b : a = batch \o ingress /\ t = toCtl /\ s = r.sent /\ b = Behind(r.c)
  BY Zenon
<1>3. a \in Seq(Messages) /\ t \in Seq(Messages) /\ s \in Seq(Messages) /\ b \in Seq(Messages)
  BY <1>1, <1>2 DEF StreamInv, WiresOK
<1>4. (a \o (t \o s)) \o b = (a \o t) \o (s \o b)
  <2>1. a \o (t \o s) = (a \o t) \o s
    BY <1>3, MessagesInTurn, ZenonT(40)
  <2>2. a \o t \in Seq(Messages)
    BY <1>3
  <2>3. ((a \o t) \o s) \o b = (a \o t) \o (s \o b)
    BY <1>3, <2>2, MessagesInTurn, ZenonT(40)
  <2>4. QED
    BY <2>1, <2>3
<1>5. cli' = r.c /\ toCtl' = t \o s /\ batch' = batch /\ ingress' = ingress
  BY <1>2 DEF Takes
<1>6. Line' = (a \o (t \o s)) \o b
  BY <1>2, <1>5, Zenon DEF Line, Behind, MarkedFirst, Rest, Told, Coming, HasExit, Ended, Output, Exit
<1>7. Before = a \o t
  BY <1>2 DEF Before
<1>8. cli'.request \in Nat
  BY <1>5, LimitsAreNumbers DEF Served, Kept, CliStates, Requests
<1>9. QED
  BY <1>1, <1>2, <1>4, <1>5, <1>6, <1>7, <1>8

LEMMA JoinByPlace ==
  \A a, b \in Seq(Messages) :
    /\ a \o b \in Seq(Messages) /\ Len(a) \in Nat /\ Len(b) \in Nat /\ Len(a \o b) = Len(a) + Len(b)
    /\ \A i \in 1..Len(a) : (a \o b)[i] = a[i]
    /\ \A i \in Len(a) + 1..Len(a) + Len(b) : (a \o b)[i] = b[i - Len(a)]
  OBVIOUS

\* What waits before the shell is where the line begins.
LEMMA BeforeLeadsLine ==
  ASSUME StreamInv, TranscriptOK
  PROVE  Len(Before) \in 0..Len(Line)
<1>1. PICK a, b, n : a = Len(Before) /\ b = Len(Behind(cli)) /\ n = Len(Line)
  OBVIOUS
<1>2. a \in Nat /\ b \in Nat
  BY <1>1, LineTypes, JoinByPlace, Zenon
<1>3. n = a + b
  BY <1>1, LineTypes, Zenon
<1>4. a \in 0..n
  BY <1>2, <1>3
<1>5. QED
  BY <1>1, <1>4, Zenon

LEMMA AppendByPlace ==
  \A a \in Seq(Messages), x \in Messages :
    /\ Append(a, x) \in Seq(Messages) /\ Len(Append(a, x)) = Len(a) + 1 /\ Append(a, x) # <<>>
    /\ Append(a, x)[Len(a) + 1] = x /\ Append(a, x) = a \o <<x>> /\ <<x>> \in Seq(Messages)
    /\ \A i \in 1..Len(a) : Append(a, x)[i] = a[i]
  OBVIOUS

LEMMA RestByPlace ==
  \A a \in Seq(Messages) : \A k \in 0..Len(a) :
    /\ SubSeq(a, k + 1, Len(a)) \in Seq(Messages) /\ Len(SubSeq(a, k + 1, Len(a))) = Len(a) - k
    /\ \A i \in 1..Len(a) - k : SubSeq(a, k + 1, Len(a))[i] = a[i + k]
  OBVIOUS

\* While a shell lives the line ends with what it signals next.
LEMMA ShellLine ==
  ASSUME StreamInv, TranscriptOK, cli.session # "none"
  PROVE  /\ Line # <<>> /\ Len(Before) + Len(cli.pending) < Len(Line)
         /\ Len(cli.pending) + 1 <= Len(Behind(cli))
         /\ Alike(Line[Len(Line)], Coming(cli)) /\ Line[Len(Line)] \in Messages
         /\ Line[Len(Line)].of = cli.request /\ Line[Len(Line)].type # "info"
         /\ cli.request # 0 /\ cli.pendingEnd = 0
         /\ Rest(cli) = Append(Told(cli), Coming(cli))
<1>1. /\ cli.pending \in Seq(Messages) /\ Rest(cli) \in Seq(Messages) /\ Behind(cli) \in Seq(Messages)
      /\ cli.needsReset \in BOOLEAN /\ Told(cli) \in Seq(Messages) /\ Coming(cli) \in Messages
  BY LineTypes, RestType
<1>2. cli.pendingEnd = 0 /\ cli.request # 0
  BY LineTypes DEF ShellTidy
<1>3. Rest(cli) = Append(Told(cli), Coming(cli))
  BY <1>2, Zenon DEF Rest
<1>4. PICK P, T0, x, g, b, L :
         /\ P = cli.pending /\ T0 = Told(cli) /\ x = Coming(cli) /\ g = P \o Append(T0, x)
         /\ b = Behind(cli) /\ L = Line
  BY Zenon
<1>5. /\ g \in Seq(Messages) /\ Len(g) = Len(P) + Len(T0) + 1 /\ g[Len(g)] = x /\ g # <<>>
      /\ Len(P) \in Nat /\ Len(T0) \in Nat
  <2>1. P \in Seq(Messages) /\ T0 \in Seq(Messages) /\ x \in Messages
    BY <1>1, <1>4
  <2>2. PICK y : y = Append(T0, x)
    BY Zenon
  <2>3. y \in Seq(Messages) /\ Len(y) = Len(T0) + 1 /\ y[Len(T0) + 1] = x
    BY <2>1, <2>2, AppendByPlace
  <2>4. /\ g = P \o y /\ g \in Seq(Messages) /\ Len(g) = Len(P) + Len(y)
        /\ Len(P) \in Nat /\ Len(T0) \in Nat
        /\ \A i \in Len(P) + 1..Len(P) + Len(y) : g[i] = y[i - Len(P)]
    <3>1. g = P \o y
      BY <1>4, <2>2
    <3>2. QED
      BY <2>1, <2>3, <3>1, JoinByPlace, Zenon
  <2>5. g[Len(g)] = x /\ g # <<>> /\ Len(g) = Len(P) + Len(T0) + 1
    BY <2>3, <2>4
  <2>6. QED
    BY <2>4, <2>5
<1>6. b = MarkedFirst(cli.needsReset, g)
  BY <1>3, <1>4 DEF Behind
<1>7. /\ b \in Seq(Messages) /\ Len(b) = Len(g) /\ \A i \in 1..Len(g) : i # 1 => b[i] = g[i]
      /\ b[1] = IF cli.needsReset /\ g[1].type = "output" THEN [g[1] EXCEPT !.reset = TRUE] ELSE g[1]
  BY <1>1, <1>5, <1>6, MarkType, Zenon
<1>8. Alike(b[Len(b)], x) /\ b[Len(b)] \in Messages
  <2>1. Len(g) \in 1..Len(g) /\ Len(g) \in 1..Len(b)
    BY <1>5, <1>7
  <2>2. b[Len(b)] \in Messages /\ x \in Messages
    <3>1. x \in Messages
      BY <1>1, <1>4
    <3>2. b[Len(b)] \in Messages
      BY <1>7, <2>1
    <3>3. QED
      BY <3>1, <3>2
  <2>3. CASE Len(g) # 1
    <3>1. b[Len(b)] = x
      BY <1>5, <1>7, <2>1, <2>3
    <3>2. QED
      BY <2>2, <3>1 DEF Alike
  <2>4. CASE Len(g) = 1 /\ cli.needsReset /\ x.type = "output"
    <3>1. b[Len(b)] = [x EXCEPT !.reset = TRUE]
      BY <1>5, <1>7, <2>4, Zenon
    <3>2. x \in Outputs
      BY <2>2, <2>4 DEF Messages, Events
    <3>3. QED
      BY <2>2, <3>1, <3>2 DEF Alike, Outputs
  <2>5. CASE Len(g) = 1 /\ ~(cli.needsReset /\ x.type = "output")
    <3>1. b[Len(b)] = x
      BY <1>5, <1>7, <2>5
    <3>2. QED
      BY <2>2, <3>1 DEF Alike
  <2>6. QED
    BY <2>3, <2>4, <2>5
<1>9. /\ L = Before \o b /\ Before \in Seq(Messages) /\ L \in Seq(Messages)
      /\ Len(L) = Len(Before) + Len(b) /\ Len(Before) \in Nat
  <2>1. Before \in Seq(Messages) /\ L = Before \o b /\ L \in Seq(Messages)
    BY <1>4, LineTypes
  <2>2. QED
    BY <1>7, <2>1, JoinByPlace, Zenon
<1>10. L # <<>> /\ L[Len(L)] = b[Len(b)]
  BY <1>5, <1>7, <1>9
<1>11. x.of = cli.request /\ x.type # "info"
  BY <1>4 DEF Coming, Ended, Output
<1>12. L[Len(L)].of = cli.request /\ L[Len(L)].type # "info"
  BY <1>8, <1>10, <1>11 DEF Alike
<1>13. Len(Before) + Len(P) < Len(L) /\ Len(P) + 1 <= Len(b)
  BY <1>5, <1>7, <1>9
<1>14. QED
  BY <1>2, <1>3, <1>4, <1>8, <1>10, <1>12, <1>13

LEMMA SendsOnKeeps ==
  ASSUME StreamInv, TranscriptOK, NEW r, Takes(r), Served(r), SendsOn(cli, r), CliAlone
  PROVE  TranscriptOK'
<1>1. /\ win' = win /\ ctl' = ctl /\ ingress' = ingress /\ batch' = batch /\ shown' = shown
      /\ torn' = torn /\ toCli' = toCli
  BY DEF CliAlone, worker
<1>2. ShellTidy(r.c) /\ r.c.request = cli.request /\ r.sent \o Behind(r.c) = Behind(cli)
  BY DEF SendsOn
<1>3. Line' = Before \o (r.sent \o Behind(r.c)) /\ cli' = r.c /\ cli'.request \in Nat
  BY <1>1, <1>2, TakesLine, Zenon
<1>4. Line' = Line
  BY <1>2, <1>3, LineTypes, Zenon
<1>5. RequestsGrow'
  BY <1>1, <1>2, <1>3, RequestsStay
<1>6. LineOK(Line', Page, ctl.request, cli'.request, ctl.needsReset, torn)
  BY <1>2, <1>3, <1>4, LineTypes
<1>7. QED
  BY <1>1, <1>2, <1>3, <1>5, <1>6, LineStep

LEMMA DropsKeeps ==
  ASSUME StreamInv, TranscriptOK, cli.session # "none",
         NEW r, Takes(r), Served(r), Drops(cli, r, Len(cli.pending) + 1), CliAlone
  PROVE  TranscriptOK'
<1>1. /\ win' = win /\ ctl' = ctl /\ ingress' = ingress /\ batch' = batch /\ shown' = shown
      /\ torn' = torn /\ toCli' = toCli
  BY DEF CliAlone, worker
<1>2. PICK a, k, b, rest, m : /\ a = Before /\ k = Len(cli.pending) + 1 /\ b = Behind(cli)
                              /\ rest = SubSeq(b, k + 1, Len(b)) /\ m = MarkedFirst(TRUE, rest)
  BY Zenon
<1>3. ShellTidy(r.c) /\ r.c.request = cli.request /\ r.sent = <<>> /\ Behind(r.c) = m
  BY <1>2 DEF Drops
<1>4. Line' = Before \o (r.sent \o Behind(r.c)) /\ cli' = r.c /\ cli'.request \in Nat
  BY <1>1, <1>3, TakesLine, Zenon
<1>5. /\ a \in Seq(Messages) /\ b \in Seq(Messages) /\ Line = a \o b
      /\ LineOK(Line, Page, ctl.request, cli.request, ctl.needsReset, torn)
  BY <1>2, LineTypes, Zenon
<1>6. k \in Nat /\ k > 0 /\ k <= Len(b)
  <2>1. cli.pending \in Seq(Messages)
    BY LineTypes, RestType
  <2>2. Len(cli.pending) + 1 <= Len(b)
    BY <1>2, ShellLine
  <2>3. QED
    BY <1>2, <2>1, <2>2
<1>7. /\ rest \in Seq(Messages) /\ Len(rest) = Len(b) - k
      /\ \A i \in 1..Len(b) - k : rest[i] = b[i + k]
  <2>1. k \in 0..Len(b) /\ b \in Seq(Messages)
    BY <1>5, <1>6
  <2>2. QED
    BY <1>2, <2>1, RestByPlace, Zenon
<1>8. /\ m \in Seq(Messages) /\ Len(m) = Len(rest)
      /\ \A i \in 1..Len(rest) : i # 1 => m[i] = rest[i]
      /\ rest # <<>> => m[1] = IF rest[1].type = "output"
                               THEN [rest[1] EXCEPT !.reset = TRUE] ELSE rest[1]
  BY <1>2, <1>7, MarkType, ZenonT(40)
<1>9. \A i \in 1..Len(rest) : Alike(m[i], rest[i]) /\ (i = 1 /\ IsText(m[i]) => m[i].reset)
  <2>1. TAKE i \in 1..Len(rest)
  <2>2. rest[i] \in Messages
    BY <1>7
  <2>3. CASE i # 1
    BY <1>8, <2>3 DEF Alike
  <2>4. CASE i = 1 /\ rest[1].type = "output"
    <3>1. rest[1] \in Outputs
      BY <2>2, <2>4 DEF Messages, Events
    <3>2. rest # <<>>
      BY <1>7, <2>4
    <3>3. m[1] = [rest[1] EXCEPT !.reset = TRUE]
      BY <1>8, <2>4, <3>2
    <3>4. QED
      BY <2>4, <3>1, <3>3 DEF Alike, Outputs
  <2>5. CASE i = 1 /\ rest[1].type # "output"
    <3>1. rest # <<>>
      BY <1>7, <2>5
    <3>2. m[1] = rest[1]
      BY <1>8, <2>5, <3>1
    <3>3. QED
      BY <2>5, <3>2 DEF Alike, IsText
  <2>6. QED
    BY <2>3, <2>4, <2>5
<1>10. PICK L, t, n : L = Line /\ t = Line' /\ n = Len(a)
  OBVIOUS
<1>11. <<>> \o m = m
  BY <1>8, NothingJoined
<1>12. t = a \o m
  BY <1>2, <1>3, <1>4, <1>10, <1>11
<1>13. /\ L \in Seq(Messages) /\ t \in Seq(Messages) /\ n \in Nat /\ Len(t) + k = Len(L)
       /\ \A i \in 1..Len(t) : i <= n => t[i] = L[i]
       /\ \A i \in 1..Len(t) : i > n => i - n \in 1..Len(rest) /\ t[i] = m[i - n] /\ L[i + k] = rest[i - n]
  <2>1. /\ t \in Seq(Messages) /\ Len(t) = n + Len(m) /\ n \in Nat
        /\ \A i \in 1..n : t[i] = a[i]
        /\ \A i \in n + 1..n + Len(m) : t[i] = m[i - n]
    <3>1. /\ a \o m \in Seq(Messages) /\ Len(a \o m) = Len(a) + Len(m) /\ Len(a) \in Nat
          /\ \A i \in 1..Len(a) : (a \o m)[i] = a[i]
          /\ \A i \in Len(a) + 1..Len(a) + Len(m) : (a \o m)[i] = m[i - Len(a)]
      BY <1>5, <1>8, JoinByPlace, Zenon
    <3>2. QED
      BY <1>10, <1>12, <3>1, Zenon
  <2>2. /\ L \in Seq(Messages) /\ Len(L) = n + Len(b)
        /\ \A i \in 1..n : L[i] = a[i]
        /\ \A i \in n + 1..n + Len(b) : L[i] = b[i - n]
    BY <1>5, <1>10, JoinByPlace, Zenon
  <2>3. Len(b) \in Nat
    BY <1>5
  <2>4. Len(t) + k = Len(L)
    BY <1>6, <1>7, <1>8, <2>1, <2>2, <2>3
  <2>5. ASSUME NEW i \in 1..Len(t), i > n
        PROVE  i - n \in 1..Len(rest) /\ t[i] = m[i - n] /\ L[i + k] = rest[i - n]
    <3>1. /\ i - n \in 1..Len(b) - k /\ i \in n + 1..n + Len(m) /\ i + k \in n + 1..n + Len(b)
          /\ (i + k) - n = (i - n) + k
      BY <1>6, <1>7, <1>8, <2>1, <2>3, <2>5, SMTT(40)
    <3>2. rest[i - n] = b[(i - n) + k]
      BY <1>7, <3>1
    <3>3. QED
      BY <1>7, <2>1, <2>2, <3>1, <3>2, Zenon
  <2>6. QED
    BY <2>1, <2>2, <2>4, <2>5
<1>14. \A i \in 1..Len(t) : i > n => Alike(t[i], L[i + k])
  BY <1>9, <1>13, Zenon
<1>15. \A i \in 1..Len(t) : i = n + 1 /\ IsText(t[i]) => t[i].reset
  <2>1. \A i \in 1..Len(t) : i = n + 1 => i > n /\ i - n = 1
    BY <1>13
  <2>2. QED
    BY <1>9, <1>13, <2>1, Zenon
<1>16. LineOK(t, Page, ctl.request, cli.request, ctl.needsReset, torn)
  <2>1. LineOK(L, Page, ctl.request, cli.request, ctl.needsReset, torn)
    BY <1>5, <1>10
  <2>2. QED
    BY <1>6, <1>13, <1>14, <1>15, <2>1, LineDrops, Zenon
<1>17. RequestsGrow'
  BY <1>1, <1>3, <1>4, RequestsStay
<1>18. QED
  BY <1>1, <1>3, <1>4, <1>10, <1>16, <1>17, LineStep, LineTypes

LEMMA PrefixByPlace ==
  \A a, b \in Seq(Messages) : SubSeq(a \o b, 1, Len(a)) = a
<1> TAKE a, b \in Seq(Messages)
<1>1. PICK z, n : z = SubSeq(a \o b, 1, Len(a)) /\ n = Len(a)
  BY Zenon
<1>2. z \in Seq(Messages) /\ Len(z) = n /\ n \in Nat /\ \A i \in 1..n : z[i] = a[i]
  BY <1>1
<1>3. QED
  BY <1>1, <1>2, SeqEqual

\* A mark alone, or the end of a shell, for the request r.
LEMMA EndTypes ==
  ASSUME NEW r \in Requests
  PROVE  /\ Ended(r) \in Messages /\ Ended(r).of = r /\ Ended(r).type = "ended" /\ ~IsText(Ended(r))
         /\ Output(r, 0, FALSE) \in Messages
         /\ [Output(r, 0, FALSE) EXCEPT !.reset = TRUE] \in Messages
         /\ [Output(r, 0, FALSE) EXCEPT !.reset = TRUE].of = r
         /\ [Output(r, 0, FALSE) EXCEPT !.reset = TRUE].type = "output"
         /\ ~IsText([Output(r, 0, FALSE) EXCEPT !.reset = TRUE])
<1>1. Ended(r) \in Messages /\ Ended(r).of = r /\ Ended(r).type = "ended" /\ ~IsText(Ended(r))
  BY DEF Ended, Messages, Events, IsText
<1>2. PICK m, x : m = Output(r, 0, FALSE) /\ x = [m EXCEPT !.reset = TRUE]
  BY Zenon
<1>3. m = [type |-> "output", of |-> r, n |-> 0, big |-> FALSE, reset |-> FALSE]
  BY <1>2 DEF Output
<1>4. m \in Outputs /\ m.of = r /\ m.type = "output" /\ m.n = 0
  BY <1>3 DEF Outputs
<1>5. x \in Outputs /\ x.of = m.of /\ x.type = m.type /\ x.n = m.n
  BY <1>2, <1>4, Zenon DEF Outputs
<1>6. x.of = r /\ x.type = "output" /\ x.n = 0
  BY <1>4, <1>5
<1>7. ~IsText(x)
  BY <1>6 DEF IsText
<1>8. QED
  BY <1>1, <1>2, <1>4, <1>5, <1>6, <1>7, Zenon DEF Messages

\* The shell ends: of what it had still to tell only its end is told, after what
\* is pending, or after a mark alone.
LEMMA EndCutsLine ==
  ASSUME StreamInv, TranscriptOK, cli.session # "none",
         NEW s, s = MarkedFirst(cli.needsReset, LastText(cli) \o <<Ended(cli.request)>>)
  PROVE  LineOK(Before \o s, Page, ctl.request, cli.request, ctl.needsReset, torn)
<1>1. PICK a, P, E, nr, r, L :
         /\ a = Before /\ P = cli.pending /\ E = Ended(cli.request) /\ nr = cli.needsReset
         /\ r = cli.request /\ L = Line
  OBVIOUS
<1>2. /\ a \in Seq(Messages) /\ P \in Seq(Messages) /\ nr \in BOOLEAN /\ r \in Nat /\ r \in Requests
      /\ L \in Seq(Messages) /\ Rest(cli) \in Seq(Messages)
      /\ LineOK(L, Page, ctl.request, r, ctl.needsReset, torn) /\ L = a \o Behind(cli)
  <2>1. r \in Requests
    BY <1>1, LineTypes DEF Kept, CliStates
  <2>2. QED
    BY <1>1, <2>1, LineTypes, RestType, Zenon
<1>3. /\ L # <<>> /\ Len(a) + Len(P) < Len(L) /\ L[Len(L)].of = r /\ L[Len(L)].type # "info"
  BY <1>1, ShellLine
<1>4. E \in Messages /\ E.of = r /\ E.type = "ended" /\ ~IsText(E) /\ <<E>> \in Seq(Messages)
  <2>1. E \in Messages /\ E.of = r /\ E.type = "ended" /\ ~IsText(E)
    BY <1>1, <1>2, EndTypes, Zenon
  <2>2. QED
    BY <2>1, AppendByPlace, <1>2
<1>5. CASE ~(nr /\ P = <<>>)
  <2>1. PICK M, X : M = MarkedFirst(nr, P) /\ X = a \o M
    BY Zenon
  <2>2. M \in Seq(Messages) /\ Len(M) = Len(P)
    BY <1>2, <2>1, MarkType, Zenon
  <2>3. s = M \o <<E>>
    <3>1. LastText(cli) = P
      BY <1>1, <1>5 DEF LastText
    <3>2. P # <<>> \/ ~nr
      BY <1>5
    <3>3. MarkedFirst(nr, P \o <<E>>) = M \o <<E>>
      BY <1>2, <1>4, <2>1, <3>2, MarkConcat, Zenon
    <3>4. QED
      BY <1>1, <3>1, <3>3
  <2>4. L = X \o Rest(cli)
    <3>1. P # <<>> \/ ~nr
      BY <1>5
    <3>2. MarkedFirst(nr, P \o Rest(cli)) = M \o Rest(cli)
      BY <1>2, <2>1, <3>1, MarkConcat, Zenon
    <3>3. L = a \o (M \o Rest(cli))
      BY <1>1, <1>2, <3>2 DEF Behind
    <3>4. QED
      BY <1>2, <2>1, <2>2, <3>3, MessagesInTurn, ZenonT(40)
  <2>5. X \in Seq(Messages) /\ Len(X) = Len(a) + Len(P) /\ Len(X) \in Nat
    BY <1>2, <2>1, <2>2, JoinByPlace
  <2>6. SubSeq(L, 1, Len(X)) = X
    BY <1>2, <2>4, <2>5, PrefixByPlace
  <2>7. Len(X) < Len(L)
    BY <1>3, <2>5
  <2>8. LineOK(Append(SubSeq(L, 1, Len(X)), E), Page, ctl.request, r, ctl.needsReset, torn)
    <3>1. PICK k, z : k = Len(X) /\ z = Append(SubSeq(L, 1, k), E)
      BY Zenon
    <3>2. k \in Nat /\ k < Len(L) /\ E.type # "info"
      BY <1>4, <2>5, <2>7, <3>1
    <3>3. LineOK(z, Page, ctl.request, r, ctl.needsReset, torn)
      BY <1>2, <1>3, <1>4, <3>1, <3>2, LineCut, Zenon
    <3>4. QED
      BY <3>1, <3>3
  <2>9. Append(X, E) = a \o s
    <3>1. Append(X, E) = X \o <<E>>
      BY <1>4, <2>5, AppendByPlace
    <3>2. X \o <<E>> = a \o (M \o <<E>>)
      <4>1. a \in Seq(Messages) /\ M \in Seq(Messages) /\ <<E>> \in Seq(Messages)
        BY <1>2, <1>4, <2>2
      <4>2. (a \o M) \o <<E>> = a \o (M \o <<E>>)
        BY <4>1, MessagesInTurn, ZenonT(40)
      <4>3. QED
        BY <2>1, <4>2
    <3>3. QED
      BY <2>3, <3>1, <3>2, Zenon
  <2>10. QED
    BY <1>1, <2>6, <2>8, <2>9, Zenon
<1>6. CASE nr /\ P = <<>>
  <2>1. PICK O, m : O = Output(r, 0, FALSE) /\ m = [O EXCEPT !.reset = TRUE]
    BY Zenon
  <2>2. /\ O \in Messages /\ m \in Messages /\ m.of = r /\ m.type = "output" /\ ~IsText(m)
        /\ <<O>> \in Seq(Messages) /\ <<m>> \in Seq(Messages) /\ O.type = "output"
    <3>1. O \in Messages /\ m \in Messages /\ m.of = r /\ m.type = "output" /\ ~IsText(m)
      BY <1>2, <2>1, EndTypes, Zenon
    <3>2. O.type = "output"
      BY <2>1 DEF Output
    <3>3. QED
      BY <1>2, <3>1, <3>2, AppendByPlace
  <2>3. s = <<m>> \o <<E>>
    <3>1. LastText(cli) = <<O>> /\ nr = TRUE
      BY <1>1, <1>2, <1>6, <2>1, Zenon DEF LastText
    <3>2. <<O>> # <<>>
      OBVIOUS
    <3>3. MarkedFirst(nr, <<O>> \o <<E>>) = MarkedFirst(nr, <<O>>) \o <<E>>
      BY <1>2, <1>4, <2>2, <3>2, MarkConcat, Zenon
    <3>4. MarkedFirst(nr, <<O>>) = <<m>>
      <4>1. PICK w, z : w = <<O>> /\ z = MarkedFirst(nr, w)
        BY Zenon
      <4>2. w # <<>> /\ Len(w) = 1 /\ w[1] = O /\ w \in Seq(Messages)
        BY <2>2, <4>1
      <4>3. z \in Seq(Messages) /\ Len(z) = 1 /\ z[1] = m
        BY <1>2, <2>1, <2>2, <3>1, <4>1, <4>2, MarkType, Zenon
      <4>4. z = <<m>>
        BY <4>3
      <4>5. QED
        BY <4>1, <4>4
    <3>5. QED
      BY <1>1, <3>1, <3>3, <3>4, Zenon
  <2>4. PICK k \in Nat : k = Len(a)
    BY <1>2, JoinByPlace
  <2>5. SubSeq(L, 1, k) = a
    BY <1>2, <2>4, PrefixByPlace, LineTypes
  <2>6. k < Len(L)
    <3>1. Len(P) \in Nat /\ Len(L) \in Nat
      BY <1>2
    <3>2. QED
      BY <1>3, <2>4, <3>1
  <2>7. PICK Y : Y = Append(SubSeq(L, 1, k), m)
    BY Zenon
  <2>8. Y = Append(a, m) /\ Y # <<>> /\ Y[Len(Y)] = m
    <3>1. Y = Append(a, m)
      BY <2>5, <2>7
    <3>2. Len(Y) = Len(a) + 1 /\ Y # <<>> /\ Y[Len(a) + 1] = m
      BY <1>2, <2>2, <3>1, AppendByPlace, Zenon
    <3>3. QED
      BY <3>1, <3>2
  <2>9. /\ Y \in Seq(Messages) /\ LineOK(Y, Page, ctl.request, r, ctl.needsReset, torn)
        /\ \A i \in DOMAIN Y : Y[i].type = "ended" => Y[i].of # r
    <3>1. m.type # "info"
      BY <2>2
    <3>2. LineOK(Y, Page, ctl.request, r, ctl.needsReset, torn)
      BY <1>2, <1>3, <2>2, <2>4, <2>6, <2>7, <3>1, LineCut, Zenon
    <3>3. ASSUME NEW i \in DOMAIN Y
          PROVE  Y[i].type = "ended" => Y[i].of # r
      <4>1. /\ DOMAIN Y = 1..k + 1 /\ Y[k + 1] = m
            /\ \A j \in 1..k : Y[j] = a[j] /\ L[j] = a[j] /\ j \in DOMAIN L /\ Len(L) \in DOMAIN L /\ j < Len(L)
        <5>1. a \in Seq(Messages) /\ L = a \o Behind(cli) /\ Behind(cli) \in Seq(Messages) /\ L \in Seq(Messages)
          BY <1>2, LineTypes
        <5>2. \A j \in 1..k : L[j] = a[j]
          BY <2>4, <5>1, JoinByPlace, ZenonT(40)
        <5>3. Len(Y) = k + 1 /\ Y \in Seq(Messages) /\ \A j \in 1..k : Y[j] = a[j]
          BY <2>2, <2>4, <2>8, <5>1, AppendByPlace
        <5>4. Y[k + 1] = m
          BY <2>2, <2>4, <2>8, <5>1, AppendByPlace, Zenon
        <5>5. QED
          BY <2>4, <2>6, <5>1, <5>2, <5>3, <5>4
      <4>2. CASE i \in 1..k
        <5>1. i \in DOMAIN L /\ Len(L) \in DOMAIN L /\ i < Len(L) /\ Y[i] = L[i]
          BY <4>1, <4>2
        <5>2. L[i].type = "ended" => L[i].of # L[Len(L)].of
          BY <1>2, <5>1, Zenon DEF LineOK, InTurn
        <5>3. QED
          BY <1>3, <5>1, <5>2, Zenon
      <4>3. CASE i = k + 1
        BY <2>2, <4>1, <4>3
      <4>4. QED
        BY <2>4, <4>1, <4>2, <4>3
    <3>4. Y \in Seq(Messages)
      BY <1>2, <2>2, <2>8, AppendByPlace
    <3>5. QED
      BY <3>2, <3>3, <3>4
  <2>10. LineOK(Append(Y, E), Page, ctl.request, r, ctl.needsReset, torn)
    BY <1>2, <1>4, <2>2, <2>8, <2>9, LineEnds, Zenon
  <2>11. Append(Y, E) = a \o s
    <3>1. Append(Y, E) = Y \o <<E>> /\ Y = a \o <<m>>
      <4>1. Append(Y, E) = Y \o <<E>>
        BY <1>4, <2>9, AppendByPlace, ZenonT(40)
      <4>2. Y = a \o <<m>>
        BY <1>2, <2>2, <2>8, AppendByPlace
      <4>3. QED
        BY <4>1, <4>2, Zenon
    <3>2. (a \o <<m>>) \o <<E>> = a \o (<<m>> \o <<E>>)
      <4>1. a \in Seq(Messages) /\ <<m>> \in Seq(Messages) /\ <<E>> \in Seq(Messages)
        BY <1>2, <1>4, <2>2
      <4>2. PICK x, y : x = <<m>> /\ y = <<E>>
        BY Zenon
      <4>3. (a \o x) \o y = a \o (x \o y)
        BY <4>1, <4>2, MessagesInTurn
      <4>4. QED
        BY <4>2, <4>3
    <3>3. QED
      BY <2>3, <3>1, <3>2, Zenon
  <2>12. QED
    BY <1>1, <2>10, <2>11
<1>7. QED
  BY <1>5, <1>6

LEMMA EndKeepsLine ==
  ASSUME StreamInv, TranscriptOK, cli.session # "none",
         NEW r, Takes(r), Served(r), ShellTidy(r.c), r.c.request = cli.request,
         r.sent \o Behind(r.c) = MarkedFirst(cli.needsReset, LastText(cli) \o <<Ended(cli.request)>>),
         CliAlone
  PROVE  TranscriptOK'
<1>1. /\ win' = win /\ ctl' = ctl /\ ingress' = ingress /\ batch' = batch /\ shown' = shown
      /\ torn' = torn /\ toCli' = toCli
  BY DEF CliAlone, worker
<1>2. Line' = Before \o (r.sent \o Behind(r.c)) /\ cli' = r.c /\ cli'.request \in Nat
  BY <1>1, TakesLine, Zenon
<1>3. PICK s : s = r.sent \o Behind(r.c)
  OBVIOUS
<1>4. LineOK(Before \o s, Page, ctl.request, cli.request, ctl.needsReset, torn)
  BY <1>3, EndCutsLine
<1>5. LineOK(Line', Page, ctl.request, cli'.request, ctl.needsReset, torn)
  BY <1>2, <1>3, <1>4
<1>6. RequestsGrow'
  BY <1>1, <1>2, RequestsStay
<1>7. cli.request <= cli'.request
  BY <1>2
<1>8. QED
  BY <1>1, <1>2, <1>5, <1>6, <1>7, LineStep

LEMMA onTerminalErrorTranscript ==
  ASSUME StreamInv, TranscriptOK, onTerminalError
  PROVE  TranscriptOK'
<1>1. cli.session # "none" /\ CliAlone
  BY DEF onTerminalError
<1>2. PICK gone \in Gone : Takes(EndOfShell(cli, gone))
  BY DEF onTerminalError
<1>3. Kept(cli) /\ ShellTidy(cli) /\ toCtl \in Seq(Messages) /\ cli.request # 0
  BY <1>1, LineTypes, ShellLine
<1>4. PICK r : r = EndOfShell(cli, gone)
  OBVIOUS
<1>5. Served(r)
  BY <1>3, <1>4, EndOfShellKeeps
<1>6. /\ r.sent \o Behind(r.c) = MarkedFirst(cli.needsReset, LastText(cli) \o <<Ended(cli.request)>>)
      /\ ShellTidy(r.c) /\ r.c.request = cli.request
  BY <1>3, <1>4, EndOfShellLine, Zenon
<1>7. QED
  BY <1>1, <1>2, <1>4, <1>5, <1>6, EndKeepsLine, Zenon

LEMMA HandleSignalTranscript ==
  ASSUME StreamInv, TranscriptOK, HandleSignal
  PROVE  TranscriptOK'
<1>1. PICK rest : rest = [cli EXCEPT !.emitted = Tail(cli.emitted)]
  BY Zenon
<1>2. PICK gone \in Gone :
        Takes(IF Head(cli.emitted) = Exit THEN EndOfShell(rest, gone)
              ELSE onTerminalOutputReady(rest, Head(cli.emitted), gone))
  BY <1>1 DEF HandleSignal
<1>3. Kept(cli) /\ ShellTidy(cli) /\ toCtl \in Seq(Messages) /\ cli.emitted # <<>> /\ CliAlone
  BY LineTypes DEF HandleSignal
<1>4. cli.session # "none" /\ cli.request # 0
  BY <1>3 DEF ShellTidy
<1>5. PICK e, t, h : e = cli.emitted /\ t = Tail(e) /\ h = Head(e)
  BY Zenon
<1>6. /\ e \in Seq(Outputs \cup {Exit}) /\ t \in Seq(Outputs \cup {Exit}) /\ h \in Outputs \cup {Exit}
      /\ h = e[1] /\ 1 \in DOMAIN e /\ (Len(e) = 1 => t = <<>>)
  BY <1>3, <1>5 DEF Kept, CliStates
<1>7. /\ Kept(rest) /\ rest.emitted = t /\ rest.session = cli.session /\ rest.request = cli.request
      /\ rest.written = cli.written /\ rest.pendingEnd = cli.pendingEnd
      /\ rest.pending = cli.pending /\ rest.needsReset = cli.needsReset
  BY <1>1, <1>3, <1>5, <1>6, Zenon DEF Kept, CliStates
<1>8. CASE h = Exit
  <2>1. t = <<>>
    <3>1. Len(e) = 1
      BY <1>3, <1>5, <1>6, <1>8, Zenon DEF ShellTidy
    <3>2. QED
      BY <1>6, <3>1
  <2>2. ShellTidy(rest)
    <3>1. \A i \in DOMAIN rest.emitted : FALSE
      BY <1>7, <2>1
    <3>2. QED
      BY <1>3, <1>4, <1>7, <3>1, Zenon DEF ShellTidy, Plain
  <2>3. PICK r : r = EndOfShell(rest, gone)
    OBVIOUS
  <2>4. Served(r)
    BY <1>3, <1>7, <2>3, EndOfShellKeeps
  <2>5. /\ r.sent \o Behind(r.c) = MarkedFirst(rest.needsReset, LastText(rest) \o <<Ended(rest.request)>>)
        /\ ShellTidy(r.c) /\ r.c.request = rest.request
    BY <1>3, <1>4, <1>7, <2>2, <2>3, EndOfShellLine, Zenon
  <2>6. LastText(rest) = LastText(cli)
    BY <1>7 DEF LastText
  <2>7. Takes(r)
    BY <1>2, <1>5, <1>8, <2>3
  <2>8. QED
    BY <1>3, <1>4, <1>7, <2>4, <2>5, <2>6, <2>7, EndKeepsLine, Zenon
<1>9. CASE h # Exit
  <2>1. h \in Outputs
    BY <1>6, <1>9
  <2>2. PICK r : r = onTerminalOutputReady(rest, h, gone)
    OBVIOUS
  <2>3. Served(r)
    BY <1>7, <2>1, <2>2, OutputReadyKeeps
  <2>4. SendsOn(cli, r) \/ Drops(cli, r, Len(cli.pending) + 1)
    <3>1. rest.emitted = Tail(cli.emitted) /\ h = Head(cli.emitted)
      BY <1>5, <1>7
    <3>2. QED
      BY <1>3, <1>4, <1>7, <2>1, <2>2, <3>1, OutputReadyLine, Zenon
  <2>5. Takes(r)
    BY <1>2, <1>5, <1>9, <2>2
  <2>6. QED
    BY <1>3, <1>4, <2>3, <2>4, <2>5, SendsOnKeeps, DropsKeeps
<1>10. QED
  BY <1>8, <1>9

LEMMA PollTimerTranscript ==
  ASSUME StreamInv, TranscriptOK, PollTimer
  PROVE  TranscriptOK'
<1>1. PICK gone \in Gone : Takes(pollTerminalBackpressure(cli, gone))
  BY DEF PollTimer
<1>2. Kept(cli) /\ ShellTidy(cli) /\ toCtl \in Seq(Messages) /\ CliAlone
  BY LineTypes DEF PollTimer
<1>3. PICK r : r = pollTerminalBackpressure(cli, gone)
  OBVIOUS
<1>4. Served(r) /\ SendsOn(cli, r)
  BY <1>2, <1>3, PollKeeps, PollLine
<1>5. QED
  BY <1>1, <1>2, <1>3, <1>4, SendsOnKeeps

\* A step of the shell, or one that changes nothing of what cli has still to send.
LEMMA ShellStepLine ==
  ASSUME StreamInv, TranscriptOK, UNCHANGED <<win, ctl, batch, ingress, shown, torn, toCtl>>,
         toCli' = toCli \/ (toCli # <<>> /\ toCli' = Tail(toCli)),
         cli'.request = cli.request, ShellTidy(cli'),
         NEW b, Behind(cli') = b,
         LineOK(Before \o b, Page, ctl.request, cli.request, ctl.needsReset, torn)
  PROVE  TranscriptOK'
<1>1. /\ win' = win /\ ctl' = ctl /\ ingress' = ingress /\ batch' = batch /\ shown' = shown
      /\ torn' = torn /\ toCtl' = toCtl
  OBVIOUS
<1>2. Line' = Before \o b
  BY <1>1, Zenon DEF Line, Before, Behind, MarkedFirst, Rest, Told, Coming, HasExit, Ended, Output, Exit
<1>3. RequestsGrow'
  BY <1>1, RequestsStay
<1>4. cli'.request \in Nat /\ cli.request <= cli'.request
  BY LineTypes
<1>5. LineOK(Line', Page, ctl.request, cli'.request, ctl.needsReset, torn)
  BY <1>2
<1>6. QED
  BY <1>1, <1>3, <1>4, <1>5, LineStep

LEMMA SameShellKeeps ==
  ASSUME StreamInv, TranscriptOK, UNCHANGED <<win, ctl, batch, ingress, shown, torn, toCtl>>,
         toCli' = toCli \/ (toCli # <<>> /\ toCli' = Tail(toCli)), SameShell(cli, cli')
  PROVE  TranscriptOK'
<1>1. Behind(cli') = Behind(cli) /\ ShellTidy(cli') /\ cli'.request = cli.request
  BY BehindSame, LineTypes DEF SameShell
<1>2. LineOK(Before \o Behind(cli), Page, ctl.request, cli.request, ctl.needsReset, torn)
  BY LineTypes, Zenon
<1>3. QED
  BY <1>1, <1>2, ShellStepLine

LEMMA QuietStepsTranscript ==
  ASSUME StreamInv, TranscriptOK, ProcessHoards \/ ConnectionFlickers \/ HearFlow
  PROVE  TranscriptOK'
<1>1. cli \in CliStates
  BY LineTypes DEF Kept
<1>2. CASE ProcessHoards
  <2>1. /\ UNCHANGED <<win, ctl, batch, ingress, shown, torn, toCtl, toCli>>
        /\ cli' = [cli EXCEPT !.hoard = TRUE]
    BY <1>2 DEF ProcessHoards, CliAlone, worker
  <2>2. SameShell(cli, cli')
    BY <1>1, <2>1 DEF CliStates, SameShell
  <2>3. QED
    BY <2>1, <2>2, SameShellKeeps
<1>3. CASE ConnectionFlickers
  <2>1. /\ UNCHANGED <<win, ctl, batch, ingress, shown, torn, toCtl, toCli>>
        /\ cli' = [cli EXCEPT !.connected = ~@]
    BY <1>3 DEF ConnectionFlickers, worker, network
  <2>2. SameShell(cli, cli')
    BY <1>1, <2>1 DEF CliStates, SameShell
  <2>3. QED
    BY <2>1, <2>2, SameShellKeeps
<1>4. CASE HearFlow
  <2>1. /\ UNCHANGED <<win, ctl, batch, ingress, shown, torn, toCtl>>
        /\ toCli # <<>> /\ toCli' = Tail(toCli)
    BY <1>4 DEF HearFlow, worker
  <2>2. PICK p, o : cli' = [cli EXCEPT !.remotePaused = p, !.outputPaused = o]
    BY <1>4, Zenon DEF HearFlow
  <2>3. SameShell(cli, cli')
    BY <1>1, <2>2 DEF CliStates, SameShell
  <2>4. QED
    BY <2>1, <2>3, SameShellKeeps
<1>5. QED
  BY <1>2, <1>3, <1>4

\* What is sent without a shell: nothing.
LEMMA HearStopTranscript ==
  ASSUME StreamInv, TranscriptOK, HearStop
  PROVE  TranscriptOK'
<1>1. /\ UNCHANGED <<win, ctl, batch, ingress, shown, torn, toCtl>>
      /\ toCli # <<>> /\ toCli' = Tail(toCli)
      /\ cli' = [PausesCleared(NewGeneration(cli)) EXCEPT !.session = "none"]
  BY DEF HearStop, worker
<1>2. PICK g, d : g = NewGeneration(cli) /\ d = PausesCleared(g)
  OBVIOUS
<1>3. g \in CliStates
  BY <1>2, LineTypes, NewGenerationKeeps, Zenon
<1>4. /\ g.emitted = <<>> /\ g.pending = <<>> /\ g.needsReset = FALSE /\ g.pendingEnd = 0
      /\ g.request = cli.request
  BY <1>2, LineTypes DEF NewGeneration, Kept, CliStates
<1>5. /\ d \in CliStates /\ d.emitted = g.emitted /\ d.pending = g.pending
      /\ d.needsReset = g.needsReset /\ d.pendingEnd = g.pendingEnd /\ d.request = g.request
  BY <1>2, <1>3, Zenon DEF PausesCleared, CliStates
<1>6. PICK c : c = cli'
  OBVIOUS
<1>7. /\ c.session = "none" /\ c.emitted = <<>> /\ c.pending = <<>> /\ c.needsReset = FALSE
      /\ c.pendingEnd = 0 /\ c.request = cli.request
  BY <1>1, <1>2, <1>4, <1>5, <1>6 DEF CliStates
<1>8. ShellTidy(c)
  <2>1. (\A i \in DOMAIN c.pending : FALSE) /\ (\A i \in DOMAIN c.emitted : FALSE)
    BY <1>7
  <2>2. QED
    BY <1>7, <2>1, Zenon DEF ShellTidy
<1>9. Behind(c) = <<>>
  <2>1. Rest(c) = <<>>
    BY <1>7, Zenon DEF Rest
  <2>2. <<>> \o <<>> = <<>>
    BY NothingJoined
  <2>3. c.pending \o Rest(c) = <<>>
    BY <1>7, <2>1, <2>2
  <2>4. MarkedFirst(c.needsReset, <<>>) = <<>>
    BY Zenon DEF MarkedFirst
  <2>5. QED
    BY <2>3, <2>4, Zenon DEF Behind
<1>10. LineOK(Before \o <<>>, Page, ctl.request, cli.request, ctl.needsReset, torn)
  <2>1. PICK k \in 0..Len(Line) : k = Len(Before)
    BY BeforeLeadsLine, Zenon
  <2>2. SubSeq(Line, 1, k) = Before
    BY <2>1, LineTypes, PrefixByPlace
  <2>3. LineOK(SubSeq(Line, 1, k), Page, ctl.request, cli.request, ctl.needsReset, torn)
    BY LineTypes, LinePrefix, Zenon
  <2>4. Before \o <<>> = Before
    BY LineTypes, NothingJoined
  <2>5. QED
    BY <2>2, <2>3, <2>4, Zenon
<1>11. QED
  BY <1>1, <1>6, <1>7, <1>8, <1>9, <1>10, ShellStepLine, Zenon

LEMMA AlikeMarks ==
  ASSUME NEW s \in Seq(Messages), NEW t \in Seq(Messages), Len(s) = Len(t), NEW b \in BOOLEAN,
         \A i \in 1..Len(s) : Alike(t[i], s[i])
  PROVE  \A i \in 1..Len(s) : Alike(MarkedFirst(b, t)[i], MarkedFirst(b, s)[i])
<1>1. TAKE i \in 1..Len(s)
<1>2. /\ MarkedFirst(b, t)[i] = IF i = 1 /\ b /\ t[1].type = "output"
                                THEN [t[1] EXCEPT !.reset = TRUE] ELSE t[i]
      /\ MarkedFirst(b, s)[i] = IF i = 1 /\ b /\ s[1].type = "output"
                                THEN [s[1] EXCEPT !.reset = TRUE] ELSE s[i]
  <2>1. s # <<>> /\ t # <<>> /\ i \in 1..Len(t)
    BY <1>1
  <2>2. CASE i = 1
    BY <2>1, <2>2, MarkType
  <2>3. CASE i # 1
    BY <2>1, <2>3, MarkType, Zenon
  <2>4. QED
    BY <2>2, <2>3
<1>3. Alike(t[i], s[i]) /\ s[i] \in Messages /\ t[i] \in Messages
  OBVIOUS
<1>4. CASE i = 1 /\ b /\ s[1].type = "output"
  <2>1. PICK x, y : x = t[i] /\ y = s[i]
    OBVIOUS
  <2>2. Alike(x, y) /\ x \in Messages /\ y \in Messages /\ y.type = "output" /\ x.type = "output"
    BY <1>3, <1>4, <2>1 DEF Alike
  <2>3. x \in Outputs /\ y \in Outputs
    BY <2>2 DEF Messages, Events
  <2>4. Alike([x EXCEPT !.reset = TRUE], [y EXCEPT !.reset = TRUE])
    BY <2>2, <2>3 DEF Alike, Outputs
  <2>5. QED
    BY <1>2, <1>4, <2>1, <2>2, <2>4
<1>5. CASE ~(i = 1 /\ b /\ s[1].type = "output")
  <2>1. ~(i = 1 /\ b /\ t[1].type = "output")
    BY <1>3, <1>5 DEF Alike
  <2>2. QED
    BY <1>2, <1>3, <1>5, <2>1
<1>6. QED
  BY <1>4, <1>5

\* A shell that lives has signalled no exit.
LEMMA LivesLine ==
  ASSUME StreamInv, TranscriptOK, Lives
  PROVE  /\ cli.session # "none" /\ ~HasExit(cli) /\ cli.emitted \in Seq(Messages)
         /\ cli.emitted \in Seq(Outputs)
         /\ Rest(cli) = Append(cli.emitted, Output(cli.request, cli.written + 1, FALSE))
         /\ Output(cli.request, cli.written + 1, FALSE) \in Messages
         /\ cli.pendingEnd = 0 /\ cli.request # 0
<1>1. cli.session # "none" /\ Exit \notin ToSet(cli.emitted)
  BY DEF Lives
<1>2. cli.emitted \in Seq(Outputs \cup {Exit}) /\ cli.written \in Nat /\ cli.request \in Requests
  BY LineTypes DEF Kept, CliStates
<1>3. \A i \in 1..Len(cli.emitted) : cli.emitted[i] # Exit
  BY <1>1, <1>2 DEF ToSet
<1>4. cli.emitted \in Seq(Outputs)
  <2>1. \A i \in 1..Len(cli.emitted) : cli.emitted[i] \in Outputs
    BY <1>2, <1>3
  <2>2. QED
    BY <1>2, <2>1
<1>5. cli.emitted \in Seq(Messages)
  BY <1>4 DEF Messages
<1>6. ~HasExit(cli)
  BY <1>2, <1>3 DEF HasExit
<1>7. Told(cli) = cli.emitted /\ Coming(cli) = Output(cli.request, cli.written + 1, FALSE)
  BY <1>6, Zenon DEF Told, Coming
<1>8. Output(cli.request, cli.written + 1, FALSE) \in Messages
  BY <1>2 DEF Output, Messages, Outputs
<1>9. QED
  BY <1>1, <1>4, <1>5, <1>6, <1>7, <1>8, ShellLine, Zenon

LEMMA ShellWritesTranscript ==
  ASSUME StreamInv, TranscriptOK, ShellWrites
  PROVE  TranscriptOK'
<1>1. /\ Lives /\ UNCHANGED <<win, ctl, batch, ingress, shown, torn, toCtl, toCli>>
  BY DEF ShellWrites, CliAlone, worker
<1>2. PICK e, P, w, r, nr : /\ e = cli.emitted /\ P = cli.pending /\ w = cli.written
                            /\ r = cli.request /\ nr = cli.needsReset
  OBVIOUS
<1>3. /\ cli \in CliStates /\ e \in Seq(Messages) /\ e \in Seq(Outputs) /\ P \in Seq(Messages)
      /\ w \in Nat /\ r \in Nat /\ r \in Requests /\ r # 0 /\ nr \in BOOLEAN /\ cli.pendingEnd = 0
      /\ cli.session # "none" /\ ShellTidy(cli) /\ Before \in Seq(Messages) /\ Page \in Seq(Chunks)
      /\ cli.hoard \in BOOLEAN
  BY <1>1, <1>2, LivesLine, LineTypes, RestType, Zenon DEF Kept, CliStates
<1>4. PICK big \in BOOLEAN :
        cli' = [cli EXCEPT !.written = w + 1, !.hoard = FALSE,
                           !.emitted = Append(e, Output(r, w + 1, big))]
  <2>1. PICK big \in {FALSE, cli.hoard} :
          cli' = [cli EXCEPT !.written = w + 1, !.hoard = FALSE,
                             !.emitted = Append(e, Output(r, w + 1, big))]
    BY <1>2, Zenon DEF ShellWrites
  <2>2. QED
    BY <1>3, <2>1, Zenon
<1>5. PICK m, x, y, c : /\ m = Output(r, w + 1, big) /\ x = Output(r, w + 1, FALSE)
                        /\ y = Output(r, w + 2, FALSE) /\ c = cli'
  BY Zenon
<1>6. /\ m \in Outputs /\ x \in Messages /\ m \in Messages /\ y \in Outputs /\ y \in Messages
      /\ m.of = r /\ m.reset = FALSE /\ m # Exit /\ Alike(m, x)
      /\ x.of = r /\ x.n = w + 1 /\ IsText(x) /\ y.of = r /\ y.n = w + 2
  <2>1. w + 1 \in Nat /\ w + 2 \in Nat /\ w + 1 > 0
    BY <1>3
  <2>2. m \in Outputs /\ x \in Outputs /\ y \in Outputs
    BY <1>3, <1>5, <2>1 DEF Output, Outputs
  <2>3. /\ m.of = r /\ m.reset = FALSE /\ m.type = "output" /\ m.n = w + 1
        /\ x.of = r /\ x.n = w + 1 /\ x.type = "output" /\ x.reset = FALSE
        /\ y.of = r /\ y.n = w + 2
    BY <1>5 DEF Output
  <2>4. m # Exit
    BY <2>3 DEF Exit
  <2>5. QED
    BY <2>1, <2>2, <2>3, <2>4 DEF Messages, Alike, IsText
<1>7. PICK e2 : e2 = Append(e, m)
  BY Zenon
<1>8. /\ e2 \in Seq(Messages) /\ Len(e2) = Len(e) + 1 /\ e2[Len(e) + 1] = m /\ e2 # <<>>
      /\ DOMAIN e2 = 1..Len(e) + 1 /\ Len(e) \in Nat /\ e2 \in Seq(Outputs)
      /\ \A i \in 1..Len(e) : e2[i] = e[i]
  BY <1>3, <1>6, <1>7
<1>9. /\ c.emitted = e2 /\ c.written = w + 1 /\ c.session = cli.session /\ c.request = r
      /\ c.pending = P /\ c.needsReset = nr /\ c.pendingEnd = 0
  BY <1>2, <1>3, <1>4, <1>5, <1>7 DEF CliStates
<1>10. ~HasExit(c)
  BY <1>6, <1>8, <1>9 DEF HasExit
<1>11. Rest(c) = Append(e2, y)
  <2>1. (w + 1) + 1 = w + 2
    BY <1>3
  <2>2. Told(c) = e2 /\ Coming(c) = y
    BY <1>5, <1>9, <1>10, <2>1, Zenon DEF Told, Coming
  <2>3. QED
    BY <1>3, <1>9, <2>2 DEF Rest
<1>12. ShellTidy(c)
  <2>1. ~HasExit(cli)
    BY <1>1, LivesLine
  <2>2. \A i \in DOMAIN e2 : IF e2[i] = Exit THEN i = Len(e2) ELSE Plain(c, e2[i])
    <3>1. TAKE i \in DOMAIN e2
    <3>2. CASE i \in 1..Len(e)
      <4>1. e2[i] = e[i] /\ i \in DOMAIN e /\ e[i] \in Outputs
        BY <1>3, <1>8, <3>2
      <4>2. e[i] # Exit
        BY <4>1 DEF Exit, Outputs
      <4>3. Plain(cli, e[i])
        BY <1>2, <1>3, <4>1, <4>2, Zenon DEF ShellTidy
      <4>4. QED
        BY <1>2, <1>9, <4>1, <4>2, <4>3 DEF Plain
    <3>3. CASE i = Len(e) + 1
      BY <1>6, <1>8, <1>9, <3>3 DEF Plain
    <3>4. QED
      BY <1>8, <3>2, <3>3
  <2>3. \A i \in DOMAIN c.pending : Plain(c, c.pending[i])
    BY <1>2, <1>3, <1>9, Zenon DEF ShellTidy, Plain
  <2>4. QED
    BY <1>3, <1>9, <2>2, <2>3, Zenon DEF ShellTidy
<1>13. PICK g, h : g = P \o Append(e, x) /\ h = P \o Append(e, m)
  BY Zenon
<1>14. /\ g \in Seq(Messages) /\ h \in Seq(Messages) /\ Len(g) = Len(P) + Len(e) + 1 /\ Len(h) = Len(g)
       /\ h # <<>> /\ Len(P) \in Nat /\ Len(g) \in Nat
       /\ \A i \in 1..Len(g) : Alike(h[i], g[i])
  <2>1. PICK e1 : e1 = Append(e, x)
    BY Zenon
  <2>2. /\ e1 \in Seq(Messages) /\ Len(e1) = Len(e) + 1 /\ e1[Len(e) + 1] = x
        /\ \A i \in 1..Len(e) : e1[i] = e[i]
    <3>1. /\ Append(e, x) \in Seq(Messages) /\ Len(Append(e, x)) = Len(e) + 1
          /\ Append(e, x)[Len(e) + 1] = x /\ \A i \in 1..Len(e) : Append(e, x)[i] = e[i]
      BY <1>3, <1>6, AppendByPlace, Zenon
    <3>2. QED
      BY <2>1, <3>1, Zenon
  <2>3. /\ P \o e1 \in Seq(Messages) /\ Len(P) \in Nat /\ Len(P \o e1) = Len(P) + Len(e1)
        /\ \A i \in 1..Len(P) : (P \o e1)[i] = P[i]
        /\ \A i \in Len(P) + 1..Len(P) + Len(e1) : (P \o e1)[i] = e1[i - Len(P)]
    BY <1>3, <2>2, JoinByPlace, Zenon
  <2>4. /\ P \o e2 \in Seq(Messages) /\ Len(P \o e2) = Len(P) + Len(e2)
        /\ \A i \in 1..Len(P) : (P \o e2)[i] = P[i]
        /\ \A i \in Len(P) + 1..Len(P) + Len(e2) : (P \o e2)[i] = e2[i - Len(P)]
    BY <1>3, <1>8, JoinByPlace, Zenon
  <2>5. g = P \o e1 /\ h = P \o e2
    BY <1>7, <1>13, <2>1
  <2>6. \A i \in 1..Len(g) : Alike(h[i], g[i])
    <3>1. TAKE i \in 1..Len(g)
    <3>2. CASE i <= Len(P)
      BY <2>3, <2>4, <2>5, <3>2 DEF Alike
    <3>3. CASE i > Len(P) /\ i <= Len(P) + Len(e)
      <4>1. i - Len(P) \in 1..Len(e) /\ i \in Len(P) + 1..Len(P) + Len(e1) /\ i \in Len(P) + 1..Len(P) + Len(e2)
        BY <1>8, <2>2, <2>3, <3>3
      <4>2. h[i] = e[i - Len(P)] /\ g[i] = e[i - Len(P)]
        BY <1>8, <2>2, <2>3, <2>4, <2>5, <4>1, Zenon
      <4>3. QED
        BY <4>2 DEF Alike
    <3>4. CASE i = Len(P) + Len(e) + 1
      <4>1. i - Len(P) = Len(e) + 1 /\ i \in Len(P) + 1..Len(P) + Len(e1) /\ i \in Len(P) + 1..Len(P) + Len(e2)
        BY <1>8, <2>2, <2>3, <3>4
      <4>2. h[i] = m /\ g[i] = x
        BY <1>8, <2>2, <2>3, <2>4, <2>5, <4>1
      <4>3. QED
        BY <1>6, <4>2
    <3>5. QED
      BY <1>8, <2>2, <2>3, <2>5, <3>2, <3>3, <3>4
  <2>7. Len(g) = Len(P) + Len(e) + 1 /\ Len(h) = Len(g) /\ h # <<>> /\ Len(g) \in Nat
    BY <1>8, <2>2, <2>3, <2>4, <2>5
  <2>8. QED
    BY <2>3, <2>4, <2>5, <2>6, <2>7
<1>15. PICK M, N, t : M = MarkedFirst(nr, g) /\ N = MarkedFirst(nr, h) /\ t = Before \o N
  BY Zenon
<1>16. /\ M \in Seq(Messages) /\ N \in Seq(Messages) /\ Len(M) = Len(g) /\ Len(N) = Len(g)
       /\ \A i \in 1..Len(g) : Alike(N[i], M[i])
  <2>1. M \in Seq(Messages) /\ N \in Seq(Messages) /\ Len(M) = Len(g) /\ Len(N) = Len(g)
    BY <1>3, <1>14, <1>15, MarkType, Zenon
  <2>2. \A i \in 1..Len(g) : Alike(N[i], M[i])
    BY <1>3, <1>14, <1>15, AlikeMarks, Zenon
  <2>3. QED
    BY <2>1, <2>2
<1>17. Line = Before \o M
  <2>1. Rest(cli) = Append(e, x)
    BY <1>1, <1>2, <1>5, LivesLine, Zenon
  <2>2. Behind(cli) = M
    BY <1>2, <1>13, <1>15, <2>1 DEF Behind
  <2>3. QED
    BY <2>2, LineTypes
<1>18. /\ t \in Seq(Messages) /\ Len(t) = Len(Line) /\ t # <<>> /\ Line \in Seq(Messages)
       /\ \A i \in 1..Len(t) : Alike(t[i], Line[i])
  <2>1. PICK L : L = Line
    OBVIOUS
  <2>2. /\ Before \o M \in Seq(Messages) /\ Len(Before) \in Nat
        /\ Len(Before \o M) = Len(Before) + Len(M)
        /\ \A i \in 1..Len(Before) : (Before \o M)[i] = Before[i]
        /\ \A i \in Len(Before) + 1..Len(Before) + Len(M) : (Before \o M)[i] = M[i - Len(Before)]
    BY <1>3, <1>16, JoinByPlace, Zenon
  <2>3. /\ Before \o N \in Seq(Messages)
        /\ Len(Before \o N) = Len(Before) + Len(N)
        /\ \A i \in 1..Len(Before) : (Before \o N)[i] = Before[i]
        /\ \A i \in Len(Before) + 1..Len(Before) + Len(N) : (Before \o N)[i] = N[i - Len(Before)]
    BY <1>3, <1>16, JoinByPlace, Zenon
  <2>4. L = Before \o M /\ t = Before \o N
    BY <1>15, <1>17, <2>1
  <2>5. Len(t) = Len(L) /\ Len(t) = Len(Before) + Len(g)
    BY <1>16, <2>2, <2>3, <2>4
  <2>6. \A i \in 1..Len(t) : Alike(t[i], L[i])
    <3>1. TAKE i \in 1..Len(t)
    <3>2. CASE i <= Len(Before)
      BY <2>2, <2>3, <2>4, <3>2 DEF Alike
    <3>3. CASE i > Len(Before)
      <4>1. PICK j : j = i - Len(Before)
        OBVIOUS
      <4>2. /\ j \in 1..Len(g) /\ i \in Len(Before) + 1..Len(Before) + Len(M)
            /\ i \in Len(Before) + 1..Len(Before) + Len(N)
        BY <1>14, <1>16, <2>2, <2>5, <3>3, <4>1
      <4>3. t[i] = N[j] /\ L[i] = M[j]
        BY <2>2, <2>3, <2>4, <4>1, <4>2
      <4>4. QED
        BY <1>16, <4>2, <4>3
    <3>4. QED
      BY <2>2, <3>2, <3>3
  <2>7. t # <<>>
    BY <1>8, <1>14, <2>2, <2>5
  <2>8. QED
    BY <2>1, <2>2, <2>3, <2>4, <2>5, <2>6, <2>7
<1>19. LineOK(t, Page, ctl.request, r, ctl.needsReset, torn)
  <2>1. LineOK(Line, Page, ctl.request, r, ctl.needsReset, torn) /\ Len(t) <= Len(Line)
    BY <1>2, <1>18, LineTypes
  <2>2. QED
    BY <1>18, <2>1, LineAlike
<1>20. t[Len(t)].of = r /\ IsText(t[Len(t)]) /\ y.n = t[Len(t)].n + 1
  <2>1. Len(t) \in 1..Len(t)
    BY <1>18
  <2>2. Alike(t[Len(t)], Line[Len(Line)])
    BY <1>18, <2>1
  <2>3. Alike(Line[Len(Line)], Coming(cli)) /\ Coming(cli) = x
    <3>1. Coming(cli) = x
      BY <1>1, <1>2, <1>5, LivesLine DEF Coming
    <3>2. QED
      BY <1>3, <3>1, ShellLine
  <2>4. x.type = "output"
    BY <1>6 DEF IsText
  <2>5. QED
    <3>1. PICK l, o : l = t[Len(t)] /\ o = Line[Len(Line)]
      OBVIOUS
    <3>2. Alike(l, o) /\ Alike(o, x)
      BY <2>2, <2>3, <3>1
    <3>3. l.type = "output" /\ l.of = r /\ l.n = w + 1
      BY <1>6, <2>4, <3>2 DEF Alike
    <3>4. IsText(l) /\ y.n = l.n + 1
      BY <1>3, <1>6, <3>3 DEF IsText
    <3>5. QED
      BY <3>1, <3>3, <3>4
<1>21. LineOK(Append(t, y), Page, ctl.request, r, ctl.needsReset, torn)
  BY <1>3, <1>6, <1>18, <1>19, <1>20, LineWrites, Zenon
<1>22. PICK b : b = N \o <<y>>
  BY Zenon
<1>23. Behind(c) = b
  <2>1. <<y>> \in Seq(Messages) /\ P \o Append(e2, y) = h \o <<y>>
    <3>1. Append(e2, y) = e2 \o <<y>> /\ <<y>> \in Seq(Messages)
      BY <1>6, <1>8, AppendByPlace
    <3>2. (P \o e2) \o <<y>> = P \o (e2 \o <<y>>)
      BY <1>3, <1>8, <3>1, MessagesInTurn, Zenon
    <3>3. QED
      BY <1>7, <1>13, <3>1, <3>2, Zenon
  <2>2. MarkedFirst(nr, h \o <<y>>) = MarkedFirst(nr, h) \o <<y>>
    BY <1>3, <1>14, <2>1, MarkConcat, Zenon
  <2>3. Behind(c) = MarkedFirst(nr, P \o Append(e2, y))
    BY <1>9, <1>11 DEF Behind
  <2>4. QED
    BY <1>15, <1>22, <2>1, <2>2, <2>3, Zenon
<1>24. Append(t, y) = Before \o b
  <2>1. <<y>> \in Seq(Messages) /\ Append(t, y) = t \o <<y>>
    BY <1>6, <1>18, AppendByPlace
  <2>2. (Before \o N) \o <<y>> = Before \o (N \o <<y>>)
    BY <1>3, <1>16, <2>1, MessagesInTurn, Zenon
  <2>3. QED
    BY <1>15, <1>22, <2>1, <2>2
<1>25. QED
  <2>1. LineOK(Before \o b, Page, ctl.request, cli.request, ctl.needsReset, torn)
    BY <1>2, <1>21, <1>24
  <2>2. cli'.request = cli.request /\ ShellTidy(cli') /\ Behind(cli') = b
    BY <1>2, <1>5, <1>9, <1>12, <1>23
  <2>3. QED
    BY <1>1, <2>1, <2>2, ShellStepLine

\* Only the first message takes the mark, and an end takes none.
LEMMA MarkLast ==
  ASSUME NEW w \in Seq(Messages), NEW x \in Messages, NEW E \in Messages, E.type # "output",
         NEW b \in BOOLEAN
  PROVE  \E M \in Seq(Messages), y \in Messages :
            MarkedFirst(b, w \o <<x>>) = M \o <<y>> /\ MarkedFirst(b, w \o <<E>>) = M \o <<E>>
<1>1. <<x>> \in Seq(Messages) /\ <<E>> \in Seq(Messages)
  BY AppendByPlace
<1>2. CASE w # <<>> \/ ~b
  <2>1. PICK M : M = MarkedFirst(b, w)
    OBVIOUS
  <2>2. M \in Seq(Messages)
    BY <2>1, MarkType, Zenon
  <2>3. MarkedFirst(b, w \o <<x>>) = M \o <<x>> /\ MarkedFirst(b, w \o <<E>>) = M \o <<E>>
    BY <1>1, <1>2, <2>1, MarkConcat, Zenon
  <2>4. QED
    BY <2>2, <2>3, Zenon
<1>3. CASE w = <<>>
  <2>1. w \o <<x>> = <<x>> /\ w \o <<E>> = <<E>> /\ <<>> \o <<E>> = <<E>>
    BY <1>1, <1>3, NothingJoined
  <2>2. MarkedFirst(b, <<E>>) = <<E>>
    BY MarkEnd
  <2>3. PICK z : z = MarkedFirst(b, <<x>>)
    OBVIOUS
  <2>4. z \in Seq(Messages) /\ Len(z) = 1
    BY <1>1, <2>3, MarkType, Zenon
  <2>5. z = <<z[1]>> /\ z[1] \in Messages
    BY <2>4
  <2>6. <<>> \o <<z[1]>> = <<z[1]>> /\ <<>> \in Seq(Messages)
    BY <2>5
  <2>7. QED
    BY <2>1, <2>2, <2>3, <2>5, <2>6, Zenon
<1>4. QED
  BY <1>2, <1>3, Zenon

LEMMA ShellExitsTranscript ==
  ASSUME StreamInv, TranscriptOK, ShellExits
  PROVE  TranscriptOK'
<1>1. /\ Lives /\ UNCHANGED <<win, ctl, batch, ingress, shown, torn, toCtl, toCli>>
      /\ cli' = [cli EXCEPT !.emitted = Append(cli.emitted, Exit)]
  BY DEF ShellExits, CliAlone, worker
<1>2. PICK e, P, r, nr, c, x, E : /\ e = cli.emitted /\ P = cli.pending /\ r = cli.request
                                  /\ nr = cli.needsReset /\ c = cli' /\ E = Ended(r)
                                  /\ x = Output(r, cli.written + 1, FALSE)
  BY Zenon
<1>3. /\ cli \in CliStates /\ e \in Seq(Messages) /\ e \in Seq(Outputs) /\ P \in Seq(Messages)
      /\ r \in Nat /\ r \in Requests /\ r # 0 /\ nr \in BOOLEAN /\ cli.pendingEnd = 0
      /\ cli.session # "none" /\ ShellTidy(cli) /\ Before \in Seq(Messages)
      /\ x \in Messages /\ Rest(cli) = Append(e, x)
  BY <1>1, <1>2, LivesLine, LineTypes, RestType, Zenon DEF Kept, CliStates
<1>4. E \in Messages /\ E.of = r /\ E.type = "ended" /\ ~IsText(E)
  BY <1>2, <1>3, EndTypes, Zenon
<1>5. PICK e2 : e2 = Append(e, Exit)
  BY Zenon
<1>6. /\ Len(e) \in Nat /\ Len(e2) = Len(e) + 1 /\ e2[Len(e) + 1] = Exit /\ e2 # <<>>
      /\ DOMAIN e2 = 1..Len(e) + 1 /\ \A i \in 1..Len(e) : e2[i] = e[i]
      /\ SubSeq(e2, 1, Len(e)) = e
  <2>1. /\ Len(e) \in Nat /\ Len(e2) = Len(e) + 1 /\ e2[Len(e) + 1] = Exit /\ e2 # <<>>
        /\ DOMAIN e2 = 1..Len(e) + 1 /\ \A i \in 1..Len(e) : e2[i] = e[i]
        /\ e2 \in Seq(Outputs \cup {Exit})
    BY <1>3, <1>5, SMTT(40)
  <2>2. PICK z : z = SubSeq(e2, 1, Len(e))
    BY Zenon
  <2>3. z \in Seq(Outputs \cup {Exit}) /\ Len(z) = Len(e) /\ \A i \in 1..Len(e) : z[i] = e[i]
    BY <2>1, <2>2
  <2>4. z = e
    BY <1>3, <2>3, SeqEqual
  <2>5. QED
    BY <2>1, <2>2, <2>4
<1>7. /\ c.emitted = e2 /\ c.written = cli.written /\ c.session = cli.session /\ c.request = r
      /\ c.pending = P /\ c.needsReset = nr /\ c.pendingEnd = 0
  BY <1>1, <1>2, <1>3, <1>5 DEF CliStates
<1>8. Rest(c) = Append(e, E)
  <2>1. HasExit(c)
    BY <1>6, <1>7 DEF HasExit
  <2>2. (Len(e) + 1) - 1 = Len(e)
    BY <1>6
  <2>3. Told(c) = e /\ Coming(c) = E
    BY <1>2, <1>6, <1>7, <2>1, <2>2 DEF Told, Coming
  <2>4. QED
    BY <1>3, <1>7, <2>3 DEF Rest
<1>9. ShellTidy(c)
  <2>1. \A i \in DOMAIN e2 : IF e2[i] = Exit THEN i = Len(e2) ELSE Plain(c, e2[i])
    <3>1. TAKE i \in DOMAIN e2
    <3>2. CASE i \in 1..Len(e)
      <4>1. e2[i] = e[i] /\ i \in DOMAIN e /\ e[i] \in Outputs
        BY <1>3, <1>6, <3>2
      <4>2. e[i] # Exit
        BY <4>1 DEF Exit, Outputs
      <4>3. Plain(cli, e[i])
        BY <1>2, <1>3, <4>1, <4>2, Zenon DEF ShellTidy
      <4>4. QED
        BY <1>2, <1>7, <4>1, <4>2, <4>3 DEF Plain
    <3>3. CASE i = Len(e) + 1
      BY <1>6, <3>3
    <3>4. QED
      BY <1>6, <3>2, <3>3
  <2>2. \A i \in DOMAIN c.pending : Plain(c, c.pending[i])
    BY <1>2, <1>3, <1>7, Zenon DEF ShellTidy, Plain
  <2>3. QED
    BY <1>3, <1>7, <2>1, <2>2, Zenon DEF ShellTidy
<1>10. PICK w : w = P \o e
  BY Zenon
<1>11. /\ w \in Seq(Messages) /\ <<x>> \in Seq(Messages) /\ <<E>> \in Seq(Messages)
       /\ P \o Append(e, x) = w \o <<x>> /\ P \o Append(e, E) = w \o <<E>>
  <2>1. /\ Append(e, x) = e \o <<x>> /\ <<x>> \in Seq(Messages)
        /\ Append(e, E) = e \o <<E>> /\ <<E>> \in Seq(Messages)
    BY <1>3, <1>4, AppendByPlace, Zenon
  <2>2. /\ (P \o e) \o <<x>> = P \o (e \o <<x>>) /\ (P \o e) \o <<E>> = P \o (e \o <<E>>)
        /\ P \o e \in Seq(Messages)
    <3>1. PICK a, b : a = <<x>> /\ b = <<E>>
      BY Zenon
    <3>2. (P \o e) \o a = P \o (e \o a)
      BY <1>3, <2>1, <3>1, MessagesInTurn, ZenonT(40)
    <3>3. (P \o e) \o b = P \o (e \o b)
      BY <1>3, <2>1, <3>1, MessagesInTurn, ZenonT(40)
    <3>4. P \o e \in Seq(Messages)
      BY <1>3
    <3>5. QED
      BY <3>1, <3>2, <3>3, <3>4, Zenon
  <2>3. QED
    BY <1>10, <2>1, <2>2, Zenon
<1>12. PICK M \in Seq(Messages), y \in Messages :
         MarkedFirst(nr, w \o <<x>>) = M \o <<y>> /\ MarkedFirst(nr, w \o <<E>>) = M \o <<E>>
  <2>1. w \in Seq(Messages) /\ x \in Messages /\ E \in Messages /\ E.type # "output" /\ nr \in BOOLEAN
    BY <1>3, <1>4, <1>11
  <2>2. QED
    BY <2>1, MarkLast, Zenon
<1>13. Behind(cli) = M \o <<y>> /\ Behind(c) = M \o <<E>>
  <2>1. Behind(cli) = MarkedFirst(nr, P \o Append(e, x)) /\ Behind(c) = MarkedFirst(nr, P \o Append(e, E))
    BY <1>2, <1>3, <1>7, <1>8 DEF Behind
  <2>2. QED
    BY <1>11, <1>12, <2>1, Zenon
<1>14. PICK X, k, z : X = Before \o M /\ k = Len(X) /\ z = Append(SubSeq(Line, 1, k), E)
  BY Zenon
<1>15. X \in Seq(Messages) /\ k \in Nat /\ <<y>> \in Seq(Messages) /\ Line = X \o <<y>> /\ Len(Line) = k + 1
  <2>1. X \in Seq(Messages) /\ k \in Nat
    BY <1>3, <1>14
  <2>2. <<y>> \in Seq(Messages) /\ Len(<<y>>) = 1
    OBVIOUS
  <2>3. (Before \o M) \o <<y>> = Before \o (M \o <<y>>)
    BY <1>3, <2>2, MessagesInTurn, ZenonT(40)
  <2>4. Line = X \o <<y>>
    BY <1>13, <1>14, <2>3, LineTypes, Zenon
  <2>5. Len(X \o <<y>>) = k + 1
    BY <1>14, <2>1, <2>2, JoinByPlace
  <2>6. QED
    BY <2>1, <2>2, <2>4, <2>5
<1>16. z = Before \o (M \o <<E>>)
  <2>1. SubSeq(Line, 1, k) = X
    BY <1>14, <1>15, PrefixByPlace, Zenon
  <2>2. z = X \o <<E>>
    BY <1>4, <1>14, <1>15, <2>1, AppendByPlace
  <2>3. (Before \o M) \o <<E>> = Before \o (M \o <<E>>)
    BY <1>3, <1>11, MessagesInTurn, ZenonT(40)
  <2>4. QED
    BY <1>14, <2>2, <2>3, Zenon
<1>17. LineOK(z, Page, ctl.request, r, ctl.needsReset, torn)
  <2>1. PICK L : L = Line
    OBVIOUS
  <2>2. /\ L # <<>> /\ L[Len(L)].of = r /\ L[Len(L)].type # "info" /\ L \in Seq(Messages)
        /\ LineOK(L, Page, ctl.request, r, ctl.needsReset, torn)
    BY <1>2, <1>3, <2>1, ShellLine, LineTypes
  <2>3. k < Len(L) /\ E.type # "info" /\ z = Append(SubSeq(L, 1, k), E)
    BY <1>4, <1>14, <1>15, <2>1
  <2>4. QED
    BY <1>3, <1>4, <1>15, <2>2, <2>3, LineCut, Zenon
<1>18. PICK b : b = M \o <<E>>
  BY Zenon
<1>19. LineOK(Before \o b, Page, ctl.request, cli.request, ctl.needsReset, torn)
  BY <1>2, <1>16, <1>17, <1>18, Zenon
<1>20. cli'.request = cli.request /\ ShellTidy(cli') /\ Behind(cli') = b
  BY <1>2, <1>7, <1>9, <1>13, <1>18
<1>21. QED
  BY <1>1, <1>19, <1>20, ShellStepLine, Zenon

-----------------------------------------------------------------------------
(* START: a shell of a new request.                                        *)

LEMMA LineRaised ==
  ASSUME NEW s \in Seq(Messages), NEW p, NEW q, NEW r \in Nat, NEW gap, NEW u,
         LineOK(s, p, q, r, gap, u), NEW n \in Nat, r < n
  PROVE  LineOK(s, p, q, n, gap, u) /\ \A i \in DOMAIN s : s[i].of # n
<1>1. ASSUME NEW i \in DOMAIN s
      PROVE  0 < s[i].of /\ s[i].of <= n /\ s[i].of # n
  <2>1. s[i] \in Messages
    OBVIOUS
  <2>2. s[i].of \in Nat
    BY <2>1, LimitsAreNumbers DEF Messages, Outputs, Events, Requests
  <2>3. 0 < s[i].of /\ s[i].of <= r
    BY <1>1 DEF LineOK
  <2>4. QED
    BY <2>2, <2>3
<1>2. QED
  BY <1>1, Zenon DEF LineOK

LEMMA StartLine ==
  ASSUME StreamInv, TranscriptOK, toCli # <<>>, Head(toCli).type = "start", NEW r, r = Head(toCli).of
  PROVE  /\ r \in Requests /\ r \in Nat /\ r > 0 /\ cli.request < r
         /\ LineOK(Before, Page, ctl.request, r, ctl.needsReset, torn)
         /\ \A i \in DOMAIN Before : Before[i].of # r
         /\ \A k \in DOMAIN Page : Page[k].of # r
         /\ r = ctl.request => Joins(Page, r, 1, ctl.needsReset, torn)
<1>1. toCli \in Seq(Orders) /\ Head(toCli) \in Orders /\ 1 \in DOMAIN toCli /\ toCli[1] = Head(toCli)
  BY DEF StreamInv, WiresOK
<1>2. Head(toCli) \in StartOrders
  BY <1>1 DEF Orders, Stop, Flow
<1>3. r \in Requests /\ r \in Nat
  BY <1>2, LimitsAreNumbers DEF StartOrders, Requests
<1>4. cli.request < r
  BY <1>1 DEF TranscriptOK, RequestsGrow
<1>5. cli.request \in Nat /\ r > 0
  BY <1>3, <1>4, LineTypes
<1>6. PICK k \in 0..Len(Line) : k = Len(Before)
  BY BeforeLeadsLine, Zenon
<1>7. SubSeq(Line, 1, k) = Before
  BY <1>6, LineTypes, PrefixByPlace
<1>8. LineOK(SubSeq(Line, 1, k), Page, ctl.request, cli.request, ctl.needsReset, torn)
  BY LineTypes, LinePrefix, Zenon
<1>9. Before \in Seq(Messages) /\ LineOK(Before, Page, ctl.request, cli.request, ctl.needsReset, torn)
  BY <1>7, <1>8, LineTypes, Zenon
<1>10. /\ LineOK(Before, Page, ctl.request, r, ctl.needsReset, torn)
       /\ \A i \in DOMAIN Before : Before[i].of # r
  BY <1>3, <1>4, <1>5, <1>9, LineRaised
<1>11. ASSUME NEW j \in DOMAIN Page
       PROVE  Page[j].of # r
  <2>1. Page[j] \in Chunks
    BY LineTypes
  <2>2. Page[j].of \in Nat /\ Page[j].of <= cli.request
    BY <2>1, LimitsAreNumbers DEF Chunks, Requests, TranscriptOK, PageOK
  <2>3. QED
    BY <1>3, <1>4, <1>5, <2>2
<1>12. r = ctl.request => Joins(Page, r, 1, ctl.needsReset, torn)
  <2>1. HAVE r = ctl.request
  <2>2. \/ ctl.needsReset \/ Page = <<>>
        \/ Page[Len(Page)] = T!Mark \/ Page[Len(Page)].of = ctl.request
    BY DEF TranscriptOK, PageOK
  <2>3. Page # <<>> => Len(Page) \in DOMAIN Page
    BY LineTypes
  <2>4. ctl.needsReset \/ Page = <<>> \/ (Page # <<>> /\ Page[Len(Page)] = T!Mark)
    BY <1>11, <2>1, <2>2, <2>3, Zenon
  <2>5. 1 = 1 + 0
    OBVIOUS
  <2>6. QED
    BY <2>4, <2>5, Zenon DEF Joins
<1>13. QED
  BY <1>3, <1>4, <1>5, <1>10, <1>11, <1>12

\* The shell was not there: only its end is told.
LEMMA ShellMissing ==
  ASSUME StreamInv, TranscriptOK, toCli # <<>>, Head(toCli).type = "start", NEW r, r = Head(toCli).of
  PROVE  LineOK(Append(Before, Ended(r)), Page, ctl.request, r, ctl.needsReset, torn)
<1>1. /\ r \in Requests /\ r \in Nat /\ r > 0 /\ Before \in Seq(Messages)
      /\ LineOK(Before, Page, ctl.request, r, ctl.needsReset, torn)
      /\ \A i \in DOMAIN Before : Before[i].of # r
      /\ \A k \in DOMAIN Page : Page[k].of # r
  BY StartLine, LineTypes
<1>2. PICK E : E = Ended(r)
  OBVIOUS
<1>3. E \in Messages /\ E.of = r /\ ~IsText(E)
  BY <1>1, <1>2, EndTypes, Zenon
<1>4. r = ctl.request => \A k \in DOMAIN Page : Page[k].of # ctl.request
  BY <1>1
<1>5. LineOK(Append(Before, E), Page, ctl.request, r, ctl.needsReset, torn)
  BY <1>1, <1>3, <1>4, LineGrows, Zenon
<1>6. QED
  BY <1>2, <1>5

\* The shell is there, and its first chunk, or one with a mark, is to come.
LEMMA ShellBegins ==
  ASSUME StreamInv, TranscriptOK, toCli # <<>>, Head(toCli).type = "start", NEW r, r = Head(toCli).of,
         NEW m \in Outputs, m.of = r, m.n > 0, m.reset \/ m.n = 1
  PROVE  /\ Info(r) \in Messages
         /\ LineOK(Append(Append(Before, Info(r)), m), Page, ctl.request, r, ctl.needsReset, torn)
<1>1. /\ r \in Requests /\ r \in Nat /\ r > 0 /\ Before \in Seq(Messages)
      /\ LineOK(Before, Page, ctl.request, r, ctl.needsReset, torn)
      /\ \A i \in DOMAIN Before : Before[i].of # r
      /\ \A k \in DOMAIN Page : Page[k].of # r
      /\ r = ctl.request => Joins(Page, r, 1, ctl.needsReset, torn)
  BY StartLine, LineTypes
<1>2. PICK I : I = Info(r)
  OBVIOUS
<1>3. I \in Messages /\ I.of = r /\ I.type = "info" /\ ~IsText(I)
  BY <1>1, <1>2 DEF Info, Messages, Events, IsText
<1>4. m \in Messages /\ IsText(m) /\ m.type # "info"
  BY DEF Messages, IsText, Outputs
<1>5. PICK s : s = Append(Before, I)
  BY Zenon
<1>6. s \in Seq(Messages) /\ LineOK(s, Page, ctl.request, r, ctl.needsReset, torn)
  <2>1. Append(Before, I) \in Seq(Messages) /\ LineOK(Append(Before, I), Page, ctl.request, r, ctl.needsReset, torn)
    BY <1>1, <1>3, LineGrows, Zenon
  <2>2. QED
    BY <1>5, <2>1
<1>7. \A i \in DOMAIN s : s[i].of = r => s[i].type = "info"
  <2>1. TAKE i \in DOMAIN s
  <2>2. (i \in DOMAIN Before /\ s[i] = Before[i]) \/ s[i] = I
    BY <1>1, <1>3, <1>5
  <2>3. QED
    BY <1>1, <1>3, <2>2, Zenon
<1>8. \A i \in DOMAIN s : s[i].type = "ended" => s[i].of # r
  <2>1. "ended" # "info"
    OBVIOUS
  <2>2. QED
    BY <1>7, <2>1, Zenon
<1>9. \A i \in DOMAIN s : ~(IsText(s[i]) /\ s[i].of = r)
  <2>1. "output" # "info"
    OBVIOUS
  <2>2. QED
    BY <1>7, <2>1, Zenon DEF IsText
<1>10. r = ctl.request => IsFirst(s, ctl.request, Len(s) + 1)
  <2>1. \A i \in 1..(Len(s) + 1) - 1 : i \in DOMAIN s
    BY <1>6
  <2>2. QED
    BY <1>7, <2>1, Zenon DEF IsFirst
<1>11. r = ctl.request => m.reset \/ Joins(Page, ctl.request, m.n, ctl.needsReset, torn)
  BY <1>1, Zenon
<1>12. LineOK(Append(s, m), Page, ctl.request, r, ctl.needsReset, torn)
  <2>1. PICK q : q = ctl.request
    OBVIOUS
  <2>2. \A i \in DOMAIN s : IsText(m) /\ IsText(s[i]) /\ s[i].of = r => s[i].n < m.n
    BY <1>9, Zenon
  <2>3. r = q /\ IsText(m) =>
            \/ m.reset
            \/ s # <<>> /\ IsText(s[Len(s)]) /\ s[Len(s)].of = q /\ m.n = s[Len(s)].n + 1
            \/ IsFirst(s, q, Len(s) + 1) /\ Joins(Page, q, m.n, ctl.needsReset, torn)
    BY <1>10, <1>11, <2>1, Zenon
  <2>4. r = q => \A k \in DOMAIN Page : Page[k].of # q
    BY <1>1, Zenon
  <2>5. LineOK(s, Page, q, r, ctl.needsReset, torn)
    BY <1>6, <2>1
  <2>6. LineOK(Append(s, m), Page, q, r, ctl.needsReset, torn)
    BY <1>1, <1>4, <1>6, <1>8, <2>2, <2>3, <2>4, <2>5, LineGrows, Zenon
  <2>7. QED
    BY <2>1, <2>6
<1>13. QED
  BY <1>2, <1>3, <1>5, <1>12

LEMMA RequestTaken ==
  ASSUME StreamInv, TranscriptOK, UNCHANGED <<win, ctl>>, toCli # <<>>, toCli' = Tail(toCli),
         Head(toCli).type = "start", cli'.request = Head(toCli).of
  PROVE  RequestsGrow'
<1>1. PICK t, N : t = Tail(toCli) /\ N = Len(toCli)
  BY Zenon
<1>2. /\ N \in Nat /\ N > 0 /\ DOMAIN t = 1..N - 1 /\ toCli' = t
      /\ 1 \in DOMAIN toCli /\ Head(toCli) = toCli[1]
      /\ \A i \in 1..N - 1 : t[i] = toCli[i + 1] /\ i + 1 \in DOMAIN toCli /\ 1 \in 1..(i + 1) - 1
      /\ \A i \in 1..N - 1 : \A j \in 1..i - 1 : j + 1 \in 1..(i + 1) - 1 /\ t[j] = toCli[j + 1]
  BY <1>1 DEF StreamInv, WiresOK
<1>3. ASSUME NEW i \in DOMAIN t, t[i].type = "start"
      PROVE  /\ cli'.request < t[i].of /\ t[i].of <= ctl.request
             /\ \A j \in 1..i - 1 : t[j].type = "start" => t[j].of < t[i].of
  <2>1. PICK h : h = i + 1
    OBVIOUS
  <2>2. /\ h \in DOMAIN toCli /\ toCli[h] = t[i] /\ 1 \in 1..h - 1
        /\ \A j \in 1..i - 1 : j + 1 \in 1..h - 1 /\ t[j] = toCli[j + 1]
    BY <1>2, <1>3, <2>1, Zenon
  <2>3. /\ toCli[h].of <= ctl.request
        /\ \A j \in 1..h - 1 : toCli[j].type = "start" => toCli[j].of < toCli[h].of
    BY <1>3, <2>2, Zenon DEF TranscriptOK, RequestsGrow
  <2>4. QED
    BY <1>2, <2>2, <2>3, Zenon
<1>4. cli'.request <= ctl.request /\ win.request = ctl.request
  BY <1>2 DEF TranscriptOK, RequestsGrow
<1>5. QED
  BY <1>2, <1>3, <1>4, Zenon DEF RequestsGrow
LEMMA TwoMore ==
  ASSUME NEW s \in Seq(Messages), NEW x \in Messages, NEW y \in Messages
  PROVE  Append(Append(s, x), y) = s \o (<<x>> \o <<y>>)
<1>1. PICK a, b : a = <<x>> /\ b = <<y>>
  BY Zenon
<1>2. a \in Seq(Messages) /\ b \in Seq(Messages)
  BY <1>1
<1>3. (s \o a) \o b = s \o (a \o b)
  BY <1>2, MessagesInTurn, ZenonT(40)
<1>4. Append(s, x) = s \o a /\ Append(s, x) \in Seq(Messages)
  BY <1>1, AppendByPlace
<1>5. Append(Append(s, x), y) = Append(s, x) \o b
  BY <1>1, <1>4, AppendByPlace
<1>6. QED
  BY <1>1, <1>3, <1>4, <1>5

LEMMA ThreeMore ==
  ASSUME NEW s \in Seq(Messages), NEW x \in Messages, NEW y \in Messages, NEW z \in Messages
  PROVE  Append(Append(Append(s, x), y), z) = s \o (<<x>> \o (<<y>> \o <<z>>))
<1>1. PICK a, b, c : a = <<x>> /\ b = <<y>> /\ c = <<z>>
  BY Zenon
<1>2. a \in Seq(Messages) /\ b \in Seq(Messages) /\ c \in Seq(Messages)
  BY <1>1
<1>3. a \o b \in Seq(Messages)
  BY <1>2
<1>4. (s \o (a \o b)) \o c = s \o ((a \o b) \o c) /\ (a \o b) \o c = a \o (b \o c)
  <2>1. (s \o (a \o b)) \o c = s \o ((a \o b) \o c)
    BY <1>2, <1>3, MessagesInTurn, ZenonT(40)
  <2>2. (a \o b) \o c = a \o (b \o c)
    BY <1>2, MessagesInTurn, ZenonT(40)
  <2>3. QED
    BY <2>1, <2>2
<1>5. PICK t : t = Append(Append(s, x), y)
  BY Zenon
<1>6. t \in Seq(Messages) /\ t = s \o (a \o b)
  BY <1>1, <1>5, TwoMore, AppendByPlace
<1>7. Append(t, z) = t \o c
  BY <1>1, <1>6, AppendByPlace
<1>8. QED
  BY <1>1, <1>4, <1>5, <1>6, <1>7


\* What is sent on START, and what is still to be sent, follows what was sent before.
StartSends(st, r) ==
    /\ LineOK(Before \o (st.sent \o Behind(st.c)), Page, ctl.request, r, ctl.needsReset, torn)
    /\ ShellTidy(st.c) /\ st.c.request = r

\* The state of the shell that a START begins.
Fresh(c, r, mode, w) == [NewGeneration(c) EXCEPT !.request = r, !.session = mode, !.written = w]

IsFresh(f, r, mode, w) ==
    /\ f \in CliStates /\ f.pending = <<>> /\ f.emitted = <<>> /\ f.needsReset = FALSE
    /\ f.pendingEnd = 0 /\ f.request = r /\ f.session = mode /\ f.written = w
    /\ Kept(f) /\ (r # 0 => ShellTidy(f))

LEMMA FreshShell ==
  ASSUME NEW c \in CliStates, NEW r \in Requests, NEW mode \in {"none", "pty", "pipe"}, NEW w \in Nat
  PROVE  IsFresh(Fresh(c, r, mode, w), r, mode, w)
<1>0. PICK f : f = Fresh(c, r, mode, w)
  OBVIOUS
<1>1. PICK g : g = NewGeneration(c)
  OBVIOUS
<1>2. g \in CliStates /\ g.pending = <<>> /\ g.emitted = <<>> /\ g.needsReset = FALSE /\ g.pendingEnd = 0
  <2>1. <<>> \in Seq(Outputs \cup {Exit}) /\ <<>> \in Seq(Outputs) /\ 0 \in Requests
    BY LimitsAreNumbers DEF Requests
  <2>2. QED
    BY <1>1, <2>1, Zenon DEF NewGeneration, CliStates
<1>3. f = [g EXCEPT !.request = r, !.session = mode, !.written = w]
  BY <1>0, <1>1 DEF Fresh
<1>4. /\ f \in CliStates /\ f.pending = g.pending /\ f.emitted = g.emitted /\ f.needsReset = g.needsReset
      /\ f.pendingEnd = g.pendingEnd /\ f.request = r /\ f.session = mode /\ f.written = w
  BY <1>2, <1>3, Zenon DEF CliStates
<1>5. Kept(f)
  BY <1>2, <1>4, NothingCounts, LimitsAreNumbers DEF Kept
<1>6. r # 0 => ShellTidy(f)
  <2>1. \A i \in DOMAIN f.pending : FALSE
    BY <1>2, <1>4
  <2>2. \A i \in DOMAIN f.emitted : FALSE
    BY <1>2, <1>4
  <2>3. QED
    BY <1>2, <1>4, <2>1, <2>2, Zenon DEF ShellTidy
<1>7. QED
  BY <1>0, <1>2, <1>4, <1>5, <1>6 DEF IsFresh

\* A shell that has signalled nothing has its next chunk to tell.
LEMMA FreshBehind ==
  ASSUME NEW f \in CliStates, f.pending = <<>>, f.emitted = <<>>, f.needsReset = FALSE,
         f.pendingEnd = 0, f.session # "none"
  PROVE  Behind(f) = <<Output(f.request, f.written + 1, FALSE)>>
<1>1. ~HasExit(f)
  BY Zenon DEF HasExit
<1>2. Told(f) = <<>> /\ Coming(f) = Output(f.request, f.written + 1, FALSE)
  BY <1>1, Zenon DEF Told, Coming
<1>3. PICK x : x = Output(f.request, f.written + 1, FALSE)
  BY Zenon
<1>4. x \in Messages
  BY <1>3 DEF Output, CliStates, Messages, Outputs
<1>5. Rest(f) = Append(<<>>, x)
  BY <1>2, <1>3, Zenon DEF Rest
<1>6. Append(<<>>, x) = <<x>> /\ <<x>> \in Seq(Messages) /\ <<>> \o <<x>> = <<x>>
  BY <1>4
<1>7. MarkedFirst(FALSE, <<x>>) = <<x>>
  BY <1>6, MarkType, Zenon
<1>8. QED
  BY <1>3, <1>5, <1>6, <1>7, Zenon DEF Behind

LEMMA StartNone ==
  ASSUME StreamInv, TranscriptOK, toCli # <<>>, Head(toCli).type = "start", NEW gone \in Gone
  PROVE  StartSends(Started(cli, "none", gone), Head(toCli).of)
<1>1. PICK r, f, st : /\ r = Head(toCli).of /\ st = Started(cli, "none", gone)
                      /\ f = Fresh(cli, r, "none", 0)
  OBVIOUS
<1>2. st = EndOfShell(f, gone)
  BY <1>1 DEF Started, Fresh
<1>3. r \in Requests /\ r # 0 /\ Before \in Seq(Messages) /\ cli \in CliStates /\ toCtl \in Seq(Messages)
  BY <1>1, StartLine, LineTypes DEF Kept
<1>4. /\ f.pending = <<>> /\ f.needsReset = FALSE /\ f.request = r /\ Kept(f) /\ ShellTidy(f)
  <2>1. PICK mode, w : mode = "none" /\ w = 0
    OBVIOUS
  <2>2. mode \in {"none", "pty", "pipe"} /\ w \in Nat
    BY <2>1
  <2>3. IsFresh(Fresh(cli, r, mode, w), r, mode, w)
    BY <1>3, <2>2, FreshShell
  <2>4. QED
    BY <1>1, <1>3, <2>1, <2>3 DEF IsFresh
<1>5. /\ st.sent \o Behind(st.c) = MarkedFirst(f.needsReset, LastText(f) \o <<Ended(r)>>)
      /\ ShellTidy(st.c) /\ st.c.request = r
  BY <1>2, <1>3, <1>4, EndOfShellLine, Zenon
<1>6. MarkedFirst(f.needsReset, LastText(f) \o <<Ended(r)>>) = <<Ended(r)>>
  <2>1. LastText(f) = <<>>
    BY <1>4 DEF LastText
  <2>2. Ended(r) \in Messages
    BY <1>3, EndTypes, Zenon
  <2>3. <<Ended(r)>> \in Seq(Messages)
    BY <2>2
  <2>4. <<>> \o <<Ended(r)>> = <<Ended(r)>> /\ MarkedFirst(FALSE, <<Ended(r)>>) = <<Ended(r)>>
    BY <2>3, NothingJoined, MarkType, Zenon
  <2>5. QED
    BY <1>4, <2>1, <2>4, Zenon
<1>7. Append(Before, Ended(r)) = Before \o <<Ended(r)>>
  BY <1>3, EndTypes, AppendByPlace
<1>8. LineOK(Append(Before, Ended(r)), Page, ctl.request, r, ctl.needsReset, torn)
  BY <1>1, ShellMissing
<1>9. LineOK(Before \o (st.sent \o Behind(st.c)), Page, ctl.request, r, ctl.needsReset, torn)
  BY <1>5, <1>6, <1>7, <1>8
<1>10. QED
  BY <1>1, <1>5, <1>9 DEF StartSends

LEMMA StartPty ==
  ASSUME StreamInv, TranscriptOK, toCli # <<>>, Head(toCli).type = "start", NEW gone \in Gone
  PROVE  StartSends(Started(cli, "pty", gone), Head(toCli).of)
<1>1. PICK r, f, st, I, m :
        /\ r = Head(toCli).of /\ st = Started(cli, "pty", gone)
        /\ f = Fresh(cli, r, "pty", 0)
        /\ I = Info(r) /\ m = Output(r, 1, FALSE)
  BY Zenon
<1>2. r \in Requests /\ r # 0 /\ Before \in Seq(Messages) /\ cli \in CliStates
  BY <1>1, StartLine, LineTypes DEF Kept
<1>3. /\ f \in CliStates /\ f.pending = <<>> /\ f.emitted = <<>> /\ f.needsReset = FALSE
      /\ f.pendingEnd = 0 /\ f.request = r /\ f.session = "pty" /\ f.written = 0 /\ ShellTidy(f)
  <2>1. PICK mode, w : mode = "pty" /\ w = 0
    OBVIOUS
  <2>2. mode \in {"none", "pty", "pipe"} /\ w \in Nat
    BY <2>1
  <2>3. IsFresh(Fresh(cli, r, mode, w), r, mode, w)
    BY <1>2, <2>2, FreshShell
  <2>4. QED
    BY <1>1, <1>2, <2>1, <2>3 DEF IsFresh
<1>4. st = [c |-> f, sent |-> <<I>>]
  BY <1>1, <1>3 DEF Started, Fresh
<1>5. Behind(f) = <<m>>
  <2>1. 0 + 1 = 1
    OBVIOUS
  <2>2. QED
    BY <1>1, <1>3, <2>1, FreshBehind, Zenon
<1>6. m \in Outputs /\ m.of = r /\ m.n > 0 /\ m.n = 1 /\ m \in Messages
  BY <1>1, <1>2 DEF Output, Outputs, Messages
<1>7. I \in Messages /\ LineOK(Append(Append(Before, I), m), Page, ctl.request, r, ctl.needsReset, torn)
  BY <1>1, <1>6, ShellBegins, Zenon
<1>8. Append(Append(Before, I), m) = Before \o (<<I>> \o <<m>>)
  BY <1>2, <1>6, <1>7, TwoMore, Zenon
<1>9. st.c = f /\ st.sent = <<I>>
  BY <1>4
<1>10. LineOK(Before \o (st.sent \o Behind(st.c)), Page, ctl.request, r, ctl.needsReset, torn)
  BY <1>5, <1>7, <1>8, <1>9
<1>11. QED
  BY <1>1, <1>3, <1>9, <1>10 DEF StartSends

LEMMA StartPipe ==
  ASSUME StreamInv, TranscriptOK, toCli # <<>>, Head(toCli).type = "start", NEW gone \in Gone
  PROVE  StartSends(Started(cli, "pipe", gone), Head(toCli).of)
<1>1. PICK r, f, st, I, m, m2 :
        /\ r = Head(toCli).of /\ st = Started(cli, "pipe", gone)
        /\ f = Fresh(cli, r, "pipe", 1)
        /\ I = Info(r) /\ m = Output(r, 1, FALSE) /\ m2 = Output(r, 2, FALSE)
  BY Zenon
<1>2. r \in Requests /\ r \in Nat /\ r # 0 /\ Before \in Seq(Messages) /\ cli \in CliStates
  BY <1>1, StartLine, LineTypes DEF Kept
<1>3. /\ f \in CliStates /\ f.pending = <<>> /\ f.emitted = <<>> /\ f.needsReset = FALSE
      /\ f.pendingEnd = 0 /\ f.request = r /\ f.session = "pipe" /\ f.written = 1 /\ Kept(f)
      /\ ShellTidy(f)
  <2>1. PICK mode, w : mode = "pipe" /\ w = 1
    OBVIOUS
  <2>2. mode \in {"none", "pty", "pipe"} /\ w \in Nat
    BY <2>1
  <2>3. IsFresh(Fresh(cli, r, mode, w), r, mode, w)
    BY <1>2, <2>2, FreshShell
  <2>4. QED
    BY <1>1, <1>2, <2>1, <2>3 DEF IsFresh
<1>4. PICK b : b = onTerminalOutputReady(f, m, gone)
  OBVIOUS
<1>5. /\ m \in Outputs /\ m.of = r /\ m.n > 0 /\ m.n = 1 /\ m \in Messages /\ m.reset = FALSE
      /\ m # Exit /\ m2 \in Outputs /\ m2.of = r /\ m2.n = 2 /\ m2 \in Messages /\ IsText(m)
  BY <1>1, <1>2 DEF Output, Outputs, Messages, Exit, IsText
<1>6. b = [c |-> b.c, sent |-> b.sent]
  BY <1>3, <1>4, <1>5, OutputReadyKeeps
<1>7. st = [b EXCEPT !.sent = <<I>> \o b.sent]
  BY <1>1, <1>3, <1>4 DEF Started, Fresh
<1>8. st.c = b.c /\ st.sent = <<I>> \o b.sent
  BY <1>6, <1>7
\* The banner is the first chunk of the session, signalled and handled at once.
<1>9. PICK c : c = [f EXCEPT !.emitted = <<m>>]
  BY Zenon
<1>10. /\ <<m>> \in Seq(Outputs \cup {Exit}) /\ <<m>> # <<>> /\ Head(<<m>>) = m /\ Tail(<<m>>) = <<>>
       /\ Len(<<m>>) = 1 /\ <<m>>[1] = m /\ DOMAIN <<m>> = 1..1 /\ <<m>> \in Seq(Messages)
  BY <1>5
<1>11. /\ c \in CliStates /\ c.emitted = <<m>> /\ c.pending = f.pending /\ c.needsReset = f.needsReset
       /\ c.pendingEnd = f.pendingEnd /\ c.request = f.request /\ c.session = f.session
       /\ c.written = f.written
  BY <1>3, <1>9, <1>10, Zenon DEF CliStates
<1>12. Kept(c)
  BY <1>3, <1>11 DEF Kept
<1>13. ShellTidy(c)
  <2>1. \A i \in DOMAIN c.pending : FALSE
    BY <1>3, <1>11
  <2>2. \A i \in DOMAIN c.emitted :
          IF c.emitted[i] = Exit THEN i = Len(c.emitted) ELSE Plain(c, c.emitted[i])
    <3>1. \A i \in DOMAIN c.emitted : i = 1
      BY <1>10, <1>11
    <3>2. Plain(c, m)
      BY <1>3, <1>5, <1>11 DEF Plain
    <3>3. c.emitted[1] = m
      BY <1>10, <1>11
    <3>4. QED
      BY <1>5, <3>1, <3>2, <3>3, Zenon
  <2>3. QED
    BY <1>2, <1>3, <1>11, <2>1, <2>2, Zenon DEF ShellTidy
<1>14. Behind(c) = <<m>> \o <<m2>>
  <2>1. ~HasExit(c)
    BY <1>5, <1>10, <1>11 DEF HasExit
  <2>2. Told(c) = <<m>> /\ Coming(c) = m2
    <3>1. 1 + 1 = 2
      OBVIOUS
    <3>2. QED
      BY <1>1, <1>3, <1>11, <2>1, <3>1, Zenon DEF Told, Coming
  <2>3. Rest(c) = Append(<<m>>, m2)
    BY <1>3, <1>11, <2>2 DEF Rest
  <2>4. Append(<<m>>, m2) = <<m>> \o <<m2>> /\ Append(<<m>>, m2) \in Seq(Messages)
    BY <1>5, <1>10, AppendByPlace
  <2>5. <<>> \o Append(<<m>>, m2) = Append(<<m>>, m2)
    BY <2>4, NothingJoined
  <2>6. MarkedFirst(FALSE, Append(<<m>>, m2)) = Append(<<m>>, m2)
    BY <2>4, MarkType, Zenon
  <2>7. QED
    BY <1>3, <1>11, <2>3, <2>4, <2>5, <2>6, Zenon DEF Behind
<1>15. SendsOn(c, b) \/ Drops(c, b, Len(c.pending) + 1)
  <2>1. c.emitted # <<>> /\ m = Head(c.emitted) /\ f.emitted = Tail(c.emitted)
    BY <1>3, <1>10, <1>11
  <2>2. c.session # "none"
    BY <1>3, <1>11
  <2>3. QED
    BY <1>3, <1>4, <1>5, <1>11, <1>12, <1>13, <2>1, <2>2, OutputReadyLine, Zenon
<1>16. I \in Messages /\ LineOK(Append(Append(Before, I), m), Page, ctl.request, r, ctl.needsReset, torn)
  BY <1>1, <1>5, ShellBegins, Zenon
<1>17. CASE SendsOn(c, b)
  <2>1. b.sent \o Behind(b.c) = <<m>> \o <<m2>> /\ ShellTidy(b.c) /\ b.c.request = r
    BY <1>3, <1>11, <1>14, <1>17 DEF SendsOn
  <2>2. PICK s : s = Append(Append(Before, I), m)
    BY Zenon
  <2>3. s \in Seq(Messages) /\ s # <<>> /\ s[Len(s)] = m
    BY <1>2, <1>5, <1>16, <2>2
  <2>4. m2.n = m.n + 1
    BY <1>5
  <2>5. LineOK(Append(s, m2), Page, ctl.request, r, ctl.needsReset, torn)
    BY <1>2, <1>5, <1>16, <2>2, <2>3, <2>4, LineTypes, LineWrites, Zenon
  <2>6. Append(s, m2) = Before \o (<<I>> \o (<<m>> \o <<m2>>))
    BY <1>2, <1>5, <1>16, <2>2, ThreeMore
  <2>7. (<<I>> \o b.sent) \o Behind(b.c) = <<I>> \o (b.sent \o Behind(b.c))
    <3>1. b.sent \in Seq(Messages) /\ Kept(b.c)
      BY <1>3, <1>4, <1>5, OutputReadyKeeps DEF Served
    <3>2. Behind(b.c) \in Seq(Messages)
      BY <2>1, <3>1, RestType
    <3>3. <<I>> \in Seq(Messages)
      BY <1>16
    <3>4. PICK x, y, z : x = <<I>> /\ y = b.sent /\ z = Behind(b.c)
      BY Zenon
    <3>5. (x \o y) \o z = x \o (y \o z)
      BY <3>1, <3>2, <3>3, <3>4, MessagesInTurn, ZenonT(40)
    <3>6. QED
      BY <3>4, <3>5, Zenon
  <2>8. LineOK(Before \o (st.sent \o Behind(st.c)), Page, ctl.request, r, ctl.needsReset, torn)
    BY <1>8, <2>1, <2>5, <2>6, <2>7, Zenon
  <2>9. QED
    BY <1>1, <1>8, <2>1, <2>8 DEF StartSends
<1>18. CASE Drops(c, b, Len(c.pending) + 1)
  <2>1. PICK x : x = [m2 EXCEPT !.reset = TRUE]
    BY Zenon
  <2>2. x \in Outputs /\ x.of = r /\ x.n > 0 /\ x.reset /\ x \in Messages
    <3>1. x \in Outputs
      BY <1>5, <2>1, Zenon DEF Outputs
    <3>2. x.of = m2.of /\ x.n = m2.n /\ x.reset
      BY <1>5, <2>1 DEF Outputs
    <3>3. 2 > 0
      OBVIOUS
    <3>4. QED
      BY <1>5, <3>1, <3>2, <3>3 DEF Messages
  <2>3. Behind(b.c) = <<x>> /\ b.sent = <<>> /\ ShellTidy(b.c) /\ b.c.request = r
    <3>1. PICK w : w = <<m>> \o <<m2>>
      BY Zenon
    <3>2. SubSeq(w, 2, Len(w)) = <<m2>>
      <4>1. PICK v : v = SubSeq(w, 2, Len(w))
        BY Zenon
      <4>2. w \in Seq(Messages) /\ Len(w) = 2 /\ w[2] = m2
        BY <1>5, <3>1
      <4>3. v \in Seq(Messages) /\ Len(v) = 1 /\ v[1] = m2
        BY <4>1, <4>2
      <4>4. v = <<m2>>
        BY <4>3
      <4>5. QED
        BY <4>1, <4>4, Zenon
    <3>3. (Len(c.pending) + 1) + 1 = 2
      BY <1>3, <1>11
    <3>4. Behind(b.c) = MarkedFirst(TRUE, <<m2>>)
      BY <1>14, <1>18, <3>1, <3>2, <3>3, Zenon DEF Drops
    <3>5. MarkedFirst(TRUE, <<m2>>) = <<x>>
      <4>1. PICK v, z : v = <<m2>> /\ z = MarkedFirst(TRUE, v)
        BY Zenon
      <4>2. v \in Seq(Messages) /\ Len(v) = 1 /\ v[1] = m2 /\ v # <<>>
        BY <1>5, <4>1
      <4>3. z \in Seq(Messages) /\ Len(z) = Len(v)
        BY <4>1, <4>2, MarkType, Zenon
      <4>4. z[1] = IF v[1].type = "output" THEN [v[1] EXCEPT !.reset = TRUE] ELSE v[1]
        BY <4>1, <4>2, MarkType, Zenon
      <4>5. m2.type = "output"
        BY <1>1 DEF Output
      <4>6. z = <<x>>
        BY <2>1, <4>2, <4>3, <4>4, <4>5
      <4>7. QED
        BY <4>1, <4>6, Zenon
    <3>6. QED
      BY <1>3, <1>11, <1>18, <3>4, <3>5, Zenon DEF Drops
  <2>4. LineOK(Append(Append(Before, I), x), Page, ctl.request, r, ctl.needsReset, torn)
    BY <1>1, <2>2, ShellBegins
  <2>5. Append(Append(Before, I), x) = Before \o ((<<I>> \o <<>>) \o <<x>>)
    <3>1. <<I>> \in Seq(Messages)
      BY <1>16
    <3>2. <<I>> \o <<>> = <<I>>
      BY <3>1, NothingJoined
    <3>3. Append(Append(Before, I), x) = Before \o (<<I>> \o <<x>>)
      BY <1>2, <1>16, <2>2, TwoMore
    <3>4. QED
      BY <3>2, <3>3
  <2>6. QED
    BY <1>1, <1>8, <2>3, <2>4, <2>5, Zenon DEF StartSends
<1>19. QED
  BY <1>15, <1>17, <1>18

LEMMA HearStartTranscript ==
  ASSUME StreamInv, TranscriptOK, HearStart
  PROVE  TranscriptOK'
<1>1. /\ toCli # <<>> /\ Head(toCli).type = "start" /\ toCli' = Tail(toCli)
      /\ UNCHANGED <<win, ctl, batch, ingress, shown, torn>>
  BY DEF HearStart, worker
<1>2. PICK mode \in {"none", "pty", "pipe"}, gone \in Gone :
        Takes([Started(cli, mode, gone) EXCEPT !.c = PausesCleared(@)])
  BY DEF HearStart
<1>3. PICK r, st, d, v : /\ r = Head(toCli).of /\ st = Started(cli, mode, gone)
                         /\ d = PausesCleared(st.c) /\ v = [st EXCEPT !.c = d]
  BY Zenon
<1>4. Head(toCli) \in StartOrders
  <2>1. Head(toCli) \in Orders
    BY <1>1 DEF StreamInv, WiresOK
  <2>2. QED
    BY <1>1, <2>1 DEF Orders, Stop, Flow
<1>5. Served(st) /\ Timed(st.c) /\ st = [c |-> st.c, sent |-> st.sent]
  BY <1>3, <1>4, LineTypes, StartedKeeps
<1>6. StartSends(st, r)
  BY <1>1, <1>3, StartNone, StartPty, StartPipe
<1>7. v.c = d /\ v.sent = st.sent
  BY <1>3, <1>5
<1>8. Kept(d)
  BY <1>3, <1>5, PausesClearedKeeps, Zenon DEF Served
<1>9. SameShell(st.c, d)
  <2>1. PICK c : c = st.c
    OBVIOUS
  <2>2. c \in CliStates
    BY <1>5, <2>1 DEF Served, Kept
  <2>3. SameShell(c, PausesCleared(c))
    BY <2>2 DEF PausesCleared, CliStates, SameShell
  <2>4. QED
    BY <1>3, <2>1, <2>3
<1>10. Behind(d) = Behind(st.c) /\ ShellTidy(d) /\ d.request = r
  BY <1>6, <1>9, BehindSame DEF SameShell, StartSends
<1>11. Takes(v)
  BY <1>2, <1>3
<1>12. Served(v) /\ ShellTidy(v.c)
  BY <1>5, <1>7, <1>8, <1>10 DEF Served
<1>13. Line' = Before \o (v.sent \o Behind(v.c)) /\ cli' = v.c /\ cli'.request \in Nat
  BY <1>1, <1>11, <1>12, TakesLine, Zenon
<1>14. LineOK(Line', Page, ctl.request, cli'.request, ctl.needsReset, torn)
  BY <1>6, <1>7, <1>10, <1>13 DEF StartSends
<1>15. RequestsGrow'
  BY <1>1, <1>3, <1>7, <1>10, <1>13, RequestTaken
<1>16. cli.request <= cli'.request
  <2>1. r \in Nat /\ cli.request < r /\ cli.request \in Nat
    BY <1>1, <1>3, StartLine, LineTypes
  <2>2. QED
    BY <1>7, <1>10, <1>13, <2>1
<1>17. QED
  BY <1>1, <1>7, <1>10, <1>13, <1>14, <1>15, <1>16, LineStep

LEMMA CliTranscript ==
  ASSUME StreamInv, TranscriptOK, CliNext \/ ShellNext \/ ConnectionFlickers
  PROVE  TranscriptOK'
<1>1. CASE CliNext
  BY <1>1, HearStartTranscript, HearStopTranscript, QuietStepsTranscript,
     HandleSignalTranscript, PollTimerTranscript DEF CliNext
<1>2. CASE ShellNext
  BY <1>2, ShellWritesTranscript, QuietStepsTranscript, ShellExitsTranscript,
     onTerminalErrorTranscript DEF ShellNext
<1>3. CASE ConnectionFlickers
  BY <1>3, QuietStepsTranscript
<1>4. QED
  BY <1>1, <1>2, <1>3

-----------------------------------------------------------------------------
(* The page: what was shown and what ctl has pending.                      *)

\* The place i of the page p keeps the promise, while q is called and the chunks
\* u are those that were refused.
May(p, i, q, u) ==
    \/ p[i] = T!Mark
    \/ /\ p[i].of = q
       /\ \A j \in 1..i - 1 : p[j] # T!End(q)
       /\ \/ p[i] = T!End(q)
          \/ /\ \A j \in 1..i - 1 : p[j].of = q => p[j].n < p[i].n
             /\ \/ /\ i = 1 \/ p[i - 1].of = q
                   /\ \/ p[i].n = 1 + (IF i = 1 THEN 0 ELSE p[i - 1].n)
                      \/ T!Chunk(q, p[i].n - 1) \in u
                \/ i > 1 /\ p[i - 1] = T!Mark

PageFits(p, k, q, r, gap, u) ==
    /\ \A i \in DOMAIN p : p[i].of <= r
    /\ gap \/ p = <<>> \/ p[Len(p)] = T!Mark \/ p[Len(p)].of = q
    /\ \A i \in k + 1..Len(p) : May(p, i, q, u)
    /\ q = 0 => p = <<>>

LEMMA MayIsAllowed ==
  ASSUME NEW p, NEW i
  PROVE  T!Allowed(p, i) <=> May(p, i, ctl.request, torn)
<1>1. CASE p[i].of = ctl.request
  BY <1>1, Zenon DEF May, T!Allowed, T!InOrder, T!Continues
<1>2. CASE p[i].of # ctl.request
  BY <1>2, Zenon DEF May, T!Allowed
<1>3. QED
  BY <1>1, <1>2

LEMMA MayIsAllowedNext ==
  ASSUME NEW p, NEW i
  PROVE  T!Allowed(p, i)' <=> May(p, i, ctl'.request, torn')
<1>1. CASE p[i].of = ctl'.request
  BY <1>1, Zenon DEF May, T!Allowed, T!InOrder, T!Continues
<1>2. CASE p[i].of # ctl'.request
  BY <1>2, Zenon DEF May, T!Allowed
<1>3. QED
  BY <1>1, <1>2

LEMMA PageMeans ==
  PageOK <=> PageFits(Page, Len(shown), ctl.request, cli.request, ctl.needsReset, torn)
<1>1. PICK p : p = Page
  OBVIOUS
<1>2. \A i : T!Allowed(p, i) <=> May(p, i, ctl.request, torn)
  BY MayIsAllowed
<1>3. \A i : T!Allowed(Page, i) <=> T!Allowed(p, i)
  BY <1>1
<1>4. \A i : T!Allowed(Page, i) <=> May(Page, i, ctl.request, torn)
  BY <1>1, <1>2, <1>3
<1>5. QED
  BY <1>4, Zenon DEF PageOK, PageFits

LEMMA PageNext ==
  PageOK' <=> PageFits(Page', Len(shown'), ctl'.request, cli'.request, ctl'.needsReset, torn')
<1>1. PICK p : p = Page'
  OBVIOUS
<1>2. \A i : T!Allowed(p, i)' <=> May(p, i, ctl'.request, torn')
  BY MayIsAllowedNext
<1>3. \A i \in Len(shown') + 1..Len(Page') : T!Allowed(Page, i)' <=> T!Allowed(p, i)'
  BY <1>1 DEF T!Allowed, T!InOrder, T!Continues
<1>4. \A i \in Len(shown') + 1..Len(Page') :
        T!Allowed(Page, i)' <=> May(Page', i, ctl'.request, torn')
  BY <1>1, <1>2, <1>3
<1>5. QED
  BY <1>4, Zenon DEF PageOK, PageFits

\* The promise of a place is about the places up to it.
LEMMA MayBefore ==
  ASSUME NEW p, NEW t, NEW i \in Nat, i > 0, \A j \in 1..i : t[j] = p[j],
         NEW q, NEW u, NEW v, u \subseteq v, May(p, i, q, u)
  PROVE  May(t, i, q, v)
<1>1. i \in 1..i /\ \A j \in 1..i - 1 : j \in 1..i
  OBVIOUS
<1>2. t[i] = p[i] /\ \A j \in 1..i - 1 : t[j] = p[j]
  BY <1>1
<1>3. i = 1 \/ (i > 1 /\ t[i - 1] = p[i - 1])
  <2>1. i # 1 => i > 1 /\ i - 1 \in 1..i
    OBVIOUS
  <2>2. QED
    BY <2>1
<1>4. ~(i = 1 /\ i > 1)
  OBVIOUS
<1>5. QED
  BY <1>2, <1>3, <1>4, Zenon DEF May

\* A step of the window or of ctl.
LEMMA CtlStep ==
  ASSUME StreamInv, TranscriptOK, cli' = cli, RequestsGrow',
         LineOK(Line', Page', ctl'.request, cli.request, ctl'.needsReset, torn'),
         PageFits(Page', Len(shown'), ctl'.request, cli.request, ctl'.needsReset, torn')
  PROVE  TranscriptOK'
<1>1. ShellTidy(cli')
  BY DEF TranscriptOK
<1>2. PageOK'
  BY PageNext
<1>3. LineOK(Line', Page', ctl'.request, cli'.request, ctl'.needsReset, torn')
  OBVIOUS
<1>4. QED
  BY <1>1, <1>2, <1>3 DEF TranscriptOK

\* What is sent to cli is no START.
LEMMA OrderUnderWay ==
  ASSUME StreamInv, TranscriptOK, win'.request = win.request, ctl'.request = ctl.request,
         cli' = cli,
         \/ toCli' = toCli
         \/ \E x \in {Stop, Flow(TRUE), Flow(FALSE)} : toCli' = Append(toCli, x)
  PROVE  RequestsGrow'
<1>1. CASE toCli' = toCli
  BY <1>1 DEF TranscriptOK, RequestsGrow
<1>2. ASSUME NEW x \in {Stop, Flow(TRUE), Flow(FALSE)}, toCli' = Append(toCli, x)
      PROVE  RequestsGrow'
  <2>1. x \in Orders /\ x.type # "start"
    BY <1>2 DEF Orders, Stop, Flow
  <2>2. PICK t, N : t = Append(toCli, x) /\ N = Len(toCli)
    BY Zenon
  <2>3. /\ N \in Nat /\ toCli' = t /\ DOMAIN t = 1..N + 1 /\ DOMAIN toCli = 1..N
        /\ t[N + 1] = x /\ \A i \in 1..N : t[i] = toCli[i]
        /\ \A i \in 1..N : \A j \in 1..i - 1 : j \in 1..N
        /\ \A i \in 1..N + 1 : i \in 1..N \/ i = N + 1
    BY <1>2, <2>1, <2>2 DEF StreamInv, WiresOK
  <2>4. ASSUME NEW i \in DOMAIN t, t[i].type = "start"
        PROVE  /\ cli.request < t[i].of /\ t[i].of <= ctl.request
               /\ \A j \in 1..i - 1 : t[j].type = "start" => t[j].of < t[i].of
    <3>1. i \in DOMAIN toCli /\ t[i] = toCli[i] /\ i \in 1..N
      BY <2>1, <2>3, <2>4
    <3>2. \A j \in 1..i - 1 : t[j] = toCli[j]
      BY <2>3, <3>1, Zenon
    <3>3. QED
      BY <2>4, <3>1, <3>2, Zenon DEF TranscriptOK, RequestsGrow
  <2>5. QED
    BY <2>3, <2>4 DEF TranscriptOK, RequestsGrow
<1>3. QED
  BY <1>1, <1>2, Zenon

\* Neither the line nor the page moves.
LEMMA NothingMoves ==
  ASSUME StreamInv, TranscriptOK, cli' = cli, win'.request = win.request,
         ctl'.request = ctl.request, ctl'.needsReset = ctl.needsReset, torn' = torn,
         NEW x, x = Line, Line' = x,
         NEW p, p = Page, Page' = p, Len(shown) <= Len(shown'), shown' \in Seq(Chunks),
         \/ toCli' = toCli
         \/ \E o \in {Stop, Flow(TRUE), Flow(FALSE)} : toCli' = Append(toCli, o)
  PROVE  TranscriptOK'
<1>1. RequestsGrow'
  BY OrderUnderWay, Zenon
<1>2. LineOK(x, p, ctl'.request, cli.request, ctl'.needsReset, torn')
  BY DEF TranscriptOK
<1>3. PageFits(p, Len(shown), ctl.request, cli.request, ctl.needsReset, torn)
  BY PageMeans DEF TranscriptOK
<1>4. Len(shown) \in Nat /\ Len(shown') \in Nat /\ Len(p) \in Nat
  <2>1. p \in Seq(Chunks) /\ shown \in Seq(Chunks)
    BY LineTypes DEF StreamInv, HistoryOK
  <2>2. QED
    BY <2>1
<1>5. \A i \in Len(shown') + 1..Len(p) : i \in Len(shown) + 1..Len(p)
  BY <1>4
<1>6. PageFits(p, Len(shown'), ctl'.request, cli.request, ctl'.needsReset, torn')
  BY <1>3, <1>5, Zenon DEF PageFits
<1>7. QED
  BY <1>1, <1>2, <1>6, CtlStep

LEMMA LineNext ==
  ASSUME cli' = cli
  PROVE  Line' = ((batch' \o ingress') \o toCtl') \o Behind(cli)
  BY DEF Line, Behind, MarkedFirst, Rest, Told, Coming, HasExit, Ended, Output, Exit

\* The window's calls apart from START, and what it hears.
LEMMA WindowTranscript ==
  ASSUME StreamInv, TranscriptOK, GiveUp \/ HearSignal
  PROVE  TranscriptOK'
<1>1. /\ UNCHANGED <<ctl, ingress, batch, shown, torn, toCtl, cli>>
      /\ toCli' = toCli \/ toCli' = Append(toCli, Stop)
  BY DEF GiveUp, HearSignal, WindowAlone, worker, network
<1>2. win'.request = win.request
  <2>1. win \in [started : BOOLEAN, fallback : BOOLEAN, startTimer : BOOLEAN, request : Requests]
    BY DEF StreamInv, WindowOK
  <2>2. QED
    BY <2>1, Zenon DEF GiveUp, HearSignal
<1>3. Line' = Line
  BY <1>1, LineNext DEF Line
<1>4. Page' = Page
  BY <1>1 DEF Page
<1>5. shown' \in Seq(Chunks) /\ Len(shown) \in Nat
  BY <1>1 DEF StreamInv, HistoryOK
<1>6. \/ toCli' = toCli
      \/ \E o \in {Stop, Flow(TRUE), Flow(FALSE)} : toCli' = Append(toCli, o)
  BY <1>1, Zenon
<1>7. Len(shown) <= Len(shown')
  BY <1>1, <1>5
<1>8. PICK x, p : x = Line /\ p = Page
  OBVIOUS
<1>9. Line' = x /\ Page' = p
  BY <1>3, <1>4, <1>8
<1>10. /\ cli' = cli /\ ctl'.request = ctl.request /\ ctl'.needsReset = ctl.needsReset /\ torn' = torn
  BY <1>1
<1>11. QED
  BY <1>2, <1>5, <1>6, <1>7, <1>8, <1>9, <1>10, NothingMoves, Zenon

LEMMA HeadAndTail ==
  ASSUME NEW S, NEW s \in Seq(S), s # <<>>
  PROVE  Head(s) \in S /\ Tail(s) \in Seq(S) /\ s = <<Head(s)>> \o Tail(s)
  OBVIOUS

LEMMA DeliverTranscript ==
  ASSUME StreamInv, TranscriptOK, Deliver
  PROVE  TranscriptOK'
<1>1. /\ toCtl # <<>> /\ toCtl' = Tail(toCtl) /\ ingress' = Append(ingress, Head(toCtl))
      /\ UNCHANGED <<win, ctl, batch, shown, torn, toCli, cli>>
  BY DEF Deliver
<1>2. PICK a, b, c, h, t : a = batch /\ b = ingress /\ c = toCtl /\ h = <<Head(toCtl)>> /\ t = Tail(toCtl)
  BY Zenon
<1>3. a \in Seq(Messages) /\ b \in Seq(Messages) /\ c \in Seq(Messages) /\ c # <<>>
  BY <1>1, <1>2 DEF StreamInv, WiresOK
<1>4. /\ h \in Seq(Messages) /\ t \in Seq(Messages) /\ c = h \o t
      /\ ingress' = b \o h
  <2>1. PICK y : y = Head(toCtl)
    OBVIOUS
  <2>2. y \in Messages /\ h = <<y>> /\ t \in Seq(Messages) /\ c = <<y>> \o t
    BY <1>2, <1>3, <2>1, HeadAndTail
  <2>3. Append(b, y) = b \o <<y>> /\ <<y>> \in Seq(Messages)
    BY <1>3, <2>2, AppendByPlace
  <2>4. QED
    BY <1>1, <1>2, <2>1, <2>2, <2>3
<1>5. (a \o (b \o h)) \o t = (a \o b) \o c
  <2>1. (a \o b) \o h = a \o (b \o h) /\ a \o b \in Seq(Messages)
    BY <1>3, <1>4, MessagesInTurn, SMTT(40)
  <2>2. ((a \o b) \o h) \o t = (a \o b) \o (h \o t)
    BY <1>3, <1>4, <2>1, MessagesInTurn, ZenonT(40)
  <2>3. QED
    BY <1>4, <2>1, <2>2
<1>6. Line' = Line
  <2>1. Line' = ((batch' \o ingress') \o toCtl') \o Behind(cli)
    BY <1>1, LineNext, Zenon
  <2>2. batch' = a /\ toCtl' = t
    BY <1>1, <1>2
  <2>3. Line = ((a \o b) \o c) \o Behind(cli)
    BY <1>2 DEF Line
  <2>4. QED
    BY <1>4, <1>5, <2>1, <2>2, <2>3, Zenon
<1>7. Page' = Page
  BY <1>1 DEF Page
<1>8. shown' \in Seq(Chunks) /\ Len(shown) \in Nat
  BY <1>1 DEF StreamInv, HistoryOK
<1>9. Len(shown) <= Len(shown')
  BY <1>1, <1>8
<1>10. PICK x, p : x = Line /\ p = Page
  OBVIOUS
<1>11. Line' = x /\ Page' = p
  BY <1>6, <1>7, <1>10
<1>12. /\ win'.request = win.request /\ cli' = cli /\ ctl'.request = ctl.request
       /\ ctl'.needsReset = ctl.needsReset /\ torn' = torn /\ toCli' = toCli
  BY <1>1
<1>13. QED
  BY <1>8, <1>9, <1>10, <1>11, <1>12, NothingMoves

\* A handler of ctl that ends with updateTerminalFlowControl.
LEMMA FlowStepTranscript ==
  ASSUME StreamInv, TranscriptOK, NEW c, c \in CtlStates, NEW in, in \in Seq(Messages),
         updateTerminalFlowControl(c, in), UNCHANGED <<win, cli, torn>>,
         c.request = ctl.request, c.needsReset = ctl.needsReset,
         NEW x, x = Line, Line' = x,
         NEW s, shown' = s, s \in Seq(Chunks), Len(shown) <= Len(s), Page = s \o c.pending
  PROVE  TranscriptOK'
<1>1. toCli \in Seq(Orders)
  BY DEF StreamInv, WiresOK
<1>2. /\ ctl'.pending = c.pending /\ ctl'.request = c.request /\ ctl'.needsReset = c.needsReset
      /\ \/ toCli' = toCli
         \/ \E o \in {Stop, Flow(TRUE), Flow(FALSE)} : toCli' = Append(toCli, o)
  BY <1>1, FlowControl, Zenon
<1>3. PICK p : p = Page
  BY Zenon
<1>4. Page' = p
  BY <1>2, <1>3 DEF Page
<1>5. QED
  BY <1>2, <1>3, <1>4, NothingMoves, Zenon

LEMMA DrainTranscript ==
  ASSUME StreamInv, TranscriptOK, drainFileTextIngress
  PROVE  TranscriptOK'
<1>0. PICK b, in \in Seq(Messages) :
        /\ b \o in = ingress
        /\ batch' = b /\ ingress' = in /\ updateTerminalFlowControl(ctl, in)
  BY DrainSplits, Zenon
<1>1. batch = <<>> /\ UNCHANGED <<win, shown, torn, toCtl, cli>>
  BY DEF drainFileTextIngress, Idle
<1>2. PICK c : c = ctl
  OBVIOUS
<1>3. ingress \in Seq(Messages) /\ <<>> \o ingress = ingress
  BY NothingJoined DEF StreamInv, WiresOK
<1>4. Line' = Line
  <2>1. Line' = ((batch' \o ingress') \o toCtl') \o Behind(cli)
    BY <1>1, LineNext
  <2>2. Line' = (ingress \o toCtl) \o Behind(cli)
    BY <1>0, <1>1, <2>1
  <2>3. Line = (ingress \o toCtl) \o Behind(cli)
    BY <1>1, <1>3 DEF Line
  <2>4. QED
    BY <2>2, <2>3
<1>5. c \in CtlStates /\ updateTerminalFlowControl(c, in) /\ c.request = ctl.request
      /\ c.needsReset = ctl.needsReset
  BY <1>0, <1>2 DEF StreamInv, WorkerOK
<1>6. PICK x, s : x = Line /\ s = shown
  OBVIOUS
<1>7. s \in Seq(Chunks) /\ Len(shown) <= Len(s) /\ shown' = s /\ Page = s \o c.pending
  <2>1. s \in Seq(Chunks) /\ shown' = s
    BY <1>1, <1>6 DEF StreamInv, HistoryOK
  <2>2. QED
    BY <1>2, <1>6, <2>1 DEF Page
<1>8. Line' = x /\ in \in Seq(Messages) /\ updateTerminalFlowControl(c, in)
  BY <1>4, <1>5, <1>6
<1>9. UNCHANGED <<win, cli, torn>>
  BY <1>1
<1>10. QED
  BY <1>5, <1>6, <1>7, <1>8, <1>9, FlowStepTranscript, Zenon

LEMMA AcknowledgeTranscript ==
  ASSUME StreamInv, TranscriptOK, acknowledgeTerminalOutput
  PROVE  TranscriptOK'
<1>1. PICK n : n = IF ctl.inFlight > 0 THEN ctl.inFlight - 1 ELSE 0
  OBVIOUS
<1>2. PICK c, in : c = [ctl EXCEPT !.inFlight = n] /\ in = ingress
  BY Zenon
<1>3. /\ updateTerminalFlowControl(c, in)
      /\ UNCHANGED <<win, ingress, batch, shown, torn, toCtl, cli>>
  <2>1. updateTerminalFlowControl(
           [ctl EXCEPT !.inFlight = IF @ > 0 THEN @ - 1 ELSE 0], ingress)
    BY DEF acknowledgeTerminalOutput
  <2>2. [ctl EXCEPT !.inFlight = IF @ > 0 THEN @ - 1 ELSE 0] = c
    BY <1>1, <1>2
  <2>3. QED
    BY <1>2, <2>1, <2>2 DEF acknowledgeTerminalOutput
<1>4. ctl \in CtlStates /\ in \in Seq(Messages) /\ shown \in Seq(Chunks)
  BY <1>2 DEF StreamInv, WorkerOK, WiresOK, HistoryOK
<1>5. n \in Nat
  <2>1. ctl.inFlight \in Nat
    BY <1>4 DEF CtlStates
  <2>2. QED
    BY <1>1, <2>1
<1>6. /\ c \in CtlStates /\ c.pending = ctl.pending /\ c.request = ctl.request
      /\ c.needsReset = ctl.needsReset
  BY <1>2, <1>4, <1>5, Zenon DEF CtlStates
<1>7. Line' = Line
  BY <1>3, LineNext DEF Line
<1>8. PICK x, s : x = Line /\ s = shown
  OBVIOUS
<1>9. /\ Line' = x /\ s \in Seq(Chunks) /\ Len(shown) <= Len(s) /\ shown' = s
      /\ Page = s \o c.pending /\ UNCHANGED <<win, cli, torn>>
  BY <1>3, <1>4, <1>6, <1>7, <1>8 DEF Page
<1>10. QED
  BY <1>3, <1>4, <1>6, <1>8, <1>9, FlowStepTranscript, Zenon

LEMMA FlushTranscript ==
  ASSUME StreamInv, TranscriptOK, flushTerminalOutput
  PROVE  TranscriptOK'
<1>1. PICK u : u = IF Head(ctl.pending) = T!Mark THEN 0 ELSE 1
  OBVIOUS
<1>0. PICK f : f = ctl.inFlight + u
  OBVIOUS
<1>2. PICK c, in : /\ c = [ctl EXCEPT !.pending = Tail(ctl.pending), !.inFlight = f]
                   /\ in = ingress
  OBVIOUS
<1>3. /\ ctl.pending # <<>> /\ updateTerminalFlowControl(c, in)
      /\ shown' = Append(shown, Head(ctl.pending))
      /\ UNCHANGED <<win, ingress, batch, torn, toCtl, cli>>
  <2>1. updateTerminalFlowControl([ctl EXCEPT !.pending = Tail(@), !.inFlight = @ + u], ingress)
    BY <1>1 DEF flushTerminalOutput
  <2>2. [ctl EXCEPT !.pending = Tail(@), !.inFlight = @ + u] = c
    BY <1>0, <1>2
  <2>3. QED
    BY <1>2, <2>1, <2>2 DEF flushTerminalOutput
<1>4. /\ ctl \in CtlStates /\ ctl.inFlight \in Nat /\ ctl.pending \in Seq(Chunks)
      /\ in \in Seq(Messages) /\ shown \in Seq(Chunks)
  BY <1>2 DEF StreamInv, WorkerOK, CtlStates, WiresOK, HistoryOK
<1>5. f \in Nat
  BY <1>0, <1>1, <1>4
<1>6. Head(ctl.pending) \in Chunks /\ Tail(ctl.pending) \in Seq(Chunks)
  BY <1>3, <1>4
<1>7. /\ c \in CtlStates /\ c.pending = Tail(ctl.pending) /\ c.request = ctl.request
      /\ c.needsReset = ctl.needsReset
  BY <1>2, <1>4, <1>5, <1>6, Zenon DEF CtlStates
<1>8. Line' = Line
  BY <1>3, LineNext DEF Line
<1>9. PICK a, b, h, t, s : /\ a = shown /\ b = ctl.pending /\ h = <<Head(ctl.pending)>>
                           /\ t = Tail(ctl.pending) /\ s = Append(shown, Head(ctl.pending))
  BY Zenon
<1>10. /\ a \in Seq(Chunks) /\ h \in Seq(Chunks) /\ t \in Seq(Chunks) /\ b = h \o t
       /\ s = a \o h /\ s \in Seq(Chunks) /\ Len(a) <= Len(s)
  BY <1>3, <1>4, <1>6, <1>9
<1>11. a \o (h \o t) = (a \o h) \o t
  BY <1>10, JoinedInTurn, SMTT(40)
<1>12. Page = s \o c.pending
  BY <1>7, <1>9, <1>10, <1>11, Zenon DEF Page
<1>13. PICK x : x = Line
  OBVIOUS
<1>14. /\ Line' = x /\ Len(shown) <= Len(s) /\ shown' = s /\ UNCHANGED <<win, cli, torn>>
  BY <1>3, <1>8, <1>9, <1>10, <1>13
<1>15. QED
  BY <1>3, <1>4, <1>7, <1>10, <1>12, <1>13, <1>14, FlowStepTranscript, Zenon

-----------------------------------------------------------------------------
(* Messages that ctl processes.                                            *)

LEMMA JoinedTail ==
  ASSUME NEW m \in Messages, NEW z \in Seq(Messages), NEW s, s = <<m>> \o z
  PROVE  s \in Seq(Messages) /\ s # <<>> /\ s[1] = m /\ Tail(s) = z
<1>1. s \in Seq(Messages) /\ Len(s) = Len(z) + 1 /\ s[1] = m /\ Len(z) \in Nat
  OBVIOUS
<1>2. s # <<>>
  BY <1>1
<1>3. \A i \in 1..Len(z) : Tail(s)[i] = z[i]
  BY <1>1
<1>4. Tail(s) \in Seq(Messages) /\ Len(Tail(s)) = Len(z)
  BY <1>1, <1>2
<1>5. Tail(s) = z
  BY <1>3, <1>4, SeqEqual
<1>6. QED
  BY <1>1, <1>2, <1>5

\* The message processed is the first of the line.
LEMMA MessageTaken ==
  ASSUME StreamInv, TranscriptOK, batch # <<>>, batch' = Tail(batch),
         UNCHANGED <<ingress, toCtl, cli>>
  PROVE  /\ Head(batch) \in Messages /\ Line # <<>> /\ Line[1] = Head(batch)
         /\ Line' = Tail(Line)
<1>1. PICK a, b, c, m, t, B : /\ a = batch /\ b = ingress /\ c = toCtl /\ m = Head(batch)
                              /\ t = Tail(batch) /\ B = Behind(cli)
  BY Zenon
<1>2. a \in Seq(Messages) /\ b \in Seq(Messages) /\ c \in Seq(Messages) /\ B \in Seq(Messages)
  BY <1>1, LineTypes DEF StreamInv, WiresOK
<1>3. m \in Messages /\ t \in Seq(Messages) /\ a = <<m>> \o t
  BY <1>1, <1>2, HeadAndTail
<1>4. PICK h, z : h = <<m>> /\ z = ((t \o b) \o c) \o B
  BY Zenon
<1>5. h \in Seq(Messages)
  BY <1>3, <1>4
<1>6. t \o b \in Seq(Messages)
  BY <1>2, <1>3
<1>7. (t \o b) \o c \in Seq(Messages)
  BY <1>2, <1>6
<1>8. z \in Seq(Messages)
  BY <1>2, <1>4, <1>7
<1>9. ((a \o b) \o c) \o B = h \o z
  <2>1. PICK y, w : y = t \o b /\ w = y \o c
    BY Zenon
  <2>2. y \in Seq(Messages) /\ w \in Seq(Messages)
    BY <1>6, <1>7, <2>1
  <2>3. (h \o t) \o b = h \o (t \o b)
    BY <1>2, <1>3, <1>5, MessagesInTurn, ZenonT(40)
  <2>4. (h \o y) \o c = h \o (y \o c)
    BY <1>2, <1>5, <2>2, MessagesInTurn, ZenonT(40)
  <2>5. (h \o w) \o B = h \o (w \o B)
    BY <1>2, <1>5, <2>2, MessagesInTurn, ZenonT(40)
  <2>6. QED
    BY <1>3, <1>4, <2>1, <2>3, <2>4, <2>5, Zenon
<1>10. PICK s : s = Line
  OBVIOUS
<1>11. s = <<m>> \o z
  BY <1>1, <1>4, <1>9, <1>10, Zenon DEF Line
<1>12. s # <<>> /\ s[1] = m /\ Tail(s) = z
  BY <1>3, <1>8, <1>11, JoinedTail
<1>13. Line' = z
  <2>1. Line' = ((batch' \o ingress') \o toCtl') \o Behind(cli)
    BY LineNext
  <2>2. QED
    BY <1>1, <1>4, <2>1
<1>14. QED
  BY <1>1, <1>3, <1>10, <1>12, <1>13

LEMMA MoreRefused ==
  ASSUME NEW p \in Seq(Chunks), NEW k \in Nat, NEW q, NEW r, NEW gap, NEW u, NEW v, u \subseteq v,
         PageFits(p, k, q, r, gap, u)
  PROVE  PageFits(p, k, q, r, gap, v)
<1>1. \A i \in k + 1..Len(p) : May(p, i, q, v)
  <2>1. TAKE i \in k + 1..Len(p)
  <2>2. i \in Nat /\ i > 0 /\ May(p, i, q, u)
    BY DEF PageFits
  <2>3. QED
    BY <2>2, MayBefore
<1>2. QED
  BY <1>1, Zenon DEF PageFits

\* The page p grows to t by the marks and the chunk that m brings.
Grows(p, t, q, m, gap) ==
    /\ Len(p) <= Len(t) /\ \A i \in 1..Len(p) : t[i] = p[i]
    /\ \A i \in Len(p) + 1..Len(t) :
         t[i] = T!Mark \/ (IsText(m) /\ i = Len(t) /\ t[i] = T!Chunk(q, m.n))
    /\ IsText(m) => Len(p) < Len(t) /\ t[Len(t)] = T!Chunk(q, m.n)
    /\ IsText(m) /\ (gap \/ m.reset) => Len(p) + 1 < Len(t)
    /\ gap => Len(p) < Len(t)

LEMMA OneMore ==
  ASSUME NEW p \in Seq(Chunks), NEW x \in Chunks, NEW b \in BOOLEAN, NEW t,
         t = p \o (IF b THEN <<x>> ELSE <<>>)
  PROVE  /\ t \in Seq(Chunks) /\ Len(t) = IF b THEN Len(p) + 1 ELSE Len(p)
         /\ \A i \in 1..Len(p) : t[i] = p[i]
         /\ b => t[Len(p) + 1] = x
<1>1. CASE b
  BY <1>1
<1>2. CASE ~b
  <2>1. t = p \o <<>>
    BY <1>2
  <2>2. t = p
    BY <2>1
  <2>3. QED
    BY <1>2, <2>2
<1>3. QED
  BY <1>1, <1>2

LEMMA ChunksInTurn ==
  \A a, b, c \in Seq(Chunks) : (a \o b) \o c = a \o (b \o c)
  BY JoinedInTurn

\* The page p with the text of m.
TextOn(p, m, gap) ==
    ((p \o (IF gap THEN <<T!Mark>> ELSE <<>>)) \o (IF m.reset THEN <<T!Mark>> ELSE <<>>))
        \o (IF m.n > 0 THEN <<T!Chunk(m.of, m.n)>> ELSE <<>>)

LEMMA PageGrows ==
  ASSUME NEW p \in Seq(Chunks), NEW m \in Outputs, NEW gap \in BOOLEAN
  PROVE  TextOn(p, m, gap) \in Seq(Chunks) /\ Grows(p, TextOn(p, m, gap), m.of, m, gap)
<1>0. PICK x : x = T!Chunk(m.of, m.n)
  OBVIOUS
<1>1. PICK e \in BOOLEAN : e = (m.n > 0)
  <2>1. (m.n > 0) \in BOOLEAN
    OBVIOUS
  <2>2. QED
    BY <2>1, Zenon
<1>2. /\ T!Mark \in Chunks /\ x \in Chunks /\ m.reset \in BOOLEAN
      /\ IsText(m) <=> e
  <2>1. /\ T!Mark \in Chunks /\ x \in Chunks /\ m.reset \in BOOLEAN /\ m.type = "output"
    BY <1>0, MarkIsChunk DEF T!Chunk, Chunks, Outputs
  <2>2. QED
    BY <1>1, <2>1, Zenon DEF IsText
<1>4. PICK p2 : p2 = p \o (IF gap THEN <<T!Mark>> ELSE <<>>)
  BY Zenon
<1>5. PICK p3 : p3 = p2 \o (IF m.reset THEN <<T!Mark>> ELSE <<>>)
  BY Zenon
<1>6. p \in Seq(Chunks)
  OBVIOUS
<1>7. PICK t : t = p3 \o (IF e THEN <<x>> ELSE <<>>)
  BY Zenon
<1>8. /\ p2 \in Seq(Chunks) /\ Len(p2) = (IF gap THEN Len(p) + 1 ELSE Len(p))
      /\ \A i \in 1..Len(p) : p2[i] = p[i]
      /\ gap => p2[Len(p) + 1] = T!Mark
  BY <1>2, <1>4, <1>6, OneMore
<1>9. /\ p3 \in Seq(Chunks) /\ Len(p3) = (IF m.reset THEN Len(p2) + 1 ELSE Len(p2))
      /\ \A i \in 1..Len(p2) : p3[i] = p2[i]
      /\ m.reset => p3[Len(p2) + 1] = T!Mark
  BY <1>2, <1>5, <1>8, OneMore
<1>10. /\ t \in Seq(Chunks) /\ Len(t) = (IF e THEN Len(p3) + 1 ELSE Len(p3))
       /\ \A i \in 1..Len(p3) : t[i] = p3[i]
       /\ e => t[Len(p3) + 1] = x
  BY <1>2, <1>7, <1>9, OneMore
<1>11. PICK L \in Nat, L2 \in Nat, L3 \in Nat, N \in Nat :
         L = Len(p) /\ L2 = Len(p2) /\ L3 = Len(p3) /\ N = Len(t)
  <2>1. Len(p) \in Nat /\ Len(p2) \in Nat /\ Len(p3) \in Nat /\ Len(t) \in Nat
    BY <1>6, <1>8, <1>9, <1>10
  <2>2. QED
    BY <2>1
<1>12. /\ gap \in BOOLEAN /\ m.reset \in BOOLEAN
       /\ IF gap THEN L2 = L + 1 ELSE L2 = L
       /\ IF m.reset THEN L3 = L2 + 1 ELSE L3 = L2
       /\ IF IsText(m) THEN N = L3 + 1 ELSE N = L3
  BY <1>2, <1>8, <1>9, <1>10, <1>11, Zenon
<1>13. /\ L <= L2 /\ L2 <= L3 /\ L3 <= N
       /\ \A i \in 1..L : i \in 1..L2 /\ i \in 1..L3
       /\ \A i \in 1..L2 : i \in 1..L3
  BY <1>12
<1>14. \A i \in 1..L : t[i] = p[i]
  BY <1>8, <1>9, <1>10, <1>11, <1>13, Zenon
<1>15. \A i \in L + 1..N : \/ i = L + 1 /\ gap /\ i \in 1..L2
                           \/ i = L2 + 1 /\ m.reset /\ i \in 1..L3
                           \/ i = L3 + 1 /\ IsText(m) /\ i = N
  BY <1>12
<1>16. ASSUME NEW i \in L + 1..N
       PROVE  t[i] = T!Mark \/ (IsText(m) /\ i = N /\ t[i] = T!Chunk(m.of, m.n))
  <2>1. CASE i = L + 1 /\ gap /\ i \in 1..L2
    BY <1>8, <1>9, <1>10, <1>11, <1>13, <2>1, Zenon
  <2>2. CASE i = L2 + 1 /\ m.reset /\ i \in 1..L3
    BY <1>9, <1>10, <1>11, <2>2, Zenon
  <2>3. CASE i = L3 + 1 /\ IsText(m) /\ i = N
    BY <1>0, <1>2, <1>10, <1>11, <2>3, Zenon
  <2>4. QED
    BY <1>15, <2>1, <2>2, <2>3, Zenon
<1>17. IsText(m) => L < N /\ (gap \/ m.reset => L + 1 < N) /\ N = L3 + 1
  BY <1>12
<1>18. IsText(m) => t[N] = T!Chunk(m.of, m.n)
  BY <1>0, <1>2, <1>10, <1>11, <1>17, Zenon
<1>19. (gap => L < N) /\ L <= N
  BY <1>12
<1>20. Grows(p, t, m.of, m, gap)
  BY <1>11, <1>14, <1>16, <1>17, <1>18, <1>19, Zenon DEF Grows
<1>21. t = TextOn(p, m, gap)
  BY <1>0, <1>1, <1>4, <1>5, <1>7, Zenon DEF TextOn
<1>22. QED
  BY <1>10, <1>20, <1>21

LEMMA TextGrows ==
  ASSUME NEW a \in Seq(Chunks), NEW b \in Seq(Chunks), NEW m \in Outputs, NEW gap \in BOOLEAN,
         NEW p, p = a \o b,
         NEW t, t = a \o ((b \o (IF gap THEN <<T!Mark>> ELSE <<>>)) \o TextOf(m))
  PROVE  p \in Seq(Chunks) /\ t \in Seq(Chunks) /\ Grows(p, t, m.of, m, gap)
<1>1. PICK g, h, c : /\ g = (IF gap THEN <<T!Mark>> ELSE <<>>)
                     /\ h = (IF m.reset THEN <<T!Mark>> ELSE <<>>)
                     /\ c = (IF m.n > 0 THEN <<T!Chunk(m.of, m.n)>> ELSE <<>>)
  BY Zenon
<1>2. T!Mark \in Chunks /\ T!Chunk(m.of, m.n) \in Chunks
  BY MarkIsChunk DEF T!Chunk, Chunks, Outputs
<1>3. <<>> \in Seq(Chunks) /\ \A y \in Chunks : <<y>> \in Seq(Chunks)
  OBVIOUS
<1>4. g \in Seq(Chunks) /\ h \in Seq(Chunks) /\ c \in Seq(Chunks)
  BY <1>1, <1>2, <1>3, Zenon
<1>5. PICK y, w, p2 : y = b \o g /\ w = h \o c /\ p2 = p \o g
  BY Zenon
<1>6. p \in Seq(Chunks) /\ y \in Seq(Chunks) /\ w \in Seq(Chunks)
  BY <1>4, <1>5
<1>7. p2 \in Seq(Chunks)
  BY <1>4, <1>5, <1>6
<1>8. (a \o b) \o g = a \o (b \o g)
  BY <1>4, ChunksInTurn, ZenonT(40)
<1>9. (a \o y) \o w = a \o (y \o w)
  BY <1>6, ChunksInTurn, ZenonT(40)
<1>10. (p2 \o h) \o c = p2 \o (h \o c)
  BY <1>4, <1>7, ChunksInTurn, Zenon
<1>11. t = a \o (y \o w)
  BY <1>1, <1>5, Zenon DEF TextOf
<1>12. t = ((p \o g) \o h) \o c
  BY <1>5, <1>8, <1>9, <1>10, <1>11, Zenon
<1>13. t = TextOn(p, m, gap)
  BY <1>1, <1>12, Zenon DEF TextOn
<1>14. QED
  BY <1>6, <1>13, PageGrows, Zenon

\* The text of the first message of the line comes to the page.
LEMMA TextMoves ==
  ASSUME NEW s \in Seq(Messages), NEW p \in Seq(Chunks), NEW t \in Seq(Chunks), NEW k \in Nat,
         NEW q, NEW r \in Nat, NEW gap, NEW u, NEW m \in Outputs,
         LineOK(s, p, q, r, gap, u), PageFits(p, k, q, r, gap, u),
         s # <<>>, s[1] = m, m.of = q, Grows(p, t, q, m, gap)
  PROVE  LineOK(Tail(s), t, q, r, FALSE, u) /\ PageFits(t, k, q, r, FALSE, u)
<1>1. PICK L \in Nat, N \in Nat, S \in Nat : L = Len(p) /\ N = Len(t) /\ S = Len(s)
  OBVIOUS
<1>2. /\ DOMAIN p = 1..L /\ DOMAIN t = 1..N /\ DOMAIN s = 1..S /\ 1 \in DOMAIN s /\ L <= N
      /\ \A i \in 1..L : t[i] = p[i]
      /\ \A i \in L + 1..N : t[i] = T!Mark \/ (IsText(m) /\ i = N /\ t[i] = T!Chunk(q, m.n))
      /\ IsText(m) => L < N /\ t[N] = T!Chunk(q, m.n)
      /\ IsText(m) /\ (gap \/ m.reset) => L + 1 < N
      /\ gap => L < N
  BY <1>1 DEF Grows
<1>3. m.of = q /\ q \in Nat /\ q > 0 /\ q <= r /\ m.type = "output" /\ m.n \in Nat
  <2>1. m.of \in Nat /\ m.n \in Nat /\ m.type = "output"
    BY LimitsAreNumbers DEF Outputs, Requests
  <2>2. 0 < m.of /\ m.of <= r
    BY <1>2 DEF LineOK
  <2>3. QED
    BY <2>1, <2>2
<1>4. /\ T!Mark.of = 0 /\ T!Mark.n = 0 /\ T!Mark.of # q
      /\ \A n : T!Chunk(q, n).of = q /\ T!Chunk(q, n).n = n /\ T!Chunk(q, n) # T!Mark
      /\ T!End(q).of = q /\ T!End(q).n = 0 /\ T!Mark # T!End(q)
      /\ T!Chunk(q, m.n).of = q /\ T!Chunk(q, m.n).n = m.n
  BY <1>3 DEF T!Mark, T!Chunk, T!End
<1>5. \A k2 \in 1..L : p[k2].of = q => p[k2].n # 0 /\ (IsText(m) => p[k2].n < m.n)
  BY <1>2, <1>3, Zenon DEF LineOK, IsNew
<1>6. \A i \in 1..N : \/ i \in 1..L
                      \/ i \in L + 1..N /\ ~(i \in 1..L)
  BY <1>1, <1>2
<1>7. IsText(m) => m.n # 0 /\ 0 < m.n
  BY <1>3 DEF IsText
\* What of q is on the page t.
<1>8. ASSUME NEW i \in 1..N, t[i].of = q
      PROVE  \/ i \in 1..L /\ p[i].of = q /\ t[i] = p[i]
             \/ IsText(m) /\ i = N /\ i \notin 1..L /\ t[i] = T!Chunk(q, m.n) /\ t[i].n = m.n
  BY <1>2, <1>4, <1>6, <1>8, Zenon
<1>9. LineOK(Tail(s), t, q, r, FALSE, u)
  <2>1. ASSUME NEW n, IsText(s[1]), n = s[1].n + 1
        PROVE  Joins(t, q, n, FALSE, u)
    <3>1. IsText(m) /\ n = 1 + m.n /\ N # 0 /\ t # <<>>
      BY <1>1, <1>2, <1>3, <2>1
    <3>2. t[Len(t)].of = q /\ t[Len(t)].n = m.n
      BY <1>1, <1>2, <1>4, <3>1, Zenon
    <3>3. QED
      BY <3>1, <3>2, Zenon DEF Joins
  <2>2. ASSUME NEW j \in DOMAIN s, NEW k2 \in DOMAIN t, j # 1, s[j].of = q, s[j].type # "info",
               t[k2].of = q
        PROVE  t[k2].n # 0 /\ (IsText(s[j]) => t[k2].n < s[j].n)
    <3>1. k2 \in 1..N /\ 1 < j
      BY <1>1, <1>2, <2>2
    <3>2. CASE k2 \in 1..L /\ p[k2].of = q /\ t[k2] = p[k2]
      BY <1>2, <2>2, <3>2, Zenon DEF LineOK, IsNew
    <3>3. CASE IsText(m) /\ t[k2].n = m.n
      <4>1. IsText(s[j]) => m.n < s[j].n
        BY <1>2, <1>3, <2>2, <3>1, <3>3, Zenon DEF LineOK, InTurn
      <4>2. QED
        BY <1>7, <3>3, <4>1, Zenon
    <3>4. QED
      BY <1>8, <2>2, <3>1, <3>2, <3>3, Zenon
  <2>3. s[1].of = q /\ s[1].type # "info"
    BY <1>3
  <2>4. \A n : IsText(s[1]) /\ n = s[1].n + 1 => Joins(t, q, n, FALSE, u)
    BY <2>1, Zenon
  <2>5. \A j \in DOMAIN s : \A k2 \in DOMAIN t :
          j # 1 /\ s[j].of = q /\ s[j].type # "info" /\ t[k2].of = q =>
              t[k2].n # 0 /\ (IsText(s[j]) => t[k2].n < s[j].n)
    BY <2>2, Zenon
  <2>6. QED
    BY <2>3, <2>4, <2>5, LineMoves, Zenon
<1>10. \A i \in DOMAIN t : t[i].of <= r
  <2>1. SUFFICES ASSUME NEW i \in 1..N
                 PROVE  t[i].of <= r
    BY <1>2
  <2>2. CASE i \in 1..L
    BY <1>2, <2>2, Zenon DEF PageFits
  <2>3. CASE i \in L + 1..N
    <3>1. t[i].of = 0 \/ t[i].of = q
      BY <1>2, <1>4, <2>3, Zenon
    <3>2. QED
      BY <1>3, <3>1
  <2>4. QED
    BY <1>6, <2>2, <2>3
<1>11. t = <<>> \/ t[Len(t)] = T!Mark \/ t[Len(t)].of = q
  <2>1. CASE L < N
    <3>1. N \in L + 1..N
      BY <2>1
    <3>2. QED
      BY <1>1, <1>2, <1>4, <3>1, Zenon
  <2>2. CASE L = N
    <3>1. ~gap
      BY <1>2, <2>2
    <3>2. CASE p = <<>>
      <4>1. Len(t) = 0
        BY <1>1, <2>2, <3>2, Zenon
      <4>2. QED
        BY <4>1
    <3>3. CASE p # <<>>
      <4>1. L \in 1..L
        BY <1>1, <3>3
      <4>2. t[N] = p[L]
        BY <1>2, <2>2, <4>1
      <4>3. QED
        BY <1>1, <3>1, <3>3, <4>2, Zenon DEF PageFits
    <3>4. QED
      BY <3>2, <3>3
  <2>3. QED
    BY <1>2, <2>1, <2>2
\* The chunk of m follows what is on the page, or a mark.
<1>12. ASSUME IsText(m)
       PROVE  May(t, N, q, u)
  <2>1. L < N /\ t[N] = T!Chunk(q, m.n) /\ t[N].of = q /\ t[N].n = m.n /\ N > 0
    BY <1>2, <1>4, <1>12
  <2>2. \A j \in 1..N - 1 : j \in 1..N /\ j # N
    OBVIOUS
  <2>3. \A j \in 1..N - 1 : t[j].of = q => t[j].n # 0 /\ t[j].n < m.n
    <3>1. SUFFICES ASSUME NEW j \in 1..N - 1, t[j].of = q
                   PROVE  t[j].n # 0 /\ t[j].n < m.n
      BY Zenon
    <3>2. j \in 1..L /\ p[j].of = q /\ t[j] = p[j]
      BY <1>8, <2>2, <3>1, Zenon
    <3>3. QED
      BY <1>5, <1>12, <3>2, Zenon
  <2>4. \A j \in 1..N - 1 : t[j] # T!End(q)
    BY <1>4, <2>3, Zenon
  <2>5. CASE L + 1 < N
    <3>1. N > 1 /\ N - 1 \in L + 1..N /\ N - 1 # N
      BY <2>5
    <3>2. t[N - 1] = T!Mark
      BY <1>2, <3>1, Zenon
    <3>3. QED
      BY <2>1, <2>3, <2>4, <3>1, <3>2, Zenon DEF May
  <2>6. CASE ~(L + 1 < N)
    <3>1. N = L + 1 /\ N - 1 = L /\ ~gap /\ ~m.reset
      BY <1>2, <1>12, <2>1, <2>6
    <3>2. Joins(p, q, m.n, gap, u)
      <4>1. ~Follows(s, q, 1)
        BY DEF Follows
      <4>2. QED
        BY <1>2, <1>3, <1>12, <3>1, <4>1, Zenon DEF LineOK, Linked
    <3>3. p = <<>> <=> N = 1
      BY <1>1, <3>1
    <3>4. p # <<>> => L \in 1..L /\ N > 1 /\ t[N - 1] = p[Len(p)]
      BY <1>1, <1>2, <3>1
    <3>5. CASE p # <<>> /\ p[Len(p)] = T!Mark
      BY <2>1, <2>3, <2>4, <3>4, <3>5, Zenon DEF May
    <3>6. CASE /\ p = <<>> \/ p[Len(p)].of = q
               /\ \/ m.n = 1 + (IF p = <<>> THEN 0 ELSE p[Len(p)].n)
                  \/ T!Chunk(q, m.n - 1) \in u
      <4>1. N = 1 \/ t[N - 1].of = q
        BY <3>3, <3>4, <3>6, Zenon
      <4>2. \/ t[N].n = 1 + (IF N = 1 THEN 0 ELSE t[N - 1].n)
            \/ T!Chunk(q, t[N].n - 1) \in u
        BY <2>1, <3>3, <3>4, <3>6, Zenon
      <4>3. QED
        BY <2>1, <2>3, <2>4, <4>1, <4>2, Zenon DEF May
    <3>7. QED
      BY <3>1, <3>2, <3>5, <3>6, Zenon DEF Joins
  <2>7. QED
    BY <2>5, <2>6
<1>13. \A i \in k + 1..Len(t) : May(t, i, q, u)
  <2>1. SUFFICES ASSUME NEW i \in k + 1..N
                 PROVE  May(t, i, q, u)
    BY <1>1
  <2>2. i \in Nat /\ i > 0 /\ i \in 1..N
    BY <1>1
  <2>3. CASE i \in 1..L
    <3>1. \A j \in 1..i : j \in 1..L
      BY <2>3
    <3>2. i \in k + 1..Len(p)
      BY <1>1, <2>3
    <3>3. May(p, i, q, u)
      BY <3>2 DEF PageFits
    <3>4. \A j \in 1..i : t[j] = p[j]
      BY <1>2, <3>1
    <3>5. QED
      BY <2>2, <3>3, <3>4, MayBefore
  <2>4. CASE i \in L + 1..N
    <3>1. CASE t[i] = T!Mark
      BY <3>1, Zenon DEF May
    <3>2. CASE IsText(m) /\ i = N
      BY <1>12, <3>2
    <3>3. QED
      BY <1>2, <2>4, <3>1, <3>2, Zenon
  <2>5. QED
    BY <1>6, <2>2, <2>3, <2>4
<1>14. q # 0
  BY <1>3
<1>15. QED
  BY <1>9, <1>10, <1>11, <1>13, <1>14, Zenon DEF PageFits

\* The page p with the end of q.
EndOn(p, gap, q) == (p \o (IF gap THEN <<T!Mark>> ELSE <<>>)) \o <<T!End(q)>>
EndsWith(t, p, gap, q) == gap \in BOOLEAN /\ q \in Requests /\ t = EndOn(p, gap, q)

LEMMA EndGrows ==
  ASSUME NEW p \in Seq(Chunks), NEW gap, NEW q, NEW t, EndsWith(t, p, gap, q)
  PROVE  t \in Seq(Chunks) /\ Len(p) <= Len(t) /\ \A i \in 1..Len(p) : t[i] = p[i]
<1>1. gap \in BOOLEAN /\ q \in Requests /\ t = EndOn(p, gap, q)
  BY DEF EndsWith
<1>2. T!Mark \in Chunks /\ T!End(q) \in Chunks
  BY <1>1, MarkIsChunk DEF T!End, T!Chunk, Chunks
<1>3. PICK p2, e : p2 = p \o (IF gap THEN <<T!Mark>> ELSE <<>>) /\ e = T!End(q)
  BY Zenon
<1>4. /\ p2 \in Seq(Chunks) /\ Len(p2) = (IF gap THEN Len(p) + 1 ELSE Len(p))
      /\ \A i \in 1..Len(p) : p2[i] = p[i]
  BY <1>1, <1>2, <1>3, OneMore
<1>5. e \in Chunks /\ t = p2 \o <<e>>
  BY <1>1, <1>2, <1>3 DEF EndOn
<1>6. t \in Seq(Chunks) /\ Len(t) = Len(p2) + 1 /\ \A i \in 1..Len(p2) : t[i] = p2[i]
  BY <1>4, <1>5
<1>7. PICK L \in Nat, N \in Nat : L = Len(p) /\ N = Len(p2)
  BY <1>4
<1>8. L <= N /\ L <= N + 1 /\ \A i \in 1..L : i \in 1..N
  BY <1>4, <1>7
<1>9. QED
  BY <1>4, <1>6, <1>7, <1>8

\* The end of the request q is the first message of the line.
LEMMA EndMoves ==
  ASSUME NEW s \in Seq(Messages), NEW p \in Seq(Chunks), NEW k \in Nat,
         NEW q, NEW r \in Nat, NEW gap, NEW u,
         LineOK(s, p, q, r, gap, u), PageFits(p, k, q, r, gap, u),
         s # <<>>, NEW m, s[1] = m, m.type = "ended", m.of = q,
         NEW t \in Seq(Chunks), EndsWith(t, p, gap, q)
  PROVE  LineOK(Tail(s), t, q, r, FALSE, u) /\ PageFits(t, k, q, r, FALSE, u)
<1>0. /\ gap \in BOOLEAN /\ q \in Requests /\ t = EndOn(p, gap, q)
      /\ s[1].type = "ended" /\ s[1].of = q
  BY DEF EndsWith
<1>1. T!Mark \in Chunks /\ T!End(q) \in Chunks /\ 1 \in DOMAIN s
  BY <1>0, MarkIsChunk DEF T!End, T!Chunk, Chunks
<1>2. q \in Nat /\ q > 0 /\ q <= r
  BY <1>0, <1>1, LimitsAreNumbers DEF LineOK, Requests
<1>3. /\ T!Mark.of = 0 /\ T!Mark # T!End(q) /\ T!End(q).of = q /\ T!End(q).n = 0
  BY <1>2 DEF T!Mark, T!Chunk, T!End
<1>4. PICK p2 : p2 = p \o (IF gap THEN <<T!Mark>> ELSE <<>>)
  BY Zenon
<1>5. /\ p2 \in Seq(Chunks) /\ Len(p2) = (IF gap THEN Len(p) + 1 ELSE Len(p))
      /\ \A i \in 1..Len(p) : p2[i] = p[i]
      /\ gap => p2[Len(p) + 1] = T!Mark
  BY <1>1, <1>4, OneMore
<1>6. PICK e : e = T!End(q)
  OBVIOUS
<1>7. /\ t \in Seq(Chunks) /\ Len(t) = Len(p2) + 1 /\ t[Len(p2) + 1] = e
      /\ \A i \in 1..Len(p2) : t[i] = p2[i]
  <2>1. e \in Chunks /\ t = p2 \o <<e>>
    BY <1>0, <1>1, <1>4, <1>6 DEF EndOn
  <2>2. QED
    BY <1>5, <2>1
<1>8. PICK L \in Nat, L2 \in Nat, N \in Nat : L = Len(p) /\ L2 = Len(p2) /\ N = Len(t)
  BY <1>5, <1>7
<1>9. L2 = (IF gap THEN L + 1 ELSE L) /\ N = L2 + 1
  BY <1>5, <1>7, <1>8
<1>10. /\ L <= N /\ N > 0 /\ N \in 1..N
       /\ \A i \in 1..L : i \in 1..L2 /\ i \in 1..N
       /\ \A i \in 1..N : i \in 1..L \/ (i \in L + 1..N /\ i \notin 1..L)
       /\ \A i \in L + 1..N : (i = L + 1 /\ gap /\ i \in 1..L2) \/ i = N
  BY <1>9
<1>11. \A i \in 1..L : t[i] = p[i]
  BY <1>5, <1>7, <1>8, <1>10, Zenon
<1>12. t[N] = T!End(q)
  BY <1>6, <1>7, <1>8, <1>9
<1>13. ASSUME NEW i \in L + 1..N
       PROVE  t[i] = T!Mark \/ i = N
  <2>1. CASE i = L + 1 /\ gap /\ i \in 1..L2
    BY <1>5, <1>7, <1>8, <2>1, Zenon
  <2>2. QED
    BY <1>10, <2>1
<1>14. DOMAIN t = 1..N /\ DOMAIN p = 1..L
  BY <1>7, <1>8
\* Nothing of q comes after its end.
<1>15. LineOK(Tail(s), t, q, r, FALSE, u)
  <2>1. ~IsText(s[1]) /\ s[1].type # "info"
    BY DEF IsText
  <2>2. ASSUME NEW j \in DOMAIN s, j # 1, s[j].of = q
        PROVE  FALSE
    <3>1. 1 < j
      BY <2>2
    <3>2. QED
      BY <1>1, <2>2, <3>1, Zenon DEF LineOK, InTurn
  <2>3. \A n : IsText(s[1]) /\ n = s[1].n + 1 => Joins(t, q, n, FALSE, u)
    BY <2>1, Zenon
  <2>4. \A j \in DOMAIN s : \A k2 \in DOMAIN t :
          j # 1 /\ s[j].of = q /\ s[j].type # "info" /\ t[k2].of = q =>
              t[k2].n # 0 /\ (IsText(s[j]) => t[k2].n < s[j].n)
    BY <2>2, Zenon
  <2>5. QED
    BY <2>1, <2>3, <2>4, LineMoves, Zenon
<1>16. \A i \in 1..N : t[i].of <= r
  <2>1. SUFFICES ASSUME NEW i \in 1..N
                 PROVE  t[i].of <= r
    OBVIOUS
  <2>2. CASE i \in 1..L
    BY <1>11, <1>14, <2>2, Zenon DEF PageFits
  <2>3. CASE i \in L + 1..N
    <3>1. t[i].of = 0 \/ t[i].of = q
      BY <1>3, <1>12, <1>13, <2>3, Zenon
    <3>2. 0 <= r
      OBVIOUS
    <3>3. QED
      BY <1>2, <3>1, <3>2
  <2>4. QED
    BY <1>10, <2>2, <2>3
<1>17. May(t, N, q, u)
  <2>1. \A j \in 1..N - 1 : j \in 1..N /\ j # N
    OBVIOUS
  <2>2. \A j \in 1..N - 1 : t[j] # T!End(q)
    <3>1. SUFFICES ASSUME NEW j \in 1..N - 1, t[j] = T!End(q)
                   PROVE  FALSE
      OBVIOUS
    <3>2. j \in 1..L
      BY <1>3, <1>10, <1>13, <2>1, <3>1, Zenon
    <3>3. j \in DOMAIN p /\ p[j].of = q /\ p[j].n = 0
      BY <1>3, <1>11, <1>14, <3>1, <3>2, Zenon
    <3>4. QED
      BY <1>1, <3>3, Zenon DEF LineOK, IsNew
  <2>3. QED
    BY <1>3, <1>12, <2>2, Zenon DEF May
<1>18. \A i \in k + 1..Len(t) : May(t, i, q, u)
  <2>1. SUFFICES ASSUME NEW i \in k + 1..N
                 PROVE  May(t, i, q, u)
    BY <1>8
  <2>2. i \in Nat /\ i > 0 /\ i \in 1..N
    BY <2>1
  <2>3. CASE i \in 1..L
    <3>1. \A j \in 1..i : j \in 1..L
      BY <2>3
    <3>2. i \in k + 1..Len(p)
      BY <1>8, <2>3
    <3>3. May(p, i, q, u)
      BY <3>2 DEF PageFits
    <3>4. \A j \in 1..i : t[j] = p[j]
      BY <1>11, <3>1, Zenon
    <3>5. QED
      BY <2>2, <3>3, <3>4, MayBefore, Zenon
  <2>4. CASE i \in L + 1..N
    <3>1. CASE t[i] = T!Mark
      BY <3>1, Zenon DEF May
    <3>2. CASE i = N
      BY <1>17, <3>2
    <3>3. QED
      BY <1>13, <2>4, <3>1, <3>2, Zenon
  <2>5. QED
    BY <1>10, <2>2, <2>3, <2>4
<1>19. t[Len(t)].of = q /\ q # 0
  BY <1>2, <1>3, <1>8, <1>12
<1>20. PageFits(t, k, q, r, FALSE, u)
  BY <1>14, <1>16, <1>18, <1>19, Zenon DEF PageFits
<1>21. QED
  BY <1>15, <1>20, Zenon

\* What the message processed finds.
LEMMA MessageFinds ==
  ASSUME StreamInv, TranscriptOK, batch # <<>>, batch' = Tail(batch),
         UNCHANGED <<win, ingress, toCtl, cli>>,
         NEW s, s = Line, NEW p, p = Page, NEW q, q = ctl.request, NEW r, r = cli.request,
         NEW gap, gap = ctl.needsReset, NEW u, u = torn, NEW k, k = Len(shown),
         NEW m, m = Head(batch)
  PROVE  /\ s \in Seq(Messages) /\ s # <<>> /\ s[1] = m /\ Line' = Tail(s) /\ m \in Messages
         /\ p \in Seq(Chunks) /\ q \in Requests /\ r \in Nat /\ gap \in BOOLEAN /\ k \in Nat
         /\ LineOK(s, p, q, r, gap, u) /\ PageFits(p, k, q, r, gap, u)
         /\ ctl \in CtlStates /\ ctl.pending \in Seq(Chunks) /\ shown \in Seq(Chunks)
         /\ p = shown \o ctl.pending
<1>1. m \in Messages /\ s # <<>> /\ s[1] = m /\ Line' = Tail(s)
  BY MessageTaken
<1>2. s \in Seq(Messages) /\ p \in Seq(Chunks) /\ r \in Nat /\ LineOK(s, p, q, r, gap, u)
  BY LineTypes
<1>3. PageFits(p, k, q, r, gap, u)
  BY PageMeans DEF TranscriptOK
<1>4. ctl \in CtlStates /\ shown \in Seq(Chunks)
  BY DEF StreamInv, WorkerOK, HistoryOK
<1>5. q \in Requests /\ gap \in BOOLEAN /\ ctl.pending \in Seq(Chunks)
  BY <1>4 DEF CtlStates
<1>6. k \in Nat
  BY <1>4
<1>7. QED
  BY <1>1, <1>2, <1>3, <1>4, <1>5, <1>6 DEF Page

LEMMA QuietMessageTranscript ==
  ASSUME StreamInv, TranscriptOK, batch # <<>>, batch' = Tail(batch),
         ProcessInfo(Head(batch)) \/ IgnoreStale(Head(batch)),
         UNCHANGED <<win, ingress, toCtl, cli, flickers>>
  PROVE  TranscriptOK' /\ UNCHANGED <<ctl, shown, torn>>
<1>1. UNCHANGED <<win, ingress, toCtl, cli>>
  OBVIOUS
<1>2. PICK m, s, p, q, r, gap, u, k :
        /\ m = Head(batch) /\ s = Line /\ p = Page /\ q = ctl.request /\ r = cli.request
        /\ gap = ctl.needsReset /\ u = torn /\ k = Len(shown)
  BY Zenon
<1>3. /\ s \in Seq(Messages) /\ s # <<>> /\ s[1] = m /\ Line' = Tail(s)
      /\ LineOK(s, p, q, r, gap, u) /\ PageFits(p, k, q, r, gap, u)
  BY <1>1, <1>2, MessageFinds
<1>4. /\ UNCHANGED <<ctl, shown, torn, toCli>> /\ (m.of = q => m.type = "info")
  BY <1>2 DEF ProcessInfo, IgnoreStale
<1>5. LineOK(Tail(s), p, q, r, gap, u)
  BY <1>3, <1>4, LineTail
<1>6. Page' = p
  BY <1>2, <1>4 DEF Page
<1>7. RequestsGrow'
  BY <1>1, <1>4, OrderUnderWay
<1>8. /\ LineOK(Line', Page', ctl'.request, cli.request, ctl'.needsReset, torn')
      /\ PageFits(Page', Len(shown'), ctl'.request, cli.request, ctl'.needsReset, torn')
  BY <1>2, <1>3, <1>4, <1>5, <1>6
<1>9. QED
  BY <1>1, <1>4, <1>7, <1>8, CtlStep

LEMMA RefuseTranscript ==
  ASSUME StreamInv, TranscriptOK, batch # <<>>, batch' = Tail(batch), Head(batch).of = ctl.request,
         Head(batch).type = "output", RefuseBig(Head(batch)), shown' = shown,
         UNCHANGED <<win, ingress, toCtl, cli, flickers>>
  PROVE  TranscriptOK' /\ T!Refuse
<1>1. UNCHANGED <<win, ingress, toCtl, cli>>
  OBVIOUS
<1>2. PICK m, s, p, q, r, gap, u, k :
        /\ m = Head(batch) /\ s = Line /\ p = Page /\ q = ctl.request /\ r = cli.request
        /\ gap = ctl.needsReset /\ u = torn /\ k = Len(shown)
  BY Zenon
<1>3. /\ s \in Seq(Messages) /\ s # <<>> /\ s[1] = m /\ Line' = Tail(s) /\ m \in Messages
      /\ LineOK(s, p, q, r, gap, u) /\ PageFits(p, k, q, r, gap, u) /\ p \in Seq(Chunks) /\ k \in Nat
  BY <1>1, <1>2, MessageFinds
<1>4. m.of = q /\ m.type = "output" /\ m \in Outputs
  BY <1>2, <1>3 DEF Messages, Events
<1>5. PICK v : v = u \cup {T!Chunk(q, m.n)}
  BY Zenon
<1>6. /\ ctl' = ctl /\ toCli' = Append(toCli, Flow(FALSE)) /\ torn' = v /\ u \subseteq v
      /\ T!Chunk(q, m.n) \in v
  BY <1>2, <1>4, <1>5 DEF RefuseBig
<1>7. PageFits(p, k, q, r, gap, v)
  BY <1>3, <1>6, MoreRefused
<1>8. LineOK(Tail(s), p, q, r, gap, v)
  <2>1. ASSUME NEW n, IsText(s[1]), n = s[1].n + 1
        PROVE  Joins(p, q, n, gap, v)
    <3>1. n - 1 = m.n
      BY <1>3, <1>4, <2>1 DEF Outputs
    <3>2. T!Chunk(q, n - 1) \in v
      BY <1>6, <3>1
    <3>3. gap \/ p = <<>> \/ p[Len(p)] = T!Mark \/ p[Len(p)].of = q
      BY <1>7 DEF PageFits
    <3>4. QED
      BY <3>2, <3>3, Zenon DEF Joins
  <2>2. \A j \in DOMAIN s : \A k2 \in DOMAIN p :
          j # 1 /\ s[j].of = q /\ s[j].type # "info" /\ p[k2].of = q =>
              p[k2].n # 0 /\ (IsText(s[j]) => p[k2].n < s[j].n)
    BY <1>3, Zenon DEF LineOK, IsNew
  <2>3. \A n : IsText(s[1]) /\ n = s[1].n + 1 => Joins(p, q, n, gap, v)
    BY <2>1, Zenon
  <2>4. s[1].of = q /\ s[1].type # "info"
    BY <1>3, <1>4
  <2>5. QED
    BY <1>3, <2>2, <2>3, <2>4, LineMoves, Zenon
<1>9. Page' = p
  BY <1>2, <1>6 DEF Page
<1>10. RequestsGrow'
  BY <1>1, <1>6, OrderUnderWay
<1>11. /\ LineOK(Line', Page', ctl'.request, cli.request, ctl'.needsReset, torn')
       /\ PageFits(Page', Len(shown'), ctl'.request, cli.request, ctl'.needsReset, torn')
  BY <1>2, <1>3, <1>6, <1>7, <1>8, <1>9
<1>12. TranscriptOK'
  BY <1>1, <1>10, <1>11, CtlStep
<1>13. T!Refuse
  <2>1. T!Chunk(q, m.n).of = ctl.request
    BY <1>2 DEF T!Chunk
  <2>2. QED
    BY <1>2, <1>5, <1>6, <2>1 DEF T!Refuse
<1>14. QED
  BY <1>12, <1>13

LEMMA DropTranscript ==
  ASSUME StreamInv, TranscriptOK, batch # <<>>, batch' = Tail(batch), Head(batch).of = ctl.request,
         Head(batch).type = "output", DropFull(Head(batch)), shown' = shown,
         UNCHANGED <<win, ingress, toCtl, cli, flickers>>
  PROVE  TranscriptOK' /\ ctl'.request = ctl.request /\ UNCHANGED <<shown, torn>>
<1>1. UNCHANGED <<win, ingress, toCtl, cli>>
  OBVIOUS
<1>2. PICK m, s, p, q, r, gap, u, k :
        /\ m = Head(batch) /\ s = Line /\ p = Page /\ q = ctl.request /\ r = cli.request
        /\ gap = ctl.needsReset /\ u = torn /\ k = Len(shown)
  BY Zenon
<1>3. /\ s \in Seq(Messages) /\ s # <<>> /\ s[1] = m /\ Line' = Tail(s) /\ m \in Messages
      /\ LineOK(s, p, q, r, gap, u) /\ PageFits(p, k, q, r, gap, u) /\ ctl \in CtlStates
  BY <1>1, <1>2, MessageFinds
<1>4. m.of = q /\ m.type = "output"
  BY <1>2
<1>5. /\ ctl' = [ctl EXCEPT !.needsReset = TRUE] /\ toCli' = Append(toCli, Flow(FALSE)) /\ torn' = u
  BY <1>2 DEF DropFull
<1>6. ctl'.request = q /\ ctl'.pending = ctl.pending /\ ctl'.needsReset = TRUE
  BY <1>2, <1>3, <1>5 DEF CtlStates
<1>7. PageFits(p, k, q, r, TRUE, u)
  BY <1>3, Zenon DEF PageFits
<1>8. LineOK(Tail(s), p, q, r, TRUE, u)
  <2>1. \A n : IsText(s[1]) /\ n = s[1].n + 1 => Joins(p, q, n, TRUE, u)
    BY Zenon DEF Joins
  <2>2. \A j \in DOMAIN s : \A k2 \in DOMAIN p :
          j # 1 /\ s[j].of = q /\ s[j].type # "info" /\ p[k2].of = q =>
              p[k2].n # 0 /\ (IsText(s[j]) => p[k2].n < s[j].n)
    BY <1>3, Zenon DEF LineOK, IsNew
  <2>3. s[1].of = q /\ s[1].type # "info"
    BY <1>3, <1>4
  <2>4. QED
    BY <1>3, <2>1, <2>2, <2>3, LineMoves, Zenon
<1>9. Page' = p
  BY <1>2, <1>6 DEF Page
<1>10. RequestsGrow'
  BY <1>1, <1>2, <1>5, <1>6, OrderUnderWay
<1>11. /\ LineOK(Line', Page', ctl'.request, cli.request, ctl'.needsReset, torn')
       /\ PageFits(Page', Len(shown'), ctl'.request, cli.request, ctl'.needsReset, torn')
  BY <1>2, <1>3, <1>5, <1>6, <1>7, <1>8, <1>9, Zenon
<1>12. QED
  BY <1>1, <1>2, <1>5, <1>6, <1>10, <1>11, CtlStep

LEMMA AcceptTranscript ==
  ASSUME StreamInv, TranscriptOK, batch # <<>>, batch' = Tail(batch), Head(batch).of = ctl.request,
         Head(batch).type = "output", AcceptText(Head(batch)), shown' = shown,
         UNCHANGED <<win, ingress, toCtl, cli, flickers>>
  PROVE  TranscriptOK' /\ ctl'.request = ctl.request /\ UNCHANGED <<shown, torn>>
<1>1. UNCHANGED <<win, ingress, toCtl, cli>>
  OBVIOUS
<1>2. PICK m, s, p, q, r, gap, u, k :
        /\ m = Head(batch) /\ s = Line /\ p = Page /\ q = ctl.request /\ r = cli.request
        /\ gap = ctl.needsReset /\ u = torn /\ k = Len(shown)
  BY Zenon
<1>3. /\ s \in Seq(Messages) /\ s # <<>> /\ s[1] = m /\ Line' = Tail(s) /\ m \in Messages
      /\ LineOK(s, p, q, r, gap, u) /\ PageFits(p, k, q, r, gap, u) /\ ctl \in CtlStates
      /\ p \in Seq(Chunks) /\ r \in Nat /\ gap \in BOOLEAN /\ k \in Nat /\ ctl.pending \in Seq(Chunks)
      /\ shown \in Seq(Chunks) /\ p = shown \o ctl.pending
  <2>1. /\ s \in Seq(Messages) /\ s # <<>> /\ s[1] = m /\ Line' = Tail(s) /\ m \in Messages
        /\ LineOK(s, p, q, r, gap, u) /\ PageFits(p, k, q, r, gap, u) /\ ctl \in CtlStates
    BY <1>1, <1>2, MessageFinds
  <2>2. p \in Seq(Chunks) /\ shown \in Seq(Chunks)
    BY <1>2, LineTypes DEF StreamInv, HistoryOK
  <2>3. r \in Nat /\ k \in Nat
    BY <1>2, <2>2, LineTypes
  <2>4. q \in Requests /\ gap \in BOOLEAN /\ ctl.pending \in Seq(Chunks)
    BY <1>2, <2>1 DEF CtlStates
  <2>5. p = shown \o ctl.pending
    BY <1>2 DEF Page
  <2>6. QED
    BY <2>1, <2>2, <2>3, <2>4, <2>5, Zenon
<1>4. m.of = q /\ m.type = "output" /\ m \in Outputs
  BY <1>2, <1>3 DEF Messages, Events
<1>5. PICK a, b : a = shown /\ b = ctl.pending
  OBVIOUS
<1>6. PICK x : x = (b \o (IF gap THEN <<T!Mark>> ELSE <<>>)) \o TextOf(m)
  BY Zenon
<1>7. PICK t : t = a \o x
  BY Zenon
<1>8. t \in Seq(Chunks) /\ Grows(p, t, m.of, m, gap)
  <2>1. t = a \o ((b \o (IF gap THEN <<T!Mark>> ELSE <<>>)) \o TextOf(m))
    BY <1>6, <1>7
  <2>2. a \in Seq(Chunks) /\ b \in Seq(Chunks) /\ p = a \o b
    BY <1>3, <1>5
  <2>3. QED
    BY <1>3, <1>4, <2>1, <2>2, TextGrows, Zenon
<1>9. LineOK(Tail(s), t, q, r, FALSE, u) /\ PageFits(t, k, q, r, FALSE, u)
  BY <1>3, <1>4, <1>8, TextMoves, Zenon
<1>10. PICK c, in : c = [ctl EXCEPT !.pending = x, !.needsReset = FALSE] /\ in = ingress
  OBVIOUS
<1>11. updateTerminalFlowControl(c, in) /\ torn' = u
  <2>1. WithText(m) = c
    BY <1>2, <1>5, <1>6, <1>10 DEF WithText
  <2>2. QED
    BY <1>2, <1>10, <2>1 DEF AcceptText
<1>12. x \in Seq(Chunks)
  <2>1. ~(IsText(m) /\ PendingUnits(ctl) >= MaxPendingCtl) /\ PendingUnits(ctl) <= MaxPendingCtl
    BY <1>2 DEF AcceptText, IsFull, StreamInv, WorkerOK
  <2>2. x = ctl.pending \o (IF ctl.needsReset THEN <<T!Mark>> ELSE <<>>) \o TextOf(m)
    BY <1>2, <1>5, <1>6
  <2>3. QED
    BY <1>3, <1>4, <2>1, <2>2, AcceptedText, Zenon
<1>13. c \in CtlStates /\ c.pending = x /\ c.request = q /\ c.needsReset = FALSE
  BY <1>2, <1>3, <1>10, <1>12, Zenon DEF CtlStates
<1>14. in \in Seq(Messages) /\ toCli \in Seq(Orders)
  BY <1>10 DEF StreamInv, WiresOK
<1>15. /\ ctl'.pending = x /\ ctl'.request = q /\ ctl'.needsReset = FALSE
       /\ \/ toCli' = toCli
          \/ \E o \in {Stop, Flow(TRUE), Flow(FALSE)} : toCli' = Append(toCli, o)
  BY <1>11, <1>13, <1>14, FlowControl, Zenon
<1>16. Page' = t
  BY <1>5, <1>7, <1>15 DEF Page
<1>17. RequestsGrow'
  BY <1>1, <1>2, <1>15, OrderUnderWay, Zenon
<1>18. /\ LineOK(Line', Page', ctl'.request, cli.request, ctl'.needsReset, torn')
       /\ PageFits(Page', Len(shown'), ctl'.request, cli.request, ctl'.needsReset, torn')
  BY <1>2, <1>3, <1>9, <1>11, <1>15, <1>16, Zenon
<1>19. QED
  BY <1>1, <1>2, <1>11, <1>15, <1>17, <1>18, CtlStep

\* T!Show, told by the places of the page.
LEMMA ShowByPlace ==
  ASSUME shown \in Seq(Chunks), shown' \in Seq(Chunks), Len(shown) <= Len(shown'),
         \A i \in 1..Len(shown) : shown'[i] = shown[i],
         \A i \in Len(shown) + 1..Len(shown') : May(shown', i, ctl.request, torn),
         ctl'.request = ctl.request, torn' = torn
  PROVE  T!Show
<1>1. PICK a, t : a = shown /\ t = shown'
  OBVIOUS
<1>2. T!IsPrefix(a, t)
  <2>1. a \in Seq(Chunks) /\ t \in Seq(Chunks) /\ Len(a) <= Len(t) /\ \A i \in 1..Len(a) : t[i] = a[i]
    BY <1>1
  <2>2. SubSeq(t, 1, Len(a)) \in Seq(Chunks) /\ Len(SubSeq(t, 1, Len(a))) = Len(a)
    BY <2>1
  <2>3. \A i \in 1..Len(a) : SubSeq(t, 1, Len(a))[i] = a[i]
    BY <2>1
  <2>4. SubSeq(t, 1, Len(a)) = a
    BY <2>1, <2>2, <2>3, SeqEqual
  <2>5. SubSeq(a, 1, Len(a)) = a
    BY <2>1
  <2>6. QED
    BY <2>1, <2>4, <2>5 DEF T!IsPrefix
<1>3. \A i \in Len(a) + 1..Len(t) : T!Allowed(t, i)
  BY <1>1, MayIsAllowed
<1>4. \A i \in Len(shown) + 1..Len(shown') : T!Allowed(shown', i)
  BY <1>1, <1>3
<1>5. T!IsPrefix(shown, shown')
  BY <1>1, <1>2
<1>6. ctl'.request = ctl.request /\ torn' = torn
  OBVIOUS
<1>7. QED
  BY <1>4, <1>5, <1>6 DEF T!Show

LEMMA EndTranscript ==
  ASSUME StreamInv, TranscriptOK, batch # <<>>, batch' = Tail(batch), ProcessEnd(Head(batch)),
         UNCHANGED <<win, ingress, toCtl, cli, flickers>>
  PROVE  TranscriptOK' /\ T!Show
<1>1. UNCHANGED <<win, ingress, toCtl, cli>>
  OBVIOUS
<1>2. PICK m, s, p, q, r, gap, u, k :
        /\ m = Head(batch) /\ s = Line /\ p = Page /\ q = ctl.request /\ r = cli.request
        /\ gap = ctl.needsReset /\ u = torn /\ k = Len(shown)
  BY Zenon
<1>3. /\ s \in Seq(Messages) /\ s # <<>> /\ s[1] = m /\ Line' = Tail(s) /\ m \in Messages
      /\ LineOK(s, p, q, r, gap, u) /\ PageFits(p, k, q, r, gap, u) /\ ctl \in CtlStates
      /\ p \in Seq(Chunks) /\ q \in Requests /\ r \in Nat /\ gap \in BOOLEAN /\ k \in Nat
      /\ ctl.pending \in Seq(Chunks) /\ shown \in Seq(Chunks) /\ p = shown \o ctl.pending
  <2>1. /\ s \in Seq(Messages) /\ s # <<>> /\ s[1] = m /\ Line' = Tail(s) /\ m \in Messages
        /\ LineOK(s, p, q, r, gap, u) /\ PageFits(p, k, q, r, gap, u) /\ ctl \in CtlStates
    BY <1>1, <1>2, MessageFinds
  <2>2. p \in Seq(Chunks) /\ shown \in Seq(Chunks)
    BY <1>2, LineTypes DEF StreamInv, HistoryOK
  <2>3. r \in Nat /\ k \in Nat
    BY <1>2, <2>2, LineTypes
  <2>4. q \in Requests /\ gap \in BOOLEAN /\ ctl.pending \in Seq(Chunks)
    BY <1>2, <2>1 DEF CtlStates
  <2>5. p = shown \o ctl.pending
    BY <1>2 DEF Page
  <2>6. QED
    BY <2>1, <2>2, <2>3, <2>4, <2>5, Zenon
<1>4. PICK t : t = EndOn(p, gap, q)
  OBVIOUS
<1>5. /\ m.type = "ended" /\ m.of = q /\ torn' = u
      /\ ctl' = [ctl EXCEPT !.pending = <<>>, !.needsReset = FALSE,
                            !.inFlight = 0, !.flowPaused = FALSE]
      /\ toCli' = toCli \/ toCli' = Append(toCli, Flow(TRUE))
  BY <1>2, Zenon DEF ProcessEnd
<1>6. shown' = t
  BY <1>2, <1>3, <1>4, <1>5, Zenon DEF ProcessEnd, EndOn
<1>7. /\ t \in Seq(Chunks) /\ Len(p) <= Len(t) /\ \A i \in 1..Len(p) : t[i] = p[i]
      /\ LineOK(Tail(s), t, q, r, FALSE, u) /\ PageFits(t, k, q, r, FALSE, u)
  <2>1. s[1].type = "ended" /\ s[1].of = q
    BY <1>3, <1>5
  <2>2. QED
    <3>1. s \in Seq(Messages) /\ p \in Seq(Chunks) /\ k \in Nat /\ q \in Requests /\ r \in Nat
      BY <1>3, Zenon
    <3>2. gap \in BOOLEAN
      BY <1>3, Zenon
    <3>3. LineOK(s, p, q, r, gap, u) /\ PageFits(p, k, q, r, gap, u) /\ s # <<>>
      BY <1>3, Zenon
    <3>4. QED
      <4>1. EndsWith(t, p, gap, q)
        BY <1>4, <3>1, <3>2, Zenon DEF EndsWith
      <4>2. s[1] = m /\ m.type = "ended" /\ m.of = q
        BY <1>3, <1>5
      <4>3. QED
        <5>1. t \in Seq(Chunks) /\ Len(p) <= Len(t) /\ \A i \in 1..Len(p) : t[i] = p[i]
          BY <3>1, <4>1, EndGrows
        <5>2. LineOK(Tail(s), t, q, r, FALSE, u) /\ PageFits(t, k, q, r, FALSE, u)
          BY <3>1, <3>3, <4>1, <4>2, <5>1, EndMoves, Zenon
        <5>3. QED
          BY <5>1, <5>2, Zenon
<1>8. ctl'.request = q /\ ctl'.pending = <<>> /\ ctl'.needsReset = FALSE
  BY <1>2, <1>3, <1>5 DEF CtlStates
<1>9. Page' = t
  <2>1. t \o <<>> = t
    BY <1>7
  <2>2. QED
    BY <1>6, <1>8, <2>1 DEF Page
<1>10. k <= Len(p) /\ \A i \in 1..k : p[i] = shown[i] /\ i \in 1..Len(p)
  BY <1>2, <1>3
<1>11. k <= Len(t) /\ \A i \in 1..k : t[i] = shown[i]
  <2>1. Len(p) \in Nat /\ Len(t) \in Nat /\ k \in Nat
    <3>1. p \in Seq(Chunks) /\ t \in Seq(Chunks) /\ k \in Nat
      BY <1>3, <1>7, Zenon
    <3>2. QED
      BY <3>1
  <2>2. k <= Len(t)
    BY <1>7, <1>10, <2>1
  <2>3. QED
    BY <1>7, <1>10, <2>2, Zenon
<1>12. PageFits(t, Len(t), q, r, FALSE, u)
  <2>1. \A i \in Len(t) + 1..Len(t) : FALSE
    BY <1>7
  <2>2. QED
    BY <1>7, <2>1, Zenon DEF PageFits
<1>13. RequestsGrow'
  BY <1>1, <1>2, <1>5, <1>8, OrderUnderWay, Zenon
<1>14. /\ LineOK(Line', Page', ctl'.request, cli.request, ctl'.needsReset, torn')
       /\ PageFits(Page', Len(shown'), ctl'.request, cli.request, ctl'.needsReset, torn')
  BY <1>2, <1>3, <1>5, <1>6, <1>7, <1>8, <1>9, <1>12, Zenon
<1>15. TranscriptOK'
  BY <1>1, <1>13, <1>14, CtlStep
<1>16. T!Show
  <2>1. \A i \in k + 1..Len(t) : May(t, i, q, u)
    BY <1>7, Zenon DEF PageFits
  <2>2. QED
    BY <1>2, <1>3, <1>5, <1>6, <1>7, <1>8, <1>11, <2>1, ShowByPlace
<1>17. QED
  BY <1>15, <1>16

LEMMA MessageTranscript ==
  ASSUME StreamInv, TranscriptOK, handleTerminalTextChannelObject
  PROVE  /\ TranscriptOK'
         /\ \/ T!Refuse \/ T!Show
            \/ ctl'.request = ctl.request /\ UNCHANGED <<shown, torn>>
<1>1. /\ batch # <<>> /\ batch' = Tail(batch) /\ UNCHANGED <<win, ingress, toCtl, cli, flickers>>
  BY DEF handleTerminalTextChannelObject
<1>2. CASE ProcessOutput(Head(batch))
  <2>1. /\ Head(batch).type = "output" /\ Head(batch).of = ctl.request /\ shown' = shown
        /\ RefuseBig(Head(batch)) \/ DropFull(Head(batch)) \/ AcceptText(Head(batch))
    BY <1>2 DEF ProcessOutput
  <2>2. QED
    BY <1>1, <2>1, RefuseTranscript, DropTranscript, AcceptTranscript
<1>3. CASE ProcessInfo(Head(batch)) \/ IgnoreStale(Head(batch))
  BY <1>1, <1>3, QuietMessageTranscript
<1>4. CASE ProcessEnd(Head(batch))
  BY <1>1, <1>4, EndTranscript
<1>5. QED
  BY <1>2, <1>3, <1>4 DEF handleTerminalTextChannelObject

\* A START calls a shell of which neither line nor page tells anything yet.
LEMMA StartTranscript ==
  ASSUME StreamInv, TranscriptOK, TryStart \/ RetryInFallback
  PROVE  TranscriptOK' /\ T!Call
<1>1. PICK f \in BOOLEAN : sendTerminalStart(f) /\ WindowAlone
  BY Zenon DEF TryStart, RetryInFallback
<1>2. UNCHANGED <<ingress, batch, shown, torn, toCtl, cli>>
  BY <1>1 DEF WindowAlone
<1>3. PICK q, r, u, s, p, k, o : /\ q = ctl.request /\ r = cli.request /\ u = torn /\ s = Line /\ p = Page
                                 /\ k = Len(shown)
                                 /\ o = Start(win.request + 1, IF f THEN "fallback" ELSE "auto")
  BY Zenon
<1>4. /\ ctl \in CtlStates /\ shown \in Seq(Chunks) /\ toCli \in Seq(Orders) /\ r \in Nat
      /\ q \in Nat /\ k \in Nat /\ s \in Seq(Messages)
  <2>1. ctl \in CtlStates /\ shown \in Seq(Chunks) /\ toCli \in Seq(Orders)
    BY DEF StreamInv, WorkerOK, HistoryOK, WiresOK
  <2>2. r \in Nat /\ s \in Seq(Messages)
    BY <1>3, LineTypes
  <2>3. q \in Nat
    BY <1>3, <2>1, LimitsAreNumbers DEF CtlStates, Requests
  <2>4. QED
    BY <1>3, <2>1, <2>2, <2>3
<1>5. win.request = q /\ r <= q /\ LineOK(s, p, q, r, ctl.needsReset, u)
  BY <1>3 DEF TranscriptOK, RequestsGrow
<1>6. PageFits(p, k, q, r, ctl.needsReset, u)
  BY <1>3, PageMeans DEF TranscriptOK
<1>7. /\ win'.request = q + 1 /\ toCli' = Append(toCli, o) /\ o.type = "start" /\ o.of = q + 1
      /\ ctl' = IF q = 0 THEN [ctl EXCEPT !.request = q + 1]
                ELSE [request |-> q + 1, pending |-> <<>>, needsReset |-> TRUE,
                      inFlight |-> 0, flowPaused |-> FALSE]
  BY <1>1, <1>3, <1>5 DEF sendTerminalStart, beginTerminalStartGeneration, Start
<1>8. /\ ctl'.request = q + 1 /\ shown \o ctl'.pending = shown
      /\ q # 0 => ctl'.needsReset
      /\ q = 0 => shown = <<>>
  <2>1. CASE q = 0
    <3>1. shown \o ctl.pending = <<>>
      BY <1>3, <1>6, <2>1 DEF PageFits, Page
    <3>2. shown = <<>> /\ ctl.pending = <<>>
      <4>1. ctl.pending \in Seq(Chunks)
        BY <1>4 DEF CtlStates
      <4>2. QED
        BY <1>4, <3>1, <4>1
    <3>3. ctl'.request = q + 1 /\ ctl'.pending = ctl.pending
      BY <1>4, <1>7, <2>1 DEF CtlStates
    <3>4. QED
      BY <2>1, <3>2, <3>3
  <2>2. CASE q # 0
    <3>1. ctl'.request = q + 1 /\ ctl'.pending = <<>> /\ ctl'.needsReset = TRUE
      BY <1>7, <2>2
    <3>2. QED
      BY <1>4, <2>2, <3>1
  <2>3. QED
    BY <2>1, <2>2
<1>9. PICK h, gap : h = shown /\ gap = ctl'.needsReset
  BY Zenon
<1>10. Page' = h /\ shown' = h /\ Line' = s
  <2>1. Line' = Line
    BY <1>2, LineNext DEF Line
  <2>2. QED
    BY <1>2, <1>3, <1>8, <1>9, <2>1 DEF Page
<1>11. LineOK(s, h, q + 1, r, gap, u)
  <2>1. \A j \in DOMAIN s : s[j].of # q + 1
    <3>1. SUFFICES ASSUME NEW j \in DOMAIN s, s[j].of = q + 1
                   PROVE  FALSE
      OBVIOUS
    <3>2. s[j].of <= r
      BY <1>5 DEF LineOK
    <3>3. QED
      BY <1>4, <1>5, <3>1, <3>2
  <2>2. Linked(s, h, q + 1, gap, u) /\ IsNew(s, h, q + 1)
    BY <2>1, Zenon DEF Linked, IsNew
  <2>3. QED
    BY <1>5, <2>2, Zenon DEF LineOK
<1>12. PageFits(h, Len(h), q + 1, r, gap, u)
  <2>1. \A i \in DOMAIN h : h[i].of <= r
    <3>1. h \in Seq(Chunks) /\ ctl.pending \in Seq(Chunks) /\ p = h \o ctl.pending
      BY <1>3, <1>4, <1>9 DEF CtlStates, Page
    <3>2. \A i \in DOMAIN h : i \in DOMAIN p /\ p[i] = h[i]
      BY <3>1
    <3>3. QED
      BY <1>6, <3>2 DEF PageFits
  <2>2. gap \/ h = <<>>
    BY <1>8, <1>9
  <2>3. \A i \in Len(h) + 1..Len(h) : FALSE
    <3>1. Len(h) \in Nat
      BY <1>4, <1>9
    <3>2. QED
      BY <3>1
  <2>4. q + 1 # 0
    BY <1>4
  <2>5. QED
    BY <2>1, <2>2, <2>3, <2>4, Zenon DEF PageFits
<1>13. RequestsGrow'
  <2>1. PICK t, N : t = Append(toCli, o) /\ N = Len(toCli)
    BY Zenon
  <2>2. /\ N \in Nat /\ toCli' = t /\ DOMAIN t = 1..N + 1 /\ DOMAIN toCli = 1..N
        /\ t[N + 1] = o /\ \A i \in 1..N : t[i] = toCli[i]
        /\ \A i \in 1..N : \A j \in 1..i - 1 : j \in 1..N
        /\ \A j \in 1..(N + 1) - 1 : j \in 1..N
        /\ \A i \in 1..N + 1 : i \in 1..N \/ i = N + 1
    <3>1. q + 1 \in Requests
      BY <1>1, <1>4, <1>5, LimitsAreNumbers DEF sendTerminalStart, Requests
    <3>2. o \in StartOrders
      BY <1>3, <1>5, <3>1 DEF Start, StartOrders
    <3>3. o \in Orders
      BY <3>2, Zenon DEF Orders
    <3>4. toCli \in Seq(Orders) /\ toCli' = t
      BY <1>4, <1>7, <2>1
    <3>5. /\ N \in Nat /\ DOMAIN t = 1..N + 1 /\ DOMAIN toCli = 1..N
          /\ t[N + 1] = o /\ \A i \in 1..N : t[i] = toCli[i]
      BY <2>1, <3>3, <3>4
    <3>6. /\ \A i \in 1..N : \A j \in 1..i - 1 : j \in 1..N
          /\ \A j \in 1..(N + 1) - 1 : j \in 1..N
          /\ \A i \in 1..N + 1 : i \in 1..N \/ i = N + 1
      BY <3>5
    <3>7. QED
      BY <3>4, <3>5, <3>6
  <2>3. \A i \in 1..N : toCli[i].type = "start" =>
          /\ r < toCli[i].of /\ toCli[i].of <= q
          /\ \A j \in 1..i - 1 : toCli[j].type = "start" => toCli[j].of < toCli[i].of
    BY <1>3, <2>2, Zenon DEF TranscriptOK, RequestsGrow
  <2>4. \A i \in 1..N : toCli[i].type = "start" => toCli[i].of \in Nat
    <3>1. \A i \in 1..N : toCli[i] \in Orders
      BY <1>4, <2>2
    <3>2. \A x \in Orders : x.type = "start" => x.of \in Nat
      BY LimitsAreNumbers DEF Orders, StartOrders, Stop, Flow, Requests
    <3>3. QED
      BY <3>1, <3>2
  <2>9. \A n \in Nat : n <= q => n <= q + 1 /\ n < q + 1
    BY <1>4
  <2>5. ASSUME NEW i \in 1..N + 1, t[i].type = "start"
        PROVE  /\ r < t[i].of /\ t[i].of <= q + 1
               /\ \A j \in 1..i - 1 : t[j].type = "start" => t[j].of < t[i].of
    <3>1. CASE i \in 1..N
      <4>1. t[i] = toCli[i] /\ \A j \in 1..i - 1 : t[j] = toCli[j]
        BY <2>2, <3>1, Zenon
      <4>2. r < t[i].of /\ t[i].of <= q /\ t[i].of \in Nat
        BY <2>3, <2>4, <2>5, <3>1, <4>1, Zenon
      <4>3. \A j \in 1..i - 1 : t[j].type = "start" => t[j].of < t[i].of
        BY <2>3, <2>5, <3>1, <4>1, Zenon
      <4>4. t[i].of <= q + 1
        BY <2>9, <4>2, Zenon
      <4>5. QED
        BY <4>2, <4>3, <4>4
    <3>2. CASE i = N + 1
      <4>1. t[i].of = q + 1
        BY <1>7, <2>2, <3>2
      <4>2. r < q + 1 /\ q + 1 <= q + 1
        BY <1>4, <1>5
      <4>3. \A j \in 1..i - 1 : t[j].type = "start" => t[j].of < q + 1
        <5>1. SUFFICES ASSUME NEW j \in 1..i - 1, t[j].type = "start"
                       PROVE  t[j].of < q + 1
          OBVIOUS
        <5>2. j \in 1..N
          BY <2>2, <3>2, <5>1, Zenon
        <5>3. t[j] = toCli[j]
          BY <2>2, <5>2, Zenon
        <5>4. t[j].of <= q /\ t[j].of \in Nat
          BY <2>3, <2>4, <5>1, <5>2, <5>3, Zenon
        <5>5. QED
          BY <2>9, <5>4, Zenon
      <4>4. QED
        BY <4>1, <4>2, <4>3
    <3>3. QED
      BY <2>2, <3>1, <3>2
  <2>6. r <= q + 1
    BY <1>4, <1>5
  <2>7. win'.request = ctl'.request /\ cli'.request = r /\ ctl'.request = q + 1
    BY <1>2, <1>3, <1>7, <1>8
  <2>8. QED
    BY <2>2, <2>5, <2>6, <2>7, Zenon DEF RequestsGrow
<1>14. /\ LineOK(Line', Page', ctl'.request, cli.request, ctl'.needsReset, torn')
       /\ PageFits(Page', Len(shown'), ctl'.request, cli.request, ctl'.needsReset, torn')
  BY <1>2, <1>3, <1>8, <1>9, <1>10, <1>11, <1>12
<1>15. TranscriptOK'
  BY <1>2, <1>13, <1>14, CtlStep
<1>16. T!Call
  BY <1>2, <1>3, <1>8 DEF T!Call
<1>17. QED
  BY <1>15, <1>16

\* Before the first START nothing is on its way.
LEMMA TranscriptInitial == Init => TranscriptOK /\ T!Init
<1> SUFFICES ASSUME Init
             PROVE  TranscriptOK /\ T!Init
  OBVIOUS
<1>1. /\ win.request = 0 /\ ctl.request = 0 /\ ctl.pending = <<>> /\ shown = <<>> /\ torn = {}
      /\ batch = <<>> /\ ingress = <<>> /\ toCtl = <<>> /\ toCli = <<>>
      /\ cli.request = 0 /\ cli.session = "none" /\ cli.emitted = <<>> /\ cli.pending = <<>>
      /\ cli.pendingEnd = 0 /\ cli.needsReset = FALSE
  BY DEF Init
<1>2. Line = <<>>
  <2>1. Behind(cli) = <<>>
    BY <1>1 DEF Behind, MarkedFirst, Rest
  <2>2. QED
    BY <1>1, <2>1 DEF Line
<1>3. Page = <<>>
  BY <1>1 DEF Page
<1>4. \A x : x \notin DOMAIN <<>>
  OBVIOUS
<1>5. RequestsGrow
  <2>1. toCli = <<>> /\ cli.request <= ctl.request /\ win.request = ctl.request
    BY <1>1
  <2>2. QED
    BY <1>4, <2>1, Zenon DEF RequestsGrow
<1>6. ShellTidy(cli)
  <2>1. \A i : i \notin DOMAIN cli.pending /\ i \notin DOMAIN cli.emitted
    BY <1>1, <1>4
  <2>2. QED
    BY <1>1, <2>1, Zenon DEF ShellTidy
<1>7. LineOK(Line, Page, ctl.request, cli.request, ctl.needsReset, torn)
  BY <1>2, <1>4, Zenon DEF LineOK, InTurn, Linked, IsNew
<1>8. PageOK
  <2>1. \A k \in Len(shown) + 1..Len(Page) : FALSE
    BY <1>1, <1>3
  <2>2. QED
    BY <1>3, <1>4, <2>1, Zenon DEF PageOK
<1>9. T!Init
  BY <1>1 DEF T!Init
<1>10. QED
  BY <1>5, <1>6, <1>7, <1>8, <1>9 DEF TranscriptOK

\* The flush of one chunk: it is the first of the page that was not shown.
LEMMA FlushShows ==
  ASSUME StreamInv, TranscriptOK, flushTerminalOutput
  PROVE  T!Show
<1>1. PICK n : n = IF Head(ctl.pending) = T!Mark THEN 0 ELSE 1
  OBVIOUS
<1>2. PICK f : f = ctl.inFlight + n
  OBVIOUS
<1>3. PICK c, in : c = [ctl EXCEPT !.pending = Tail(ctl.pending), !.inFlight = f] /\ in = ingress
  OBVIOUS
<1>4. /\ ctl.pending # <<>> /\ updateTerminalFlowControl(c, in)
      /\ shown' = Append(shown, Head(ctl.pending)) /\ torn' = torn
  <2>1. updateTerminalFlowControl([ctl EXCEPT !.pending = Tail(@), !.inFlight = @ + n], ingress)
    BY <1>1 DEF flushTerminalOutput
  <2>2. [ctl EXCEPT !.pending = Tail(@), !.inFlight = @ + n] = c
    BY <1>2, <1>3
  <2>3. QED
    BY <1>3, <2>1, <2>2 DEF flushTerminalOutput
<1>5. /\ ctl \in CtlStates /\ ctl.inFlight \in Nat /\ ctl.pending \in Seq(Chunks)
      /\ in \in Seq(Messages) /\ shown \in Seq(Chunks) /\ toCli \in Seq(Orders)
  BY <1>3 DEF StreamInv, WorkerOK, CtlStates, WiresOK, HistoryOK
<1>6. f \in Nat /\ Head(ctl.pending) \in Chunks /\ Tail(ctl.pending) \in Seq(Chunks)
  <2>1. f \in Nat
    BY <1>1, <1>2, <1>5
  <2>2. PICK b : b = ctl.pending
    OBVIOUS
  <2>3. b \in Seq(Chunks) /\ b # <<>>
    BY <1>4, <1>5, <2>2
  <2>4. Head(b) \in Chunks /\ Tail(b) \in Seq(Chunks)
    BY <2>3
  <2>5. QED
    BY <2>1, <2>2, <2>4
<1>7. c \in CtlStates /\ c.request = ctl.request
  BY <1>3, <1>5, <1>6, Zenon DEF CtlStates
<1>8. ctl'.request = ctl.request
  BY <1>4, <1>5, <1>7, FlowControl, Zenon
<1>9. PICK a, b, x, s, p : /\ a = shown /\ b = ctl.pending /\ x = Head(ctl.pending)
                           /\ s = Append(a, x) /\ p = a \o b
  BY Zenon
<1>10. /\ a \in Seq(Chunks) /\ b \in Seq(Chunks) /\ b # <<>> /\ x = b[1] /\ x \in Chunks
       /\ shown' = s /\ p = Page
  BY <1>4, <1>5, <1>6, <1>9 DEF Page
<1>11. PICK L \in Nat, M \in Nat : L = Len(a) /\ M = Len(b)
  BY <1>10
<1>12. M > 0
  BY <1>10, <1>11
<1>13. /\ s \in Seq(Chunks) /\ Len(s) = L + 1 /\ s[L + 1] = x
       /\ \A i \in 1..L : s[i] = a[i]
  BY <1>9, <1>10, <1>11
<1>14. Len(p) = L + M /\ p[L + 1] = x /\ \A i \in 1..L : p[i] = a[i]
  <2>1. L + 1 \in 1..L + M /\ L + 1 > L /\ (L + 1) - L = 1
    BY <1>12
  <2>2. a \in Seq(Chunks) /\ b \in Seq(Chunks) /\ p = a \o b /\ L = Len(a) /\ M = Len(b)
    BY <1>9, <1>10, <1>11
  <2>3. Len(p) = L + M /\ \A i \in 1..L : p[i] = a[i]
    BY <2>2
  <2>4. p[L + 1] = b[1]
    BY <2>1, <2>2
  <2>5. QED
    BY <1>10, <2>3, <2>4
<1>15. PageFits(p, L, ctl.request, cli.request, ctl.needsReset, torn)
  BY <1>9, <1>10, <1>11, PageMeans DEF TranscriptOK
<1>16. May(p, L + 1, ctl.request, torn)
  <2>1. L + 1 \in L + 1..L + M
    BY <1>12
  <2>2. QED
    BY <1>14, <1>15, <2>1, Zenon DEF PageFits
<1>17. \A j \in 1..L + 1 : s[j] = p[j]
  <2>1. \A j \in 1..L + 1 : j \in 1..L \/ j = L + 1
    OBVIOUS
  <2>2. QED
    BY <1>13, <1>14, <2>1, Zenon
<1>18. May(s, L + 1, ctl.request, torn)
  <2>1. L + 1 \in Nat /\ L + 1 > 0
    OBVIOUS
  <2>2. QED
    BY <1>16, <1>17, <2>1, MayBefore
<1>19. /\ shown' \in Seq(Chunks) /\ Len(shown) <= Len(shown')
       /\ \A i \in 1..Len(shown) : shown'[i] = shown[i]
  <2>1. L <= L + 1
    OBVIOUS
  <2>2. QED
    BY <1>9, <1>10, <1>11, <1>13, <2>1
<1>20. \A i \in Len(shown) + 1..Len(shown') : May(shown', i, ctl.request, torn)
  <2>1. \A i \in L + 1..L + 1 : i = L + 1
    OBVIOUS
  <2>2. Len(shown) = L /\ Len(shown') = L + 1 /\ shown' = s
    BY <1>9, <1>10, <1>11, <1>13
  <2>3. QED
    BY <1>18, <2>1, <2>2, Zenon
<1>21. QED
  BY <1>4, <1>5, <1>8, <1>19, <1>20, ShowByPlace

\* What keeps the transcript as it is.
LEMMA NothingShown ==
  ASSUME StreamInv,
         \/ GiveUp \/ HearSignal \/ drainFileTextIngress \/ acknowledgeTerminalOutput
         \/ CliNext \/ ShellNext \/ Deliver \/ ConnectionFlickers
  PROVE  UNCHANGED T!transcriptVars
<1>1. /\ ctl \in CtlStates /\ ingress \in Seq(Messages) /\ toCli \in Seq(Orders)
      /\ <<>> \in Seq(Messages)
  BY DEF StreamInv, WorkerOK, WiresOK
<1>2. CASE GiveUp \/ HearSignal \/ CliNext \/ ShellNext \/ Deliver \/ ConnectionFlickers
  <2>1. ctl' = ctl /\ shown' = shown /\ torn' = torn
    <3>1. CASE GiveUp \/ HearSignal \/ Deliver \/ ConnectionFlickers
      BY <3>1 DEF GiveUp, HearSignal, WindowAlone, Deliver, ConnectionFlickers, worker
    <3>2. CASE CliNext
      BY <3>2 DEF CliNext, HearStart, HearStop, HearFlow, HandleSignal, PollTimer, CliAlone, worker
    <3>3. CASE ShellNext
      BY <3>3 DEF ShellNext, ShellWrites, ProcessHoards, ShellExits, onTerminalError, CliAlone, worker
    <3>4. QED
      BY <1>2, <3>1, <3>2, <3>3
  <2>2. QED
    BY <2>1 DEF T!transcriptVars
<1>3. CASE drainFileTextIngress
  <2>1. UNCHANGED <<shown, torn>>
    BY <1>3 DEF drainFileTextIngress
  <2>2. ctl'.request = ctl.request
    <3>1. PICK in \in Seq(Messages) : updateTerminalFlowControl(ctl, in)
      BY <1>3, DrainSplits, Zenon
    <3> QED
      BY <1>1, <3>1, FlowControl, Zenon
  <2>3. QED
    BY <2>1, <2>2 DEF T!transcriptVars
<1>4. CASE acknowledgeTerminalOutput
  <2>1. PICK n : n = IF ctl.inFlight > 0 THEN ctl.inFlight - 1 ELSE 0
    OBVIOUS
  <2>2. PICK c, in : c = [ctl EXCEPT !.inFlight = n] /\ in = ingress
    BY Zenon
  <2>3. updateTerminalFlowControl(c, in) /\ UNCHANGED <<shown, torn>>
    <3>1. updateTerminalFlowControl([ctl EXCEPT !.inFlight = IF @ > 0 THEN @ - 1 ELSE 0], ingress)
      BY <1>4 DEF acknowledgeTerminalOutput
    <3>2. [ctl EXCEPT !.inFlight = IF @ > 0 THEN @ - 1 ELSE 0] = c
      BY <2>1, <2>2
    <3>3. QED
      BY <1>4, <2>2, <3>1, <3>2 DEF acknowledgeTerminalOutput
  <2>4. n \in Nat
    <3>1. ctl.inFlight \in Nat
      BY <1>1 DEF CtlStates
    <3>2. QED
      BY <2>1, <3>1
  <2>5. c \in CtlStates /\ c.request = ctl.request /\ in \in Seq(Messages)
    BY <1>1, <2>2, <2>4, Zenon DEF CtlStates
  <2>6. ctl'.request = ctl.request
    BY <1>1, <2>3, <2>5, FlowControl, Zenon
  <2>7. QED
    BY <2>3, <2>6 DEF T!transcriptVars
<1>5. QED
  BY <1>2, <1>3, <1>4

LEMMA TranscriptKept == StreamInv /\ TranscriptOK /\ [Next]_vars => TranscriptOK'
<1> SUFFICES ASSUME StreamInv, TranscriptOK, [Next]_vars
             PROVE  TranscriptOK'
  OBVIOUS
<1>1. CASE UNCHANGED vars
  <2>1. /\ win' = win /\ ctl' = ctl /\ ingress' = ingress /\ batch' = batch /\ shown' = shown
        /\ torn' = torn /\ toCli' = toCli /\ toCtl' = toCtl /\ cli' = cli
    BY <1>1 DEF vars, worker, network
  <2>2. PICK x, p : x = Line /\ p = Page
    OBVIOUS
  <2>3. Line' = x /\ Page' = p
    BY <2>1, <2>2, LineNext DEF Line, Page
  <2>4. shown' \in Seq(Chunks) /\ Len(shown) \in Nat
    BY <2>1 DEF StreamInv, HistoryOK
  <2>5. Len(shown) <= Len(shown')
    BY <2>1, <2>4
  <2>6. win'.request = win.request /\ ctl'.request = ctl.request /\ ctl'.needsReset = ctl.needsReset
    BY <2>1
  <2>7. QED
    BY <2>1, <2>2, <2>3, <2>4, <2>5, <2>6, NothingMoves
<1>2. CASE WindowNext
  BY <1>2, StartTranscript, WindowTranscript DEF WindowNext
<1>3. CASE WorkerNext
  BY <1>3, DrainTranscript, MessageTranscript, FlushTranscript, AcknowledgeTranscript DEF WorkerNext
<1>4. QED
  BY <1>1, <1>2, <1>3, DeliverTranscript, CliTranscript DEF Next

\* Every step of the stream is a step of the transcript, or none.
LEMMA TranscriptStep == StreamInv /\ TranscriptOK /\ [Next]_vars => [T!Next]_T!transcriptVars
<1> SUFFICES ASSUME StreamInv, TranscriptOK, [Next]_vars
             PROVE  T!Next \/ UNCHANGED T!transcriptVars
  BY Zenon
<1>1. CASE UNCHANGED vars
  BY <1>1 DEF vars, worker, T!transcriptVars
<1>2. CASE TryStart \/ RetryInFallback
  BY <1>2, StartTranscript, Zenon DEF T!Next
<1>3. CASE handleTerminalTextChannelObject
  <2>1. \/ T!Refuse \/ T!Show
        \/ ctl'.request = ctl.request /\ UNCHANGED <<shown, torn>>
    BY <1>3, MessageTranscript
  <2>2. CASE ctl'.request = ctl.request /\ UNCHANGED <<shown, torn>>
    BY <2>2 DEF T!transcriptVars
  <2>3. QED
    BY <2>1, <2>2, Zenon DEF T!Next
<1>4. CASE flushTerminalOutput
  BY <1>4, FlushShows, Zenon DEF T!Next
<1>5. CASE \/ GiveUp \/ HearSignal \/ drainFileTextIngress \/ acknowledgeTerminalOutput
           \/ CliNext \/ ShellNext \/ Deliver \/ ConnectionFlickers
  BY <1>5, NothingShown
<1>6. QED
  BY <1>1, <1>2, <1>3, <1>4, <1>5, Zenon DEF Next, WindowNext, WorkerNext

\* The screen shows the shell called last, in order, nothing twice, with a mark where
\* text is missing and the end last: across both buffers, the overflow of each, what is
\* on its way, and every START that crosses it.
THEOREM TranscriptImplemented == Spec => ImplementsTranscript
<1>1. Spec => [](StreamInv /\ TranscriptOK)
  BY StreamInitial, StreamKept, TranscriptInitial, TranscriptKept, PTL DEF Spec
<1>2. QED
  BY <1>1, TranscriptInitial, TranscriptStep, PTL DEF Spec, ImplementsTranscript, T!TranscriptSpec
=============================================================================
