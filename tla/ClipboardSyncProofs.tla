-------------------------- MODULE ClipboardSyncProofs --------------------------
(***************************************************************************)
(* The clipboard synchronisation's types, its safety properties and its    *)
(* refinement of ClipboardLanes, for any texts, lengths, limits, faults    *)
(* and number of gestures: no echo, no change forgotten, nothing stranded, *)
(* and texts that come out whole, once and in the order of their queue.    *)
(***************************************************************************)
EXTENDS ClipboardSync, SequenceTheorems, FiniteSetTheorems, WellFoundedInduction, TLAPS

LEMMA TextsDiffer == NoText \notin Texts /\ Torn \notin Texts /\ Torn # NoText
BY ClipboardAssumption

LEMMA LimitsAreNumbers ==
  /\ Chunks \in Nat \ {0} /\ BatchMessages \in Nat \ {0} /\ HighWatermark \in Nat \ {0}
  /\ MaxPending \in Nat \ {0} /\ MaxExpansions \in Nat \ {0}
  /\ MaxFaults \in Nat /\ MaxGestures \in Nat \ {0}
BY ClipboardAssumption

LEMMA TwoSides ==
  ASSUME NEW s \in Sides
  PROVE  /\ Other(s) \in Sides /\ Other(s) # s /\ Other(Other(s)) = s
         /\ \A t \in Sides : t = s \/ t = Other(s)
BY DEF Sides, Other

-----------------------------------------------------------------------------
(***************************************************************************)
(* Sequences and sets of numbers.                                          *)
(***************************************************************************)

LEMMA Beginning ==
  ASSUME NEW S, NEW q \in Seq(S), NEW k \in 0..Len(q)
  PROVE  /\ SubSeq(q, 1, k) \in Seq(S) /\ Len(SubSeq(q, 1, k)) = k
         /\ k = Len(q) => SubSeq(q, 1, k) = q
OBVIOUS

LEMMA Remainder ==
  ASSUME NEW S, NEW q \in Seq(S), NEW k \in Nat
  PROVE  /\ SubSeq(q, k + 1, Len(q)) \in Seq(S)
         /\ Len(SubSeq(q, k + 1, Len(q))) <= Len(q)
         /\ SubSeq(q, k + 1, Len(q)) # <<>> => k < Len(q)
         /\ k <= Len(q) => Len(SubSeq(q, k + 1, Len(q))) = Len(q) - k
OBVIOUS

LEMMA AllButLast ==
  ASSUME NEW S, NEW q \in Seq(S), q # <<>>
  PROVE  Front(q) \in Seq(S) /\ Len(Front(q)) = Len(q) - 1
BY DEF Front

LEMMA Joined ==
  ASSUME NEW S, NEW p \in Seq(S), NEW q \in Seq(S)
  PROVE  p \o q \in Seq(S)
OBVIOUS

LEMMA Wider ==
  ASSUME NEW S, NEW U, S \subseteq U, NEW q \in Seq(S)
  PROVE  q \in Seq(U)
OBVIOUS

Less == {ss \in Nat \X Nat : ss[1] < ss[2]}

\* Every non-empty set of naturals has a least element.
LEMMA LeastElement ==
  ASSUME NEW N \in SUBSET Nat, N # {}
  PROVE  \E x \in N : \A y \in N : x <= y
<1>1. IsWellFoundedOn(Less, Nat)
  BY NatLessThanWellFounded DEF OpToRel, Less
<1>2. PICK x \in N : \A y \in N : ~(<<y, x>> \in Less)
  BY <1>1, WFMin
<1>3. \A y \in N : ~(y < x)
  BY <1>2 DEF Less
<1>4. QED
  BY <1>3

LEMMA MaxBelow ==
  ASSUME NEW n \in Nat, NEW N \in SUBSET (1..n), N # {}
  PROVE  Max(N) \in N
<1> DEFINE D == {d \in Nat : n - d \in N}
<1>1. D \in SUBSET Nat /\ D # {}
  <2>1. PICK i \in N : TRUE
    OBVIOUS
  <2>2. n - i \in Nat /\ n - (n - i) = i
    BY <2>1
  <2>3. n - i \in D
    BY <2>1, <2>2
  <2>4. QED
    BY <2>3
<1>2. PICK d \in D : \A e \in D : d <= e
  BY <1>1, LeastElement
<1>3. n - d \in N
  BY <1>2
<1>4. ASSUME NEW y \in N
      PROVE  n - d >= y
  <2>1. n - y \in Nat /\ n - (n - y) = y
    OBVIOUS
  <2>2. n - y \in D
    BY <2>1
  <2>3. d <= n - y
    BY <1>2, <2>2
  <2>4. QED
    BY <1>2, <2>1, <2>3
<1>5. \E x \in N : \A y \in N : x >= y
  BY <1>3, <1>4
<1>6. QED
  BY <1>5 DEF Max

LEMMA MinOfThree ==
  ASSUME NEW a \in Nat, NEW b \in Nat, NEW c \in Nat
  PROVE  Min({a, b, c}) \in Nat /\ Min({a, b, c}) <= a
<1>1. \E x \in {a, b, c} : \A y \in {a, b, c} : x <= y
  <2>1. CASE a <= b /\ a <= c
    BY <2>1
  <2>2. CASE b <= a /\ b <= c
    BY <2>2
  <2>3. CASE c <= a /\ c <= b
    BY <2>3
  <2>4. QED
    BY <2>1, <2>2, <2>3
<1>2. Min({a, b, c}) \in {a, b, c} /\ \A y \in {a, b, c} : Min({a, b, c}) <= y
  BY <1>1 DEF Min
<1>3. QED
  BY <1>2

-----------------------------------------------------------------------------
(***************************************************************************)
(* The invariant.  What a side sends is of its own making: a text of the   *)
(* controlled side's is none that came from its controller.                *)
(***************************************************************************)

ItemsFrom(s) == {i \in Items : s = "cli" => i.from # "peer"}
ControlFrom(s) == [type : {"inline"}, item : ItemsFrom(s)] \cup {Result, Capabilities, Request}
LongFrom(s) == {i \in ItemsFrom(s) : i.text \in Long}
StepsFrom(s) == [type : {"step"}, item : LongFrom(s), n : 0..Chunks + 1]
SentBy(s) == ControlFrom(s) \cup StepsFrom(s)
Arriving(s) == SentBy(Other(s)) \cup {Open, Closed}

Messages == ControlMessages \cup StepMessages \cup {Open, Closed}

HasOpen(q) == \E n \in DOMAIN q : q[n] = Open

Waits(s) == pending[s] # <<>> => channel # "open" \/ HasOpen(inbox[s]) \/ "refusal" \in faults

Lane(s) ==
    /\ inbox[s] \in Seq(Arriving(s))
    /\ pending[s] \in Seq(ControlFrom(s)) /\ Len(pending[s]) <= MaxPending
    /\ chunks[s] \in Seq(StepsFrom(s))
    /\ chunks[s] # <<>> => scheduled[s]
    /\ scheduled[s] => timers[s] > 0
    /\ Waits(s)

LanesTypes ==
    /\ inbox \in [Sides -> Seq(Messages)]
    /\ pending \in [Sides -> Seq(ControlMessages)]
    /\ chunks \in [Sides -> Seq(StepMessages)]
    /\ scheduled \in [Sides -> BOOLEAN]
    /\ timers \in [Sides -> Nat]

LanesOK == LanesTypes /\ \A s \in Sides : Lane(s)

SessionOK ==
    /\ channel \in {"dialling", "open", "lost"}
    /\ dated \in [Sides -> BOOLEAN]
    /\ asked \subseteq Sides
    /\ faults \subseteq FaultKinds
    /\ issued \in Nat /\ gestures \in 0..MaxGestures

Upto(k) == [n \in 1..k |-> n]

\* What has come of a text is a beginning of it.
PartialOK ==
    /\ partial = [s \in Sides |-> partial[s]]
    /\ \A s \in Sides : \A x \in Ids(s) : \E k \in 0..Chunks : partial[s][x] = Upto(k)

Orders == {Request} \cup [type : {"set"}, text : Texts]

WindowOK ==
    /\ win \in [observed : Texts \cup {NoText}, synced : Texts \cup {NoText},
                dirty : BOOLEAN, noted : BOOLEAN]
    /\ win.observed \notin {win.synced, NoText} => win.dirty
    /\ ChangeRemembered
    /\ requests \in Seq(Orders)
    /\ applies \in Seq(Items)

Monitors == [do : {"monitor"}, live : BOOLEAN]
Reads == [do : {"read"}, explicit : BOOLEAN, live : BOOLEAN]
WriteTasks == [do : {"write"}, item : Items, live : BOOLEAN]
Tasks == Monitors \cup Reads \cup WriteTasks
ReadsDone == [did : {"read"}, explicit : BOOLEAN, saw : Holdings]
WritesDone == [did : {"wrote"}, text : Texts, ok : BOOLEAN]
Completions == ReadsDone \cup WritesDone

DeviceOK ==
    /\ clipboard \in [Sides -> Holdings]
    /\ gui \in Seq(Tasks)
    /\ done \in Seq(Completions)
    /\ expanding \in Seq(Texts \cup {NoText}) /\ Len(expanding) <= MaxExpansions
    /\ cli \in [lastSent : Texts \cup {NoText}, applied : Texts \cup {NoText},
                monitored : BOOLEAN, changed : BOOLEAN, timer : BOOLEAN]
    /\ applied \in Texts \cup {NoText}

\* The worker has noted t down as its controller's text once it has handled the
\* first n - 1 completions.
Marks(c) == c.did = "wrote" /\ c.ok
KnownBy(q, a, n, t) ==
    \/ \E j \in 1..n - 1 : /\ Marks(q[j]) /\ q[j].text = t
                           /\ \A i \in 1..n - 1 : i > j => ~Marks(q[i])
    \/ (\A i \in 1..n - 1 : ~Marks(q[i])) /\ a = t
KnownAt(n, t) == KnownBy(done, cli.applied, n, t)

Unasked(g) == g.do = "read" /\ g.live /\ ~g.explicit
Watching == cli.changed \/ cli.timer \/ \E n \in DOMAIN gui : Unasked(gui[n])

\* Whoever reads the controller's text unasked is going to know it as such.
EchoOK ==
    /\ \A n \in DOMAIN done :
           (done[n].did = "read" /\ ~done[n].explicit /\ done[n].saw.from = "peer")
               => KnownAt(n, done[n].saw.text)
    /\ Watching /\ clipboard["cli"].from = "peer"
           => KnownAt(Len(done) + 1, clipboard["cli"].text)

ClipInv == LanesOK /\ SessionOK /\ PartialOK /\ WindowOK /\ DeviceOK /\ EchoOK

LEMMA SentIsMessage ==
  ASSUME NEW s
  PROVE  /\ ItemsFrom(s) \subseteq Items
         /\ ControlFrom(s) \subseteq ControlMessages /\ StepsFrom(s) \subseteq StepMessages
         /\ SentBy(s) \subseteq Messages /\ Arriving(s) \subseteq Messages
<1>1. ItemsFrom(s) \subseteq Items
  BY DEF ItemsFrom
<1>2. ControlFrom(s) \subseteq ControlMessages
  BY <1>1 DEF ControlFrom, ControlMessages
<1>3. StepsFrom(s) \subseteq StepMessages
  BY <1>1 DEF StepsFrom, LongFrom, StepMessages
<1>4. \A t : SentBy(t) \subseteq Messages
  <2>1. \A t : ItemsFrom(t) \subseteq Items
    BY DEF ItemsFrom
  <2>2. \A t : ControlFrom(t) \subseteq ControlMessages
    BY <2>1 DEF ControlFrom, ControlMessages
  <2>3. \A t : StepsFrom(t) \subseteq StepMessages
    BY <2>1 DEF StepsFrom, LongFrom, StepMessages
  <2>4. QED
    BY <2>2, <2>3 DEF SentBy, Messages
<1>5. QED
  BY <1>1, <1>2, <1>3, <1>4 DEF Arriving, Messages

LEMMA ClipInvMeans == ClipInv => TypeOK /\ ClipboardSound
<1> SUFFICES ASSUME ClipInv
             PROVE  TypeOK /\ ClipboardSound
  OBVIOUS
<1> USE DEF ClipInv
<1>1. \A s \in Sides : \A x \in Ids(s) : partial[s][x] \in Seq(1..Chunks)
  <2>1. \A k \in 0..Chunks : Upto(k) \in Seq(1..Chunks)
    BY LimitsAreNumbers DEF Upto
  <2>2. QED
    BY <2>1, Zenon DEF PartialOK
<1>2. \A s \in Sides : Len(pending[s]) <= MaxPending
  BY DEF LanesOK, Lane
<1>3. TypeOK
  BY <1>1, <1>2, Zenon DEF LanesOK, LanesTypes, SessionOK, WindowOK, DeviceOK, TypeOK, Messages,
     Orders, Tasks, Completions, Monitors, Reads, WriteTasks, ReadsDone, WritesDone
<1>4. NoEcho
  <2>1. "cli" \in Sides /\ "ctl" \in Sides /\ Other("cli") = "ctl" /\ Other("ctl") = "cli"
    BY DEF Sides, Other
  <2>2. /\ inbox["ctl"] \in Seq(SentBy("cli") \cup {Open, Closed})
        /\ pending["cli"] \in Seq(ControlFrom("cli")) /\ chunks["cli"] \in Seq(StepsFrom("cli"))
    BY <2>1, Zenon DEF LanesOK, Lane, Arriving
  <2>3. InFlight("cli") \in Seq(SentBy("cli") \cup {Open, Closed})
    <3>1. /\ pending["cli"] \in Seq(SentBy("cli") \cup {Open, Closed})
          /\ chunks["cli"] \in Seq(SentBy("cli") \cup {Open, Closed})
      BY <2>2 DEF SentBy
    <3>2. QED
      BY <2>1, <2>2, <3>1, Joined DEF InFlight
  <2>4. \A m \in Range(InFlight("cli")) : m \in SentBy("cli") \cup {Open, Closed}
    BY <2>3 DEF Range
  <2>5. \A m \in SentBy("cli") \cup {Open, Closed} :
            m.type \in {"inline", "step"} => m.item \in ItemsFrom("cli")
    BY DEF SentBy, ControlFrom, StepsFrom, LongFrom, Open, Closed, Result, Capabilities, Request
  <2>6. \A i \in ItemsFrom("cli") : i.from # "peer"
    BY DEF ItemsFrom
  <2>7. QED
    BY <2>4, <2>5, <2>6, Zenon DEF NoEcho
<1>5. ChangeRemembered
  BY DEF WindowOK
<1>6. NoneStranded
  <2>1. \A q : HasOpen(q) => Open \in Range(q)
    BY DEF HasOpen, Range
  <2>2. QED
    BY <2>1, Zenon DEF LanesOK, Lane, Waits, NoneStranded
<1>7. QED
  BY <1>3, <1>4, <1>5, <1>6 DEF ClipboardSound

-----------------------------------------------------------------------------
(***************************************************************************)
(* The lanes: what each way of sending and of hearing does to them.        *)
(***************************************************************************)

LEMMA ArrivingBack ==
  ASSUME NEW s \in Sides
  PROVE  Arriving(Other(s)) = SentBy(s) \cup {Open, Closed}
BY TwoSides DEF Arriving

LEMMA OpenStays ==
  ASSUME NEW S, NEW p \in Seq(S), NEW q \in Seq(S), HasOpen(p)
  PROVE  HasOpen(p \o q)
<1>1. PICK n \in DOMAIN p : p[n] = Open
  BY DEF HasOpen
<1>2. n \in DOMAIN (p \o q) /\ (p \o q)[n] = Open
  BY <1>1
<1>3. QED
  BY <1>2 DEF HasOpen

LEMMA OpenBehind ==
  ASSUME NEW S, NEW q \in Seq(S), q # <<>>, Head(q) # Open, HasOpen(q)
  PROVE  HasOpen(Tail(q))
<1>1. PICK n \in DOMAIN q : q[n] = Open
  BY DEF HasOpen
<1>2. n # 1
  BY <1>1
<1>3. n - 1 \in DOMAIN Tail(q) /\ Tail(q)[n - 1] = q[n]
  BY <1>2
<1>4. QED
  BY <1>1, <1>3 DEF HasOpen

LEMMA ArrivingTail ==
  ASSUME NEW S, NEW q \in Seq(S), q # <<>>
  PROVE  Head(q) \in S /\ Tail(q) \in Seq(S)
OBVIOUS

\* A step that leaves the lanes alone.
LEMMA LanesStill ==
  ASSUME LanesOK, UNCHANGED <<channel, inbox, pending, chunks, scheduled, timers>>,
         faults \subseteq faults'
  PROVE  LanesOK'
<1>1. LanesTypes'
  BY DEF LanesOK, LanesTypes
<1>2. ASSUME NEW s \in Sides
      PROVE  Lane(s)'
  <2>1. Lane(s)
    BY DEF LanesOK
  <2>2. Waits(s)'
    BY <2>1 DEF Lane, Waits
  <2>3. QED
    BY <2>1, <2>2, Zenon DEF Lane
<1>3. QED
  BY <1>1, <1>2 DEF LanesOK

\* A message other than the opening of the channel is heard.
LEMMA LanesHeard ==
  ASSUME LanesOK, NEW s \in Sides, inbox[s] # <<>>, Head(inbox[s]) # Open,
         inbox' = [inbox EXCEPT ![s] = Tail(@)],
         UNCHANGED <<channel, pending, chunks, scheduled, timers>>, faults \subseteq faults'
  PROVE  LanesOK'
<1>1. inbox \in [Sides -> Seq(Messages)]
  BY DEF LanesOK, LanesTypes
<1>2. inbox'[s] = Tail(inbox[s]) /\ \A t \in Sides : t # s => inbox'[t] = inbox[t]
  BY <1>1
<1>3. LanesTypes'
  <2>1. Tail(inbox[s]) \in Seq(Messages)
    BY <1>1
  <2>2. inbox' \in [Sides -> Seq(Messages)]
    BY <1>1, <2>1
  <2>3. QED
    BY <2>2 DEF LanesOK, LanesTypes
<1>4. ASSUME NEW t \in Sides
      PROVE  Lane(t)'
  <2>1. Lane(t)
    BY DEF LanesOK
  <2>2. inbox'[t] \in Seq(Arriving(t))
    BY <1>2, <2>1, ArrivingTail DEF Lane
  <2>3. HasOpen(inbox[t]) => HasOpen(inbox'[t])
    <3>1. CASE t = s
      BY <1>2, <2>1, <3>1, OpenBehind DEF Lane
    <3>2. CASE t # s
      BY <1>2, <3>2
    <3>3. QED
      BY <3>1, <3>2
  <2>4. Waits(t)'
    BY <2>1, <2>3 DEF Lane, Waits
  <2>5. QED
    BY <2>1, <2>2, <2>4, Zenon DEF Lane
<1>5. QED
  BY <1>3, <1>4 DEF LanesOK

\* What sending does to the control queue and to the channel.
LEMMA SendParts ==
  ASSUME LanesOK, SessionOK, NEW s \in Sides, NEW box, NEW m \in ControlFrom(s),
         SendFrom(s, box, m)
  PROVE  \E sent \in Seq(ControlFrom(s)), rest \in Seq(ControlFrom(s)) :
            /\ Len(rest) <= MaxPending
            /\ pending' = [pending EXCEPT ![s] = rest]
            /\ inbox' = [box EXCEPT ![Other(s)] = @ \o sent]
            /\ asked' \subseteq Sides
            /\ faults \subseteq faults' /\ faults' \subseteq FaultKinds
            /\ rest # <<>> => channel # "open" \/ "refusal" \in faults'
<1>1. PICK q : q = Append(pending[s], m)
  OBVIOUS
<1>2. /\ pending[s] \in Seq(ControlFrom(s)) /\ Len(pending[s]) <= MaxPending
  BY DEF LanesOK, Lane
<1>3. q \in Seq(ControlFrom(s)) /\ Len(q) = Len(pending[s]) + 1 /\ Len(q) \in Nat
  BY <1>1, <1>2
<1>4. PICK k \in 0..Len(q) :
        LET left == SubSeq(q, k + 1, Len(q)) IN
        /\ pending' = [pending EXCEPT ![s] = IF Len(left) > MaxPending THEN Front(left) ELSE left]
        /\ asked' = IF Len(left) > MaxPending THEN asked \cup {s} ELSE asked
        /\ inbox' = [box EXCEPT ![Other(s)] = @ \o SubSeq(q, 1, k)]
        /\ Accepts(q, k)
  BY <1>1 DEF SendFrom
<1>5. PICK left : left = SubSeq(q, k + 1, Len(q))
  OBVIOUS
<1>6. left \in Seq(ControlFrom(s)) /\ Len(left) <= Len(q) /\ (left # <<>> => k < Len(q))
  <2>1. k \in Nat
    BY <1>3
  <2>2. QED
    BY <1>3, <1>5, <2>1, Remainder
<1>7. PICK rest : rest = IF Len(left) > MaxPending THEN Front(left) ELSE left
  OBVIOUS
<1>8. rest \in Seq(ControlFrom(s)) /\ Len(rest) <= MaxPending /\ (rest # <<>> => left # <<>>)
  <2>1. MaxPending \in Nat /\ Len(left) \in Nat
    BY <1>6, LimitsAreNumbers
  <2>2. CASE Len(left) > MaxPending
    <3>1. left # <<>>
      BY <2>1, <2>2
    <3>2. QED
      BY <1>2, <1>3, <1>6, <1>7, <2>1, <2>2, <3>1, AllButLast
  <2>3. CASE ~(Len(left) > MaxPending)
    BY <1>6, <1>7, <2>1, <2>3
  <2>4. QED
    BY <2>2, <2>3
<1>9. SubSeq(q, 1, k) \in Seq(ControlFrom(s))
  BY <1>3, Beginning
<1>10. faults \subseteq faults' /\ faults' \subseteq FaultKinds
  BY <1>4 DEF Accepts, Fault, SessionOK
<1>11. k < Len(q) => channel # "open" \/ "refusal" \in faults'
  BY <1>3, <1>4 DEF Accepts, Fault
<1>12. asked' \subseteq Sides
  BY <1>4 DEF SessionOK
<1>13. QED
  BY <1>4, <1>5, <1>6, <1>7, <1>8, <1>9, <1>10, <1>11, <1>12, Zenon

\* A control message is sent, perhaps after one was heard.
LEMMA LanesSend ==
  ASSUME LanesOK, SessionOK, NEW s \in Sides, NEW b \in Seq(Arriving(s)),
         HasOpen(inbox[s]) => HasOpen(b) \/ Head(inbox[s]) = Open,
         NEW m \in ControlFrom(s), SendFrom(s, [inbox EXCEPT ![s] = b], m),
         UNCHANGED <<channel, chunks, scheduled, timers>>
  PROVE  LanesOK' /\ asked' \subseteq Sides /\ faults' \subseteq FaultKinds
<1>1. PICK sent \in Seq(ControlFrom(s)), rest \in Seq(ControlFrom(s)) :
        /\ Len(rest) <= MaxPending
        /\ pending' = [pending EXCEPT ![s] = rest]
        /\ inbox' = [[inbox EXCEPT ![s] = b] EXCEPT ![Other(s)] = @ \o sent]
        /\ asked' \subseteq Sides
        /\ faults \subseteq faults' /\ faults' \subseteq FaultKinds
        /\ rest # <<>> => channel # "open" \/ "refusal" \in faults'
  BY SendParts
<1>2. /\ inbox \in [Sides -> Seq(Messages)] /\ pending \in [Sides -> Seq(ControlMessages)]
      /\ \A t \in Sides : Lane(t)
  BY DEF LanesOK, LanesTypes
<1>3. /\ Other(s) \in Sides /\ Other(s) # s
      /\ \A t \in Sides : t # s => t = Other(s)
  BY TwoSides
<1>4. /\ inbox'[s] = b /\ inbox'[Other(s)] = inbox[Other(s)] \o sent
      /\ pending'[s] = rest /\ pending'[Other(s)] = pending[Other(s)]
  BY <1>1, <1>2, <1>3
<1>5. inbox[Other(s)] \in Seq(SentBy(s) \cup {Open, Closed})
  BY <1>2, <1>3, ArrivingBack DEF Lane
<1>6. sent \in Seq(SentBy(s) \cup {Open, Closed})
  BY <1>1 DEF SentBy
<1>7. inbox'[Other(s)] \in Seq(Arriving(Other(s)))
  BY <1>4, <1>5, <1>6, Joined, ArrivingBack
<1>8. HasOpen(inbox[Other(s)]) => HasOpen(inbox'[Other(s)])
  BY <1>4, <1>5, <1>6, OpenStays
<1>9. LanesTypes'
  <2>1. b \in Seq(Messages) /\ inbox'[Other(s)] \in Seq(Messages) /\ rest \in Seq(ControlMessages)
    BY <1>1, <1>7, SentIsMessage, Wider
  <2>2. inbox' = [[inbox EXCEPT ![s] = b] EXCEPT ![Other(s)] = inbox'[Other(s)]]
    BY <1>1, <1>2, <1>3, <1>4
  <2>3. inbox' \in [Sides -> Seq(Messages)] /\ pending' \in [Sides -> Seq(ControlMessages)]
    BY <1>1, <1>2, <1>3, <2>1, <2>2
  <2>4. QED
    BY <2>3 DEF LanesOK, LanesTypes
<1>10. Lane(s)'
  <2>1. Waits(s)'
    BY <1>1, <1>4 DEF Waits
  <2>2. QED
    BY <1>1, <1>2, <1>4, <2>1, Zenon DEF Lane
<1>11. Lane(Other(s))'
  <2>1. Waits(Other(s))'
    BY <1>1, <1>2, <1>3, <1>4, <1>8 DEF Lane, Waits
  <2>2. QED
    BY <1>2, <1>3, <1>4, <1>7, <2>1, Zenon DEF Lane
<1>12. QED
  BY <1>1, <1>3, <1>9, <1>10, <1>11, Zenon DEF LanesOK
\* A text's steps join the queue of chunks.
LEMMA StepsType ==
  ASSUME NEW s, NEW i \in LongFrom(s)
  PROVE  Steps(i) \in Seq(StepsFrom(s))
<1>1. \A n \in 1..Chunks + 2 : Step(i, n - 1) \in StepsFrom(s)
  <2>1. TAKE n \in 1..Chunks + 2
  <2>2. n - 1 \in 0..Chunks + 1
    BY LimitsAreNumbers
  <2>3. QED
    BY <2>2 DEF Step, StepsFrom
<1>2. Chunks + 2 \in Nat
  BY LimitsAreNumbers
<1>3. QED
  BY <1>1, <1>2 DEF Steps

LEMMA LanesEnqueue ==
  ASSUME LanesOK, NEW s \in Sides, NEW i \in LongFrom(s), EnqueueChunks(s, i),
         UNCHANGED <<channel, inbox, pending, faults>>
  PROVE  LanesOK'
<1>1. Steps(i) \in Seq(StepsFrom(s))
  BY StepsType
<1>2. /\ chunks \in [Sides -> Seq(StepMessages)] /\ scheduled \in [Sides -> BOOLEAN]
      /\ timers \in [Sides -> Nat] /\ \A t \in Sides : Lane(t)
  BY DEF LanesOK, LanesTypes
<1>3. /\ chunks' = [chunks EXCEPT ![s] = @ \o Steps(i)]
      /\ scheduled' = [scheduled EXCEPT ![s] = TRUE]
      /\ timers' = [timers EXCEPT ![s] = IF scheduled[s] THEN @ ELSE @ + 1]
  BY DEF EnqueueChunks, scheduleClipboardChunkSend
<1>4. /\ chunks'[s] = chunks[s] \o Steps(i) /\ scheduled'[s] = TRUE
      /\ timers'[s] = (IF scheduled[s] THEN timers[s] ELSE timers[s] + 1)
      /\ \A t \in Sides : t # s => /\ chunks'[t] = chunks[t] /\ scheduled'[t] = scheduled[t]
                                   /\ timers'[t] = timers[t]
  BY <1>2, <1>3
<1>5. chunks'[s] \in Seq(StepsFrom(s))
  BY <1>1, <1>2, <1>4, Joined DEF Lane
<1>6. timers'[s] \in Nat /\ timers'[s] > 0
  <2>1. timers[s] \in Nat /\ (scheduled[s] => timers[s] > 0)
    BY <1>2 DEF Lane
  <2>2. QED
    BY <1>4, <2>1
<1>7. LanesTypes'
  <2>1. chunks'[s] \in Seq(StepMessages)
    BY <1>5, SentIsMessage, Wider
  <2>2. chunks' = [chunks EXCEPT ![s] = chunks'[s]] /\ timers' = [timers EXCEPT ![s] = timers'[s]]
    BY <1>2, <1>3, <1>4
  <2>3. /\ chunks' \in [Sides -> Seq(StepMessages)] /\ scheduled' \in [Sides -> BOOLEAN]
        /\ timers' \in [Sides -> Nat]
    BY <1>2, <1>3, <1>6, <2>1, <2>2
  <2>4. QED
    BY <2>3 DEF LanesOK, LanesTypes
<1>8. ASSUME NEW t \in Sides
      PROVE  Lane(t)'
  <2>1. Waits(t)'
    BY <1>2 DEF Lane, Waits
  <2>2. CASE t = s
    BY <1>2, <1>4, <1>5, <1>6, <2>1, <2>2, Zenon DEF Lane
  <2>3. CASE t # s
    BY <1>2, <1>4, <2>1, <2>3, Zenon DEF Lane
  <2>4. QED
    BY <2>2, <2>3
<1>9. QED
  BY <1>7, <1>8 DEF LanesOK

\* The queue of chunks goes; single shots under way may go with it.
LEMMA FailedLane ==
  ASSUME LanesOK, NEW s \in Sides, FailChunks(s), timers' \in [Sides -> Nat],
         \A t \in Sides : t # s => timers'[t] = timers[t]
  PROVE  /\ chunks' \in [Sides -> Seq(StepMessages)] /\ scheduled' \in [Sides -> BOOLEAN]
         /\ \A t \in Sides : /\ chunks'[t] \in Seq(StepsFrom(t))
                             /\ chunks'[t] # <<>> => scheduled'[t]
                             /\ scheduled'[t] => timers'[t] > 0
<1>1. /\ chunks \in [Sides -> Seq(StepMessages)] /\ scheduled \in [Sides -> BOOLEAN]
      /\ \A t \in Sides : Lane(t)
  BY DEF LanesOK, LanesTypes
<1>2. chunks' = [chunks EXCEPT ![s] = <<>>] /\ scheduled' = [scheduled EXCEPT ![s] = FALSE]
  BY DEF FailChunks
<1>3. /\ chunks'[s] = <<>> /\ scheduled'[s] = FALSE
      /\ \A t \in Sides : t # s => chunks'[t] = chunks[t] /\ scheduled'[t] = scheduled[t]
  BY <1>1, <1>2
<1>4. chunks' \in [Sides -> Seq(StepMessages)] /\ scheduled' \in [Sides -> BOOLEAN]
  <2>1. <<>> \in Seq(StepMessages)
    OBVIOUS
  <2>2. QED
    BY <1>1, <1>2, <2>1
<1>5. ASSUME NEW t \in Sides
      PROVE  /\ chunks'[t] \in Seq(StepsFrom(t))
             /\ chunks'[t] # <<>> => scheduled'[t]
             /\ scheduled'[t] => timers'[t] > 0
  <2>1. CASE t = s
    <3>1. <<>> \in Seq(StepsFrom(t))
      OBVIOUS
    <3>2. QED
      BY <1>3, <2>1, <3>1
  <2>2. CASE t # s
    BY <1>1, <1>3, <2>2, Zenon DEF Lane
  <2>3. QED
    BY <2>1, <2>2
<1>6. QED
  BY <1>4, <1>5

LEMMA LanesClosed ==
  ASSUME LanesOK, NEW s \in Sides, HearClosed(s)
  PROVE  LanesOK'
<1>1. /\ inbox[s] # <<>> /\ Head(inbox[s]).type = "closed"
      /\ inbox' = [inbox EXCEPT ![s] = Tail(@)] /\ pending' = [pending EXCEPT ![s] = <<>>]
      /\ FailChunks(s) /\ UNCHANGED <<channel, timers, faults>>
  BY DEF HearClosed, Hears, bounds
<1>2. LanesTypes /\ \A t \in Sides : Lane(t)
  BY DEF LanesOK
<1>3. /\ chunks' \in [Sides -> Seq(StepMessages)] /\ scheduled' \in [Sides -> BOOLEAN]
      /\ \A t \in Sides : /\ chunks'[t] \in Seq(StepsFrom(t))
                          /\ chunks'[t] # <<>> => scheduled'[t]
                          /\ scheduled'[t] => timers'[t] > 0
  BY <1>1, <1>2, FailedLane DEF LanesTypes
<1>4. /\ inbox'[s] = Tail(inbox[s]) /\ pending'[s] = <<>>
      /\ \A t \in Sides : t # s => inbox'[t] = inbox[t] /\ pending'[t] = pending[t]
  BY <1>1, <1>2 DEF LanesTypes
<1>5. LanesTypes'
  <2>1. Tail(inbox[s]) \in Seq(Messages) /\ <<>> \in Seq(ControlMessages)
    BY <1>1, <1>2 DEF LanesTypes
  <2>2. inbox' \in [Sides -> Seq(Messages)] /\ pending' \in [Sides -> Seq(ControlMessages)]
    BY <1>1, <1>2, <2>1 DEF LanesTypes
  <2>3. QED
    BY <1>1, <1>2, <1>3, <2>2 DEF LanesTypes
<1>6. Lane(s)'
  <2>1. Tail(inbox[s]) \in Seq(Arriving(s)) /\ <<>> \in Seq(ControlFrom(s))
    BY <1>1, <1>2, ArrivingTail DEF Lane
  <2>2. Len(<<>>) <= MaxPending
    BY LimitsAreNumbers
  <2>3. Waits(s)'
    BY <1>4 DEF Waits
  <2>4. QED
    BY <1>3, <1>4, <2>1, <2>2, <2>3, Zenon DEF Lane
<1>7. ASSUME NEW t \in Sides, t # s
      PROVE  Lane(t)'
  <2>1. Waits(t)'
    BY <1>1, <1>2, <1>4, <1>7 DEF Lane, Waits
  <2>2. QED
    BY <1>2, <1>3, <1>4, <1>7, <2>1, Zenon DEF Lane
<1>8. QED
  BY <1>5, <1>6, <1>7 DEF LanesOK
LEMMA HeadlessType ==
  ASSUME NEW S, NEW q \in Seq(S)
  PROVE  WithoutHead(q) \in Seq(S)
<1> DEFINE O == {n \in DOMAIN q : q[n].item = Head(q).item}
<1>1. O \in SUBSET (1..Len(q)) /\ Len(q) \in Nat
  OBVIOUS
<1>2. IsFiniteSet(1..Len(q))
  BY <1>1, FS_Interval
<1>3. Cardinality(O) \in Nat
  BY <1>1, <1>2, FS_Subset, FS_CardinalityType
<1> HIDE DEF O
<1>4. SubSeq(q, Cardinality(O) + 1, Len(q)) \in Seq(S)
  BY <1>3, Remainder
<1>5. QED
  BY <1>4 DEF WithoutHead, O

LEMMA EndIsLong ==
  ASSUME NEW s, NEW q \in Seq(SentBy(s)), Ends(q) # {}
  PROVE  q[Max(Ends(q))].item.text \in Texts
<1>1. Len(q) \in Nat /\ Ends(q) \in SUBSET (1..Len(q))
  BY DEF Ends
<1>2. PICK n : n = Max(Ends(q))
  OBVIOUS
<1>3. n \in Ends(q)
  BY <1>1, <1>2, MaxBelow
<1>4. q[n] \in SentBy(s) /\ q[n].type = "step"
  BY <1>3 DEF Ends, IsEnd
<1>5. q[n] \in StepsFrom(s)
  BY <1>4 DEF SentBy, ControlFrom, Result, Capabilities, Request
<1>6. QED
  BY <1>2, <1>5 DEF StepsFrom, LongFrom, Texts

\* drainClipboardChunkSendQueue
LEMMA LanesDrained ==
  ASSUME LanesOK, NEW s \in Sides, NEW q \in Seq(StepsFrom(s)), NEW b \in Nat,
         timers[s] > 0, DrainOpen(s, q, b), UNCHANGED channel, faults \subseteq faults'
  PROVE  /\ LanesOK'
         /\ dated' \in [Sides -> BOOLEAN] \/ dated \notin [Sides -> BOOLEAN]
         /\ cli' = cli \/ \E t \in Texts : cli' = [cli EXCEPT !.lastSent = t]
<1> DEFINE n == IF b < HighWatermark THEN Min({Len(q), BatchMessages, HighWatermark - b}) ELSE 0
           first == IF n = 0 THEN <<>> ELSE pending[s]
           all == first \o SubSeq(q, 1, n)
<1>1. n = IF b < HighWatermark THEN Min({Len(q), BatchMessages, HighWatermark - b}) ELSE 0
  OBVIOUS
<1>3. first = IF n = 0 THEN <<>> ELSE pending[s]
  OBVIOUS
<1>4. all = first \o SubSeq(q, 1, n)
  OBVIOUS
<1>5. PICK k \in 0..Len(all) :
        LET left == IF k < Len(first) THEN q ELSE SubSeq(q, k - Len(first) + 1, Len(q))
            sent == SubSeq(all, 1, k)
        IN  /\ Arrive(s, sent)
            /\ pending' = [pending EXCEPT ![s] = IF n = 0 THEN @ ELSE SubSeq(@, k + 1, Len(@))]
            /\ k < Len(all) <=> "refusal" \in faults' \ faults
            /\ chunks' = [chunks EXCEPT ![s] = left]
            /\ dated' = [dated EXCEPT ![s] =
                             left # <<>> /\ (left[1].n > 0 \/ left[1].item = q[1].item)]
            /\ scheduled' = [scheduled EXCEPT ![s] = left # <<>>]
            /\ timers' = [timers EXCEPT ![s] = IF left # <<>> THEN @ ELSE @ - 1]
            /\ cli' = IF s = "cli" /\ Ends(sent) # {}
                      THEN [cli EXCEPT !.lastSent = sent[Max(Ends(sent))].item.text] ELSE cli
  BY Zenon DEF DrainOpen
<1> HIDE DEF n, first, all
<1>2. n \in Nat /\ n <= Len(q)
  <2>1. Len(q) \in Nat /\ BatchMessages \in Nat /\ HighWatermark \in Nat
    BY LimitsAreNumbers
  <2>2. CASE b < HighWatermark
    <3>1. HighWatermark - b \in Nat
      BY <2>1, <2>2
    <3>2. QED
      BY <1>1, <2>1, <2>2, <3>1, MinOfThree
  <2>3. CASE ~(b < HighWatermark)
    BY <1>1, <2>1, <2>3
  <2>4. QED
    BY <2>2, <2>3
<1>6. PICK left : left = IF k < Len(first) THEN q ELSE SubSeq(q, k - Len(first) + 1, Len(q))
  OBVIOUS
<1>7. PICK sent : sent = SubSeq(all, 1, k)
  OBVIOUS
<1>8. /\ inbox' = [inbox EXCEPT ![Other(s)] = @ \o sent]
      /\ pending' = [pending EXCEPT ![s] = IF n = 0 THEN @ ELSE SubSeq(@, k + 1, Len(@))]
      /\ k < Len(all) => "refusal" \in faults'
      /\ chunks' = [chunks EXCEPT ![s] = left]
      /\ dated' = [dated EXCEPT ![s] =
                       left # <<>> /\ (left[1].n > 0 \/ left[1].item = q[1].item)]
      /\ scheduled' = [scheduled EXCEPT ![s] = left # <<>>]
      /\ timers' = [timers EXCEPT ![s] = IF left # <<>> THEN @ ELSE @ - 1]
      /\ cli' = IF s = "cli" /\ Ends(sent) # {}
                THEN [cli EXCEPT !.lastSent = sent[Max(Ends(sent))].item.text] ELSE cli
  BY <1>5, <1>6, <1>7, Zenon DEF Arrive
<1>9. /\ LanesTypes /\ Lane(s) /\ Lane(Other(s)) /\ \A t \in Sides : Lane(t)
      /\ Other(s) \in Sides /\ Other(s) # s /\ \A t \in Sides : t # s => t = Other(s)
  BY TwoSides DEF LanesOK
<1>10. first \in Seq(ControlFrom(s)) /\ SubSeq(q, 1, n) \in Seq(StepsFrom(s))
       /\ Len(SubSeq(q, 1, n)) = n /\ Len(first) \in Nat
  <2>1. n \in 0..Len(q)
    BY <1>2
  <2>2. <<>> \in Seq(ControlFrom(s)) /\ pending[s] \in Seq(ControlFrom(s))
    BY <1>9 DEF Lane
  <2>3. first \in Seq(ControlFrom(s))
    BY <1>3, <2>2
  <2>4. QED
    BY <2>1, <2>3, Beginning
<1>11. all \in Seq(SentBy(s)) /\ Len(all) = Len(first) + n
  <2>1. first \in Seq(SentBy(s)) /\ SubSeq(q, 1, n) \in Seq(SentBy(s))
    BY <1>10, Wider DEF SentBy
  <2>2. all \in Seq(SentBy(s))
    BY <1>4, <2>1, Joined
  <2>3. Len(all) = Len(first) + Len(SubSeq(q, 1, n))
    BY <1>4, <2>1
  <2>4. QED
    BY <1>10, <2>2, <2>3
<1>12. sent \in Seq(SentBy(s))
  BY <1>7, <1>11, Beginning
<1>13. left \in Seq(StepsFrom(s))
  <2>1. CASE k < Len(first)
    BY <1>6, <2>1
  <2>2. CASE ~(k < Len(first))
    <3>1. k - Len(first) \in Nat
      BY <1>10, <1>11, <2>2
    <3>2. QED
      BY <1>6, <2>2, <3>1, Remainder
  <2>3. QED
    BY <2>1, <2>2
<1>14. /\ inbox'[Other(s)] = inbox[Other(s)] \o sent /\ inbox'[s] = inbox[s]
       /\ pending'[s] = (IF n = 0 THEN pending[s] ELSE SubSeq(pending[s], k + 1, Len(pending[s])))
       /\ pending'[Other(s)] = pending[Other(s)]
       /\ chunks'[s] = left /\ chunks'[Other(s)] = chunks[Other(s)]
       /\ scheduled'[s] = (left # <<>>) /\ scheduled'[Other(s)] = scheduled[Other(s)]
       /\ timers'[s] = (IF left # <<>> THEN timers[s] ELSE timers[s] - 1)
       /\ timers'[Other(s)] = timers[Other(s)]
  BY <1>8, <1>9 DEF LanesTypes
<1>15. /\ pending'[s] \in Seq(ControlFrom(s)) /\ Len(pending'[s]) <= MaxPending
       /\ pending'[s] # <<>> => (n = 0 /\ pending'[s] = pending[s]) \/ k < Len(pending[s])
  <2>1. pending[s] \in Seq(ControlFrom(s)) /\ Len(pending[s]) <= MaxPending /\ k \in Nat
    BY <1>9, <1>11 DEF Lane
  <2>2. PICK rest : rest = SubSeq(pending[s], k + 1, Len(pending[s]))
    OBVIOUS
  <2>3. /\ rest \in Seq(ControlFrom(s)) /\ Len(rest) <= Len(pending[s])
        /\ rest # <<>> => k < Len(pending[s])
    BY <2>1, <2>2, Remainder
  <2>4. Len(rest) <= MaxPending
    BY <2>1, <2>3, LimitsAreNumbers
  <2>5. QED
    BY <1>14, <2>1, <2>2, <2>3, <2>4, Zenon
<1>16. timers'[s] \in Nat
  <2>1. timers[s] \in Nat
    BY <1>9 DEF LanesTypes
  <2>2. QED
    BY <1>14, <2>1
<1>17. inbox'[Other(s)] \in Seq(Arriving(Other(s)))
       /\ (HasOpen(inbox[Other(s)]) => HasOpen(inbox'[Other(s)]))
  <2>1. inbox[Other(s)] \in Seq(SentBy(s) \cup {Open, Closed})
    BY <1>9, ArrivingBack DEF Lane
  <2>2. sent \in Seq(SentBy(s) \cup {Open, Closed})
    BY <1>12, Wider
  <2>3. QED
    BY <1>14, <2>1, <2>2, Joined, OpenStays, ArrivingBack
<1>18. LanesTypes'
  <2>1. /\ inbox'[Other(s)] \in Seq(Messages) /\ pending'[s] \in Seq(ControlMessages)
        /\ left \in Seq(StepMessages)
    <3>1. Arriving(Other(s)) \subseteq Messages
      BY SentIsMessage
    <3>2. ControlFrom(s) \subseteq ControlMessages /\ StepsFrom(s) \subseteq StepMessages
      BY SentIsMessage
    <3>3. QED
      BY <1>13, <1>15, <1>17, <3>1, <3>2, Wider
  <2>2. /\ inbox' = [inbox EXCEPT ![Other(s)] = inbox'[Other(s)]]
        /\ pending' = [pending EXCEPT ![s] = pending'[s]]
        /\ timers' = [timers EXCEPT ![s] = timers'[s]]
    BY <1>8, <1>9, <1>14 DEF LanesTypes
  <2>3. (left # <<>>) \in BOOLEAN
    OBVIOUS
  <2>4. inbox' \in [Sides -> Seq(Messages)] /\ pending' \in [Sides -> Seq(ControlMessages)]
    BY <1>9, <2>1, <2>2 DEF LanesTypes
  <2>5. chunks' \in [Sides -> Seq(StepMessages)] /\ timers' \in [Sides -> Nat]
    BY <1>8, <1>9, <1>16, <2>1, <2>2 DEF LanesTypes
  <2>6. scheduled' \in [Sides -> BOOLEAN]
    BY <1>8, <1>9, <2>3 DEF LanesTypes
  <2>7. QED
    BY <2>4, <2>5, <2>6 DEF LanesTypes
<1>19. Lane(s)'
  <2>1. Waits(s)'
    <3>1. CASE n = 0
      BY <1>9, <1>14, <3>1 DEF Lane, Waits
    <3>2. CASE n # 0
      <4>1. first = pending[s]
        BY <1>3, <3>2
      <4>2. k < Len(pending[s]) => k < Len(all)
        BY <1>2, <1>10, <1>11, <4>1
      <4>3. QED
        BY <1>8, <1>15, <3>2, <4>2 DEF Waits
    <3>3. QED
      BY <3>1, <3>2
  <2>2. scheduled'[s] => timers'[s] > 0
    BY <1>14
  <2>3. chunks'[s] \in Seq(StepsFrom(s)) /\ (chunks'[s] # <<>> => scheduled'[s])
    BY <1>13, <1>14
  <2>4. inbox'[s] \in Seq(Arriving(s))
    BY <1>9, <1>14 DEF Lane
  <2>5. QED
    BY <1>15, <2>1, <2>2, <2>3, <2>4, Zenon DEF Lane
<1>20. Lane(Other(s))'
  <2>1. Waits(Other(s))'
    BY <1>9, <1>14, <1>17 DEF Lane, Waits
  <2>2. QED
    BY <1>9, <1>14, <1>17, <2>1, Zenon DEF Lane
<1>21. LanesOK'
  BY <1>9, <1>18, <1>19, <1>20, Zenon DEF LanesOK
<1>22. dated' \in [Sides -> BOOLEAN] \/ dated \notin [Sides -> BOOLEAN]
  <2>1. PICK v : v = (left # <<>> /\ (left[1].n > 0 \/ left[1].item = q[1].item))
    OBVIOUS
  <2>2. v \in BOOLEAN
    BY <2>1
  <2>3. dated' = [dated EXCEPT ![s] = v]
    BY <1>8, <2>1
  <2>4. QED
    BY <2>2, <2>3
<1>23. cli' = cli \/ \E t \in Texts : cli' = [cli EXCEPT !.lastSent = t]
  <2>1. Ends(sent) # {} => sent[Max(Ends(sent))].item.text \in Texts
    BY <1>12, EndIsLong
  <2>2. QED
    BY <1>8, <2>1, Zenon
<1>24. QED
  BY <1>21, <1>22, <1>23

LEMMA TimerKeepsLanes ==
  ASSUME LanesOK, SessionOK, NEW s \in Sides, ChunkTimer(s)
  PROVE  /\ LanesOK' /\ SessionOK'
         /\ cli' = cli \/ \E t \in Texts : cli' = [cli EXCEPT !.lastSent = t]
<1>1. /\ LanesTypes /\ Lane(s) /\ \A t \in Sides : Lane(t)
  BY DEF LanesOK
<1>2. timers[s] > 0 /\ UNCHANGED <<channel, asked, issued, gestures>>
  BY DEF ChunkTimer
<1>3. CASE channel # "open"
  <2>1. /\ FailChunks(s) /\ timers' = [timers EXCEPT ![s] = @ - 1]
        /\ UNCHANGED <<inbox, pending, faults, cli>>
    BY <1>3 DEF ChunkTimer
  <2>2. timers' \in [Sides -> Nat] /\ \A t \in Sides : t # s => timers'[t] = timers[t]
    <3>1. timers[s] \in Nat /\ timers[s] - 1 \in Nat
      BY <1>1, <1>2 DEF LanesTypes
    <3>2. QED
      BY <1>1, <2>1, <3>1 DEF LanesTypes
  <2>3. /\ chunks' \in [Sides -> Seq(StepMessages)] /\ scheduled' \in [Sides -> BOOLEAN]
        /\ \A t \in Sides : /\ chunks'[t] \in Seq(StepsFrom(t))
                            /\ chunks'[t] # <<>> => scheduled'[t]
                            /\ scheduled'[t] => timers'[t] > 0
    BY <2>1, <2>2, FailedLane
  <2>4. LanesTypes'
    BY <1>1, <2>1, <2>2, <2>3 DEF LanesTypes
  <2>5. ASSUME NEW t \in Sides
        PROVE  Lane(t)'
    <3>1. Waits(t)'
      BY <1>1, <1>2, <2>1 DEF Lane, Waits
    <3>2. QED
      BY <1>1, <2>1, <2>3, <3>1, Zenon DEF Lane
  <2>6. dated' \in [Sides -> BOOLEAN]
    BY <2>1 DEF FailChunks, SessionOK
  <2>7. QED
    BY <1>2, <2>1, <2>4, <2>5, <2>6 DEF LanesOK, SessionOK
<1>4. CASE channel = "open"
  <2>1. PICK b \in 0..Len(inbox[Other(s)]), q \in {chunks[s], WithoutHead(chunks[s])} :
            /\ UNCHANGED faults \/ Fault("refusal") \/ Fault("timeout")
            /\ DrainOpen(s, q, b)
    BY <1>4, Zenon DEF ChunkTimer
  <2>2. b \in Nat /\ q \in Seq(StepsFrom(s))
    <3>1. Other(s) \in Sides
      BY TwoSides
    <3>2. Lane(Other(s)) /\ chunks[s] \in Seq(StepsFrom(s))
      BY <1>1, <3>1 DEF Lane
    <3>3. QED
      BY <2>1, <3>2, HeadlessType DEF Lane
  <2>3. faults \subseteq faults' /\ faults' \subseteq FaultKinds
    BY <2>1 DEF Fault, SessionOK
  <2>4. /\ LanesOK' /\ dated' \in [Sides -> BOOLEAN]
        /\ cli' = cli \/ \E t \in Texts : cli' = [cli EXCEPT !.lastSent = t]
    BY <1>2, <2>1, <2>2, <2>3, LanesDrained DEF SessionOK
  <2>5. QED
    BY <1>2, <2>3, <2>4 DEF SessionOK
<1>5. QED
  BY <1>3, <1>4
\* What is still heard of a channel that is lost.
LEMMA CutOffType ==
  ASSUME NEW S, NEW q \in Seq(S), Closed \in S, NEW n \in 0..Len(q)
  PROVE  LET m == Append(SubSeq(q, 1, n), Closed)
         IN  m \in Seq(S) /\ m # <<>> /\ Front(m) \in Seq(S)
<1> DEFINE m == Append(SubSeq(q, 1, n), Closed)
<1>1. SubSeq(q, 1, n) \in Seq(S)
  BY Beginning
<1>2. m \in Seq(S) /\ m # <<>>
  <2>1. \A p \in Seq(S) : Append(p, Closed) \in Seq(S) /\ Len(Append(p, Closed)) = Len(p) + 1
    OBVIOUS
  <2>2. Len(SubSeq(q, 1, n)) \in Nat /\ Len(<<>>) = 0
    BY <1>1
  <2>3. m \in Seq(S) /\ Len(m) # Len(<<>>)
    BY <1>1, <2>1, <2>2
  <2>4. QED
    BY <2>3
<1> HIDE DEF m
<1>3. Front(m) \in Seq(S)
  BY <1>2, AllButLast
<1>4. QED
  BY <1>2, <1>3 DEF m

LEMMA CutOffIsHeard ==
  ASSUME LanesOK, NEW s \in Sides, NEW m \in CutOff(s)
  PROVE  m \in Seq(Arriving(s)) /\ Front(m) \in Seq(Arriving(s))
<1>1. PICK n \in 0..Len(inbox[s]) : m = Append(SubSeq(inbox[s], 1, n), Closed)
  BY DEF CutOff
<1>2. inbox[s] \in Seq(Arriving(s)) /\ Closed \in Arriving(s)
  BY DEF LanesOK, Lane, Arriving
<1>3. QED
  BY <1>1, <1>2, CutOffType

LEMMA BothSides ==
  /\ "ctl" \in Sides /\ "cli" \in Sides /\ Sides = {"ctl", "cli"} /\ "ctl" # "cli"
  /\ Other("ctl") = "cli" /\ Other("cli") = "ctl"
BY DEF Sides, Other

\* The channel is lost or replaced by one that is not open yet.
LEMMA LanesLose ==
  ASSUME LanesOK, SessionOK, Lose
  PROVE  LanesOK' /\ SessionOK'
<1>1. PICK m \in CutOff("ctl"), n \in CutOff("cli") :
        inbox' = [s \in Sides |-> IF s = "ctl" THEN m ELSE n]
  BY DEF Lose
<1>2. /\ channel' = "lost" /\ asked' = asked \ {"cli"} /\ faults' \subseteq FaultKinds
      /\ UNCHANGED <<pending, chunks, scheduled, timers, dated, issued, gestures>>
  BY DEF Lose, Fault, SessionOK
<1>3. m \in Seq(Arriving("ctl")) /\ n \in Seq(Arriving("cli"))
  BY BothSides, CutOffIsHeard
<1>4. ASSUME NEW t \in Sides
      PROVE  inbox'[t] \in Seq(Arriving(t)) /\ inbox'[t] \in Seq(Messages)
  <2>1. inbox'[t] \in Seq(Arriving(t))
    BY <1>1, <1>3, BothSides
  <2>2. QED
    BY <2>1, SentIsMessage, Wider
<1>5. LanesTypes'
  <2>1. inbox' \in [Sides -> Seq(Messages)]
    BY <1>1, <1>4
  <2>2. QED
    BY <1>2, <2>1 DEF LanesOK, LanesTypes
<1>6. ASSUME NEW t \in Sides
      PROVE  Lane(t)'
  <2>1. Lane(t)
    BY DEF LanesOK
  <2>2. Waits(t)'
    BY <1>2 DEF Waits
  <2>3. QED
    BY <1>2, <1>4, <2>1, <2>2, Zenon DEF Lane
<1>7. SessionOK'
  BY <1>2 DEF SessionOK
<1>8. QED
  BY <1>5, <1>6, <1>7 DEF LanesOK

LEMMA LanesRedial ==
  ASSUME LanesOK, SessionOK, Redial
  PROVE  LanesOK' /\ SessionOK'
<1>1. /\ channel' = "dialling" /\ asked' = {} /\ faults' \subseteq FaultKinds
      /\ pending' = [pending EXCEPT !["ctl"] = <<>>] /\ FailChunks("ctl")
      /\ UNCHANGED <<timers, issued, gestures>>
  BY DEF Redial, Fault, SessionOK
<1>2. inbox \in [Sides -> Seq(Messages)] /\ pending \in [Sides -> Seq(ControlMessages)]
      /\ timers \in [Sides -> Nat] /\ \A t \in Sides : Lane(t)
  BY DEF LanesOK, LanesTypes
<1>3. DOMAIN inbox' = Sides /\ inbox' = [t \in Sides |-> inbox'[t]]
      /\ \A t \in Sides : inbox'[t] \in Seq(Arriving(t))
  <2>1. CASE channel = "open"
    <3>1. PICK m \in CutOff("ctl"), n \in CutOff("cli") :
            inbox' = [s \in Sides |-> IF s = "ctl" THEN Front(m) ELSE n]
      BY <2>1 DEF Redial
    <3>2. Front(m) \in Seq(Arriving("ctl")) /\ n \in Seq(Arriving("cli"))
      BY BothSides, CutOffIsHeard
    <3>3. QED
      BY <3>1, <3>2, BothSides
  <2>2. CASE channel # "open"
    <3>1. inbox' = inbox
      BY <2>2 DEF Redial
    <3>2. QED
      BY <1>2, <3>1 DEF Lane
  <2>3. QED
    BY <2>1, <2>2
<1>4. /\ chunks' \in [Sides -> Seq(StepMessages)] /\ scheduled' \in [Sides -> BOOLEAN]
      /\ \A t \in Sides : /\ chunks'[t] \in Seq(StepsFrom(t))
                          /\ chunks'[t] # <<>> => scheduled'[t]
                          /\ scheduled'[t] => timers'[t] > 0
  BY <1>1, <1>2, BothSides, FailedLane
<1>5. \A t \in Sides : pending'[t] = IF t = "ctl" THEN <<>> ELSE pending[t]
  BY <1>1, <1>2
<1>6. \A t \in Sides : pending'[t] \in Seq(ControlFrom(t)) /\ Len(pending'[t]) <= MaxPending
  <2>1. TAKE t \in Sides
  <2>2. <<>> \in Seq(ControlFrom(t)) /\ Len(<<>>) <= MaxPending
    BY LimitsAreNumbers
  <2>3. pending[t] \in Seq(ControlFrom(t)) /\ Len(pending[t]) <= MaxPending
    BY <1>2 DEF Lane
  <2>4. QED
    BY <1>5, <2>2, <2>3
<1>7. LanesTypes'
  <2>1. \A t \in Sides : inbox'[t] \in Seq(Messages)
    BY <1>3, SentIsMessage, Wider
  <2>2. inbox' \in [Sides -> Seq(Messages)]
    BY <1>3, <2>1
  <2>3. <<>> \in Seq(ControlMessages)
    OBVIOUS
  <2>4. pending' \in [Sides -> Seq(ControlMessages)]
    BY <1>1, <1>2, <2>3
  <2>5. QED
    BY <1>1, <1>2, <1>4, <2>2, <2>4 DEF LanesTypes
<1>8. ASSUME NEW t \in Sides
      PROVE  Lane(t)'
  <2>1. Waits(t)'
    BY <1>1 DEF Waits
  <2>2. QED
    BY <1>3, <1>4, <1>6, <2>1, Zenon DEF Lane
<1>9. SessionOK'
  <2>1. dated' \in [Sides -> BOOLEAN]
    BY <1>1 DEF FailChunks, SessionOK
  <2>2. QED
    BY <1>1, <2>1 DEF SessionOK
<1>10. QED
  BY <1>7, <1>8, <1>9 DEF LanesOK

LEMMA LanesConnect ==
  ASSUME LanesOK, SessionOK, Connect
  PROVE  LanesOK' /\ SessionOK'
<1>1. /\ channel' = "open" /\ asked' = asked \ {"cli"}
      /\ inbox' = [inbox EXCEPT !["ctl"] = Append(@, Open), !["cli"] = <<Open>>]
      /\ pending' = [pending EXCEPT !["cli"] = <<>>] /\ FailChunks("cli")
      /\ timers' = [timers EXCEPT !["cli"] = 0]
      /\ UNCHANGED <<issued, faults, gestures>>
  BY DEF Connect, bounds
<1>2. inbox \in [Sides -> Seq(Messages)] /\ pending \in [Sides -> Seq(ControlMessages)]
      /\ timers \in [Sides -> Nat] /\ \A t \in Sides : Lane(t)
  BY DEF LanesOK, LanesTypes
<1>3. /\ inbox'["ctl"] = Append(inbox["ctl"], Open) /\ inbox'["cli"] = <<Open>>
      /\ pending'["ctl"] = pending["ctl"] /\ pending'["cli"] = <<>>
  BY <1>1, <1>2, BothSides
<1>4. \A t \in Sides : inbox'[t] \in Seq(Arriving(t)) /\ HasOpen(inbox'[t])
  <2>1. inbox["ctl"] \in Seq(Arriving("ctl")) /\ \A t : Open \in Arriving(t)
    BY <1>2, BothSides DEF Lane, Arriving
  <2>2. inbox'["ctl"] \in Seq(Arriving("ctl")) /\ HasOpen(inbox'["ctl"])
    <3>1. PICK q \in Seq(Arriving("ctl")) : q = inbox["ctl"]
      BY <2>1
    <3>2. /\ Append(q, Open) \in Seq(Arriving("ctl"))
          /\ Len(q) + 1 \in DOMAIN Append(q, Open) /\ Append(q, Open)[Len(q) + 1] = Open
      BY <2>1
    <3>3. QED
      BY <1>3, <3>1, <3>2 DEF HasOpen
  <2>3. inbox'["cli"] \in Seq(Arriving("cli")) /\ HasOpen(inbox'["cli"])
    <3>1. <<Open>> \in Seq(Arriving("cli")) /\ 1 \in DOMAIN <<Open>> /\ <<Open>>[1] = Open
      BY <2>1
    <3>2. QED
      BY <1>3, <3>1 DEF HasOpen
  <2>4. QED
    BY <2>2, <2>3, BothSides
<1>5. timers' \in [Sides -> Nat] /\ \A t \in Sides : t # "cli" => timers'[t] = timers[t]
  BY <1>1, <1>2
<1>6. /\ chunks' \in [Sides -> Seq(StepMessages)] /\ scheduled' \in [Sides -> BOOLEAN]
      /\ \A t \in Sides : /\ chunks'[t] \in Seq(StepsFrom(t))
                          /\ chunks'[t] # <<>> => scheduled'[t]
                          /\ scheduled'[t] => timers'[t] > 0
  BY <1>1, <1>5, BothSides, FailedLane
<1>7. \A t \in Sides : pending'[t] \in Seq(ControlFrom(t)) /\ Len(pending'[t]) <= MaxPending
  <2>1. TAKE t \in Sides
  <2>2. <<>> \in Seq(ControlFrom(t)) /\ Len(<<>>) <= MaxPending
    BY LimitsAreNumbers
  <2>3. pending[t] \in Seq(ControlFrom(t)) /\ Len(pending[t]) <= MaxPending
    BY <1>2 DEF Lane
  <2>4. pending'[t] = pending[t] \/ pending'[t] = <<>>
    BY <1>3, BothSides
  <2>5. QED
    BY <2>2, <2>3, <2>4
<1>8. LanesTypes'
  <2>1. \A t \in Sides : inbox'[t] \in Seq(Messages)
    BY <1>4, SentIsMessage, Wider
  <2>2. inbox' \in [Sides -> Seq(Messages)]
    <3>1. inbox' = [t \in Sides |-> inbox'[t]]
      BY <1>1, <1>2
    <3>2. QED
      BY <2>1, <3>1
  <2>3. <<>> \in Seq(ControlMessages)
    OBVIOUS
  <2>4. pending' \in [Sides -> Seq(ControlMessages)]
    BY <1>1, <1>2, <2>3
  <2>5. QED
    BY <1>5, <1>6, <2>2, <2>4 DEF LanesTypes
<1>9. ASSUME NEW t \in Sides
      PROVE  Lane(t)'
  <2>1. Waits(t)'
    BY <1>4 DEF Waits
  <2>2. QED
    BY <1>4, <1>6, <1>7, <2>1, Zenon DEF Lane
<1>10. SessionOK'
  <2>1. dated' \in [Sides -> BOOLEAN]
    BY <1>1 DEF FailChunks, SessionOK
  <2>2. QED
    BY <1>1, <2>1 DEF SessionOK
<1>11. QED
  BY <1>8, <1>9, <1>10 DEF LanesOK
LEMMA LanesSendNow ==
  ASSUME LanesOK, SessionOK, NEW s \in Sides, NEW m \in ControlFrom(s), Send(s, m),
         UNCHANGED <<channel, chunks, scheduled, timers>>
  PROVE  LanesOK' /\ asked' \subseteq Sides /\ faults' \subseteq FaultKinds
<1>1. inbox \in [Sides -> Seq(Messages)] /\ inbox[s] \in Seq(Arriving(s))
  BY DEF LanesOK, LanesTypes, Lane
<1>2. inbox = [inbox EXCEPT ![s] = inbox[s]]
  BY <1>1
<1>3. SendFrom(s, [inbox EXCEPT ![s] = inbox[s]], m)
  BY <1>2, Zenon DEF Send
<1>4. QED
  BY <1>1, <1>3, LanesSend

\* sendClipboardSetPayload, or the end of sendLocalClipboardSnapshotPayload.
LEMMA TextSent ==
  ASSUME LanesOK, SessionOK, NEW s \in Sides, NEW t \in Texts, NEW f \in Origins,
         s = "cli" => f # "peer", SendText(s, Item(t, f)), UNCHANGED <<channel, gestures>>
  PROVE  LanesOK' /\ SessionOK'
<1>1. PICK i : i = Item(t, f)
  OBVIOUS
<1>2. issued + 1 \in Nat \ {0}
  BY DEF SessionOK
<1>3. i \in ItemsFrom(s) /\ i.id = issued + 1 /\ i.text = t
  BY <1>1, <1>2 DEF Item, ItemsFrom, Items
<1>4. issued' = issued + 1 /\ dated' = dated
  BY <1>1, <1>3 DEF SendText
<1>5. CASE t \in Long
  <2>1. i \in LongFrom(s)
    BY <1>3, <1>5 DEF LongFrom
  <2>2. EnqueueChunks(s, i) /\ UNCHANGED <<inbox, pending, asked, faults>>
    BY <1>1, <1>3, <1>5 DEF SendText
  <2>3. LanesOK'
    BY <2>1, <2>2, LanesEnqueue
  <2>4. QED
    BY <1>2, <1>4, <2>2, <2>3 DEF SessionOK
<1>6. CASE t \notin Long
  <2>1. Send(s, Inline(i)) /\ UNCHANGED <<chunks, scheduled, timers>>
    BY <1>1, <1>3, <1>6 DEF SendText
  <2>2. Inline(i) \in ControlFrom(s)
    BY <1>3 DEF Inline, ControlFrom
  <2>3. LanesOK' /\ asked' \subseteq Sides /\ faults' \subseteq FaultKinds
    BY <2>1, <2>2, LanesSendNow
  <2>4. QED
    BY <1>2, <1>4, <2>3 DEF SessionOK
<1>7. QED
  BY <1>5, <1>6

LEMMA LanesOpened ==
  ASSUME LanesOK, SessionOK, NEW s \in Sides, HearOpen(s)
  PROVE  LanesOK' /\ SessionOK'
<1>1. /\ inbox[s] # <<>> /\ Head(inbox[s]).type = "open"
      /\ SendFrom(s, [inbox EXCEPT ![s] = Tail(@)], Capabilities)
      /\ UNCHANGED <<channel, chunks, scheduled, timers, dated, issued, gestures>>
  BY DEF HearOpen, Hears
<1>2. inbox \in [Sides -> Seq(Messages)] /\ inbox[s] \in Seq(Arriving(s))
  BY DEF LanesOK, LanesTypes, Lane
<1>3. Head(inbox[s]) \in Arriving(s) /\ Tail(inbox[s]) \in Seq(Arriving(s))
  BY <1>1, <1>2, ArrivingTail
<1>4. Head(inbox[s]) = Open
  BY <1>1, <1>3 DEF Arriving, SentBy, ControlFrom, StepsFrom, Open, Closed, Result, Capabilities,
     Request
<1>5. [inbox EXCEPT ![s] = Tail(@)] = [inbox EXCEPT ![s] = Tail(inbox[s])]
  BY <1>2
<1>6. SendFrom(s, [inbox EXCEPT ![s] = Tail(inbox[s])], Capabilities)
  BY <1>1, <1>5, Zenon
<1>7. Capabilities \in ControlFrom(s)
  BY DEF ControlFrom
<1>8. LanesOK' /\ asked' \subseteq Sides /\ faults' \subseteq FaultKinds
  BY <1>1, <1>3, <1>4, <1>6, <1>7, LanesSend
<1>9. QED
  BY <1>1, <1>8 DEF SessionOK

\* A step that only other parts of the state take.
Quiet ==
    /\ UNCHANGED <<channel, inbox, pending, chunks, scheduled, timers, dated, asked, issued>>
    /\ faults \subseteq faults' /\ faults' \subseteq FaultKinds
    /\ gestures' \in 0..MaxGestures

LEMMA QuietKeeps ==
  ASSUME LanesOK, SessionOK, Quiet
  PROVE  LanesOK' /\ SessionOK'
<1>1. LanesOK'
  BY LanesStill DEF Quiet
<1>2. QED
  BY <1>1 DEF Quiet, SessionOK

LEMMA FaultIsOne ==
  ASSUME SessionOK, NEW f, Fault(f)
  PROVE  faults \subseteq faults' /\ faults' \subseteq FaultKinds
BY DEF Fault, SessionOK

LEMMA UsersAreQuiet ==
  ASSUME SessionOK, Users
  PROVE  Quiet
<1>1. gestures \in 0..MaxGestures /\ faults \subseteq FaultKinds
  BY DEF SessionOK
<1>2. Gesture => gestures' \in 0..MaxGestures
  BY <1>1, LimitsAreNumbers DEF Gesture
<1>3. CASE \E s \in Sides, t \in Texts \cup {NoText} : UserCopies(s, t)
  BY <1>1, <1>2, <1>3 DEF UserCopies, Quiet, lanes
<1>4. CASE syncLocalClipboardToRemoteIfNeeded
  BY <1>1, <1>4 DEF syncLocalClipboardToRemoteIfNeeded, Quiet, lanes, bounds
<1>5. CASE PasteShortcut
  BY <1>1, <1>2, <1>5 DEF PasteShortcut, Quiet, lanes
<1>6. CASE CopyShortcut
  BY <1>1, <1>2, <1>6 DEF CopyShortcut, Quiet, lanes
<1>7. QED
  BY <1>3, <1>4, <1>5, <1>6 DEF Users

LEMMA WindowsAreQuiet ==
  ASSUME SessionOK, NEW s \in Sides, WindowThread(s)
  PROVE  Quiet
<1>1. gestures \in 0..MaxGestures /\ faults \subseteq FaultKinds
  BY DEF SessionOK
<1>2. CASE noteLocalClipboardChanged
  BY <1>1, <1>2 DEF noteLocalClipboardChanged, Quiet, lanes, bounds
<1>3. CASE applyLocalClipboardPayload
  <2>1. faults \subseteq faults' /\ faults' \subseteq FaultKinds
    BY <1>1, <1>3, FaultIsOne DEF applyLocalClipboardPayload
  <2>2. QED
    BY <1>1, <1>3, <2>1 DEF applyLocalClipboardPayload, Quiet, lanes
<1>4. CASE ConnectMonitor
  BY <1>1, <1>4 DEF ConnectMonitor, Quiet, lanes, bounds
<1>5. CASE ReadClipboard
  BY <1>1, <1>5 DEF ReadClipboard, Quiet, lanes, bounds
<1>6. CASE WriteClipboard
  <2>1. faults \subseteq faults' /\ faults' \subseteq FaultKinds
    BY <1>1, <1>6, FaultIsOne DEF WriteClipboard
  <2>2. QED
    BY <1>1, <1>6, <2>1 DEF WriteClipboard, Quiet, lanes
<1>7. QED
  BY <1>2, <1>3, <1>4, <1>5, <1>6 DEF WindowThread

\* What is heard besides the opening and the closing of the channel.
LEMMA HearingKeepsLanes ==
  ASSUME LanesOK, SessionOK, NEW s \in Sides, inbox[s] # <<>>, Head(inbox[s]).type # "open",
         inbox' = [inbox EXCEPT ![s] = Tail(@)],
         UNCHANGED <<channel, pending, chunks, scheduled, timers, dated, asked, issued, bounds>>
  PROVE  LanesOK' /\ SessionOK'
<1>1. Head(inbox[s]) # Open
  BY DEF Open
<1>2. UNCHANGED <<faults, gestures>>
  BY DEF bounds
<1>3. LanesOK'
  BY <1>1, <1>2, LanesHeard
<1>4. QED
  BY <1>2, <1>3 DEF SessionOK

LEMMA ReceivingKeepsLanes ==
  ASSUME LanesOK, SessionOK, NEW s \in Sides, Receives(s) \/ (s = "cli" /\ HearRequest)
  PROVE  LanesOK' /\ SessionOK'
<1>1. CASE HearInline(s)
  BY <1>1, HearingKeepsLanes DEF HearInline, Hears
<1>2. CASE HearChunk(s)
  BY <1>2, HearingKeepsLanes DEF HearChunk, Hears, device
<1>3. CASE HearEnd(s)
  BY <1>3, HearingKeepsLanes DEF HearEnd, Hears
<1>4. CASE HearOther(s)
  BY <1>4, HearingKeepsLanes DEF HearOther, Hears, device
<1>5. CASE s = "cli" /\ HearRequest
  BY <1>5, HearingKeepsLanes DEF HearRequest, Hears
<1>6. CASE HearOpen(s)
  BY <1>6, LanesOpened
<1>7. CASE HearClosed(s)
  <2>1. /\ UNCHANGED <<channel, issued, faults, gestures>> /\ asked' = asked \cup {s}
        /\ dated' = [dated EXCEPT ![s] = FALSE]
    BY <1>7 DEF HearClosed, FailChunks, bounds
  <2>2. SessionOK'
    BY <2>1 DEF SessionOK
  <2>3. QED
    BY <1>7, <2>2, LanesClosed
<1>8. QED
  BY <1>1, <1>2, <1>3, <1>4, <1>5, <1>6, <1>7 DEF Receives

LEMMA RequestKeepsLanes ==
  ASSUME LanesOK, SessionOK, requests \in Seq(Orders), HandleRequest
  PROVE  LanesOK' /\ SessionOK'
<1>1. PICK r : r = Head(requests)
  OBVIOUS
<1>2. r \in Orders /\ UNCHANGED <<channel, gestures>>
  BY <1>1 DEF HandleRequest
<1>3. CASE r.type = "set"
  <2>1. r.text \in Texts
    BY <1>2, <1>3 DEF Orders, Request
  <2>2. SendText("ctl", Item(r.text, "user"))
    BY <1>1, <1>3 DEF HandleRequest
  <2>3. "user" \in Origins /\ "ctl" # "cli"
    BY DEF Origins
  <2>4. QED
    BY <1>2, <2>1, <2>2, <2>3, BothSides, TextSent
<1>4. CASE r.type # "set"
  <2>1. Send("ctl", Request) /\ UNCHANGED <<chunks, scheduled, timers, dated, issued>>
    BY <1>1, <1>4 DEF HandleRequest
  <2>2. Request \in ControlFrom("ctl")
    BY DEF ControlFrom
  <2>3. LanesOK' /\ asked' \subseteq Sides /\ faults' \subseteq FaultKinds
    BY <1>2, <2>1, <2>2, BothSides, LanesSendNow
  <2>4. QED
    BY <1>2, <2>1, <2>3 DEF SessionOK
<1>5. QED
  BY <1>3, <1>4
LEMMA CompletionKinds ==
  ASSUME NEW c \in Completions
  PROVE  /\ c.did = "read" => c \in ReadsDone
         /\ c.did = "wrote" => c \in WritesDone
         /\ c.did \in {"read", "wrote"}
BY DEF Completions, ReadsDone, WritesDone

\* A text that came from the controller is not sent back unasked: the worker has
\* noted it down by now.
LEMMA SnapshotIsNews ==
  ASSUME DeviceOK, EchoOK, done # <<>>, Head(done).did = "read", ~Head(done).explicit,
         Head(done).saw.text # cli.applied
  PROVE  Head(done).saw.from # "peer"
<1>1. 1 \in DOMAIN done /\ Head(done) = done[1]
  BY DEF DeviceOK
<1>2. ASSUME done[1].saw.from = "peer"
      PROVE  FALSE
  <2>1. KnownAt(1, done[1].saw.text)
    BY <1>1, <1>2, Zenon DEF EchoOK
  <2>2. 1..1 - 1 = {}
    OBVIOUS
  <2>3. cli.applied = done[1].saw.text
    BY <2>1, <2>2 DEF KnownAt, KnownBy
  <2>4. QED
    BY <1>1, <2>3
<1>3. QED
  BY <1>1, <1>2

LEMMA ControlledKeepsLanes ==
  ASSUME LanesOK, SessionOK, DeviceOK, EchoOK, ControlledWorker
  PROVE  LanesOK' /\ SessionOK'
<1>1. gestures \in 0..MaxGestures /\ faults \subseteq FaultKinds
  BY DEF SessionOK
<1>2. "cli" \in Sides
  BY BothSides
<1>3. CASE scheduleLocalClipboardSnapshot
  <2>1. Quiet
    BY <1>1, <1>3 DEF scheduleLocalClipboardSnapshot, Quiet, lanes, bounds
  <2>2. QED
    BY <2>1, QuietKeeps
<1>4. CASE SnapshotTimer
  <2>1. Quiet
    BY <1>1, <1>4 DEF SnapshotTimer, Quiet, lanes, bounds
  <2>2. QED
    BY <2>1, QuietKeeps
<1>5. CASE StartExpansion
  <2>1. Quiet
    BY <1>1, <1>5 DEF StartExpansion, Quiet, lanes, bounds
  <2>2. QED
    BY <2>1, QuietKeeps
<1>6. CASE FinishApply
  <2>1. /\ Send("cli", Result)
        /\ UNCHANGED <<channel, chunks, scheduled, timers, dated, issued, gestures>>
    BY <1>6 DEF FinishApply
  <2>2. Result \in ControlFrom("cli")
    BY DEF ControlFrom
  <2>3. LanesOK' /\ asked' \subseteq Sides /\ faults' \subseteq FaultKinds
    BY <1>2, <2>1, <2>2, LanesSendNow
  <2>4. QED
    BY <2>1, <2>3 DEF SessionOK
<1>7. CASE SendSnapshot
  <2>1. /\ done # <<>> /\ Head(done).did = "read" /\ ~Head(done).explicit
        /\ UNCHANGED <<channel, gestures>>
    BY <1>7 DEF SendSnapshot
  <2>2. PICK saw : saw = Head(done).saw
    OBVIOUS
  <2>3. saw \in Holdings
    <3>1. Head(done) \in Completions
      BY <2>1 DEF DeviceOK
    <3>2. QED
      BY <2>1, <2>2, <3>1, CompletionKinds DEF ReadsDone
  <2>4. CASE saw.text \in {NoText, cli.lastSent, cli.applied, applied}
    <3>1. Silent
      BY <1>7, <2>2, <2>4 DEF SendSnapshot
    <3>2. Quiet
      BY <1>1, <2>1, <3>1 DEF Silent, Quiet
    <3>3. QED
      BY <3>2, QuietKeeps
  <2>5. CASE saw.text \notin {NoText, cli.lastSent, cli.applied, applied}
    <3>1. SendText("cli", Item(saw.text, saw.from))
      BY <1>7, <2>2, <2>5 DEF SendSnapshot, Answer
    <3>2. saw.from # "peer"
      BY <2>1, <2>2, <2>5, SnapshotIsNews
    <3>3. saw.text \in Texts /\ saw.from \in Origins
      BY <2>3, <2>5 DEF Holdings
    <3>4. QED
      BY <1>2, <2>1, <3>1, <3>2, <3>3, TextSent
  <2>6. QED
    BY <2>4, <2>5
<1>8. CASE FinishExpansion
  <2>1. PICK n \in DOMAIN expanding :
          IF expanding[n] = NoText THEN Silent /\ UNCHANGED cli ELSE Answer(expanding[n], "asked")
    BY <1>8 DEF FinishExpansion
  <2>2. expanding[n] \in Texts \cup {NoText} /\ UNCHANGED <<channel, gestures>>
    BY <1>8 DEF DeviceOK, FinishExpansion
  <2>3. CASE expanding[n] = NoText
    <3>1. Quiet
      BY <1>1, <2>1, <2>2, <2>3 DEF Silent, Quiet
    <3>2. QED
      BY <3>1, QuietKeeps
  <2>4. CASE expanding[n] # NoText
    <3>1. SendText("cli", Item(expanding[n], "asked"))
      BY <2>1, <2>4 DEF Answer
    <3>2. "asked" \in Origins /\ "asked" # "peer" /\ expanding[n] \in Texts
      BY <2>2, <2>4 DEF Origins
    <3>3. QED
      BY <1>2, <2>2, <3>1, <3>2, TextSent
  <2>5. QED
    BY <2>3, <2>4
<1>9. CASE HearRequest
  BY <1>2, <1>9, ReceivingKeepsLanes
<1>10. QED
  BY <1>3, <1>4, <1>5, <1>6, <1>7, <1>8, <1>9 DEF ControlledWorker

LEMMA LanesKept ==
  ASSUME ClipInv, [Next]_vars
  PROVE  LanesOK' /\ SessionOK'
<1>1. LanesOK /\ SessionOK /\ DeviceOK /\ EchoOK /\ requests \in Seq(Orders)
  BY DEF ClipInv, WindowOK
<1>2. gestures \in 0..MaxGestures /\ faults \subseteq FaultKinds
  BY <1>1 DEF SessionOK
<1>3. CASE UNCHANGED vars
  <2>1. Quiet
    BY <1>2, <1>3 DEF vars, Quiet, lanes, bounds
  <2>2. QED
    BY <1>1, <2>1, QuietKeeps
<1>4. CASE Users
  BY <1>1, <1>4, UsersAreQuiet, QuietKeeps
<1>5. ASSUME NEW s \in Sides, Worker(s)
      PROVE  LanesOK' /\ SessionOK'
  <2>1. CASE Receives(s)
    BY <1>1, <2>1, ReceivingKeepsLanes
  <2>2. CASE HandleRequest
    BY <1>1, <2>2, RequestKeepsLanes
  <2>3. CASE ControlledWorker
    BY <1>1, <2>3, ControlledKeepsLanes
  <2>4. QED
    BY <1>5, <2>1, <2>2, <2>3 DEF Worker
<1>6. ASSUME NEW s \in Sides, ChunkTimer(s)
      PROVE  LanesOK' /\ SessionOK'
  BY <1>1, <1>6, TimerKeepsLanes
<1>7. ASSUME NEW s \in Sides, Expire(s)
      PROVE  LanesOK' /\ SessionOK'
  <2>1. faults \subseteq faults' /\ faults' \subseteq FaultKinds
    BY <1>1, <1>7, FaultIsOne DEF Expire
  <2>2. Quiet
    BY <1>2, <1>7, <2>1 DEF Expire, Quiet
  <2>3. QED
    BY <1>1, <2>2, QuietKeeps
<1>8. ASSUME NEW s \in Sides, WindowThread(s)
      PROVE  LanesOK' /\ SessionOK'
  BY <1>1, <1>8, WindowsAreQuiet, QuietKeeps
<1>9. CASE Session
  BY <1>1, <1>9, LanesLose, LanesRedial, LanesConnect DEF Session
<1>10. QED
  BY <1>3, <1>4, <1>5, <1>6, <1>7, <1>8, <1>9 DEF Next

-----------------------------------------------------------------------------
(***************************************************************************)
(* The other parts of the invariant.                                       *)
(***************************************************************************)

LEMMA BeginningGrows ==
  ASSUME NEW k \in 0..Chunks, NEW n \in 0..Chunks, n = Len(Upto(k)) + 1
  PROVE  Append(Upto(k), n) = Upto(n)
<1>1. Len(Upto(k)) = k /\ k \in Nat
  BY LimitsAreNumbers DEF Upto
<1>2. n = k + 1
  BY <1>1
<1>3. Append(Upto(k), k + 1) = Upto(k + 1)
  <2>1. /\ Append(Upto(k), k + 1) \in Seq(Nat) /\ Upto(k + 1) \in Seq(Nat)
        /\ Len(Append(Upto(k), k + 1)) = k + 1 /\ Len(Upto(k + 1)) = k + 1
    BY <1>1 DEF Upto
  <2>2. \A i \in 1..k + 1 : Append(Upto(k), k + 1)[i] = Upto(k + 1)[i]
    BY <1>1 DEF Upto
  <2>3. QED
    BY <2>1, <2>2, SeqEqual
<1>4. QED
  BY <1>2, <1>3

\* What the receiving half keeps of a chunk continues what it has.
LEMMA KeepsBeginnings ==
  ASSUME NEW got, \A x \in DOMAIN got : \E k \in 0..Chunks : got[x] = Upto(k),
         NEW m \in StepMessages, ~IsEnd(m)
  PROVE  \A x \in DOMAIN Keeps(got, m) : \E k \in 0..Chunks : Keeps(got, m)[x] = Upto(k)
<1>1. m.type = "step" /\ m.n \in 0..Chunks
  BY LimitsAreNumbers DEF StepMessages, IsEnd
<1>2. 0 \in 0..Chunks /\ Upto(0) = <<>>
  BY LimitsAreNumbers DEF Upto
<1>3. \A x \in DOMAIN Put(got, m.item.id, <<>>) : \E k \in 0..Chunks :
          Put(got, m.item.id, <<>>)[x] = Upto(k)
  BY <1>2 DEF Put
<1>4. \A x \in DOMAIN Drop(got, m.item.id) : \E k \in 0..Chunks :
          Drop(got, m.item.id)[x] = Upto(k)
  BY DEF Drop
<1>5. ASSUME m.item.id \in DOMAIN got, m.n = Len(got[m.item.id]) + 1
      PROVE  \A x \in DOMAIN Put(got, m.item.id, Append(got[m.item.id], m.n)) :
                \E k \in 0..Chunks : Put(got, m.item.id, Append(got[m.item.id], m.n))[x] = Upto(k)
  <2>1. PICK k \in 0..Chunks : got[m.item.id] = Upto(k)
    BY <1>5
  <2>2. Append(got[m.item.id], m.n) = Upto(m.n)
    BY <1>1, <1>5, <2>1, BeginningGrows
  <2>3. QED
    BY <1>1, <2>2 DEF Put
<1>6. QED
  BY <1>3, <1>4, <1>5 DEF Keeps
\* What is handed over is whole.
LEMMA EndIsWhole ==
  ASSUME PartialOK, LanesOK, NEW s \in Sides, inbox[s] # <<>>, Head(inbox[s]).type = "step",
         Complete(s, Head(inbox[s]).item)
  PROVE  /\ partial[s][Head(inbox[s]).item.id] = Whole
         /\ Head(inbox[s]).item \in Items
<1>1. Head(inbox[s]) \in Messages
  BY DEF LanesOK, LanesTypes
<1>2. PICK i : i = Head(inbox[s]).item
  OBVIOUS
<1>3. i \in Items
  BY <1>1, <1>2 DEF Messages, ControlMessages, StepMessages, Result, Capabilities, Request, Open,
     Closed
<1>4. i.id \in Ids(s) /\ Len(partial[s][i.id]) = Chunks
  BY <1>2 DEF Complete
<1>5. PICK k \in 0..Chunks : partial[s][i.id] = Upto(k)
  BY <1>4 DEF PartialOK
<1>6. Len(Upto(k)) = k
  BY LimitsAreNumbers DEF Upto
<1>7. QED
  BY <1>2, <1>3, <1>4, <1>5, <1>6 DEF Upto, Whole

\* A text goes to the thread that writes the clipboard.
LEMMA TextHandedOver ==
  ASSUME LanesOK, PartialOK, NEW s \in Sides, HearInline(s) \/ HearEnd(s)
  PROVE  \/ \E i \in Items : s = "ctl" /\ applies' = Append(applies, i) /\ gui' = gui
         \/ \E i \in Items : /\ s = "cli" /\ applies' = applies
                             /\ gui' = Append(gui, [do |-> "write", item |-> i, live |-> TRUE])
         \/ UNCHANGED <<applies, gui>>
<1>1. PICK m : m = Head(inbox[s])
  OBVIOUS
<1>2. inbox[s] # <<>> /\ inbox[s] \in Seq(Messages)
  BY DEF HearInline, HearEnd, Hears, LanesOK, LanesTypes
<1>3. m \in Messages
  BY <1>1, <1>2
<1>4. s = "ctl" \/ s = "cli"
  BY DEF Sides
<1>5. ASSUME NEW i \in Items, HandOver(s, i)
      PROVE  \/ s = "ctl" /\ applies' = Append(applies, i) /\ gui' = gui
             \/ /\ s = "cli" /\ applies' = applies
                /\ gui' = Append(gui, [do |-> "write", item |-> i, live |-> TRUE])
  BY <1>4, <1>5 DEF HandOver
<1>6. CASE HearInline(s)
  <2>1. m.type = "inline" /\ HandOver(s, m.item)
    BY <1>1, <1>6 DEF HearInline, Hears
  <2>2. m.item \in Items
    BY <1>3, <2>1 DEF Messages, ControlMessages, StepMessages, Result, Capabilities, Request, Open,
       Closed
  <2>3. QED
    BY <1>5, <2>1, <2>2
<1>7. CASE HearEnd(s)
  <2>1. m.type = "step"
    BY <1>1, <1>7 DEF HearEnd, Hears
  <2>2. CASE Complete(s, m.item)
    <3>1. partial[s][m.item.id] = Whole /\ m.item \in Items
      BY <1>1, <1>2, <2>1, <2>2, EndIsWhole
    <3>2. PICK i : i = m.item
      OBVIOUS
    <3>3. [i EXCEPT !.text = IF partial[s][i.id] = Whole THEN @ ELSE Torn] = i
      BY <3>1, <3>2 DEF Items
    <3>4. HandOver(s, i)
      BY <1>1, <1>7, <2>2, <3>2, <3>3 DEF HearEnd
    <3>5. QED
      BY <1>5, <3>1, <3>2, <3>4
  <2>3. CASE ~Complete(s, m.item)
    BY <1>1, <1>7, <2>3 DEF HearEnd
  <2>4. QED
    BY <2>2, <2>3
<1>8. QED
  BY <1>6, <1>7

LEMMA PartialSet ==
  ASSUME PartialOK, NEW s \in Sides, NEW got,
         \A x \in DOMAIN got : \E k \in 0..Chunks : got[x] = Upto(k),
         partial' = [partial EXCEPT ![s] = got]
  PROVE  PartialOK'
<1>1. partial = [t \in Sides |-> partial[t]]
  BY DEF PartialOK
<1>2. partial' = [t \in Sides |-> IF t = s THEN got ELSE partial[t]]
  BY <1>1
<1>3. partial' = [t \in Sides |-> partial'[t]] /\ partial'[s] = got
      /\ \A t \in Sides : t # s => partial'[t] = partial[t]
  BY <1>2
<1>4. ASSUME NEW t \in Sides, NEW x \in Ids(t)'
      PROVE  \E k \in 0..Chunks : partial'[t][x] = Upto(k)
  <2>1. CASE t = s
    BY <1>3, <1>4, <2>1 DEF Ids
  <2>2. CASE t # s
    BY <1>3, <1>4, <2>2 DEF Ids, PartialOK
  <2>3. QED
    BY <2>1, <2>2
<1>5. QED
  BY <1>3, <1>4 DEF PartialOK

LEMMA PartialDropped ==
  ASSUME PartialOK, NEW s \in Sides, NEW x, partial' = [partial EXCEPT ![s] = Drop(@, x)]
  PROVE  PartialOK'
<1>1. PICK got : got = Drop(partial[s], x)
  OBVIOUS
<1>2. \A y \in DOMAIN got : \E k \in 0..Chunks : got[y] = Upto(k)
  BY <1>1 DEF PartialOK, Ids, Drop
<1>3. partial' = [partial EXCEPT ![s] = got]
  BY <1>1 DEF PartialOK
<1>4. QED
  BY <1>2, <1>3, PartialSet

LEMMA PartialCleared ==
  ASSUME PartialOK, NEW s \in Sides, ClearPartial(s)
  PROVE  PartialOK'
<1>1. \A y \in DOMAIN NoPartial : \E k \in 0..Chunks : NoPartial[y] = Upto(k)
  BY DEF NoPartial
<1>2. QED
  BY <1>1, PartialSet DEF ClearPartial

LEMMA PartialKept ==
  ASSUME ClipInv, [Next]_vars
  PROVE  PartialOK'
<1>1. PartialOK /\ LanesOK
  BY DEF ClipInv
<1>2. ASSUME UNCHANGED partial
      PROVE  PartialOK'
  BY <1>1, <1>2 DEF PartialOK, Ids
<1>3. ASSUME NEW s \in Sides, HearChunk(s)
      PROVE  PartialOK'
  <2>1. /\ inbox[s] # <<>> /\ Head(inbox[s]).type = "step" /\ ~IsEnd(Head(inbox[s]))
        /\ partial' = [partial EXCEPT ![s] = Keeps(@, Head(inbox[s]))]
    BY <1>3 DEF HearChunk, Hears
  <2>2. Head(inbox[s]) \in StepMessages
    <3>1. Head(inbox[s]) \in Messages
      BY <1>1, <2>1 DEF LanesOK, LanesTypes
    <3>2. QED
      BY <2>1, <3>1 DEF Messages, ControlMessages, StepMessages, Result, Capabilities, Request,
         Open, Closed
  <2>3. \A x \in DOMAIN partial[s] : \E k \in 0..Chunks : partial[s][x] = Upto(k)
    BY <1>1 DEF PartialOK, Ids
  <2>4. PICK got : got = Keeps(partial[s], Head(inbox[s]))
    OBVIOUS
  <2>5. \A x \in DOMAIN got : \E k \in 0..Chunks : got[x] = Upto(k)
    BY <2>1, <2>2, <2>3, <2>4, KeepsBeginnings
  <2>6. partial' = [partial EXCEPT ![s] = got]
    BY <1>1, <2>1, <2>4 DEF PartialOK
  <2>7. QED
    BY <1>1, <2>5, <2>6, PartialSet
<1>4. ASSUME NEW s \in Sides, HearEnd(s)
      PROVE  PartialOK'
  <2>1. PICK x : x = Head(inbox[s]).item.id
    OBVIOUS
  <2>2. partial' = [partial EXCEPT ![s] = Drop(@, x)]
    BY <1>4, <2>1 DEF HearEnd
  <2>3. QED
    BY <1>1, <2>2, PartialDropped
<1>5. ASSUME NEW s \in Sides, Expire(s)
      PROVE  PartialOK'
  BY <1>1, <1>5, PartialDropped DEF Expire
<1>6. ASSUME NEW s \in Sides, HearOpen(s) \/ HearClosed(s)
      PROVE  PartialOK'
  BY <1>1, <1>6, PartialCleared DEF HearOpen, HearClosed
<1>7. CASE Session
  <2>1. Lose => UNCHANGED partial
    BY DEF Lose
  <2>2. Redial => ClearPartial("ctl")
    BY DEF Redial
  <2>3. Connect => ClearPartial("cli")
    BY DEF Connect
  <2>4. QED
    BY <1>1, <1>2, <1>7, <2>1, <2>2, <2>3, BothSides, PartialCleared DEF Session
<1>8. CASE Users \/ UNCHANGED vars
  <2>1. UNCHANGED partial
    BY <1>8, Zenon DEF Users, UserCopies, syncLocalClipboardToRemoteIfNeeded, PasteShortcut,
       CopyShortcut, lanes, vars
  <2>2. QED
    BY <1>2, <2>1
<1>9. ASSUME NEW s \in Sides, Worker(s)
      PROVE  PartialOK'
  <2>1. CASE HandleRequest
    BY <1>2, <2>1 DEF HandleRequest
  <2>2. CASE ControlledWorker
    <3>1. UNCHANGED partial
      BY <2>2, Zenon DEF ControlledWorker, HearRequest, scheduleLocalClipboardSnapshot,
         SnapshotTimer, FinishApply, SendSnapshot, StartExpansion, FinishExpansion, lanes
    <3>2. QED
      BY <1>2, <3>1
  <2>3. CASE HearInline(s) \/ HearOther(s)
    BY <1>2, <2>3 DEF HearInline, HearOther
  <2>4. QED
    BY <1>3, <1>4, <1>6, <1>9, <2>1, <2>2, <2>3 DEF Worker, Receives
<1>10. ASSUME NEW s \in Sides, ChunkTimer(s) \/ WindowThread(s)
       PROVE  PartialOK'
  <2>1. UNCHANGED partial
    BY <1>10, Zenon DEF ChunkTimer, WindowThread, noteLocalClipboardChanged,
       applyLocalClipboardPayload, ConnectMonitor, ReadClipboard, WriteClipboard, lanes
  <2>2. QED
    BY <1>2, <2>1
<1>11. QED
  BY <1>5, <1>7, <1>8, <1>9, <1>10 DEF Next
\* The window: a text it has observed and not synced is down as changed, so that
\* what it finds when it looks again is.
LEMMA WindowStill ==
  ASSUME WindowOK, UNCHANGED <<win, requests, applies>>, clipboard'["ctl"] = clipboard["ctl"]
  PROVE  WindowOK'
BY DEF WindowOK, ChangeRemembered, LocalText

LEMMA LocalIsText ==
  ASSUME DeviceOK
  PROVE  LocalText \in Texts \cup {NoText}
BY BothSides DEF DeviceOK, Holdings, LocalText

LEMMA SyncedWindow ==
  ASSUME WindowOK, NEW t \in Texts, NEW b \in BOOLEAN
  PROVE  LET w == [MarkSynced(t) EXCEPT !.noted = b]
         IN  /\ w \in [observed : Texts \cup {NoText}, synced : Texts \cup {NoText},
                       dirty : BOOLEAN, noted : BOOLEAN]
             /\ w.observed = t /\ w.synced = t /\ w.noted = b
BY DEF WindowOK, MarkSynced

LEMMA UsersKeepWindow ==
  ASSUME WindowOK, DeviceOK, Users
  PROVE  WindowOK'
<1>1. /\ win \in [observed : Texts \cup {NoText}, synced : Texts \cup {NoText},
                  dirty : BOOLEAN, noted : BOOLEAN]
      /\ win.observed \notin {win.synced, NoText} => win.dirty
      /\ requests \in Seq(Orders) /\ applies \in Seq(Items)
  BY DEF WindowOK
<1>2. LocalText \in Texts \cup {NoText}
  BY LocalIsText
<1>3. ASSUME NEW s \in Sides, NEW t \in Texts \cup {NoText}, UserCopies(s, t)
      PROVE  WindowOK'
  <2>1. CASE s = "ctl"
    <3>1. win' = [win EXCEPT !.noted = TRUE] /\ UNCHANGED <<requests, applies>>
      BY <1>3, <2>1 DEF UserCopies
    <3>2. QED
      BY <1>1, <3>1 DEF WindowOK, ChangeRemembered
  <2>2. CASE s # "ctl"
    <3>1. UNCHANGED <<win, requests, applies>> /\ clipboard'["ctl"] = clipboard["ctl"]
      BY <1>3, <2>2, BothSides DEF UserCopies, DeviceOK
    <3>2. QED
      BY <3>1, WindowStill
  <2>3. QED
    BY <2>1, <2>2
<1>4. ASSUME LocalText \in Texts, win' = MarkSynced(LocalText),
             requests' = Append(requests, [type |-> "set", text |-> LocalText]),
             UNCHANGED <<applies, clipboard>>
      PROVE  WindowOK'
  <2>1. [type |-> "set", text |-> LocalText] \in Orders
    BY <1>4 DEF Orders
  <2>2. requests' \in Seq(Orders)
    BY <1>1, <1>4, <2>1
  <2>3. LocalText' = LocalText
    BY <1>4 DEF LocalText
  <2>4. /\ win' \in [observed : Texts \cup {NoText}, synced : Texts \cup {NoText},
                     dirty : BOOLEAN, noted : BOOLEAN]
        /\ win'.observed = LocalText /\ win'.synced = LocalText
    BY <1>1, <1>4 DEF MarkSynced
  <2>5. QED
    BY <1>1, <1>4, <2>2, <2>3, <2>4 DEF WindowOK, ChangeRemembered
<1>5. CASE syncLocalClipboardToRemoteIfNeeded
  <2>1. UNCHANGED <<applies, clipboard>>
    BY <1>5 DEF syncLocalClipboardToRemoteIfNeeded
  <2>2. CASE LocalText \in {NoText, win.synced}
    <3>1. win' = [win EXCEPT !.observed = LocalText, !.dirty = FALSE] /\ UNCHANGED requests
      BY <1>5, <2>2 DEF syncLocalClipboardToRemoteIfNeeded
    <3>2. LocalText' = LocalText
      BY <2>1 DEF LocalText
    <3>3. /\ win' \in [observed : Texts \cup {NoText}, synced : Texts \cup {NoText},
                       dirty : BOOLEAN, noted : BOOLEAN]
          /\ win'.observed = LocalText /\ win'.synced = win.synced
      BY <1>1, <1>2, <3>1
    <3>4. QED
      BY <1>1, <2>1, <2>2, <3>1, <3>2, <3>3 DEF WindowOK, ChangeRemembered
  <2>3. CASE LocalText \notin {NoText, win.synced}
    BY <1>2, <1>4, <1>5, <2>1, <2>3 DEF syncLocalClipboardToRemoteIfNeeded
  <2>4. QED
    BY <2>2, <2>3
<1>6. CASE PasteShortcut
  <2>1. CASE LocalText = NoText
    BY <1>6, <2>1, WindowStill DEF PasteShortcut
  <2>2. CASE LocalText # NoText
    BY <1>2, <1>4, <1>6, <2>2 DEF PasteShortcut
  <2>3. QED
    BY <2>1, <2>2
<1>7. CASE CopyShortcut
  <2>1. requests' = Append(requests, Request) /\ UNCHANGED <<win, applies, clipboard>>
    BY <1>7 DEF CopyShortcut
  <2>2. requests' \in Seq(Orders)
    BY <1>1, <2>1 DEF Orders
  <2>3. QED
    BY <2>1, <2>2 DEF WindowOK, ChangeRemembered, LocalText
<1>8. QED
  BY <1>3, <1>5, <1>6, <1>7 DEF Users

LEMMA NoteKeepsWindow ==
  ASSUME WindowOK, DeviceOK, noteLocalClipboardChanged
  PROVE  WindowOK'
<1>1. PICK t \in Texts \cup {NoText} : t = LocalText
  BY LocalIsText
<1>2. /\ win \in [observed : Texts \cup {NoText}, synced : Texts \cup {NoText},
                  dirty : BOOLEAN, noted : BOOLEAN]
      /\ win.observed \notin {win.synced, NoText} => win.dirty
  BY DEF WindowOK
<1>3. /\ win' = [win EXCEPT !.noted = FALSE,
                            !.observed = t,
                            !.synced = IF t = NoText /\ win.observed # NoText THEN NoText ELSE @,
                            !.dirty = IF t = win.observed THEN @ ELSE t \notin {NoText, win.synced}]
      /\ UNCHANGED <<requests, applies, clipboard>>
  BY <1>1 DEF noteLocalClipboardChanged
<1>4. LocalText' = t
  BY <1>1, <1>3 DEF LocalText
<1>5. PICK o, y, d : o = win.observed /\ y = win.synced /\ d = win.dirty
  OBVIOUS
<1>6. o \in Texts \cup {NoText} /\ y \in Texts \cup {NoText} /\ d \in BOOLEAN
      /\ (o \notin {y, NoText} => d)
  BY <1>2, <1>5
<1>7. PICK z : z = IF t = NoText /\ o # NoText THEN NoText ELSE y
  OBVIOUS
<1>8. PICK e : e = IF t = o THEN d ELSE t \notin {NoText, y}
  OBVIOUS
<1>9. z \in Texts \cup {NoText} /\ e \in BOOLEAN /\ (t \notin {z, NoText} => e)
  BY <1>6, <1>7, <1>8
<1>10. win' = [observed |-> t, synced |-> z, dirty |-> e, noted |-> FALSE]
  BY <1>2, <1>3, <1>5, <1>7, <1>8
<1>11. /\ win' \in [observed : Texts \cup {NoText}, synced : Texts \cup {NoText},
                    dirty : BOOLEAN, noted : BOOLEAN]
       /\ win'.observed = t /\ win'.synced = z /\ win'.dirty = e
  BY <1>9, <1>10
<1>12. QED
  BY <1>3, <1>4, <1>9, <1>11 DEF WindowOK, ChangeRemembered

LEMMA ApplyKeepsWindow ==
  ASSUME WindowOK, DeviceOK, applyLocalClipboardPayload
  PROVE  WindowOK'
<1>1. applies # <<>> /\ applies' = Tail(applies) /\ requests' = requests /\ applies \in Seq(Items)
  BY DEF applyLocalClipboardPayload, WindowOK
<1>2. Head(applies) \in Items /\ applies' \in Seq(Items)
  BY <1>1
<1>3. CASE UNCHANGED <<clipboard, win>>
  BY <1>1, <1>2, <1>3 DEF WindowOK, ChangeRemembered, LocalText
<1>4. CASE win' = [MarkSynced(Head(applies).text) EXCEPT !.noted = TRUE]
  <2>1. Head(applies).text \in Texts
    BY <1>2 DEF Items
  <2>2. /\ win' \in [observed : Texts \cup {NoText}, synced : Texts \cup {NoText},
                     dirty : BOOLEAN, noted : BOOLEAN]
        /\ win'.observed = win'.synced /\ win'.noted = TRUE
    <3>1. PICK t \in Texts : t = Head(applies).text
      BY <2>1
    <3>2. win' = [MarkSynced(t) EXCEPT !.noted = TRUE]
      BY <1>4, <3>1
    <3>3. PICK w : w = [MarkSynced(t) EXCEPT !.noted = TRUE]
      OBVIOUS
    <3>4. /\ w \in [observed : Texts \cup {NoText}, synced : Texts \cup {NoText},
                    dirty : BOOLEAN, noted : BOOLEAN]
          /\ w.observed = t /\ w.synced = t /\ w.noted = TRUE
      BY <3>3, SyncedWindow
    <3>5. QED
      BY <3>2, <3>3, <3>4
  <2>3. QED
    BY <1>1, <1>2, <2>2 DEF WindowOK, ChangeRemembered
<1>5. QED
  BY <1>3, <1>4 DEF applyLocalClipboardPayload

LEMMA WindowKept ==
  ASSUME ClipInv, [Next]_vars
  PROVE  WindowOK'
<1>1. WindowOK /\ DeviceOK /\ LanesOK /\ PartialOK
  BY DEF ClipInv
<1>2. ASSUME UNCHANGED <<win, requests, applies, clipboard>>
      PROVE  WindowOK'
  BY <1>1, <1>2, WindowStill
<1>3. CASE UNCHANGED vars
  BY <1>2, <1>3 DEF vars, window
<1>4. CASE Users
  BY <1>1, <1>4, UsersKeepWindow
<1>5. ASSUME NEW s \in Sides, HearInline(s) \/ HearEnd(s)
      PROVE  WindowOK'
  <2>1. UNCHANGED <<win, requests, clipboard>>
    BY <1>5 DEF HearInline, HearEnd
  <2>2. \/ \E i \in Items : applies' = Append(applies, i)
        \/ applies' = applies
    BY <1>1, <1>5, TextHandedOver
  <2>3. applies' \in Seq(Items)
    BY <1>1, <2>2 DEF WindowOK
  <2>4. QED
    BY <1>1, <2>1, <2>3 DEF WindowOK, ChangeRemembered, LocalText
<1>6. ASSUME NEW s \in Sides, Worker(s)
      PROVE  WindowOK'
  <2>1. CASE HearChunk(s) \/ HearOther(s) \/ HearOpen(s) \/ HearClosed(s)
    BY <1>2, <2>1, Zenon DEF HearChunk, HearOther, HearOpen, HearClosed, window
  <2>2. CASE HandleRequest
    <3>1. UNCHANGED <<win, applies, clipboard>> /\ requests' = Tail(requests) /\ requests # <<>>
      BY <2>2 DEF HandleRequest
    <3>2. requests' \in Seq(Orders)
      BY <1>1, <3>1 DEF WindowOK
    <3>3. QED
      BY <1>1, <3>1, <3>2 DEF WindowOK, ChangeRemembered, LocalText
  <2>3. CASE ControlledWorker
    <3>1. UNCHANGED <<win, requests, applies, clipboard>>
      BY <2>3, Zenon DEF ControlledWorker, HearRequest, scheduleLocalClipboardSnapshot,
         SnapshotTimer, FinishApply, SendSnapshot, StartExpansion, FinishExpansion, window
    <3>2. QED
      BY <1>2, <3>1
  <2>4. QED
    BY <1>5, <1>6, <2>1, <2>2, <2>3 DEF Worker, Receives
<1>7. ASSUME NEW s \in Sides, ChunkTimer(s) \/ Expire(s)
      PROVE  WindowOK'
  BY <1>2, <1>7, Zenon DEF ChunkTimer, Expire, window
<1>8. ASSUME NEW s \in Sides, WindowThread(s)
      PROVE  WindowOK'
  <2>1. CASE ConnectMonitor \/ ReadClipboard
    BY <1>2, <2>1, Zenon DEF ConnectMonitor, ReadClipboard, window
  <2>2. CASE WriteClipboard
    <3>1. UNCHANGED <<win, requests, applies>> /\ clipboard'["ctl"] = clipboard["ctl"]
      BY <1>1, <2>2, BothSides DEF WriteClipboard, window, DeviceOK
    <3>2. QED
      BY <1>1, <3>1, WindowStill
  <2>3. QED
    BY <1>1, <1>8, <2>1, <2>2, NoteKeepsWindow, ApplyKeepsWindow DEF WindowThread
<1>9. CASE Session
  BY <1>2, <1>9, Zenon DEF Session, Lose, Redial, Connect, window
<1>10. QED
  BY <1>3, <1>4, <1>6, <1>7, <1>8, <1>9 DEF Next

-----------------------------------------------------------------------------
(***************************************************************************)
(* The controlled device.  What its worker knows once it has handled the   *)
(* completions that come first.                                            *)
(***************************************************************************)

LEMMA KnownLonger ==
  ASSUME NEW q \in Seq(Completions), NEW c \in Completions, NEW a, NEW t,
         NEW n \in 1..Len(q) + 1, KnownBy(q, a, n, t)
  PROVE  /\ KnownBy(Append(q, c), a, n, t)
         /\ n = Len(q) + 1 /\ ~Marks(c) => KnownBy(Append(q, c), a, n + 1, t)
<1>1. PICK p : p = Append(q, c)
  OBVIOUS
<1>2. Len(q) \in Nat /\ n \in Nat /\ \A i \in 1..n - 1 : p[i] = q[i]
  BY <1>1
<1>3. KnownBy(p, a, n, t)
  <2>1. CASE (\A i \in 1..n - 1 : ~Marks(q[i])) /\ a = t
    <3>1. \A i \in 1..n - 1 : ~Marks(p[i])
      BY <1>2, <2>1, Zenon
    <3>2. QED
      BY <2>1, <3>1, Zenon DEF KnownBy
  <2>2. CASE \E j \in 1..n - 1 : /\ Marks(q[j]) /\ q[j].text = t
                                 /\ \A i \in 1..n - 1 : i > j => ~Marks(q[i])
    <3>1. PICK j \in 1..n - 1 : /\ Marks(q[j]) /\ q[j].text = t
                                /\ \A i \in 1..n - 1 : i > j => ~Marks(q[i])
      BY <2>2
    <3>2. \A i \in 1..n - 1 : i > j => ~Marks(p[i])
      BY <1>2, <3>1, Zenon
    <3>3. Marks(p[j]) /\ p[j].text = t
      BY <1>2, <3>1, Zenon
    <3>4. QED
      BY <3>2, <3>3, Zenon DEF KnownBy
  <2>3. QED
    BY <2>1, <2>2, Zenon DEF KnownBy
<1>4. ASSUME n = Len(q) + 1, ~Marks(c)
      PROVE  KnownBy(p, a, n + 1, t)
  <2>1. p[n] = c /\ n + 1 - 1 = n
    BY <1>1, <1>2, <1>4
  <2>2. ~Marks(p[n])
    BY <1>4, <2>1
  <2>3. \A i \in 1..n : i \in 1..n - 1 \/ i = n
    BY <1>2
  <2>4. 1..n - 1 \subseteq 1..n
    BY <1>2
  <2>5. CASE (\A i \in 1..n - 1 : ~Marks(p[i])) /\ a = t
    <3>1. \A i \in 1..n : ~Marks(p[i])
      BY <2>2, <2>3, <2>5, Zenon
    <3>2. QED
      BY <2>1, <2>5, <3>1 DEF KnownBy
  <2>6. CASE \E j \in 1..n - 1 : /\ Marks(p[j]) /\ p[j].text = t
                                 /\ \A i \in 1..n - 1 : i > j => ~Marks(p[i])
    <3>1. PICK j \in 1..n - 1 : /\ Marks(p[j]) /\ p[j].text = t
                                /\ \A i \in 1..n - 1 : i > j => ~Marks(p[i])
      BY <2>6
    <3>2. \A i \in 1..n : i > j => ~Marks(p[i])
      BY <2>2, <2>3, <3>1, Zenon
    <3>3. j \in 1..n
      BY <2>4, <3>1
    <3>4. QED
      BY <2>1, <3>1, <3>2, <3>3 DEF KnownBy
  <2>7. QED
    BY <1>3, <2>5, <2>6, Zenon DEF KnownBy
<1>5. QED
  BY <1>1, <1>3, <1>4

\* Completions are handled in order: the first one's mark is the oldest.
LEMMA KnownSooner ==
  ASSUME NEW q \in Seq(Completions), q # <<>>, NEW a, NEW b, NEW t,
         b = IF Marks(q[1]) THEN q[1].text ELSE a,
         NEW n \in 1..Len(q), KnownBy(q, a, n + 1, t)
  PROVE  KnownBy(Tail(q), b, n, t)
<1>1. PICK p : p = Tail(q)
  OBVIOUS
<1>2. /\ Len(q) \in Nat /\ n \in Nat /\ n + 1 - 1 = n
      /\ \A i \in 1..n - 1 : p[i] = q[i + 1] /\ i + 1 \in 1..n
      /\ \A i \in 1..n : i = 1 \/ (i - 1 \in 1..n - 1 /\ p[i - 1] = q[i])
  BY <1>1
<1>3. CASE (\A i \in 1..n : ~Marks(q[i])) /\ a = t
  <2>1. 1 \in 1..n
    BY <1>2
  <2>2. b = t
    BY <1>3, <2>1
  <2>3. \A i \in 1..n - 1 : ~Marks(p[i])
    BY <1>2, <1>3, Zenon
  <2>4. QED
    BY <1>1, <2>2, <2>3, Zenon DEF KnownBy
<1>4. CASE \E j \in 1..n : /\ Marks(q[j]) /\ q[j].text = t
                           /\ \A i \in 1..n : i > j => ~Marks(q[i])
  <2>1. PICK j \in 1..n : /\ Marks(q[j]) /\ q[j].text = t
                          /\ \A i \in 1..n : i > j => ~Marks(q[i])
    BY <1>4
  <2>2. CASE j = 1
    <3>1. b = t
      BY <2>1, <2>2
    <3>2. \A i \in 1..n - 1 : i + 1 > j
      BY <2>2
    <3>3. \A i \in 1..n - 1 : ~Marks(p[i])
      BY <1>2, <2>1, <3>2, Zenon
    <3>4. QED
      BY <1>1, <3>1, <3>3, Zenon DEF KnownBy
  <2>3. CASE j # 1
    <3>1. PICK h \in 1..n - 1 : h = j - 1 /\ p[h] = q[j]
      BY <1>2, <2>1, <2>3
    <3>2. Marks(p[h]) /\ p[h].text = t
      BY <2>1, <3>1
    <3>3. \A i \in 1..n - 1 : i > h => i + 1 > j
      BY <3>1
    <3>4. \A i \in 1..n - 1 : i > h => ~Marks(p[i])
      BY <1>2, <2>1, <3>3, Zenon
    <3>5. QED
      BY <1>1, <3>2, <3>4, Zenon DEF KnownBy
  <2>4. QED
    BY <2>2, <2>3
<1>5. PICK m : m = n + 1
  OBVIOUS
<1>6. \A i : i \in 1..m - 1 <=> i \in 1..n
  BY <1>2, <1>5
<1>7. KnownBy(q, a, m, t)
  BY <1>5
<1>8. QED
  BY <1>3, <1>4, <1>6, <1>7, Zenon DEF KnownBy

\* What was written last is known once the completion of the write is handled.
LEMMA KnownAtLast ==
  ASSUME NEW q \in Seq(Completions), NEW c \in Completions, NEW a, Marks(c)
  PROVE  KnownBy(Append(q, c), a, Len(Append(q, c)) + 1, c.text)
<1>1. PICK p, n : p = Append(q, c) /\ n = Len(p)
  OBVIOUS
<1>2. n \in Nat /\ n \in 1..n + 1 - 1 /\ p[n] = c /\ \A i \in 1..n + 1 - 1 : ~(i > n)
  BY <1>1
<1>3. Marks(p[n]) /\ p[n].text = c.text /\ \A i \in 1..n + 1 - 1 : i > n => ~Marks(p[i])
  BY <1>2
<1>4. PICK m : m = n + 1
  OBVIOUS
<1>5. n \in 1..m - 1 /\ \A i \in 1..m - 1 : i > n => ~Marks(p[i])
  BY <1>2, <1>3, <1>4
<1>6. KnownBy(p, a, m, c.text)
  BY <1>3, <1>5, Zenon DEF KnownBy
<1>7. QED
  BY <1>1, <1>4, <1>6

-----------------------------------------------------------------------------
(* What a step does to the completions and to the watch on the clipboard. *)

WillRead(q) == \E n \in DOMAIN q : Unasked(q[n])

LEMMA ReadsDrop ==
  ASSUME NEW q \in Seq(Tasks), q # <<>>, WillRead(Tail(q))
  PROVE  WillRead(q)
<1>1. PICK n \in DOMAIN Tail(q) : Unasked(Tail(q)[n])
  BY DEF WillRead
<1>2. n + 1 \in DOMAIN q /\ q[n + 1] = Tail(q)[n]
  BY <1>1
<1>3. QED
  BY <1>1, <1>2, Zenon DEF WillRead

LEMMA ReadsAdd ==
  ASSUME NEW q \in Seq(Tasks), NEW g \in Tasks, WillRead(Append(q, g))
  PROVE  WillRead(q) \/ Unasked(g)
<1>1. PICK p : p = Append(q, g)
  OBVIOUS
<1>2. PICK n \in DOMAIN p : Unasked(p[n])
  BY <1>1 DEF WillRead
<1>3. (n \in DOMAIN q /\ p[n] = q[n]) \/ p[n] = g
  BY <1>1, <1>2
<1>4. QED
  BY <1>2, <1>3, Zenon DEF WillRead

\* Nothing new is watched, and no completion comes or goes.
LEMMA EchoStill ==
  ASSUME EchoOK, UNCHANGED done, cli'.applied = cli.applied,
         clipboard'["cli"] = clipboard["cli"] \/ clipboard'["cli"].from # "peer",
         Watching' => Watching \/ clipboard'["cli"].from # "peer"
  PROVE  EchoOK'
<1>1. PICK a : a = cli.applied
  OBVIOUS
<1>2. \A n, t : KnownAt(n, t) => KnownAt(n, t)'
  BY <1>1, Zenon DEF KnownAt, KnownBy
<1>3. QED
  BY <1>2, Zenon DEF EchoOK

\* The worker handles the first completion.
LEMMA EchoHandled ==
  ASSUME DeviceOK, EchoOK, done # <<>>, done' = Tail(done),
         cli'.applied = IF Marks(done[1]) THEN done[1].text ELSE cli.applied,
         UNCHANGED clipboard, Watching' => Watching
  PROVE  EchoOK'
<1>1. done \in Seq(Completions) /\ Len(done) \in Nat /\ Len(done) > 0
  BY DEF DeviceOK
<1>2. \A n \in 1..Len(done) : \A t : KnownAt(n + 1, t) => KnownAt(n, t)'
  BY <1>1, KnownSooner, Zenon DEF KnownAt
<1>3. ASSUME NEW n \in DOMAIN done', done'[n].did = "read", ~done'[n].explicit,
             done'[n].saw.from = "peer"
      PROVE  KnownAt(n, done[n].saw.text)'
  <2>1. n \in 1..Len(done) /\ n + 1 \in DOMAIN done /\ done'[n] = done[n + 1]
    BY <1>1, <1>3
  <2>2. KnownAt(n + 1, done[n + 1].saw.text)
    BY <1>3, <2>1, Zenon DEF EchoOK
  <2>3. PICK t : t = done[n + 1].saw.text
    OBVIOUS
  <2>4. KnownAt(n, t)'
    BY <1>2, <2>1, <2>2, <2>3, Zenon
  <2>5. t = done'[n].saw.text
    BY <2>1, <2>3
  <2>6. QED
    BY <2>4, <2>5
<1>4. ASSUME Watching', clipboard'["cli"].from = "peer"
      PROVE  KnownAt(Len(done) + 1, clipboard["cli"].text)'
  <2>1. KnownAt(Len(done) + 1, clipboard["cli"].text)
    BY <1>4 DEF EchoOK
  <2>2. PICK n, t : n = Len(done) /\ t = clipboard["cli"].text
    OBVIOUS
  <2>3. n \in 1..Len(done) /\ Len(done') + 1 = n /\ t = clipboard'["cli"].text
    BY <1>1, <2>2
  <2>4. KnownAt(n + 1, t)
    BY <2>1, <2>2
  <2>5. KnownAt(n, t)'
    BY <1>2, <2>3, <2>4, Zenon
  <2>6. QED
    BY <2>3, <2>5
<1>5. QED
  BY <1>3, <1>4, Zenon DEF EchoOK

\* The window thread has completed a task.
LEMMA EchoCompleted ==
  ASSUME DeviceOK, EchoOK, NEW c \in Completions, done' = Append(done, c),
         cli'.applied = cli.applied,
         \/ ~Marks(c) /\ UNCHANGED clipboard /\ (Watching' => Watching)
         \/ Marks(c) /\ clipboard'["cli"].text = c.text,
         c.did = "read" /\ ~c.explicit /\ c.saw.from = "peer" => KnownAt(Len(done) + 1, c.saw.text)
  PROVE  EchoOK'
<1>1. done \in Seq(Completions) /\ Len(done) \in Nat
  BY DEF DeviceOK
<1>2. /\ \A n \in 1..Len(done) : done'[n] = done[n]
      /\ Len(done') = Len(done) + 1 /\ done'[Len(done) + 1] = c
  BY <1>1
<1>3. \A n \in 1..Len(done) + 1 : \A t : KnownAt(n, t) => KnownAt(n, t)'
  BY <1>1, KnownLonger, Zenon DEF KnownAt
<1>4. ASSUME NEW n \in DOMAIN done', done'[n].did = "read", ~done'[n].explicit,
             done'[n].saw.from = "peer"
      PROVE  KnownAt(n, done[n].saw.text)'
  <2>1. n \in 1..Len(done) + 1 /\ (n \in 1..Len(done) \/ n = Len(done) + 1)
    BY <1>1, <1>2, <1>4
  <2>2. PICK t : t = done'[n].saw.text
    OBVIOUS
  <2>3. CASE n \in 1..Len(done)
    <3>1. n \in DOMAIN done /\ done'[n] = done[n]
      BY <1>1, <1>2, <2>3
    <3>2. KnownAt(n, done[n].saw.text)
      BY <1>4, <3>1, Zenon DEF EchoOK
    <3>3. KnownAt(n, t)
      BY <2>2, <3>1, <3>2
    <3>4. QED
      BY <1>3, <2>1, <2>2, <3>3, Zenon
  <2>4. CASE n = Len(done) + 1
    <3>1. KnownAt(n, t)
      BY <1>2, <1>4, <2>2, <2>4
    <3>2. QED
      BY <1>3, <2>1, <2>2, <3>1, Zenon
  <2>5. QED
    BY <2>1, <2>3, <2>4
<1>5. ASSUME Watching', clipboard'["cli"].from = "peer"
      PROVE  KnownAt(Len(done) + 1, clipboard["cli"].text)'
  <2>1. CASE Marks(c) /\ clipboard'["cli"].text = c.text
    BY <1>1, <2>1, KnownAtLast DEF KnownAt
  <2>2. CASE ~Marks(c) /\ UNCHANGED clipboard /\ (Watching' => Watching)
    <3>1. KnownAt(Len(done) + 1, clipboard["cli"].text)
      BY <1>5, <2>2 DEF EchoOK
    <3>2. PICK t, n : t = clipboard["cli"].text /\ n = Len(done) + 1
      OBVIOUS
    <3>3. n \in 1..Len(done) + 1
      BY <1>1, <3>2
    <3>4. KnownBy(done', cli.applied, n + 1, t)
      BY <1>1, <2>2, <3>1, <3>2, <3>3, KnownLonger DEF KnownAt
    <3>5. QED
      BY <1>2, <2>2, <3>2, <3>4 DEF KnownAt
  <2>3. QED
    BY <2>1, <2>2
<1>6. QED
  BY <1>4, <1>5, Zenon DEF EchoOK

-----------------------------------------------------------------------------
(* The steps that the device takes part in. *)

CliStates ==
    [lastSent : Texts \cup {NoText}, applied : Texts \cup {NoText}, monitored : BOOLEAN,
     changed : BOOLEAN, timer : BOOLEAN]

LEMMA DeviceTyped ==
  ASSUME DeviceOK
  PROVE  /\ clipboard \in [Sides -> Holdings] /\ gui \in Seq(Tasks) /\ done \in Seq(Completions)
         /\ expanding \in Seq(Texts \cup {NoText}) /\ Len(expanding) <= MaxExpansions
         /\ cli \in CliStates /\ applied \in Texts \cup {NoText}
BY Zenon DEF DeviceOK, CliStates

\* Nothing is read, written or completed.
LEMMA DeviceStill ==
  ASSUME DeviceOK, EchoOK, UNCHANGED <<clipboard, done, expanding, applied>>,
         gui' \in Seq(Tasks), cli' \in CliStates, cli'.applied = cli.applied, Watching' => Watching
  PROVE  DeviceOK' /\ EchoOK'
<1>1. DeviceOK'
  BY DEF DeviceOK, CliStates
<1>2. EchoOK'
  BY EchoStill, Zenon
<1>3. QED
  BY <1>1, <1>2

LEMMA DeviceUntouched ==
  ASSUME DeviceOK, EchoOK, UNCHANGED <<gui, done, expanding, cli, applied>>,
         clipboard' \in [Sides -> Holdings], clipboard'["cli"] = clipboard["cli"]
  PROVE  DeviceOK' /\ EchoOK'
<1>1. DeviceOK'
  BY Zenon DEF DeviceOK
<1>2. Watching' => Watching
  BY Zenon DEF Watching
<1>3. cli'.applied = cli.applied
  OBVIOUS
<1>4. EchoOK'
  BY <1>2, <1>3, EchoStill, Zenon
<1>5. QED
  BY <1>1, <1>4

\* What the worker remembers besides of its own sending.
LEMMA CliRemembers ==
  ASSUME DeviceOK, NEW t \in Texts \cup {NoText}, cli' = [cli EXCEPT !.lastSent = t]
  PROVE  /\ cli' \in CliStates /\ cli'.applied = cli.applied
         /\ cli'.changed = cli.changed /\ cli'.timer = cli.timer
BY DeviceTyped DEF CliStates

\* Its sending moves nothing else.
LEMMA DeviceSends ==
  ASSUME DeviceOK, EchoOK, UNCHANGED <<clipboard, gui, done, applied>>,
         expanding' \in Seq(Texts \cup {NoText}), Len(expanding') <= MaxExpansions,
         cli' = cli \/ \E t \in Texts \cup {NoText} : cli' = [cli EXCEPT !.lastSent = t]
  PROVE  DeviceOK' /\ EchoOK'
<1>1. /\ cli' \in CliStates /\ cli'.applied = cli.applied
      /\ cli'.changed = cli.changed /\ cli'.timer = cli.timer
  BY CliRemembers, DeviceTyped
<1>2. DeviceOK'
  BY <1>1 DEF DeviceOK, CliStates
<1>3. Watching' => Watching
  BY <1>1, Zenon DEF Watching
<1>4. EchoOK'
  BY <1>1, <1>3, EchoStill, Zenon
<1>5. QED
  BY <1>2, <1>4

LEMMA UsersKeepDevice ==
  ASSUME DeviceOK, EchoOK, Users
  PROVE  DeviceOK' /\ EchoOK'
<1>1. ASSUME UNCHANGED <<clipboard, device>>
      PROVE  DeviceOK' /\ EchoOK'
  BY <1>1, DeviceTyped, DeviceUntouched DEF device
<1>2. ASSUME NEW s \in Sides, NEW t \in Texts \cup {NoText}, UserCopies(s, t)
      PROVE  DeviceOK' /\ EchoOK'
  <2>1. /\ UNCHANGED <<gui, done, expanding, applied>>
        /\ clipboard' = [clipboard EXCEPT ![s] = [text |-> t, from |-> "user"]]
    BY <1>2 DEF UserCopies
  <2>2. [text |-> t, from |-> "user"] \in Holdings
    BY DEF Holdings, Origins
  <2>3. /\ clipboard' \in [Sides -> Holdings] /\ clipboard'[s] = [text |-> t, from |-> "user"]
        /\ \A u \in Sides : u # s => clipboard'[u] = clipboard[u]
    BY <2>1, <2>2, DeviceTyped
  <2>4. CASE s = "cli"
    <3>1. cli' = [cli EXCEPT !.changed = @ \/ cli.monitored]
      BY <1>2, <2>4 DEF UserCopies
    <3>2. PICK b \in BOOLEAN : b = (cli.changed \/ cli.monitored)
      OBVIOUS
    <3>3. cli' = [cli EXCEPT !.changed = b]
      BY <3>1, <3>2
    <3>4. cli' \in CliStates /\ cli'.applied = cli.applied
      BY <3>3, DeviceTyped DEF CliStates
    <3>5. clipboard'["cli"].from # "peer"
      BY <2>3, <2>4
    <3>6. EchoOK'
      BY <2>1, <3>4, <3>5, EchoStill, Zenon
    <3>7. QED
      BY <2>1, <2>3, <3>4, <3>6 DEF DeviceOK, CliStates
  <2>5. CASE s # "cli"
    <3>1. cli' = cli /\ clipboard'["cli"] = clipboard["cli"]
      BY <1>2, <2>3, <2>5, BothSides DEF UserCopies
    <3>2. QED
      BY <2>1, <2>3, <3>1, DeviceUntouched
  <2>6. QED
    BY <2>4, <2>5
<1>3. QED
  BY <1>1, <1>2, Zenon DEF Users, syncLocalClipboardToRemoteIfNeeded, PasteShortcut, CopyShortcut

\* The controlled device's window thread takes the first task.
LEMMA TaskKinds ==
  ASSUME NEW g \in Tasks
  PROVE  /\ g.live \in BOOLEAN
         /\ g.do = "read" => g.explicit \in BOOLEAN
         /\ g.do = "write" => g.item \in Items
BY DEF Tasks, Monitors, Reads, WriteTasks

LEMMA ConnectKeepsDevice ==
  ASSUME DeviceOK, EchoOK, ConnectMonitor
  PROVE  DeviceOK' /\ EchoOK'
<1>1. /\ gui # <<>> /\ gui' = Tail(gui) /\ UNCHANGED <<clipboard, done, expanding, applied>>
      /\ cli' = cli \/ cli' = [cli EXCEPT !.monitored = TRUE]
  BY DEF ConnectMonitor
<1>2. /\ cli' \in CliStates /\ cli'.applied = cli.applied
      /\ cli'.changed = cli.changed /\ cli'.timer = cli.timer
  BY <1>1, DeviceTyped DEF CliStates
<1>3. gui' \in Seq(Tasks)
  BY <1>1, DeviceTyped
<1>4. Watching' => Watching
  <2>1. WillRead(gui') => WillRead(gui)
    BY <1>1, DeviceTyped, ReadsDrop
  <2>2. QED
    BY <1>2, <2>1, Zenon DEF Watching, WillRead
<1>5. QED
  BY <1>1, <1>2, <1>3, <1>4, DeviceStill

\* Whoever reads the controller's text unasked knows it by then.
LEMMA ReadKeepsDevice ==
  ASSUME DeviceOK, EchoOK, ReadClipboard
  PROVE  DeviceOK' /\ EchoOK'
<1>1. PICK g : g = Head(gui)
  OBVIOUS
<1>2. /\ gui # <<>> /\ g.do = "read" /\ gui' = Tail(gui)
      /\ UNCHANGED <<clipboard, expanding, cli, applied>>
  BY <1>1 DEF ReadClipboard
<1>3. g \in Tasks /\ gui' \in Seq(Tasks) /\ 1 \in DOMAIN gui /\ gui[1] = g
  BY <1>1, <1>2, DeviceTyped
<1>4. Watching' => Watching
  <2>1. WillRead(gui') => WillRead(gui)
    BY <1>2, DeviceTyped, ReadsDrop
  <2>2. QED
    BY <1>2, <2>1, Zenon DEF Watching, WillRead
<1>5. CASE g.live
  <2>1. PICK c : c = [did |-> "read", explicit |-> g.explicit, saw |-> clipboard["cli"]]
    OBVIOUS
  <2>2. done' = Append(done, c)
    BY <1>1, <1>5, <2>1 DEF ReadClipboard, Completes
  <2>3. c \in Completions /\ ~Marks(c) /\ c.saw = clipboard["cli"] /\ c.explicit = g.explicit
    <3>1. g.explicit \in BOOLEAN /\ clipboard["cli"] \in Holdings
      BY <1>2, <1>3, TaskKinds, DeviceTyped, BothSides
    <3>2. c \in ReadsDone
      BY <2>1, <3>1 DEF ReadsDone
    <3>3. QED
      BY <2>1, <3>2 DEF Completions, Marks
  <2>4. ~c.explicit /\ c.saw.from = "peer" => KnownAt(Len(done) + 1, c.saw.text)
    <3>1. ~c.explicit => Watching
      BY <1>2, <1>3, <1>5, <2>3, Zenon DEF Watching, Unasked
    <3>2. QED
      BY <2>3, <3>1 DEF EchoOK
  <2>5. cli'.applied = cli.applied
    BY <1>2
  <2>6. EchoOK'
    BY <1>2, <1>4, <2>2, <2>3, <2>4, <2>5, EchoCompleted
  <2>7. done' \in Seq(Completions)
    BY <2>2, <2>3, DeviceTyped
  <2>8. QED
    BY <1>2, <1>3, <2>6, <2>7, Zenon DEF DeviceOK
<1>6. CASE ~g.live
  <2>1. done' = done
    BY <1>1, <1>6 DEF ReadClipboard, Completes
  <2>2. cli' \in CliStates
    BY <1>2, DeviceTyped
  <2>3. QED
    BY <1>2, <1>3, <1>4, <2>1, <2>2, DeviceStill
<1>7. QED
  BY <1>5, <1>6

\* A write is known by the next time anybody reads what it wrote.
LEMMA WriteKeepsDevice ==
  ASSUME DeviceOK, EchoOK, WriteClipboard
  PROVE  DeviceOK' /\ EchoOK'
<1>1. PICK g : g = Head(gui)
  OBVIOUS
<1>2. /\ gui # <<>> /\ g.do = "write" /\ gui' = Tail(gui) /\ UNCHANGED <<expanding, applied>>
  BY <1>1 DEF WriteClipboard
<1>3. g \in Tasks /\ gui' \in Seq(Tasks)
  BY <1>1, <1>2, DeviceTyped
<1>4. PICK i \in Items : i = g.item
  BY <1>2, <1>3, TaskKinds
<1>5. i.text \in Texts
  BY DEF Items
<1>6. WillRead(gui') => WillRead(gui)
  BY <1>2, DeviceTyped, ReadsDrop
<1>7. \A b \in BOOLEAN : [did |-> "wrote", text |-> i.text, ok |-> b] \in Completions
  BY <1>5 DEF Completions, WritesDone
<1>8. ASSUME clipboard' = [clipboard EXCEPT !["cli"] =
                              [text |-> i.text, from |-> IF g.live THEN "peer" ELSE "former"]],
             cli' = [cli EXCEPT !.changed = @ \/ cli.monitored],
             Completes(g, [did |-> "wrote", text |-> i.text, ok |-> TRUE])
      PROVE  DeviceOK' /\ EchoOK'
  <2>1. PICK h : h = [text |-> i.text, from |-> IF g.live THEN "peer" ELSE "former"]
    OBVIOUS
  <2>2. h \in Holdings /\ h.text = i.text /\ (~g.live => h.from # "peer")
    BY <1>5, <2>1 DEF Holdings, Origins
  <2>3. clipboard' \in [Sides -> Holdings] /\ clipboard'["cli"] = h
    BY <1>8, <2>1, <2>2, BothSides, DeviceTyped
  <2>4. cli' \in CliStates /\ cli'.applied = cli.applied
    <3>1. PICK b \in BOOLEAN : b = (cli.changed \/ cli.monitored)
      OBVIOUS
    <3>2. cli' = [cli EXCEPT !.changed = b]
      BY <1>8, <3>1
    <3>3. QED
      BY <3>2, DeviceTyped DEF CliStates
  <2>5. CASE g.live
    <3>1. PICK c \in Completions : c = [did |-> "wrote", text |-> i.text, ok |-> TRUE]
      BY <1>7
    <3>2. done' = Append(done, c)
      BY <1>8, <2>5, <3>1 DEF Completes
    <3>3. Marks(c) /\ c.text = clipboard'["cli"].text /\ c.did # "read"
      BY <2>2, <2>3, <3>1 DEF Marks
    <3>4. EchoOK'
      BY <2>4, <3>2, <3>3, EchoCompleted
    <3>5. done' \in Seq(Completions)
      BY <3>1, <3>2, DeviceTyped
    <3>6. QED
      BY <1>2, <1>3, <2>3, <2>4, <3>4, <3>5, Zenon DEF DeviceOK, CliStates
  <2>6. CASE ~g.live
    <3>1. done' = done
      BY <1>8, <2>6 DEF Completes
    <3>2. EchoOK'
      BY <2>2, <2>3, <2>4, <2>6, <3>1, EchoStill
    <3>3. QED
      BY <1>2, <1>3, <2>3, <2>4, <3>1, <3>2, Zenon DEF DeviceOK, CliStates
  <2>7. QED
    BY <2>5, <2>6
<1>9. ASSUME UNCHANGED <<clipboard, cli>>,
             Completes(g, [did |-> "wrote", text |-> i.text, ok |-> FALSE])
      PROVE  DeviceOK' /\ EchoOK'
  <2>1. Watching' => Watching
    BY <1>6, <1>9, Zenon DEF Watching, WillRead
  <2>2. cli' \in CliStates /\ cli'.applied = cli.applied
    BY <1>9, DeviceTyped
  <2>3. CASE g.live
    <3>1. PICK c \in Completions : c = [did |-> "wrote", text |-> i.text, ok |-> FALSE]
      BY <1>7
    <3>2. done' = Append(done, c)
      BY <1>9, <2>3, <3>1 DEF Completes
    <3>3. ~Marks(c) /\ c.did # "read"
      BY <3>1 DEF Marks
    <3>4. EchoOK'
      BY <1>9, <2>1, <2>2, <3>2, <3>3, EchoCompleted
    <3>5. done' \in Seq(Completions)
      BY <3>1, <3>2, DeviceTyped
    <3>6. QED
      BY <1>2, <1>3, <1>9, <3>4, <3>5, Zenon DEF DeviceOK
  <2>4. CASE ~g.live
    <3>1. done' = done
      BY <1>9, <2>4 DEF Completes
    <3>2. QED
      BY <1>2, <1>3, <1>9, <2>1, <2>2, <3>1, DeviceStill
  <2>5. QED
    BY <2>3, <2>4
<1>10. QED
  BY <1>1, <1>4, <1>8, <1>9 DEF WriteClipboard

\* The worker gives the window thread something to do.
LEMMA TaskGiven ==
  ASSUME DeviceOK, EchoOK, UNCHANGED <<clipboard, done, expanding, applied>>,
         NEW g \in Tasks, gui' = Append(gui, g), cli' \in CliStates, cli'.applied = cli.applied,
         cli'.changed \/ cli'.timer => Watching, Unasked(g) => Watching
  PROVE  DeviceOK' /\ EchoOK'
<1>1. gui' \in Seq(Tasks)
  BY DeviceTyped
<1>2. WillRead(gui') => WillRead(gui) \/ Unasked(g)
  BY DeviceTyped, ReadsAdd
<1>3. Watching' => Watching
  BY <1>2, Zenon DEF Watching, WillRead
<1>4. QED
  BY <1>1, <1>3, DeviceStill

LEMMA ReceivingKeepsDevice ==
  ASSUME LanesOK, PartialOK, DeviceOK, EchoOK, NEW s \in Sides, Receives(s)
  PROVE  DeviceOK' /\ EchoOK'
<1>1. cli \in CliStates /\ gui \in Seq(Tasks)
  BY DeviceTyped
<1>2. CASE HearInline(s) \/ HearEnd(s)
  <2>1. UNCHANGED <<clipboard, done, expanding, cli, applied>>
    BY <1>2 DEF HearInline, HearEnd
  <2>2. CASE gui' = gui
    BY <2>1, <2>2, DeviceTyped, DeviceUntouched
  <2>3. CASE \E i \in Items : gui' = Append(gui, [do |-> "write", item |-> i, live |-> TRUE])
    <3>1. PICK g \in Tasks : g.do = "write" /\ gui' = Append(gui, g)
      BY <2>3 DEF Tasks, WriteTasks
    <3>2. cli' \in CliStates /\ cli'.applied = cli.applied /\ ~Unasked(g)
      BY <1>1, <2>1, <3>1 DEF Unasked
    <3>3. cli'.changed \/ cli'.timer => Watching
      BY <2>1, Zenon DEF Watching
    <3>4. QED
      BY <2>1, <3>1, <3>2, <3>3, TaskGiven
  <2>4. QED
    BY <1>2, <2>2, <2>3, TextHandedOver
<1>3. CASE HearChunk(s) \/ HearOther(s)
  <2>1. UNCHANGED <<clipboard, device>>
    BY <1>3, Zenon DEF HearChunk, HearOther
  <2>2. QED
    BY <2>1, DeviceTyped, DeviceUntouched DEF device
<1>4. CASE HearOpen(s)
  <2>1. UNCHANGED <<clipboard, done, expanding, cli, applied>>
    BY <1>4, Zenon DEF HearOpen
  <2>2. CASE gui' = gui
    BY <2>1, <2>2, DeviceTyped, DeviceUntouched
  <2>3. CASE gui' = Append(gui, [do |-> "monitor", live |-> TRUE])
    <3>1. PICK g \in Tasks : g.do = "monitor" /\ gui' = Append(gui, g)
      BY <2>3 DEF Tasks, Monitors
    <3>2. cli' \in CliStates /\ cli'.applied = cli.applied /\ ~Unasked(g)
      BY <1>1, <2>1, <3>1 DEF Unasked
    <3>3. cli'.changed \/ cli'.timer => Watching
      BY <2>1, Zenon DEF Watching
    <3>4. QED
      BY <2>1, <3>1, <3>2, <3>3, TaskGiven
  <2>4. QED
    BY <1>4, <2>2, <2>3, Zenon DEF HearOpen
<1>5. CASE HearClosed(s)
  <2>1. /\ UNCHANGED <<clipboard, gui, done, expanding, applied>>
        /\ cli' = cli \/ cli' = [cli EXCEPT !.timer = FALSE]
    BY <1>5, Zenon DEF HearClosed
  <2>2. /\ cli' \in CliStates /\ cli'.applied = cli.applied
        /\ cli'.changed = cli.changed /\ (cli'.timer => cli.timer)
    BY <1>1, <2>1 DEF CliStates
  <2>3. Watching' => Watching
    BY <2>1, <2>2, Zenon DEF Watching
  <2>4. QED
    BY <1>1, <2>1, <2>2, <2>3, DeviceStill
<1>6. QED
  BY <1>2, <1>3, <1>4, <1>5 DEF Receives

LEMMA RequestKeepsDevice ==
  ASSUME DeviceOK, EchoOK, HearRequest \/ SnapshotTimer
  PROVE  DeviceOK' /\ EchoOK'
<1>1. cli \in CliStates /\ gui \in Seq(Tasks)
  BY DeviceTyped
<1>2. /\ UNCHANGED <<clipboard, done, expanding, applied>>
      /\ cli' = cli \/ (SnapshotTimer /\ cli.timer /\ cli' = [cli EXCEPT !.timer = FALSE])
      /\ \/ gui' = gui
         \/ /\ SnapshotTimer /\ cli.timer
            /\ gui' = Append(gui, [do |-> "read", explicit |-> FALSE, live |-> TRUE])
         \/ gui' = Append(gui, [do |-> "read", explicit |-> TRUE, live |-> TRUE])
  BY Zenon DEF HearRequest, SnapshotTimer
<1>3. /\ cli' \in CliStates /\ cli'.applied = cli.applied
      /\ cli'.changed = cli.changed /\ (cli'.timer => cli.timer)
  BY <1>1, <1>2 DEF CliStates
<1>4. cli'.changed \/ cli'.timer => Watching
  BY <1>3, Zenon DEF Watching
<1>5. CASE gui' = gui
  <2>1. Watching' => Watching
    BY <1>3, <1>5, Zenon DEF Watching
  <2>2. QED
    BY <1>1, <1>2, <1>3, <1>5, <2>1, DeviceStill
<1>6. ASSUME NEW b \in BOOLEAN, ~b => cli.timer,
             gui' = Append(gui, [do |-> "read", explicit |-> b, live |-> TRUE])
      PROVE  DeviceOK' /\ EchoOK'
  <2>1. PICK g \in Tasks : g = [do |-> "read", explicit |-> b, live |-> TRUE]
    BY DEF Tasks, Reads
  <2>2. Unasked(g) => cli.timer
    BY <1>6, <2>1 DEF Unasked
  <2>3. Unasked(g) => Watching
    BY <2>2, Zenon DEF Watching
  <2>4. QED
    BY <1>2, <1>3, <1>4, <1>6, <2>1, <2>3, TaskGiven
<1>7. QED
  BY <1>2, <1>5, <1>6

LEMMA ScheduleKeepsDevice ==
  ASSUME DeviceOK, EchoOK, scheduleLocalClipboardSnapshot
  PROVE  DeviceOK' /\ EchoOK'
<1>1. cli.changed /\ UNCHANGED <<clipboard, gui, done, expanding, applied>>
  BY DEF scheduleLocalClipboardSnapshot
<1>2. PICK b \in BOOLEAN : cli' = [cli EXCEPT !.changed = FALSE, !.timer = b]
  <2>1. PICK recent \in BOOLEAN :
          cli' = [cli EXCEPT !.changed = FALSE, !.timer = @ \/ (recent /\ channel = "open")]
    BY Zenon DEF scheduleLocalClipboardSnapshot
  <2>2. PICK b \in BOOLEAN : b = (cli.timer \/ (recent /\ channel = "open"))
    OBVIOUS
  <2>3. cli' = [cli EXCEPT !.changed = FALSE, !.timer = b]
    BY <2>1, <2>2
  <2>4. QED
    BY <2>2, <2>3, Zenon
<1>3. cli' \in CliStates /\ cli'.applied = cli.applied
  BY <1>2, DeviceTyped DEF CliStates
<1>4. Watching
  BY <1>1, Zenon DEF Watching
<1>5. gui' \in Seq(Tasks)
  BY <1>1, DeviceTyped
<1>6. QED
  BY <1>1, <1>3, <1>4, <1>5, DeviceStill

\* The worker handles the first completion.
LEMMA CompletionKeepsDevice ==
  ASSUME DeviceOK, EchoOK, FinishApply \/ SendSnapshot \/ StartExpansion
  PROVE  DeviceOK' /\ EchoOK'
<1>1. PICK c : c = Head(done)
  OBVIOUS
<1>2. /\ done # <<>> /\ done' = Tail(done) /\ UNCHANGED <<clipboard, gui>>
  BY Zenon DEF FinishApply, SendSnapshot, StartExpansion
<1>3. c \in Completions /\ c = done[1] /\ done' \in Seq(Completions)
  BY <1>1, <1>2, DeviceTyped
<1>4. ASSUME cli' \in CliStates, cli'.changed = cli.changed, cli'.timer = cli.timer,
             cli'.applied = IF Marks(c) THEN c.text ELSE cli.applied,
             applied' \in Texts \cup {NoText}, expanding' \in Seq(Texts \cup {NoText}),
             Len(expanding') <= MaxExpansions
      PROVE  DeviceOK' /\ EchoOK'
  <2>1. Watching' => Watching
    BY <1>2, <1>4, Zenon DEF Watching
  <2>2. cli'.applied = IF Marks(done[1]) THEN done[1].text ELSE cli.applied
    BY <1>3, <1>4
  <2>3. EchoOK'
    BY <1>2, <2>1, <2>2, EchoHandled
  <2>4. QED
    BY <1>2, <1>3, <1>4, <2>3 DEF DeviceOK, CliStates
<1>5. /\ cli \in CliStates /\ applied \in Texts \cup {NoText}
      /\ expanding \in Seq(Texts \cup {NoText}) /\ Len(expanding) <= MaxExpansions
  BY DeviceTyped
<1>6. CASE FinishApply
  <2>1. c.did = "wrote" /\ UNCHANGED expanding
    BY <1>1, <1>6 DEF FinishApply
  <2>2. c.text \in Texts
    BY <1>3, <2>1, CompletionKinds DEF WritesDone
  <2>3. CASE c.ok
    <3>1. cli' = [cli EXCEPT !.applied = c.text] /\ applied' = c.text /\ Marks(c)
      BY <1>1, <1>6, <2>1, <2>3 DEF FinishApply, Marks
    <3>2. /\ cli' \in CliStates /\ cli'.applied = c.text
          /\ cli'.changed = cli.changed /\ cli'.timer = cli.timer
      BY <1>5, <2>2, <3>1 DEF CliStates
    <3>3. QED
      BY <1>4, <1>5, <2>1, <2>2, <3>1, <3>2
  <2>4. CASE ~c.ok
    <3>1. UNCHANGED <<cli, applied>> /\ ~Marks(c)
      BY <1>1, <1>6, <2>4 DEF FinishApply, Marks
    <3>2. QED
      BY <1>4, <1>5, <2>1, <3>1
  <2>5. QED
    BY <2>3, <2>4
<1>7. CASE SendSnapshot
  <2>1. c.did = "read" /\ UNCHANGED <<expanding, applied>>
    BY <1>1, <1>7 DEF SendSnapshot
  <2>2. PICK t : t = c.saw.text
    OBVIOUS
  <2>3. t \in Texts \cup {NoText} /\ ~Marks(c)
    BY <1>3, <2>1, <2>2, CompletionKinds DEF ReadsDone, Holdings, Marks
  <2>4. cli' = cli \/ cli' = [cli EXCEPT !.lastSent = t]
    BY <1>1, <1>7, <2>2, Zenon DEF SendSnapshot, Answer
  <2>5. /\ cli' \in CliStates /\ cli'.applied = cli.applied
        /\ cli'.changed = cli.changed /\ cli'.timer = cli.timer
    BY <1>5, <2>3, <2>4, CliRemembers
  <2>6. QED
    BY <1>4, <1>5, <2>1, <2>3, <2>5
<1>8. CASE StartExpansion
  <2>1. c.did = "read" /\ UNCHANGED <<cli, applied>>
    BY <1>1, <1>8 DEF StartExpansion
  <2>2. c.saw.text \in Texts \cup {NoText} /\ ~Marks(c)
    BY <1>3, <2>1, CompletionKinds DEF ReadsDone, Holdings, Marks
  <2>3. expanding' = IF Len(expanding) < MaxExpansions THEN Append(expanding, c.saw.text)
                     ELSE expanding
    BY <1>1, <1>8 DEF StartExpansion
  <2>4. expanding' \in Seq(Texts \cup {NoText}) /\ Len(expanding') <= MaxExpansions
    BY <1>5, <2>2, <2>3, LimitsAreNumbers
  <2>5. QED
    BY <1>4, <1>5, <2>1, <2>2, <2>4
<1>9. QED
  BY <1>6, <1>7, <1>8

LEMMA ControlledKeepsDevice ==
  ASSUME DeviceOK, EchoOK, ControlledWorker
  PROVE  DeviceOK' /\ EchoOK'
<1>1. CASE FinishExpansion
  <2>1. PICK n \in DOMAIN expanding :
          /\ expanding' = RemoveAt(expanding, n)
          /\ IF expanding[n] = NoText THEN Silent /\ UNCHANGED cli
             ELSE Answer(expanding[n], "asked")
    BY <1>1, Zenon DEF FinishExpansion
  <2>2. UNCHANGED <<clipboard, gui, done, applied>>
    BY <1>1 DEF FinishExpansion
  <2>3. /\ expanding \in Seq(Texts \cup {NoText}) /\ Len(expanding) <= MaxExpansions
        /\ expanding[n] \in Texts \cup {NoText}
    BY DeviceTyped
  <2>4. expanding' \in Seq(Texts \cup {NoText}) /\ Len(expanding') <= MaxExpansions
    <3>1. PICK a, b : /\ a = SubSeq(expanding, 1, n - 1)
                      /\ b = SubSeq(expanding, n + 1, Len(expanding))
      OBVIOUS
    <3>2. /\ a \in Seq(Texts \cup {NoText}) /\ Len(a) = n - 1
          /\ b \in Seq(Texts \cup {NoText}) /\ Len(b) = Len(expanding) - n
      <4>1. n \in 1..Len(expanding) /\ Len(expanding) \in Nat
        BY <2>3
      <4>2. n - 1 \in 0..Len(expanding)
        BY <4>1
      <4>3. a \in Seq(Texts \cup {NoText}) /\ Len(a) = n - 1
        BY <2>3, <3>1, <4>2, Beginning
      <4>4. b \in Seq(Texts \cup {NoText}) /\ Len(b) = Len(expanding) - n
        <5>1. n \in Nat /\ n <= Len(expanding)
          BY <4>1
        <5>2. PICK q : q = expanding
          OBVIOUS
        <5>3. q \in Seq(Texts \cup {NoText}) /\ n <= Len(q) /\ b = SubSeq(q, n + 1, Len(q))
          BY <2>3, <3>1, <5>1, <5>2
        <5>4. b \in Seq(Texts \cup {NoText}) /\ Len(b) = Len(q) - n
          BY <5>1, <5>3, Remainder
        <5>5. QED
          BY <5>2, <5>4
      <4>5. QED
        BY <4>3, <4>4
    <3>3. expanding' = a \o b
      BY <2>1, <3>1 DEF RemoveAt
    <3>4. Len(expanding') = Len(expanding) - 1 /\ Len(expanding) \in Nat /\ n \in Nat
      BY <2>3, <3>2, <3>3
    <3>5. QED
      BY <2>3, <3>2, <3>3, <3>4, Joined, LimitsAreNumbers
  <2>5. cli' = cli \/ cli' = [cli EXCEPT !.lastSent = expanding[n]]
    BY <2>1, Zenon DEF Answer
  <2>6. QED
    BY <2>2, <2>3, <2>4, <2>5, DeviceSends
<1>2. QED
  BY <1>1, RequestKeepsDevice, ScheduleKeepsDevice, CompletionKeepsDevice, Zenon
     DEF ControlledWorker

\* A worker made for the new channel: it watches nothing yet, and it hears of
\* none of the tasks that are left.
LEMMA ConnectKeepsEcho ==
  ASSUME DeviceOK, Connect
  PROVE  DeviceOK' /\ EchoOK'
<1>1. /\ cli' = FreshCli /\ done' = <<>> /\ expanding' = <<>> /\ UNCHANGED <<clipboard, applied>>
      /\ gui' = [n \in DOMAIN gui |-> [gui[n] EXCEPT !.live = FALSE]]
  BY DEF Connect
<1>2. \A g \in Tasks : [g EXCEPT !.live = FALSE] \in Tasks /\ ~[g EXCEPT !.live = FALSE].live
  BY DEF Tasks, Monitors, Reads, WriteTasks
<1>3. gui \in Seq(Tasks)
  BY DeviceTyped
<1>4. \A n \in DOMAIN gui : gui'[n] \in Tasks /\ ~gui'[n].live
  <2>1. TAKE n \in DOMAIN gui
  <2>2. PICK g \in Tasks : g = gui[n]
    BY <1>3
  <2>3. gui'[n] = [g EXCEPT !.live = FALSE]
    BY <1>1, <2>2
  <2>4. QED
    BY <1>2, <2>3
<1>5. gui' \in Seq(Tasks) /\ DOMAIN gui' = DOMAIN gui
  BY <1>1, <1>3, <1>4
<1>6. ~Watching'
  <2>1. ~cli'.changed /\ ~cli'.timer
    BY <1>1 DEF FreshCli
  <2>2. QED
    BY <1>4, <1>5, <2>1, Zenon DEF Watching, Unasked
<1>7. EchoOK'
  BY <1>1, <1>6 DEF EchoOK
<1>8. DeviceOK'
  BY <1>1, <1>5, LimitsAreNumbers DEF DeviceOK, FreshCli
<1>9. QED
  BY <1>7, <1>8

LEMMA DeviceKept ==
  ASSUME ClipInv, [Next]_vars
  PROVE  DeviceOK' /\ EchoOK'
<1>1. LanesOK /\ SessionOK /\ PartialOK /\ DeviceOK /\ EchoOK /\ applies \in Seq(Items)
  BY DEF ClipInv, WindowOK
<1>2. ASSUME UNCHANGED <<clipboard, device>>
      PROVE  DeviceOK' /\ EchoOK'
  BY <1>1, <1>2, DeviceTyped, DeviceUntouched DEF device
<1>3. CASE UNCHANGED vars
  BY <1>2, <1>3, Zenon DEF vars
<1>4. CASE Users
  BY <1>1, <1>4, UsersKeepDevice
<1>5. ASSUME NEW s \in Sides, Worker(s)
      PROVE  DeviceOK' /\ EchoOK'
  <2>1. CASE Receives(s)
    BY <1>1, <2>1, ReceivingKeepsDevice
  <2>2. CASE HandleRequest
    BY <1>2, <2>2, Zenon DEF HandleRequest
  <2>3. CASE ControlledWorker
    BY <1>1, <2>3, ControlledKeepsDevice
  <2>4. QED
    BY <1>5, <2>1, <2>2, <2>3 DEF Worker
<1>6. ASSUME NEW s \in Sides, ChunkTimer(s)
      PROVE  DeviceOK' /\ EchoOK'
  <2>1. UNCHANGED <<clipboard, gui, done, expanding, applied>>
    BY <1>6, Zenon DEF ChunkTimer
  <2>2. cli' = cli \/ \E t \in Texts : cli' = [cli EXCEPT !.lastSent = t]
    BY <1>1, <1>6, TimerKeepsLanes
  <2>3. expanding' \in Seq(Texts \cup {NoText}) /\ Len(expanding') <= MaxExpansions
    BY <1>1, <2>1, DeviceTyped
  <2>4. QED
    BY <1>1, <2>1, <2>2, <2>3, DeviceSends
<1>7. ASSUME NEW s \in Sides, Expire(s)
      PROVE  DeviceOK' /\ EchoOK'
  BY <1>2, <1>7, Zenon DEF Expire
<1>8. ASSUME NEW s \in Sides, WindowThread(s)
      PROVE  DeviceOK' /\ EchoOK'
  <2>1. CASE noteLocalClipboardChanged
    BY <1>2, <2>1, Zenon DEF noteLocalClipboardChanged
  <2>2. CASE applyLocalClipboardPayload
    <3>1. UNCHANGED <<gui, done, expanding, cli, applied>>
      BY <2>2 DEF applyLocalClipboardPayload, device
    <3>2. /\ clipboard' \in [Sides -> Holdings] /\ clipboard'["cli"] = clipboard["cli"]
      <4>1. CASE UNCHANGED clipboard
        BY <1>1, <4>1, DeviceTyped
      <4>2. CASE clipboard' = [clipboard EXCEPT !["ctl"] =
                                  [text |-> Head(applies).text, from |-> "peer"]]
        <5>1. Head(applies) \in Items
          BY <1>1, <2>2 DEF applyLocalClipboardPayload
        <5>2. PICK h : h = [text |-> Head(applies).text, from |-> "peer"]
          OBVIOUS
        <5>3. h \in Holdings
          BY <5>1, <5>2 DEF Holdings, Items, Origins
        <5>4. QED
          BY <1>1, <4>2, <5>2, <5>3, DeviceTyped, BothSides
      <4>3. QED
        BY <2>2, <4>1, <4>2 DEF applyLocalClipboardPayload
    <3>3. QED
      BY <1>1, <3>1, <3>2, DeviceUntouched
  <2>3. QED
    BY <1>1, <1>8, <2>1, <2>2, ConnectKeepsDevice, ReadKeepsDevice, WriteKeepsDevice
       DEF WindowThread
<1>9. CASE Session
  BY <1>1, <1>2, <1>9, ConnectKeepsEcho, Zenon DEF Session, Lose, Redial
<1>10. QED
  BY <1>3, <1>4, <1>5, <1>6, <1>7, <1>8, <1>9 DEF Next

-----------------------------------------------------------------------------
(***************************************************************************)
(* The theorems.                                                           *)
(***************************************************************************)

LEMMA ClipInvStarts == Init => ClipInv
<1> SUFFICES ASSUME Init
             PROVE  ClipInv
  OBVIOUS
<1>1. /\ channel = "dialling" /\ asked = {} /\ issued = 0 /\ faults = {}
      /\ inbox = [s \in Sides |-> <<>>] /\ pending = [s \in Sides |-> <<>>]
      /\ chunks = [s \in Sides |-> <<>>] /\ scheduled = [s \in Sides |-> FALSE]
      /\ timers = [s \in Sides |-> 0] /\ dated = [s \in Sides |-> FALSE]
      /\ partial = [s \in Sides |-> NoPartial]
      /\ requests = <<>> /\ applies = <<>> /\ gui = <<>> /\ done = <<>> /\ expanding = <<>>
      /\ cli = FreshCli /\ applied = NoText
  BY Zenon DEF Init
<1>2. PICK t \in Texts \cup {NoText} :
        /\ clipboard = [s \in Sides |-> [text |-> IF s = "ctl" THEN t ELSE NoText, from |-> "user"]]
        /\ win = [observed |-> t, synced |-> NoText, dirty |-> t # NoText, noted |-> FALSE]
        /\ gestures = IF t = NoText THEN 0 ELSE 1
  BY Zenon DEF Init
<1>3. LanesOK
  <2>1. LanesTypes
    BY <1>1 DEF LanesTypes
  <2>2. ASSUME NEW s \in Sides
        PROVE  Lane(s)
    BY <1>1, LimitsAreNumbers DEF Lane, Waits
  <2>3. QED
    BY <2>1, <2>2 DEF LanesOK
<1>4. SessionOK
  BY <1>1, <1>2, LimitsAreNumbers DEF SessionOK
<1>5. PartialOK
  BY <1>1 DEF PartialOK, Ids, NoPartial
<1>6. WindowOK
  <2>1. win.observed = t /\ win.synced = NoText /\ win.dirty = (t # NoText)
    BY <1>2
  <2>2. LocalText = t
    BY <1>2, BothSides DEF LocalText
  <2>3. win \in [observed : Texts \cup {NoText}, synced : Texts \cup {NoText},
                 dirty : BOOLEAN, noted : BOOLEAN]
    BY <1>2
  <2>4. QED
    BY <1>1, <2>1, <2>2, <2>3 DEF WindowOK, ChangeRemembered
<1>7. DeviceOK
  <2>1. \A s \in Sides : [text |-> IF s = "ctl" THEN t ELSE NoText, from |-> "user"] \in Holdings
    BY DEF Holdings, Origins
  <2>2. clipboard \in [Sides -> Holdings]
    BY <1>2, <2>1
  <2>3. cli \in CliStates
    BY <1>1 DEF FreshCli, CliStates
  <2>4. QED
    BY <1>1, <2>2, <2>3, LimitsAreNumbers DEF DeviceOK, CliStates
<1>8. EchoOK
  <2>1. ~cli.changed /\ ~cli.timer /\ DOMAIN gui = {} /\ DOMAIN done = {}
    BY <1>1 DEF FreshCli
  <2>2. QED
    BY <2>1, Zenon DEF EchoOK, Watching
<1>9. QED
  BY <1>3, <1>4, <1>5, <1>6, <1>7, <1>8 DEF ClipInv

\* The clipboard's invariant: what each lane holds is of its own side's making
\* and is going to be sent; what has come of a text is a beginning of it; a text
\* that the window has observed and not synced is down as changed; and whoever
\* reads the controller's text unasked knows it by then.
THEOREM ClipboardInvariant == Spec => []ClipInv
<1>1. Init => ClipInv
  BY ClipInvStarts
<1>2. ClipInv /\ [Next]_vars => ClipInv'
  BY LanesKept, PartialKept, WindowKept, DeviceKept DEF ClipInv
<1>3. QED
  BY <1>1, <1>2, PTL DEF Spec

\* Every variable keeps its type and both bounded queues (the control messages
\* that wait, the reads on the thread pool) their bound; and no text that is
\* handed over or written is torn: it is one of those that were sent.
THEOREM ClipTypes == Spec => []TypeOK
<1>1. ClipInv => TypeOK
  BY ClipInvMeans
<1>2. QED
  BY <1>1, ClipboardInvariant, PTL

\* No text of the controller's is sent back to it unasked, no change of its
\* clipboard is forgotten, and nothing that is to be sent is left without a
\* single shot, a channel to come or a refusal to blame.
THEOREM ClipIsSound == Spec => []ClipboardSound
<1>1. ClipInv => ClipboardSound
  BY ClipInvMeans
<1>2. QED
  BY <1>1, ClipboardInvariant, PTL

-----------------------------------------------------------------------------
(***************************************************************************)
(* The order of what is under way from one side to the other.  The texts   *)
(* of either queue are in their order, and the steps of a long one         *)
(* likewise.                                                               *)
(***************************************************************************)

Precedes(m, x) ==
    /\ m.type = "inline" /\ x.type = "inline" => m.item.id < x.item.id
    /\ m.type = "step" /\ x.type = "step" =>
           m.item.id < x.item.id \/ (m.item = x.item /\ m.n < x.n)
Sorted(q) == \A i, j \in DOMAIN q : i < j => Precedes(q[i], q[j])
Ahead(A, B) == \A m \in A, x \in B : Precedes(m, x)

StepsIn(A) == {m \in A : m.type = "step"}
Numbers(A) == {m.item.id : m \in StepsIn(A)}

\* The texts told of before an opening of the channel are older than the ones
\* told of behind it: D holds texts heard of, C texts still to come.
Older(A, B) == \A a \in A, b \in B : a < b
Sooner(q, k) == {q[i] : i \in {h \in DOMAIN q : h < k}}
Later(q, k) == {q[i] : i \in {h \in DOMAIN q : h > k}}
Fresh(q, D, C) ==
    \A k \in DOMAIN q : q[k] = Open =>
        Older(D \cup Numbers(Sooner(q, k)), C \cup Numbers(Later(q, k)))

LEMMA RangeJoin ==
  ASSUME NEW S, NEW p \in Seq(S), NEW q \in Seq(S)
  PROVE  Range(p \o q) = Range(p) \cup Range(q)
<1>1. /\ p \o q \in Seq(S) /\ Len(p \o q) = Len(p) + Len(q) /\ Len(p) \in Nat /\ Len(q) \in Nat
      /\ \A i \in 1..Len(p) : (p \o q)[i] = p[i]
      /\ \A i \in 1..Len(q) : (p \o q)[Len(p) + i] = q[i]
  OBVIOUS
<1>2. Range(p \o q) \subseteq Range(p) \cup Range(q)
  <2>1. ASSUME NEW i \in 1..Len(p) + Len(q)
        PROVE  (p \o q)[i] \in Range(p) \cup Range(q)
    <3>1. CASE i <= Len(p)
      BY <1>1, <3>1 DEF Range
    <3>2. CASE i > Len(p)
      <4>1. i - Len(p) \in 1..Len(q) /\ Len(p) + (i - Len(p)) = i
        BY <1>1, <3>2
      <4>2. (p \o q)[i] = q[i - Len(p)]
        BY <1>1, <4>1
      <4>3. QED
        BY <4>1, <4>2 DEF Range
    <3>3. QED
      BY <1>1, <3>1, <3>2
  <2>2. DOMAIN (p \o q) = 1..Len(p) + Len(q)
    BY <1>1
  <2>3. QED
    BY <2>1, <2>2, Zenon DEF Range
<1>3. Range(p) \subseteq Range(p \o q)
  <2>1. ASSUME NEW i \in DOMAIN p
        PROVE  p[i] \in Range(p \o q)
    <3>1. i \in DOMAIN (p \o q) /\ (p \o q)[i] = p[i]
      BY <1>1
    <3>2. QED
      BY <3>1, Zenon DEF Range
  <2>2. QED
    BY <2>1, Zenon DEF Range
<1>4. Range(q) \subseteq Range(p \o q)
  <2>1. ASSUME NEW i \in DOMAIN q
        PROVE  q[i] \in Range(p \o q)
    <3>1. Len(p) + i \in DOMAIN (p \o q) /\ (p \o q)[Len(p) + i] = q[i]
      BY <1>1
    <3>2. QED
      BY <3>1, Zenon DEF Range
  <2>2. QED
    BY <2>1, Zenon DEF Range
<1>5. QED
  BY <1>2, <1>3, <1>4

LEMMA SortedJoin ==
  ASSUME NEW S, NEW p \in Seq(S), NEW q \in Seq(S)
  PROVE  Sorted(p \o q) <=> Sorted(p) /\ Sorted(q) /\ Ahead(Range(p), Range(q))
<1>1. /\ p \o q \in Seq(S) /\ Len(p \o q) = Len(p) + Len(q) /\ Len(p) \in Nat /\ Len(q) \in Nat
      /\ \A i \in 1..Len(p) : (p \o q)[i] = p[i]
      /\ \A i \in 1..Len(q) : (p \o q)[Len(p) + i] = q[i]
  OBVIOUS
<1>2. ASSUME Sorted(p \o q)
      PROVE  Sorted(p) /\ Sorted(q) /\ Ahead(Range(p), Range(q))
  <2>1. ASSUME NEW i \in 1..Len(p), NEW j \in 1..Len(p), i < j
        PROVE  Precedes(p[i], p[j])
    <3>1. i \in DOMAIN (p \o q) /\ j \in DOMAIN (p \o q)
      BY <1>1
    <3>2. Precedes((p \o q)[i], (p \o q)[j])
      BY <1>2, <2>1, <3>1, Zenon DEF Sorted
    <3>3. QED
      BY <1>1, <3>2
  <2>2. ASSUME NEW i \in 1..Len(q), NEW j \in 1..Len(q), i < j
        PROVE  Precedes(q[i], q[j])
    <3>1. Len(p) + i \in DOMAIN (p \o q) /\ Len(p) + j \in DOMAIN (p \o q)
          /\ Len(p) + i < Len(p) + j
      BY <1>1, <2>2
    <3>2. Precedes((p \o q)[Len(p) + i], (p \o q)[Len(p) + j])
      BY <1>2, <3>1, Zenon DEF Sorted
    <3>3. QED
      BY <1>1, <3>2
  <2>3. ASSUME NEW i \in 1..Len(p), NEW j \in 1..Len(q)
        PROVE  Precedes(p[i], q[j])
    <3>1. i \in DOMAIN (p \o q) /\ Len(p) + j \in DOMAIN (p \o q) /\ i < Len(p) + j
      BY <1>1
    <3>2. Precedes((p \o q)[i], (p \o q)[Len(p) + j])
      BY <1>2, <3>1, Zenon DEF Sorted
    <3>3. QED
      BY <1>1, <3>2
  <2>4. DOMAIN p = 1..Len(p) /\ DOMAIN q = 1..Len(q)
    OBVIOUS
  <2>5. Sorted(p) /\ Sorted(q)
    BY <2>1, <2>2, <2>4, Zenon DEF Sorted
  <2>6. Ahead(Range(p), Range(q))
    <3>1. ASSUME NEW m \in Range(p), NEW x \in Range(q)
          PROVE  Precedes(m, x)
      <4>1. PICK i \in DOMAIN p, j \in DOMAIN q : m = p[i] /\ x = q[j]
        BY DEF Range
      <4>2. QED
        BY <2>3, <2>4, <4>1
    <3>2. QED
      BY <3>1, Zenon DEF Ahead
  <2>7. QED
    BY <2>5, <2>6
<1>3. ASSUME Sorted(p), Sorted(q), Ahead(Range(p), Range(q))
      PROVE  Sorted(p \o q)
  <2>1. ASSUME NEW i \in 1..Len(p) + Len(q), NEW j \in 1..Len(p) + Len(q), i < j
        PROVE  Precedes((p \o q)[i], (p \o q)[j])
    <3>1. CASE j <= Len(p)
      <4>1. i \in 1..Len(p) /\ j \in 1..Len(p)
        BY <1>1, <2>1, <3>1
      <4>2. i \in DOMAIN p /\ j \in DOMAIN p
        BY <4>1
      <4>3. Precedes(p[i], p[j])
        BY <1>3, <2>1, <4>2, Zenon DEF Sorted
      <4>4. QED
        BY <1>1, <4>1, <4>3
    <3>2. CASE i > Len(p)
      <4>1. /\ i - Len(p) \in 1..Len(q) /\ j - Len(p) \in 1..Len(q) /\ i - Len(p) < j - Len(p)
            /\ Len(p) + (i - Len(p)) = i /\ Len(p) + (j - Len(p)) = j
        BY <1>1, <2>1, <3>2
      <4>2. i - Len(p) \in DOMAIN q /\ j - Len(p) \in DOMAIN q
        BY <4>1
      <4>3. Precedes(q[i - Len(p)], q[j - Len(p)])
        BY <1>3, <4>1, <4>2, Zenon DEF Sorted
      <4>4. (p \o q)[i] = q[i - Len(p)] /\ (p \o q)[j] = q[j - Len(p)]
        BY <1>1, <4>1
      <4>5. QED
        BY <4>3, <4>4
    <3>3. CASE i <= Len(p) /\ j > Len(p)
      <4>1. /\ i \in 1..Len(p) /\ j - Len(p) \in 1..Len(q) /\ Len(p) + (j - Len(p)) = j
        BY <1>1, <2>1, <3>3
      <4>2. i \in DOMAIN p /\ j - Len(p) \in DOMAIN q
        BY <4>1
      <4>3. p[i] \in Range(p) /\ q[j - Len(p)] \in Range(q)
        BY <4>2 DEF Range
      <4>4. Precedes(p[i], q[j - Len(p)])
        BY <1>3, <4>3, Zenon DEF Ahead
      <4>5. (p \o q)[i] = p[i] /\ (p \o q)[j] = q[j - Len(p)]
        BY <1>1, <4>1
      <4>6. QED
        BY <4>4, <4>5
    <3>4. QED
      BY <1>1, <2>1, <3>1, <3>2, <3>3
  <2>2. DOMAIN (p \o q) = 1..Len(p) + Len(q)
    BY <1>1
  <2>3. QED
    BY <2>1, <2>2, Zenon DEF Sorted
<1>4. QED
  BY <1>2, <1>3

LEMMA SplitAt ==
  ASSUME NEW S, NEW q \in Seq(S), NEW k \in 0..Len(q)
  PROVE  /\ SubSeq(q, 1, k) \in Seq(S) /\ SubSeq(q, k + 1, Len(q)) \in Seq(S)
         /\ q = SubSeq(q, 1, k) \o SubSeq(q, k + 1, Len(q))
<1>1. PICK a, b : a = SubSeq(q, 1, k) /\ b = SubSeq(q, k + 1, Len(q))
  OBVIOUS
<1>2. /\ a \in Seq(S) /\ Len(a) = k /\ \A i \in 1..k : a[i] = q[i]
      /\ b \in Seq(S) /\ Len(b) = Len(q) - k /\ \A i \in 1..Len(q) - k : b[i] = q[k + i]
  <2>1. a \in Seq(S) /\ Len(a) = k
    BY <1>1, Beginning
  <2>2. \A i \in 1..k : a[i] = q[i]
    BY <1>1
  <2>3. b \in Seq(S) /\ Len(b) = Len(q) - k
    <3>1. k \in Nat /\ k <= Len(q)
      OBVIOUS
    <3>2. QED
      BY <1>1, <3>1, Remainder
  <2>4. ASSUME NEW i \in 1..Len(q) - k
        PROVE  b[i] = q[k + i]
    <3>1. k \in Nat /\ Len(q) \in Nat /\ i \in Nat
      OBVIOUS
    <3>2. i \in 1..Len(q) - (k + 1) + 1 /\ (k + 1) + i - 1 = k + i
      BY <3>1
    <3>3. SubSeq(q, k + 1, Len(q))[i] = q[(k + 1) + i - 1]
      BY <3>1, <3>2
    <3>4. QED
      BY <1>1, <3>2, <3>3
  <2>5. QED
    BY <2>1, <2>2, <2>3, <2>4
<1>3. a \o b \in Seq(S) /\ Len(a \o b) = Len(q)
  <2>0. a \in Seq(S) /\ b \in Seq(S)
    BY <1>2
  <2>1. a \o b \in Seq(S) /\ Len(a \o b) = Len(a) + Len(b)
    BY <2>0, ConcatProperties
  <2>2. k + (Len(q) - k) = Len(q)
    OBVIOUS
  <2>3. QED
    BY <1>2, <2>1, <2>2
<1>4. ASSUME NEW i \in 1..Len(q)
      PROVE  (a \o b)[i] = q[i]
  <2>1. CASE i <= k
    <3>1. i \in 1..k /\ i \in 1..Len(a)
      BY <1>2, <2>1
    <3>2. (a \o b)[i] = a[i]
      BY <1>2, <3>1
    <3>3. QED
      BY <1>2, <3>1, <3>2
  <2>2. CASE i > k
    <3>1. i - k \in 1..Len(q) - k /\ k + (i - k) = i
      BY <2>2
    <3>2. (a \o b)[i] = b[i - k]
      BY <1>2, <2>2
    <3>3. QED
      BY <1>2, <3>1, <3>2
  <2>3. i <= k \/ i > k
    OBVIOUS
  <2>4. QED
    BY <2>1, <2>2, <2>3
<1>5. a \o b = q
  BY <1>3, <1>4, SeqEqual, Zenon
<1>6. QED
  BY <1>1, <1>2, <1>5

\* The sequences this module takes apart and joins.
LEMMA Parts ==
  ASSUME NEW S, NEW q \in Seq(S)
  PROVE  /\ q # <<>> => /\ Head(q) \in S /\ Tail(q) \in Seq(S)
                        /\ <<Head(q)>> \in Seq(S) /\ q = <<Head(q)>> \o Tail(q)
         /\ \A m \in S : <<m>> \in Seq(S) /\ Append(q, m) = q \o <<m>>
         /\ \A k \in 0..Len(q) :
                /\ SubSeq(q, 1, k) \in Seq(S) /\ SubSeq(q, k + 1, Len(q)) \in Seq(S)
                /\ q = SubSeq(q, 1, k) \o SubSeq(q, k + 1, Len(q))
         /\ <<>> \in Seq(S) /\ q \o <<>> = q /\ <<>> \o q = q
<1>1. q # <<>> => /\ Head(q) \in S /\ Tail(q) \in Seq(S)
                  /\ <<Head(q)>> \in Seq(S) /\ q = <<Head(q)>> \o Tail(q)
  OBVIOUS
<1>2. \A m \in S : <<m>> \in Seq(S) /\ Append(q, m) = q \o <<m>>
  OBVIOUS
<1>3. \A k \in 0..Len(q) :
          /\ SubSeq(q, 1, k) \in Seq(S) /\ SubSeq(q, k + 1, Len(q)) \in Seq(S)
          /\ q = SubSeq(q, 1, k) \o SubSeq(q, k + 1, Len(q))
  BY SplitAt
<1>4. <<>> \in Seq(S) /\ q \o <<>> = q /\ <<>> \o q = q
  OBVIOUS
<1>5. QED
  BY <1>1, <1>2, <1>3, <1>4

LEMMA OneSorted ==
  ASSUME NEW m
  PROVE  Sorted(<<m>>) /\ Range(<<m>>) = {m} /\ Sorted(<<>>) /\ Range(<<>>) = {}
BY DEF Sorted, Range

LEMMA RangeOne ==
  ASSUME NEW S, NEW q \in Seq(S), NEW m \in S
  PROVE  Range(q \o <<m>>) = Range(q) \cup {m} /\ Range(<<m>> \o q) = {m} \cup Range(q)
<1>1. PICK t : t = <<m>>
  OBVIOUS
<1>2. t \in Seq(S) /\ Range(t) = {m}
  BY <1>1, OneSorted
<1>3. Range(q \o t) = Range(q) \cup {m} /\ Range(t \o q) = {m} \cup Range(q)
  BY <1>2, RangeJoin
<1>4. QED
  BY <1>1, <1>3

LEMMA SortedOne ==
  ASSUME NEW S, NEW q \in Seq(S), NEW m \in S
  PROVE  /\ Sorted(q \o <<m>>) <=> Sorted(q) /\ Ahead(Range(q), {m})
         /\ Sorted(<<m>> \o q) <=> Sorted(q) /\ Ahead({m}, Range(q))
<1>1. PICK t : t = <<m>>
  OBVIOUS
<1>2. t \in Seq(S) /\ Sorted(t) /\ Range(t) = {m}
  BY <1>1, OneSorted
<1>3. Sorted(q \o t) <=> Sorted(q) /\ Sorted(t) /\ Ahead(Range(q), Range(t))
  BY <1>2, SortedJoin
<1>4. Sorted(t \o q) <=> Sorted(t) /\ Sorted(q) /\ Ahead(Range(t), Range(q))
  BY <1>2, SortedJoin
<1>5. QED
  BY <1>1, <1>2, <1>3, <1>4

LEMMA FreshJoin ==
  ASSUME NEW S, NEW p \in Seq(S), NEW q \in Seq(S), NEW D, NEW C
  PROVE  Fresh(p \o q, D, C) <=> /\ Fresh(p, D, C \cup Numbers(Range(q)))
                                 /\ Fresh(q, D \cup Numbers(Range(p)), C)
<1>1. /\ p \o q \in Seq(S) /\ Len(p \o q) = Len(p) + Len(q) /\ Len(p) \in Nat /\ Len(q) \in Nat
      /\ \A i \in 1..Len(p) : (p \o q)[i] = p[i]
      /\ \A i \in 1..Len(q) : (p \o q)[Len(p) + i] = q[i]
      /\ DOMAIN (p \o q) = 1..Len(p) + Len(q) /\ DOMAIN p = 1..Len(p) /\ DOMAIN q = 1..Len(q)
  OBVIOUS
<1>2. \A A, B : Numbers(A \cup B) = Numbers(A) \cup Numbers(B)
  BY DEF Numbers, StepsIn
<1>3. ASSUME NEW k \in 1..Len(p)
      PROVE  /\ Sooner(p \o q, k) = Sooner(p, k)
             /\ Later(p \o q, k) = Later(p, k) \cup Range(q)
  <2>1. \A h \in 1..Len(p) + Len(q) : h < k => h \in 1..Len(p)
    BY <1>1
  <2>2. \A h \in 1..Len(p) : h \in 1..Len(p) + Len(q)
    BY <1>1
  <2>3. Sooner(p \o q, k) = Sooner(p, k)
    BY <1>1, <2>1, <2>2 DEF Sooner
  <2>4. \A h \in 1..Len(p) + Len(q) : h > k => h \in 1..Len(p) \/ (h - Len(p) \in 1..Len(q) /\ Len(p) + (h - Len(p)) = h)
    BY <1>1
  <2>5. \A h \in 1..Len(q) : Len(p) + h \in 1..Len(p) + Len(q) /\ Len(p) + h > k
    BY <1>1
  <2>6. Later(p \o q, k) \subseteq Later(p, k) \cup Range(q)
    <3>1. ASSUME NEW h \in 1..Len(p) + Len(q), h > k
          PROVE  (p \o q)[h] \in Later(p, k) \cup Range(q)
      <4>1. CASE h \in 1..Len(p)
        BY <1>1, <3>1, <4>1 DEF Later
      <4>2. CASE h - Len(p) \in 1..Len(q) /\ Len(p) + (h - Len(p)) = h
        <5>1. (p \o q)[h] = q[h - Len(p)]
          BY <1>1, <4>2
        <5>2. QED
          BY <1>1, <4>2, <5>1 DEF Range
      <4>3. QED
        BY <2>4, <3>1, <4>1, <4>2
    <3>2. QED
      BY <1>1, <3>1 DEF Later
  <2>7. Later(p, k) \subseteq Later(p \o q, k)
    BY <1>1, <2>2 DEF Later
  <2>8. Range(q) \subseteq Later(p \o q, k)
    BY <1>1, <2>5 DEF Later, Range
  <2>9. QED
    BY <2>3, <2>6, <2>7, <2>8
<1>4. ASSUME NEW k \in 1..Len(q)
      PROVE  /\ Sooner(p \o q, Len(p) + k) = Range(p) \cup Sooner(q, k)
             /\ Later(p \o q, Len(p) + k) = Later(q, k)
  <2>1. \A h \in 1..Len(p) + Len(q) : h < Len(p) + k =>
            h \in 1..Len(p) \/ (h - Len(p) \in 1..Len(q) /\ Len(p) + (h - Len(p)) = h /\ h - Len(p) < k)
    BY <1>1
  <2>2. \A h \in 1..Len(p) : h \in 1..Len(p) + Len(q) /\ h < Len(p) + k
    BY <1>1
  <2>3. \A h \in 1..Len(q) : /\ Len(p) + h \in 1..Len(p) + Len(q)
                             /\ h < k => Len(p) + h < Len(p) + k
                             /\ h > k => Len(p) + h > Len(p) + k
    BY <1>1
  <2>4. \A h \in 1..Len(p) + Len(q) : h > Len(p) + k =>
            h - Len(p) \in 1..Len(q) /\ Len(p) + (h - Len(p)) = h /\ h - Len(p) > k
    BY <1>1
  <2>5. Sooner(p \o q, Len(p) + k) \subseteq Range(p) \cup Sooner(q, k)
    <3>1. ASSUME NEW h \in 1..Len(p) + Len(q), h < Len(p) + k
          PROVE  (p \o q)[h] \in Range(p) \cup Sooner(q, k)
      <4>1. CASE h \in 1..Len(p)
        BY <1>1, <4>1 DEF Range
      <4>2. CASE h - Len(p) \in 1..Len(q) /\ Len(p) + (h - Len(p)) = h /\ h - Len(p) < k
        <5>1. (p \o q)[h] = q[h - Len(p)]
          BY <1>1, <4>2
        <5>2. QED
          BY <1>1, <4>2, <5>1 DEF Sooner
      <4>3. QED
        BY <2>1, <3>1, <4>1, <4>2
    <3>2. QED
      BY <1>1, <3>1 DEF Sooner
  <2>6. Range(p) \subseteq Sooner(p \o q, Len(p) + k)
    BY <1>1, <2>2 DEF Sooner, Range
  <2>7. Sooner(q, k) \subseteq Sooner(p \o q, Len(p) + k)
    <3>1. ASSUME NEW h \in 1..Len(q), h < k
          PROVE  q[h] \in Sooner(p \o q, Len(p) + k)
      <4>1. q[h] = (p \o q)[Len(p) + h] /\ Len(p) + h \in DOMAIN (p \o q) /\ Len(p) + h < Len(p) + k
        BY <1>1, <2>3, <3>1
      <4>2. QED
        BY <4>1, Zenon DEF Sooner
    <3>2. QED
      BY <1>1, <3>1 DEF Sooner
  <2>8. Later(p \o q, Len(p) + k) \subseteq Later(q, k)
    <3>1. ASSUME NEW h \in 1..Len(p) + Len(q), h > Len(p) + k
          PROVE  (p \o q)[h] \in Later(q, k)
      <4>1. h - Len(p) \in 1..Len(q) /\ Len(p) + (h - Len(p)) = h /\ h - Len(p) > k
        BY <2>4, <3>1
      <4>2. (p \o q)[h] = q[h - Len(p)]
        BY <1>1, <4>1
      <4>3. QED
        BY <1>1, <4>1, <4>2, Zenon DEF Later
    <3>2. QED
      BY <1>1, <3>1 DEF Later
  <2>9. Later(q, k) \subseteq Later(p \o q, Len(p) + k)
    <3>1. ASSUME NEW h \in 1..Len(q), h > k
          PROVE  q[h] \in Later(p \o q, Len(p) + k)
      <4>1. q[h] = (p \o q)[Len(p) + h] /\ Len(p) + h \in DOMAIN (p \o q) /\ Len(p) + h > Len(p) + k
        BY <1>1, <2>3, <3>1
      <4>2. QED
        BY <4>1, Zenon DEF Later
    <3>2. QED
      BY <1>1, <3>1 DEF Later
  <2>10. QED
    BY <2>5, <2>6, <2>7, <2>8, <2>9
<1>5. ASSUME Fresh(p \o q, D, C)
      PROVE  Fresh(p, D, C \cup Numbers(Range(q))) /\ Fresh(q, D \cup Numbers(Range(p)), C)
  <2>1. ASSUME NEW k \in 1..Len(p), p[k] = Open
        PROVE  Older(D \cup Numbers(Sooner(p, k)), (C \cup Numbers(Range(q))) \cup Numbers(Later(p, k)))
    <3>1. k \in DOMAIN (p \o q) /\ (p \o q)[k] = Open
      BY <1>1, <2>1
    <3>2. Older(D \cup Numbers(Sooner(p \o q, k)), C \cup Numbers(Later(p \o q, k)))
      BY <1>5, <3>1, Zenon DEF Fresh
    <3>3. QED
      BY <1>2, <1>3, <3>2 DEF Older
  <2>2. ASSUME NEW k \in 1..Len(q), q[k] = Open
        PROVE  Older((D \cup Numbers(Range(p))) \cup Numbers(Sooner(q, k)), C \cup Numbers(Later(q, k)))
    <3>1. Len(p) + k \in DOMAIN (p \o q) /\ (p \o q)[Len(p) + k] = Open
      BY <1>1, <2>2
    <3>2. Older(D \cup Numbers(Sooner(p \o q, Len(p) + k)), C \cup Numbers(Later(p \o q, Len(p) + k)))
      BY <1>5, <3>1, Zenon DEF Fresh
    <3>3. Numbers(Range(p) \cup Sooner(q, k)) = Numbers(Range(p)) \cup Numbers(Sooner(q, k))
      BY <1>2, Zenon
    <3>4. Older(D \cup (Numbers(Range(p)) \cup Numbers(Sooner(q, k))), C \cup Numbers(Later(q, k)))
      BY <1>4, <3>2, <3>3
    <3>5. QED
      BY <3>4 DEF Older
  <2>3. QED
    BY <1>1, <2>1, <2>2, Zenon DEF Fresh
<1>6. ASSUME Fresh(p, D, C \cup Numbers(Range(q))), Fresh(q, D \cup Numbers(Range(p)), C)
      PROVE  Fresh(p \o q, D, C)
  <2>1. ASSUME NEW h \in 1..Len(p) + Len(q), (p \o q)[h] = Open
        PROVE  Older(D \cup Numbers(Sooner(p \o q, h)), C \cup Numbers(Later(p \o q, h)))
    <3>1. CASE h \in 1..Len(p)
      <4>1. Older(D \cup Numbers(Sooner(p, h)), (C \cup Numbers(Range(q))) \cup Numbers(Later(p, h)))
        BY <1>1, <1>6, <2>1, <3>1 DEF Fresh
      <4>2. QED
        BY <1>2, <1>3, <3>1, <4>1 DEF Older
    <3>2. CASE h > Len(p)
      <4>1. PICK k \in 1..Len(q) : h = Len(p) + k
        <5>1. h - Len(p) \in 1..Len(q) /\ h = Len(p) + (h - Len(p))
          BY <1>1, <3>2
        <5>2. QED
          BY <5>1
      <4>2. k \in DOMAIN q /\ q[k] = Open
        BY <1>1, <2>1, <4>1
      <4>3. Older((D \cup Numbers(Range(p))) \cup Numbers(Sooner(q, k)), C \cup Numbers(Later(q, k)))
        BY <1>6, <4>2, Zenon DEF Fresh
      <4>4. Numbers(Range(p) \cup Sooner(q, k)) = Numbers(Range(p)) \cup Numbers(Sooner(q, k))
        BY <1>2, Zenon
      <4>5. Older(D \cup (Numbers(Range(p)) \cup Numbers(Sooner(q, k))), C \cup Numbers(Later(q, k)))
        BY <4>3 DEF Older
      <4>6. QED
        BY <1>4, <4>1, <4>4, <4>5
    <3>3. QED
      BY <1>1, <3>1, <3>2
  <2>2. QED
    BY <1>1, <2>1, Zenon DEF Fresh
<1>7. QED
  BY <1>5, <1>6

LEMMA FreshOne ==
  ASSUME NEW m, NEW D, NEW C
  PROVE  /\ Fresh(<<m>>, D, C) <=> (m = Open => Older(D, C))
         /\ Fresh(<<>>, D, C)
<1>1. Sooner(<<m>>, 1) = {} /\ Later(<<m>>, 1) = {}
  BY DEF Sooner, Later
<1>2. Numbers({}) = {}
  BY DEF Numbers, StepsIn
<1>3. DOMAIN <<m>> = {1} /\ <<m>>[1] = m
  OBVIOUS
<1>4. Fresh(<<m>>, D, C) <=> (m = Open => Older(D, C))
  BY <1>1, <1>2, <1>3 DEF Fresh
<1>5. Fresh(<<>>, D, C)
  BY DEF Fresh
<1>6. QED
  BY <1>4, <1>5

-----------------------------------------------------------------------------
(***************************************************************************)
(* What is under way from one side to the other: x is what the other side  *)
(* has still to hear, p and c are the two queues of this side, g is what   *)
(* has come of long texts, o says that the channel is open and n is the    *)
(* number of the last text.                                                *)
(***************************************************************************)

Flow(x, c, o) == StepsIn(Range(x)) \cup (IF o THEN StepsIn(Range(c)) ELSE {})

\* No step is missing between two of a text.
Gapless(F) ==
    \A m \in F : m.n > 0 =>
        \/ Step(m.item, m.n - 1) \in F
        \/ \A x \in F : x.item.id = m.item.id => m.n <= x.n

\* Nor between what has come of it and what is to come.
Meets(F, g) ==
    \A m \in F : m.item.id \in DOMAIN g =>
        /\ m.n > Len(g[m.item.id])
        /\ m.n = Len(g[m.item.id]) + 1 \/ Step(m.item, m.n - 1) \in F

Numbered(A, n) == \A m \in A : m.type \in {"inline", "step"} => m.item.id <= n

WayOK(x, p, c, g, o, n) ==
    /\ Sorted(x) /\ Sorted(p) /\ Sorted(c)
    /\ Ahead(Range(x), Range(p)) /\ Ahead(Range(x), Range(c))
    /\ Gapless(Flow(x, c, o)) /\ Gapless(StepsIn(Range(c))) /\ Meets(Flow(x, c, o), g)
    /\ Fresh(x, DOMAIN g, Numbers(Range(c)))
    /\ Numbered(Range(x), n) /\ Numbered(Range(p), n) /\ Numbered(Range(c), n)
    /\ \A d \in DOMAIN g : d \in Nat /\ d <= n

WayTypes(x, p, c, g, n) ==
    /\ x \in Seq(Messages) /\ p \in Seq(ControlMessages) /\ c \in Seq(StepMessages)
    /\ n \in Nat
    /\ \A d \in DOMAIN g : Len(g[d]) \in Nat

LEMMA StepParts ==
  ASSUME NEW m \in StepMessages
  PROVE  /\ m.type = "step" /\ m.item \in Items /\ m.item.id \in Nat /\ m.item.id > 0
         /\ m.n \in Nat /\ m.n <= Chunks + 1
         /\ m = Step(m.item, m.n)
         /\ m.n > 0 => /\ Step(m.item, m.n - 1).item = m.item
                       /\ Step(m.item, m.n - 1).n = m.n - 1
                       /\ m.n - 1 \in Nat
BY LimitsAreNumbers DEF StepMessages, Items, Step

LEMMA StepsAreSteps ==
  /\ StepMessages \subseteq Messages /\ ControlMessages \subseteq Messages
  /\ \A A \in SUBSET Messages : StepsIn(A) \subseteq StepMessages
  /\ \A A \in SUBSET StepMessages : StepsIn(A) = A
  /\ \A A \in SUBSET ControlMessages : StepsIn(A) = {} /\ Numbers(A) = {}
  /\ \A A, B : StepsIn(A \cup B) = StepsIn(A) \cup StepsIn(B)
  /\ \A A, B : Numbers(A \cup B) = Numbers(A) \cup Numbers(B)
  /\ StepsIn({}) = {} /\ Numbers({}) = {}
<1>1. StepMessages \subseteq Messages /\ ControlMessages \subseteq Messages
  BY DEF Messages
<1>2. \A m \in ControlMessages : m.type # "step"
  BY DEF ControlMessages, Result, Capabilities, Request
<1>3. \A m \in StepMessages : m.type = "step"
  BY DEF StepMessages
<1>4. Open.type # "step" /\ Closed.type # "step"
  BY DEF Open, Closed
<1>5. \A m \in Messages : m.type = "step" => m \in StepMessages
  BY <1>2, <1>4 DEF Messages
<1>6. QED
  BY <1>1, <1>2, <1>3, <1>5 DEF StepsIn, Numbers

LEMMA RangeType ==
  ASSUME NEW S, NEW q \in Seq(S)
  PROVE  Range(q) \in SUBSET S
<1>1. \A i \in DOMAIN q : q[i] \in S
  OBVIOUS
<1>2. QED
  BY <1>1 DEF Range

LEMMA FlowType ==
  ASSUME NEW x \in Seq(Messages), NEW c \in Seq(StepMessages), NEW o
  PROVE  Flow(x, c, o) \in SUBSET StepMessages
<1>1. Range(x) \in SUBSET Messages /\ Range(c) \in SUBSET StepMessages
  BY RangeType
<1>2. QED
  BY <1>1, StepsAreSteps DEF Flow

\* A part of a flow that has all that precedes what it has.
Lower(E, F) ==
    /\ E \subseteq F
    /\ \A m \in E, x \in F : x.item.id = m.item.id /\ x.n <= m.n => x \in E

LEMMA LowerKeeps ==
  ASSUME NEW F \in SUBSET StepMessages, NEW E, Lower(E, F), NEW g
  PROVE  /\ Gapless(F) => Gapless(E)
         /\ Meets(F, g) => Meets(E, g)
<1>1. ASSUME NEW m \in E
      PROVE  m.n > 0 /\ Step(m.item, m.n - 1) \in F => Step(m.item, m.n - 1) \in E
  <2>1. m \in F /\ m \in StepMessages
    BY DEF Lower
  <2>2. PICK y : y = Step(m.item, m.n - 1)
    OBVIOUS
  <2>3. m.n > 0 => y.item.id = m.item.id /\ y.n <= m.n
    BY <2>1, <2>2, StepParts
  <2>4. QED
    BY <2>2, <2>3 DEF Lower
<1>2. ASSUME Gapless(F)
      PROVE  Gapless(E)
  <2>1. ASSUME NEW m \in E, m.n > 0
        PROVE  \/ Step(m.item, m.n - 1) \in E
               \/ \A x \in E : x.item.id = m.item.id => m.n <= x.n
    BY <1>1, <1>2, <2>1, Zenon DEF Gapless, Lower
  <2>2. QED
    BY <2>1, Zenon DEF Gapless
<1>3. ASSUME Meets(F, g)
      PROVE  Meets(E, g)
  <2>1. ASSUME NEW m \in E, m.item.id \in DOMAIN g
        PROVE  /\ m.n > Len(g[m.item.id])
               /\ m.n = Len(g[m.item.id]) + 1 \/ Step(m.item, m.n - 1) \in E
    <3>1. m \in F /\ m \in StepMessages
      BY DEF Lower
    <3>2. /\ m.n > Len(g[m.item.id])
          /\ m.n = Len(g[m.item.id]) + 1 \/ Step(m.item, m.n - 1) \in F
      BY <1>3, <2>1, <3>1, Zenon DEF Meets
    <3>3. m.n = 0 \/ m.n > 0
      BY <3>1, StepParts
    <3>4. CASE m.n > 0
      BY <1>1, <3>2, <3>4
    <3>5. CASE m.n = 0
      <4>1. Step(m.item, 0 - 1) \notin StepMessages
        BY LimitsAreNumbers DEF Step, StepMessages
      <4>2. QED
        BY <3>2, <3>5, <4>1
    <3>6. QED
      BY <3>3, <3>4, <3>5
  <2>2. QED
    BY <2>1, Zenon DEF Meets
<1>4. QED
  BY <1>2, <1>3

LEMMA PrecedingSteps ==
  ASSUME NEW m \in StepMessages, NEW x \in StepMessages, Precedes(m, x)
  PROVE  /\ m.item.id <= x.item.id
         /\ m.item.id = x.item.id => m.item = x.item /\ m.n < x.n /\ ~(x.n <= m.n)
         /\ m # x
BY StepParts DEF Precedes

LEMMA AheadLower ==
  ASSUME NEW A \in SUBSET Messages, NEW B \in SUBSET Messages, Ahead(A, B),
         NEW F, F \subseteq StepsIn(A \cup B), StepsIn(A) \subseteq F
  PROVE  Lower(StepsIn(A), F)
<1>1. ASSUME NEW m \in StepsIn(A), NEW x \in F, x.item.id = m.item.id, x.n <= m.n
      PROVE  x \in StepsIn(A)
  <2>1. x \in StepsIn(A) \/ x \in StepsIn(B)
    BY StepsAreSteps
  <2>2. CASE x \in StepsIn(B)
    <3>1. m \in A /\ x \in B /\ m \in StepMessages /\ x \in StepMessages
      BY <2>2, StepsAreSteps DEF StepsIn
    <3>2. Precedes(m, x)
      BY <3>1 DEF Ahead
    <3>3. QED
      BY <1>1, <3>1, <3>2, PrecedingSteps
  <2>3. QED
    BY <2>1, <2>2
<1>2. QED
  BY <1>1, Zenon DEF Lower

LEMMA AheadParts ==
  /\ \A A, B, C : Ahead(A \cup B, C) <=> Ahead(A, C) /\ Ahead(B, C)
  /\ \A A, B, C : Ahead(A, B \cup C) <=> Ahead(A, B) /\ Ahead(A, C)
  /\ \A A : Ahead(A, {}) /\ Ahead({}, A)
BY DEF Ahead

LEMMA NumberedParts ==
  /\ \A A, B, n : Numbered(A \cup B, n) <=> Numbered(A, n) /\ Numbered(B, n)
  /\ \A n : Numbered({}, n)
BY DEF Numbered

LEMMA FreshLess ==
  ASSUME NEW q, NEW D, NEW C, Fresh(q, D, C), NEW A, A \subseteq D, NEW B, B \subseteq C
  PROVE  Fresh(q, A, B)
BY DEF Fresh, Older

\* Texts that expire or are given up by the side that hears them.
LEMMA WayForgets ==
  ASSUME NEW x, NEW p, NEW c, NEW g, NEW o, NEW n, WayOK(x, p, c, g, o, n),
         NEW h, DOMAIN h \subseteq DOMAIN g, \A d \in DOMAIN h : h[d] = g[d]
  PROVE  WayOK(x, p, c, h, o, n)
<1>1. Fresh(x, DOMAIN h, Numbers(Range(c)))
  BY FreshLess DEF WayOK
<1>2. Meets(Flow(x, c, o), h)
  <2>1. Meets(Flow(x, c, o), g)
    BY DEF WayOK
  <2>2. \A d \in DOMAIN h : d \in DOMAIN g /\ Len(h[d]) = Len(g[d])
    OBVIOUS
  <2>3. ASSUME NEW m \in Flow(x, c, o), m.item.id \in DOMAIN h
        PROVE  /\ m.n > Len(h[m.item.id])
               /\ m.n = Len(h[m.item.id]) + 1 \/ Step(m.item, m.n - 1) \in Flow(x, c, o)
    <3>1. m.item.id \in DOMAIN g /\ Len(h[m.item.id]) = Len(g[m.item.id])
      BY <2>2, <2>3
    <3>2. /\ m.n > Len(g[m.item.id])
          /\ m.n = Len(g[m.item.id]) + 1 \/ Step(m.item, m.n - 1) \in Flow(x, c, o)
      BY <2>1, <3>1, Zenon DEF Meets
    <3>3. QED
      BY <3>1, <3>2
  <2>4. QED
    BY <2>3, Zenon DEF Meets
<1>3. \A d \in DOMAIN h : d \in Nat /\ d <= n
  BY DEF WayOK
<1>4. QED
  BY <1>1, <1>2, <1>3, Zenon DEF WayOK

LEMMA WayLater ==
  ASSUME NEW x, NEW p, NEW c, NEW g, NEW o, NEW n, WayOK(x, p, c, g, o, n),
         WayTypes(x, p, c, g, n), NEW k \in Nat, n <= k
  PROVE  WayOK(x, p, c, g, o, k)
<1>1. n \in Nat /\ Range(x) \in SUBSET Messages /\ Range(p) \in SUBSET Messages
      /\ Range(c) \in SUBSET Messages
  BY RangeType, StepsAreSteps DEF WayTypes
<1>2. \A m \in Messages : m.type \in {"inline", "step"} => m.item.id \in Nat
  BY DEF Messages, ControlMessages, StepMessages, Items, Open, Closed, Result, Capabilities, Request
<1>3. \A A \in SUBSET Messages : Numbered(A, n) => Numbered(A, k)
  BY <1>1, <1>2 DEF Numbered
<1>4. Numbered(Range(x), k) /\ Numbered(Range(p), k) /\ Numbered(Range(c), k)
  BY <1>1, <1>3 DEF WayOK
<1>5. \A d \in DOMAIN g : d \in Nat /\ d <= k
  BY <1>1 DEF WayOK
<1>6. QED
  BY <1>4, <1>5, Zenon DEF WayOK

\* A part of what is under way, of which the side that hears hears no more.
LEMMA WayCut ==
  ASSUME NEW a \in Seq(Messages), NEW b \in Seq(Messages), NEW p, NEW c, NEW g, NEW o, NEW n,
         WayOK(a \o b, p, c, g, o, n), WayTypes(a \o b, p, c, g, n)
  PROVE  WayOK(a, p, c, g, FALSE, n)
<1>1. Range(a \o b) = Range(a) \cup Range(b)
  BY RangeJoin
<1>2. Range(a) \in SUBSET Messages /\ Range(b) \in SUBSET Messages /\ Range(c) \in SUBSET Messages
  BY RangeType, StepsAreSteps DEF WayTypes
<1>3. Sorted(a) /\ Ahead(Range(a), Range(b))
  <2>1. Sorted(a \o b)
    BY DEF WayOK
  <2>2. QED
    BY <2>1, SortedJoin
<1>4. Ahead(Range(a), Range(p)) /\ Ahead(Range(a), Range(c))
  <2>1. Ahead(Range(a) \cup Range(b), Range(p)) /\ Ahead(Range(a) \cup Range(b), Range(c))
    BY <1>1 DEF WayOK
  <2>2. QED
    BY <2>1, AheadParts, Zenon
<1>5. Ahead(Range(a), Range(b) \cup Range(c))
  BY <1>3, <1>4, AheadParts, Zenon
<1>6. PICK F : F = Flow(a \o b, c, o)
  OBVIOUS
<1>7. F \in SUBSET StepMessages /\ Gapless(F) /\ Meets(F, g)
  BY <1>6, FlowType DEF WayOK, WayTypes
<1>8. Lower(StepsIn(Range(a)), F)
  <2>1. F \subseteq StepsIn(Range(a) \cup (Range(b) \cup Range(c)))
    BY <1>1, <1>6, StepsAreSteps DEF Flow
  <2>2. StepsIn(Range(a)) \subseteq F
    BY <1>1, <1>6, StepsAreSteps DEF Flow
  <2>3. Range(b) \cup Range(c) \in SUBSET Messages
    BY <1>2
  <2>4. QED
    BY <1>2, <1>5, <2>1, <2>2, <2>3, AheadLower
<1>9. Gapless(StepsIn(Range(a))) /\ Meets(StepsIn(Range(a)), g)
  BY <1>7, <1>8, LowerKeeps
<1>10. Flow(a, c, FALSE) = StepsIn(Range(a))
  BY DEF Flow
<1>11. Fresh(a, DOMAIN g, Numbers(Range(c)))
  <2>1. Fresh(a \o b, DOMAIN g, Numbers(Range(c)))
    BY DEF WayOK
  <2>2. Fresh(a, DOMAIN g, Numbers(Range(c)) \cup Numbers(Range(b)))
    BY <2>1, FreshJoin
  <2>3. QED
    BY <2>2, FreshLess
<1>12. Numbered(Range(a), n)
  <2>1. Numbered(Range(a) \cup Range(b), n)
    BY <1>1 DEF WayOK
  <2>2. QED
    BY <2>1, NumberedParts, Zenon
<1>13. QED
  BY <1>3, <1>4, <1>9, <1>10, <1>11, <1>12, Zenon DEF WayOK

\* The channel closes or opens behind what is under way.
LEMMA WayMarked ==
  ASSUME NEW x, NEW p, NEW c, NEW g, NEW o, NEW n,
         WayOK(x, p, c, g, o, n), WayTypes(x, p, c, g, n), NEW m \in {Open, Closed},
         m = Open => c = <<>>
  PROVE  WayOK(x \o <<m>>, p, c, g, o, n)
<1>1. x \in Seq(Messages) /\ <<m>> \in Seq(Messages) /\ Range(x \o <<m>>) = Range(x) \cup {m}
  <2>1. x \in Seq(Messages) /\ <<m>> \in Seq(Messages)
    BY DEF WayTypes, Messages
  <2>2. PICK t : t = m
    OBVIOUS
  <2>3. t \in Messages
    BY <2>2 DEF Messages
  <2>4. Range(x \o <<t>>) = Range(x) \cup {t}
    BY <2>1, <2>3, RangeOne
  <2>5. QED
    BY <2>1, <2>2, <2>4
<1>2. m.type \notin {"inline", "step"} /\ StepsIn({m}) = {} /\ Numbers({m}) = {}
  BY DEF StepsIn, Numbers, Open, Closed
<1>3. \A A : Ahead(A, {m}) /\ Ahead({m}, A)
  BY <1>2 DEF Ahead, Precedes
<1>4. Sorted(x \o <<m>>)
  <2>1. m \in Messages /\ Sorted(x) /\ Ahead(Range(x), {m})
    BY <1>3 DEF Messages, WayOK
  <2>2. QED
    BY <1>1, <2>1, SortedOne
<1>5. Ahead(Range(x \o <<m>>), Range(p)) /\ Ahead(Range(x \o <<m>>), Range(c))
  BY <1>1, <1>3, AheadParts, Zenon DEF WayOK
<1>6. Flow(x \o <<m>>, c, o) = Flow(x, c, o)
  <2>1. StepsIn(Range(x) \cup {m}) = StepsIn(Range(x)) \cup StepsIn({m})
    BY StepsAreSteps, Zenon
  <2>2. StepsIn(Range(x \o <<m>>)) = StepsIn(Range(x))
    BY <1>1, <1>2, <2>1
  <2>3. QED
    BY <2>2, Zenon DEF Flow
<1>7. Numbered(Range(x \o <<m>>), n)
  <2>1. Numbered({m}, n)
    BY <1>2 DEF Numbered
  <2>2. QED
    BY <1>1, <2>1, NumberedParts, Zenon DEF WayOK
<1>8. Fresh(x \o <<m>>, DOMAIN g, Numbers(Range(c)))
  <2>1. Fresh(x, DOMAIN g, Numbers(Range(c)) \cup Numbers(Range(<<m>>)))
    <3>1. Numbers(Range(<<m>>)) = {}
      BY <1>2, OneSorted
    <3>2. QED
      BY <3>1, FreshLess DEF WayOK
  <2>2. Fresh(<<m>>, DOMAIN g \cup Numbers(Range(x)), Numbers(Range(c)))
    <3>1. m = Open => Numbers(Range(c)) = {}
      BY OneSorted, StepsAreSteps
    <3>2. m = Open => Older(DOMAIN g \cup Numbers(Range(x)), Numbers(Range(c)))
      BY <3>1 DEF Older
    <3>3. QED
      BY <3>2, FreshOne
  <2>3. QED
    BY <1>1, <2>1, <2>2, FreshJoin
<1>9. QED
  BY <1>4, <1>5, <1>6, <1>7, <1>8, Zenon DEF WayOK

\* The end of the control queue is dropped.
LEMMA WayShorter ==
  ASSUME NEW x, NEW a \in Seq(ControlMessages), NEW b \in Seq(ControlMessages), NEW c, NEW g,
         NEW o, NEW n, WayOK(x, a \o b, c, g, o, n)
  PROVE  WayOK(x, a, c, g, o, n)
<1>1. Range(a \o b) = Range(a) \cup Range(b)
  BY RangeJoin
<1>2. Sorted(a)
  <2>1. Sorted(a \o b)
    BY DEF WayOK
  <2>2. QED
    BY <2>1, SortedJoin
<1>3. Ahead(Range(x), Range(a)) /\ Numbered(Range(a), n)
  <2>1. Ahead(Range(x), Range(a) \cup Range(b)) /\ Numbered(Range(a) \cup Range(b), n)
    BY <1>1 DEF WayOK
  <2>2. QED
    BY <2>1, AheadParts, NumberedParts, Zenon
<1>4. QED
  BY <1>2, <1>3, Zenon DEF WayOK

\* The queue of chunks fails.
LEMMA WayFails ==
  ASSUME NEW x, NEW p, NEW c, NEW g, NEW o, NEW n,
         WayOK(x, p, c, g, o, n), WayTypes(x, p, c, g, n)
  PROVE  /\ WayOK(x, p, <<>>, g, TRUE, n) /\ WayOK(x, p, <<>>, g, FALSE, n)
<1>1. x \in Seq(Messages) /\ <<>> \in Seq(Messages) /\ x \o <<>> = x
  BY Parts DEF WayTypes
<1>2. WayOK(x, p, c, g, FALSE, n)
  BY <1>1, WayCut
<1>3. Range(<<>>) = {} /\ Sorted(<<>>) /\ StepsIn({}) = {} /\ Numbers({}) = {}
  BY OneSorted, StepsAreSteps
<1>4. Flow(x, <<>>, TRUE) = Flow(x, c, FALSE) /\ Flow(x, <<>>, FALSE) = Flow(x, c, FALSE)
  BY <1>3 DEF Flow
<1>5. Gapless({}) /\ Ahead(Range(x), {}) /\ Numbered({}, n)
  BY AheadParts, NumberedParts DEF Gapless
<1>6. Fresh(x, DOMAIN g, {})
  BY <1>2, FreshLess DEF WayOK
<1>7. QED
  BY <1>2, <1>3, <1>4, <1>5, <1>6, Zenon DEF WayOK

\* A message that is no step is heard.
LEMMA WayHeard ==
  ASSUME NEW x, NEW p, NEW c, NEW g, NEW o, NEW n,
         WayOK(x, p, c, g, o, n), WayTypes(x, p, c, g, n), x # <<>>, Head(x).type # "step"
  PROVE  WayOK(Tail(x), p, c, g, o, n)
<1>1. PICK h, t : h = Head(x) /\ t = Tail(x)
  OBVIOUS
<1>2. /\ t \in Seq(Messages) /\ <<h>> \in Seq(Messages) /\ x = <<h>> \o t
      /\ Range(x) = {h} \cup Range(t)
  <2>1. x \in Seq(Messages)
    BY DEF WayTypes
  <2>2. t \in Seq(Messages) /\ <<h>> \in Seq(Messages) /\ x = <<h>> \o t
    BY <1>1, <2>1, Parts
  <2>3. h \in Messages
    BY <1>1, <2>1, Parts
  <2>4. QED
    BY <2>2, <2>3, RangeOne
<1>3. Sorted(t)
  <2>1. Sorted(<<h>> \o t)
    BY <1>2 DEF WayOK
  <2>2. QED
    BY <1>2, <2>1, SortedJoin
<1>4. Ahead(Range(t), Range(p)) /\ Ahead(Range(t), Range(c)) /\ Numbered(Range(t), n)
  <2>1. /\ Ahead({h} \cup Range(t), Range(p)) /\ Ahead({h} \cup Range(t), Range(c))
        /\ Numbered({h} \cup Range(t), n)
    BY <1>2 DEF WayOK
  <2>2. QED
    BY <2>1, AheadParts, NumberedParts, Zenon
<1>5. Flow(t, c, o) = Flow(x, c, o)
  <2>1. StepsIn({h}) = {}
    BY <1>1 DEF StepsIn
  <2>2. StepsIn(Range(x)) = StepsIn({h}) \cup StepsIn(Range(t))
    BY <1>2, StepsAreSteps
  <2>3. QED
    BY <2>1, <2>2 DEF Flow
<1>6. Fresh(t, DOMAIN g, Numbers(Range(c)))
  <2>1. Fresh(<<h>> \o t, DOMAIN g, Numbers(Range(c)))
    BY <1>2 DEF WayOK
  <2>2. Fresh(t, DOMAIN g \cup Numbers(Range(<<h>>)), Numbers(Range(c)))
    BY <1>2, <2>1, FreshJoin
  <2>3. QED
    BY <2>2, FreshLess
<1>7. WayOK(t, p, c, g, o, n)
  BY <1>3, <1>4, <1>5, <1>6, Zenon DEF WayOK
<1>8. QED
  BY <1>1, <1>7

\* A control message is put behind the ones that wait.
LEMMA WayPosts ==
  ASSUME NEW x, NEW p, NEW c, NEW g, NEW o, NEW n,
         WayOK(x, p, c, g, o, n), WayTypes(x, p, c, g, n), NEW m \in ControlMessages,
         NEW k \in Nat, n <= k, m.type = "inline" => n < m.item.id /\ m.item.id <= k
  PROVE  WayOK(x, p \o <<m>>, c, g, o, k)
<1>1. WayOK(x, p, c, g, o, k)
  BY WayLater
<1>2. /\ p \in Seq(ControlMessages) /\ <<m>> \in Seq(ControlMessages)
      /\ Range(p \o <<m>>) = Range(p) \cup {m}
  <2>1. p \in Seq(ControlMessages) /\ <<m>> \in Seq(ControlMessages)
    BY DEF WayTypes
  <2>2. PICK t : t = m
    OBVIOUS
  <2>3. t \in ControlMessages
    BY <2>2
  <2>4. Range(p \o <<t>>) = Range(p) \cup {t}
    BY <2>1, <2>3, RangeOne
  <2>5. QED
    BY <2>1, <2>2, <2>4
<1>3. m.type # "step" /\ (m.type = "inline" => m.item.id \in Nat)
  BY DEF ControlMessages, Items, Result, Capabilities, Request
<1>4. ASSUME NEW A \in SUBSET Messages, Numbered(A, n)
      PROVE  Ahead(A, {m})
  <2>1. \A a \in A : a.type = "inline" => a.item.id \in Nat /\ a.item.id <= n
    BY <1>4 DEF Numbered, Messages, ControlMessages, StepMessages, Items, Open, Closed, Result,
                Capabilities, Request
  <2>2. n \in Nat
    BY DEF WayTypes
  <2>3. QED
    BY <1>3, <2>1, <2>2 DEF Ahead, Precedes
<1>5. Ahead(Range(x), {m}) /\ Ahead(Range(p), {m})
  <2>1. Range(x) \in SUBSET Messages /\ Range(p) \in SUBSET Messages
    BY RangeType, StepsAreSteps DEF WayTypes
  <2>2. Numbered(Range(x), n) /\ Numbered(Range(p), n)
    BY DEF WayOK
  <2>3. QED
    BY <1>4, <2>1, <2>2
<1>6. Sorted(p \o <<m>>)
  BY <1>2, <1>5, SortedOne DEF WayOK
<1>7. Ahead(Range(x), Range(p \o <<m>>))
  BY <1>2, <1>5, AheadParts, Zenon DEF WayOK
<1>8. Numbered(Range(p \o <<m>>), k)
  <2>1. Numbered({m}, k)
    BY <1>3 DEF Numbered
  <2>2. QED
    BY <1>1, <1>2, <2>1, NumberedParts, Zenon DEF WayOK
<1>9. QED
  BY <1>1, <1>6, <1>7, <1>8, Zenon DEF WayOK

LEMMA ControlAndSteps ==
  ASSUME NEW A \in SUBSET ControlMessages, NEW B \in SUBSET StepMessages
  PROVE  /\ Ahead(A, B) /\ Ahead(B, A)
         /\ \A m \in A : m.type # "step" /\ m # Open
         /\ \A m \in B : m.type = "step" /\ m # Open
<1>1. \A m \in A : m.type # "step" /\ m.type # "open"
  BY DEF ControlMessages, Result, Capabilities, Request
<1>2. \A m \in B : m.type = "step"
  BY DEF StepMessages
<1>3. Ahead(A, B) /\ Ahead(B, A)
  BY <1>1, <1>2 DEF Ahead, Precedes
<1>4. QED
  BY <1>1, <1>2, <1>3 DEF Open

LEMMA FreshWithoutOpen ==
  ASSUME NEW S, NEW q \in Seq(S), Open \notin Range(q), NEW D, NEW C
  PROVE  Fresh(q, D, C)
BY DEF Range, Fresh

\* What waits in the control queue is sent.
LEMMA WayMoves ==
  ASSUME NEW x, NEW a \in Seq(ControlMessages), NEW b \in Seq(ControlMessages), NEW c, NEW g,
         NEW o, NEW n, WayOK(x, a \o b, c, g, o, n), WayTypes(x, a \o b, c, g, n)
  PROVE  WayOK(x \o a, b, c, g, o, n)
<1>1. x \in Seq(Messages) /\ a \in Seq(Messages) /\ c \in Seq(StepMessages)
  BY StepsAreSteps, Wider DEF WayTypes
<1>2. Range(x \o a) = Range(x) \cup Range(a) /\ Range(a \o b) = Range(a) \cup Range(b)
  BY <1>1, RangeJoin
<1>3. Range(a) \in SUBSET ControlMessages /\ Range(c) \in SUBSET StepMessages
  BY <1>1, RangeType
<1>4. /\ Ahead(Range(a), Range(c)) /\ Open \notin Range(a) /\ StepsIn(Range(a)) = {}
      /\ Numbers(Range(a)) = {}
  BY <1>3, ControlAndSteps, StepsAreSteps
<1>5. Sorted(x) /\ Sorted(a) /\ Sorted(b) /\ Ahead(Range(a), Range(b))
  <2>1. Sorted(a \o b)
    BY DEF WayOK
  <2>2. QED
    BY <2>1, SortedJoin DEF WayOK
<1>6. Ahead(Range(x), Range(a)) /\ Ahead(Range(x), Range(b))
  <2>1. Ahead(Range(x), Range(a) \cup Range(b))
    BY <1>2 DEF WayOK
  <2>2. QED
    BY <2>1, AheadParts, Zenon
<1>7. Sorted(x \o a)
  BY <1>1, <1>5, <1>6, SortedJoin
<1>8. Ahead(Range(x \o a), Range(b)) /\ Ahead(Range(x \o a), Range(c))
  <2>1. Ahead(Range(x), Range(c))
    BY DEF WayOK
  <2>2. /\ Ahead(Range(x) \cup Range(a), Range(b)) /\ Ahead(Range(x) \cup Range(a), Range(c))
    BY <1>4, <1>5, <1>6, <2>1, AheadParts, Zenon
  <2>3. QED
    BY <1>2, <2>2
<1>9. Flow(x \o a, c, o) = Flow(x, c, o)
  <2>1. StepsIn(Range(x \o a)) = StepsIn(Range(x)) \cup StepsIn(Range(a))
    BY <1>2, StepsAreSteps
  <2>2. QED
    BY <1>4, <2>1 DEF Flow
<1>10. Fresh(x \o a, DOMAIN g, Numbers(Range(c)))
  <2>1. Fresh(x, DOMAIN g, Numbers(Range(c)) \cup Numbers(Range(a)))
    BY <1>4, FreshLess DEF WayOK
  <2>2. Fresh(a, DOMAIN g \cup Numbers(Range(x)), Numbers(Range(c)))
    BY <1>1, <1>4, FreshWithoutOpen
  <2>3. QED
    BY <1>1, <2>1, <2>2, FreshJoin
<1>11. Numbered(Range(x \o a), n) /\ Numbered(Range(b), n)
  <2>1. Numbered(Range(a) \cup Range(b), n) /\ Numbered(Range(x), n)
    BY <1>2 DEF WayOK
  <2>2. Numbered(Range(a), n) /\ Numbered(Range(b), n)
    BY <2>1, NumberedParts, Zenon
  <2>3. Numbered(Range(x) \cup Range(a), n)
    BY <2>1, <2>2, NumberedParts, Zenon
  <2>4. QED
    BY <1>2, <2>2, <2>3
<1>12. QED
  BY <1>5, <1>7, <1>8, <1>9, <1>10, <1>11, Zenon DEF WayOK

\* Chunks are sent.
LEMMA WayShifts ==
  ASSUME NEW x, NEW a \in Seq(StepMessages), NEW b \in Seq(StepMessages), NEW p, NEW g,
         NEW n, WayOK(x, p, a \o b, g, TRUE, n), WayTypes(x, p, a \o b, g, n)
  PROVE  WayOK(x \o a, p, b, g, TRUE, n)
<1>1. x \in Seq(Messages) /\ a \in Seq(Messages) /\ p \in Seq(ControlMessages)
  BY StepsAreSteps, Wider DEF WayTypes
<1>2. Range(x \o a) = Range(x) \cup Range(a) /\ Range(a \o b) = Range(a) \cup Range(b)
  BY <1>1, RangeJoin
<1>3. /\ Range(a) \in SUBSET StepMessages /\ Range(b) \in SUBSET StepMessages
      /\ Range(p) \in SUBSET ControlMessages
  BY <1>1, RangeType
<1>4. Ahead(Range(a), Range(p)) /\ Open \notin Range(a)
  BY <1>3, ControlAndSteps
<1>5. Sorted(x) /\ Sorted(a) /\ Sorted(b) /\ Ahead(Range(a), Range(b))
  <2>1. Sorted(a \o b)
    BY DEF WayOK
  <2>2. QED
    BY <2>1, SortedJoin DEF WayOK
<1>6. Ahead(Range(x), Range(a)) /\ Ahead(Range(x), Range(b))
  <2>1. Ahead(Range(x), Range(a) \cup Range(b))
    BY <1>2 DEF WayOK
  <2>2. QED
    BY <2>1, AheadParts, Zenon
<1>7. Sorted(x \o a)
  BY <1>1, <1>5, <1>6, SortedJoin
<1>8. Ahead(Range(x \o a), Range(p)) /\ Ahead(Range(x \o a), Range(b))
  <2>1. Ahead(Range(x), Range(p))
    BY DEF WayOK
  <2>2. /\ Ahead(Range(x) \cup Range(a), Range(b)) /\ Ahead(Range(x) \cup Range(a), Range(p))
    BY <1>4, <1>5, <1>6, <2>1, AheadParts, Zenon
  <2>3. QED
    BY <1>2, <2>2
<1>9. Flow(x \o a, b, TRUE) = Flow(x, a \o b, TRUE)
  <2>1. /\ StepsIn(Range(x \o a)) = StepsIn(Range(x)) \cup StepsIn(Range(a))
        /\ StepsIn(Range(a \o b)) = StepsIn(Range(a)) \cup StepsIn(Range(b))
    BY <1>2, StepsAreSteps
  <2>2. QED
    BY <2>1 DEF Flow
<1>10. Fresh(x \o a, DOMAIN g, Numbers(Range(b)))
  <2>1. Numbers(Range(a \o b)) = Numbers(Range(a)) \cup Numbers(Range(b))
    BY <1>2, StepsAreSteps
  <2>2. Fresh(x, DOMAIN g, Numbers(Range(b)) \cup Numbers(Range(a)))
    BY <2>1, FreshLess DEF WayOK
  <2>3. Fresh(a, DOMAIN g \cup Numbers(Range(x)), Numbers(Range(b)))
    BY <1>4, FreshWithoutOpen
  <2>4. QED
    BY <1>1, <2>2, <2>3, FreshJoin
<1>11. Numbered(Range(x \o a), n) /\ Numbered(Range(b), n)
  <2>1. Numbered(Range(a) \cup Range(b), n) /\ Numbered(Range(x), n)
    BY <1>2 DEF WayOK
  <2>2. Numbered(Range(a), n) /\ Numbered(Range(b), n)
    BY <2>1, NumberedParts, Zenon
  <2>3. Numbered(Range(x) \cup Range(a), n)
    BY <2>1, <2>2, NumberedParts, Zenon
  <2>4. QED
    BY <1>2, <2>2, <2>3
<1>12. Gapless(StepsIn(Range(b)))
  <2>1. Gapless(StepsIn(Range(a) \cup Range(b)))
    BY <1>2 DEF WayOK
  <2>2. Gapless(Range(a) \cup Range(b)) /\ StepsIn(Range(b)) = Range(b)
    BY <1>3, <2>1, StepsAreSteps
  <2>3. SUFFICES ASSUME NEW m \in Range(b), m.n > 0, Step(m.item, m.n - 1) \notin Range(b),
                        NEW z \in Range(b), z.item.id = m.item.id
                 PROVE  m.n <= z.n
    BY <2>2 DEF Gapless
  <2>4. m \in StepMessages /\ z \in StepMessages
    BY <1>3
  <2>5. PICK y : y = Step(m.item, m.n - 1)
    OBVIOUS
  <2>6. CASE y \in Range(a)
    <3>1. y \in StepMessages /\ Precedes(y, z)
      BY <1>3, <1>5, <2>6 DEF Ahead
    <3>2. y.item = m.item /\ y.n = m.n - 1 /\ m.n \in Nat /\ z.n \in Nat
      BY <2>3, <2>4, <2>5, StepParts
    <3>3. y.n < z.n
      BY <2>3, <2>4, <3>1, <3>2, PrecedingSteps
    <3>4. QED
      BY <3>2, <3>3
  <2>7. CASE y \notin Range(a)
    BY <2>2, <2>3, <2>5, <2>7, Zenon DEF Gapless
  <2>8. QED
    BY <2>6, <2>7
<1>13. QED
  BY <1>5, <1>7, <1>8, <1>9, <1>10, <1>11, <1>12, Zenon DEF WayOK

LEMMA StepsMembers ==
  ASSUME NEW i \in Items
  PROVE  /\ Steps(i) \in Seq(StepMessages) /\ Sorted(Steps(i))
         /\ \A m \in Range(Steps(i)) :
                /\ m \in StepMessages /\ m.item = i
                /\ m.n > 0 => Step(i, m.n - 1) \in Range(Steps(i))
         /\ Step(i, 0) \in Range(Steps(i)) /\ Step(i, Chunks + 1) \in Range(Steps(i))
<1>1. PICK q : q = Steps(i)
  OBVIOUS
<1>2. Chunks \in Nat
  BY LimitsAreNumbers
<1>3. /\ DOMAIN q = 1..Chunks + 2
      /\ \A k \in 1..Chunks + 2 : q[k] = Step(i, k - 1)
  BY <1>1 DEF Steps
<1>4. \A k \in 1..Chunks + 2 : /\ q[k] \in StepMessages /\ q[k].item = i /\ q[k].n = k - 1
                               /\ q[k].type = "step"
  <2>1. TAKE k \in 1..Chunks + 2
  <2>2. k - 1 \in 0..Chunks + 1
    BY <1>2
  <2>3. QED
    BY <1>3, <2>2 DEF Step, StepMessages
<1>5. q \in Seq(StepMessages)
  <2>1. Chunks + 2 \in Nat
    BY <1>2
  <2>2. q = [k \in 1..Chunks + 2 |-> Step(i, k - 1)]
    BY <1>1 DEF Steps
  <2>3. \A k \in 1..Chunks + 2 : Step(i, k - 1) \in StepMessages
    BY <1>3, <1>4
  <2>4. QED
    BY <2>1, <2>2, <2>3
<1>6. Sorted(q)
  <2>1. SUFFICES ASSUME NEW j \in DOMAIN q, NEW k \in DOMAIN q, j < k
                 PROVE  Precedes(q[j], q[k])
    BY DEF Sorted
  <2>2. /\ q[j].item = i /\ q[k].item = i /\ q[j].type = "step" /\ q[k].type = "step"
        /\ q[j].n = j - 1 /\ q[k].n = k - 1
    BY <1>3, <1>4
  <2>3. q[j].n < q[k].n
    BY <1>2, <1>3, <2>1, <2>2
  <2>4. QED
    BY <2>2, <2>3 DEF Precedes
<1>7. \A k \in 0..Chunks + 1 : Step(i, k) \in Range(q)
  <2>1. TAKE k \in 0..Chunks + 1
  <2>2. k + 1 \in 1..Chunks + 2 /\ (k + 1) - 1 = k
    BY <1>2
  <2>3. q[k + 1] = Step(i, k)
    BY <1>3, <2>2
  <2>4. QED
    BY <1>3, <2>2, <2>3 DEF Range
<1>8. ASSUME NEW m \in Range(q)
      PROVE  /\ m \in StepMessages /\ m.item = i
             /\ m.n > 0 => Step(i, m.n - 1) \in Range(q)
  <2>1. PICK k \in 1..Chunks + 2 : m = q[k]
    BY <1>3 DEF Range
  <2>2. m \in StepMessages /\ m.item = i /\ m.n = k - 1
    BY <1>4, <2>1
  <2>3. m.n > 0 => m.n - 1 \in 0..Chunks + 1
    BY <1>2, <2>2
  <2>4. QED
    BY <1>7, <2>2, <2>3
<1>9. 0 \in 0..Chunks + 1 /\ Chunks + 1 \in 0..Chunks + 1
  BY <1>2
<1>10. QED
  BY <1>1, <1>5, <1>6, <1>7, <1>8, <1>9, Zenon

\* What is numbered has the numbers it has.
LEMMA NumberedSteps ==
  ASSUME NEW A \in SUBSET Messages, NEW n \in Nat, Numbered(A, n)
  PROVE  /\ \A m \in StepsIn(A) : m.item.id \in Nat /\ m.item.id <= n
         /\ \A d \in Numbers(A) : d \in Nat /\ d <= n
<1>1. StepsIn(A) \subseteq StepMessages
  BY StepsAreSteps
<1>2. \A m \in StepsIn(A) : m.item.id \in Nat /\ m.item.id <= n
  BY <1>1, StepParts DEF StepsIn, Numbered
<1>3. QED
  BY <1>2 DEF Numbers

\* The steps of a new text join a flow.
LEMMA FlowGrows ==
  ASSUME NEW F \in SUBSET StepMessages, NEW R \in SUBSET StepMessages, NEW i \in Items, NEW g,
         \A m \in F : m.item.id < i.id,
         \A m \in R : m.item = i /\ (m.n > 0 => Step(i, m.n - 1) \in R),
         \A d \in DOMAIN g : d < i.id
  PROVE  /\ Gapless(F) => Gapless(F \cup R)
         /\ Meets(F, g) => Meets(F \cup R, g)
<1>1. i.id \in Nat /\ ~(i.id < i.id)
  BY DEF Items
<1>2. \A m \in F : m.item.id # i.id
  BY <1>1
<1>3. i.id \notin DOMAIN g
  BY <1>1
<1>4. ASSUME Gapless(F)
      PROVE  Gapless(F \cup R)
  <2>1. SUFFICES ASSUME NEW m \in F \cup R, m.n > 0, Step(m.item, m.n - 1) \notin F \cup R,
                        NEW x \in F \cup R, x.item.id = m.item.id
                 PROVE  m.n <= x.n
    BY DEF Gapless
  <2>2. m \in F
    BY <2>1, Zenon
  <2>3. x \in F
    BY <1>2, <2>1, <2>2, Zenon
  <2>4. QED
    BY <1>4, <2>1, <2>2, <2>3 DEF Gapless
<1>5. ASSUME Meets(F, g)
      PROVE  Meets(F \cup R, g)
  <2>1. SUFFICES ASSUME NEW m \in F \cup R, m.item.id \in DOMAIN g
                 PROVE  /\ m.n > Len(g[m.item.id])
                        /\ m.n = Len(g[m.item.id]) + 1 \/ Step(m.item, m.n - 1) \in F \cup R
    BY DEF Meets
  <2>2. m \in F
    BY <1>3, <2>1, Zenon
  <2>3. QED
    BY <1>5, <2>1, <2>2, Zenon DEF Meets
<1>6. QED
  BY <1>4, <1>5

\* A long text is put behind the ones that wait.
LEMMA WayEnqueues ==
  ASSUME NEW x, NEW p, NEW c, NEW g, NEW o \in BOOLEAN, NEW n,
         WayOK(x, p, c, g, o, n), WayTypes(x, p, c, g, n), NEW i \in Items, i.id = n + 1
  PROVE  WayOK(x, p, c \o Steps(i), g, o, n + 1)
<1>1. /\ n \in Nat /\ n + 1 \in Nat /\ n <= n + 1 /\ i.id \in Nat /\ ~(i.id <= n)
      /\ x \in Seq(Messages) /\ c \in Seq(StepMessages)
  BY DEF WayTypes
<1>2. PICK q : q = Steps(i)
  OBVIOUS
<1>3. /\ q \in Seq(StepMessages) /\ Sorted(q) /\ Range(q) \in SUBSET StepMessages
      /\ \A m \in Range(q) : m.item = i /\ (m.n > 0 => Step(i, m.n - 1) \in Range(q))
  BY <1>2, StepsMembers, RangeType
<1>4. Range(c \o q) = Range(c) \cup Range(q)
  BY <1>1, <1>3, RangeJoin
<1>5. WayOK(x, p, c, g, o, n + 1)
  BY <1>1, WayLater
<1>6. /\ Range(x) \in SUBSET Messages /\ Range(c) \in SUBSET StepMessages
      /\ Range(c) \in SUBSET Messages
  BY <1>1, RangeType, StepsAreSteps
<1>7. /\ \A m \in StepsIn(Range(x)) : m.item.id \in Nat /\ m.item.id <= n
      /\ \A m \in Range(c) : m.item.id \in Nat /\ m.item.id <= n
      /\ \A d \in Numbers(Range(x)) : d \in Nat /\ d <= n
      /\ \A d \in DOMAIN g : d \in Nat /\ d <= n
  <2>1. Numbered(Range(x), n) /\ Numbered(Range(c), n) /\ \A d \in DOMAIN g : d \in Nat /\ d <= n
    BY DEF WayOK
  <2>2. StepsIn(Range(c)) = Range(c)
    BY <1>6, StepsAreSteps
  <2>3. QED
    BY <1>1, <1>6, <2>1, <2>2, NumberedSteps
<1>8. Ahead(Range(x), Range(q)) /\ Ahead(Range(c), Range(q))
  <2>1. \A m \in Range(q) : m.type = "step" /\ m.item.id = n + 1
    BY <1>3, StepParts
  <2>2. \A m \in Range(x) : m.type = "step" => m \in StepsIn(Range(x))
    BY DEF StepsIn
  <2>3. \A m \in Range(x) : m.type = "step" => m.item.id < n + 1
    BY <1>1, <1>7, <2>2
  <2>4. \A m \in Range(c) : m.item.id < n + 1
    BY <1>1, <1>7
  <2>5. QED
    BY <2>1, <2>3, <2>4 DEF Ahead, Precedes
<1>9. Sorted(c \o q)
  BY <1>1, <1>3, <1>5, <1>8, SortedJoin DEF WayOK
<1>10. Ahead(Range(x), Range(c \o q))
  <2>1. Ahead(Range(x), Range(c) \cup Range(q))
    BY <1>5, <1>8, AheadParts, Zenon DEF WayOK
  <2>2. QED
    BY <1>4, <2>1
<1>11. Gapless(StepsIn(Range(c \o q)))
  <2>1. StepsIn(Range(c)) = Range(c) /\ StepsIn(Range(c) \cup Range(q)) = Range(c) \cup Range(q)
    BY <1>3, <1>6, StepsAreSteps
  <2>2. Gapless(Range(c))
    BY <1>5, <2>1 DEF WayOK
  <2>3. \A m \in Range(c) : m.item.id < i.id
    BY <1>1, <1>7
  <2>4. \A d \in DOMAIN g : d < i.id
    BY <1>1, <1>7
  <2>5. Gapless(Range(c) \cup Range(q))
    BY <1>3, <1>6, <2>2, <2>3, <2>4, FlowGrows
  <2>6. QED
    BY <1>4, <2>1, <2>5
<1>12. Gapless(Flow(x, c \o q, o)) /\ Meets(Flow(x, c \o q, o), g)
  <2>1. CASE o = FALSE
    <3>1. Flow(x, c \o q, o) = Flow(x, c, o)
      BY <2>1 DEF Flow
    <3>2. QED
      BY <1>5, <3>1 DEF WayOK
  <2>2. CASE o = TRUE
    <3>1. PICK F : F = Flow(x, c, o)
      OBVIOUS
    <3>2. F \in SUBSET StepMessages
      BY <1>1, <3>1, FlowType
    <3>3. Flow(x, c \o q, o) = F \cup Range(q)
      <4>1. StepsIn(Range(c) \cup Range(q)) = Range(c) \cup Range(q) /\ StepsIn(Range(c)) = Range(c)
        BY <1>3, <1>6, StepsAreSteps
      <4>2. QED
        BY <1>4, <2>2, <3>1, <4>1 DEF Flow
    <3>4. \A m \in F : m.item.id < i.id
      <4>1. F = StepsIn(Range(x)) \cup Range(c)
        BY <1>6, <2>2, <3>1, StepsAreSteps DEF Flow
      <4>2. QED
        BY <1>1, <1>7, <4>1
    <3>5. \A d \in DOMAIN g : d < i.id
      BY <1>1, <1>7
    <3>6. Gapless(F) /\ Meets(F, g)
      BY <1>5, <3>1 DEF WayOK
    <3>7. Gapless(F \cup Range(q)) /\ Meets(F \cup Range(q), g)
      BY <1>3, <3>2, <3>4, <3>5, <3>6, FlowGrows
    <3>8. QED
      BY <3>3, <3>7
  <2>3. QED
    BY <2>1, <2>2
<1>13. Fresh(x, DOMAIN g, Numbers(Range(c \o q)))
  <2>1. Numbers(Range(c \o q)) = Numbers(Range(c)) \cup Numbers(Range(q))
    BY <1>4, StepsAreSteps
  <2>2. Numbers(Range(q)) \subseteq {n + 1}
    BY <1>3 DEF Numbers, StepsIn
  <2>3. SUFFICES ASSUME NEW k \in DOMAIN x, x[k] = Open
                 PROVE  Older(DOMAIN g \cup Numbers(Sooner(x, k)),
                              Numbers(Range(c \o q)) \cup Numbers(Later(x, k)))
    BY DEF Fresh
  <2>4. Older(DOMAIN g \cup Numbers(Sooner(x, k)), Numbers(Range(c)) \cup Numbers(Later(x, k)))
    BY <2>3 DEF Fresh, WayOK
  <2>5. Numbers(Sooner(x, k)) \subseteq Numbers(Range(x))
    BY DEF Sooner, Range, Numbers, StepsIn
  <2>6. \A d \in DOMAIN g \cup Numbers(Sooner(x, k)) : d < n + 1
    BY <1>1, <1>7, <2>5
  <2>7. QED
    BY <2>1, <2>2, <2>4, <2>6 DEF Older
<1>14. Numbered(Range(c \o q), n + 1)
  <2>1. Numbered(Range(q), n + 1)
    BY <1>1, <1>3 DEF Numbered
  <2>2. Numbered(Range(c) \cup Range(q), n + 1)
    BY <1>5, <2>1, NumberedParts, Zenon DEF WayOK
  <2>3. QED
    BY <1>4, <2>2
<1>15. WayOK(x, p, c \o q, g, o, n + 1)
  BY <1>5, <1>9, <1>10, <1>11, <1>12, <1>13, <1>14, Zenon DEF WayOK
<1>16. QED
  BY <1>2, <1>15

\* Dropping the text at the head drops a beginning of the queue.
LEMMA HeadlessParts ==
  ASSUME NEW c \in Seq(StepMessages), Sorted(c), c # <<>>
  PROVE  \E d \in Seq(StepMessages), e \in Seq(StepMessages) :
            /\ c = d \o e /\ WithoutHead(c) = e
            /\ \A m \in Range(d) : m.item = Head(c).item
            /\ \A m \in Range(e) : m.item.id # Head(c).item.id
<1>1. PICK h, len : h = Head(c) /\ len = Len(c)
  OBVIOUS
<1>2. /\ len \in Nat /\ 1 \in 1..len /\ h = c[1] /\ DOMAIN c = 1..len
      /\ \A i \in 1..len : c[i] \in StepMessages
  BY <1>1
<1>3. PICK K : K = {i \in DOMAIN c : c[i].item = h.item}
  OBVIOUS
<1>4. K \in SUBSET (1..len) /\ 1 \in K
  BY <1>2, <1>3
<1>5. PICK k : k = Cardinality(K)
  OBVIOUS
<1>6. /\ IsFiniteSet(1..len) /\ IsFiniteSet(K) /\ k \in Nat
  <2>1. IsFiniteSet(1..len)
    BY <1>2, FS_Interval
  <2>2. IsFiniteSet(K)
    BY <1>4, <2>1, FS_Subset
  <2>3. QED
    BY <1>5, <2>1, <2>2, FS_CardinalityType
<1>7. ASSUME NEW i \in 1..len, NEW j \in K, i < j
      PROVE  i \in K
  <2>1. c[1] \in StepMessages /\ c[i] \in StepMessages /\ c[j] \in StepMessages /\ j \in 1..len
    BY <1>2, <1>4
  <2>2. Precedes(c[i], c[j])
    BY <1>2, <1>7, <2>1 DEF Sorted
  <2>3. CASE i = 1
    BY <1>4, <2>3
  <2>4. CASE i # 1
    <3>1. Precedes(c[1], c[i])
      BY <1>2, <2>4 DEF Sorted
    <3>2. c[1].item.id <= c[i].item.id /\ c[i].item.id <= c[j].item.id /\ c[j].item = c[1].item
      BY <1>2, <1>3, <2>1, <2>2, <3>1, PrecedingSteps
    <3>3. c[1].item.id \in Nat /\ c[i].item.id \in Nat
      BY <2>1, StepParts
    <3>4. c[1].item.id = c[i].item.id
      BY <3>2, <3>3
    <3>5. c[i].item = c[1].item
      BY <2>1, <3>1, <3>4, PrecedingSteps
    <3>6. QED
      BY <1>2, <1>3, <3>5
  <2>5. QED
    BY <2>3, <2>4
<1>8. K = 1..k
  <2>1. ASSUME NEW j \in K
        PROVE  j <= k
    <3>1. j \in Nat /\ j \in 1..len
      BY <1>4
    <3>2. 1..j \subseteq K
      BY <1>2, <1>7, <3>1
    <3>3. IsFiniteSet(1..j) /\ Cardinality(1..j) = j
      BY <3>1, FS_Interval
    <3>4. Cardinality(1..j) <= Cardinality(K)
      BY <1>6, <3>2, FS_Subset
    <3>5. QED
      BY <1>5, <3>3, <3>4
  <2>2. K \subseteq 1..k
    BY <1>4, <1>6, <2>1
  <2>3. IsFiniteSet(1..k) /\ Cardinality(1..k) = k
    BY <1>6, FS_Interval
  <2>4. QED
    BY <1>5, <2>2, <2>3, FS_Subset
<1>9. k \in 1..len
  BY <1>4, <1>6, <1>8
<1>10. PICK d, e : d = SubSeq(c, 1, k) /\ e = SubSeq(c, k + 1, Len(c))
  OBVIOUS
<1>11. d \in Seq(StepMessages) /\ e \in Seq(StepMessages) /\ c = d \o e
  <2>1. k \in 0..Len(c)
    BY <1>1, <1>9
  <2>2. /\ SubSeq(c, 1, k) \in Seq(StepMessages) /\ SubSeq(c, k + 1, Len(c)) \in Seq(StepMessages)
        /\ c = SubSeq(c, 1, k) \o SubSeq(c, k + 1, Len(c))
    BY <2>1, SplitAt
  <2>3. QED
    BY <1>10, <2>2
<1>12. WithoutHead(c) = e
  BY <1>1, <1>3, <1>5, <1>10, Zenon DEF WithoutHead
<1>13. \A m \in Range(d) : m.item = h.item
  <2>1. \A i \in DOMAIN d : i \in 1..k /\ d[i] = c[i]
    BY <1>2, <1>1, <1>9, <1>10
  <2>2. \A i \in DOMAIN d : d[i].item = h.item
    BY <1>3, <1>8, <2>1
  <2>3. QED
    BY <2>2 DEF Range
<1>14. \A m \in Range(e) : m.item.id # h.item.id
  <2>1. SUFFICES ASSUME NEW i \in DOMAIN e
                 PROVE  e[i].item.id # h.item.id
    BY DEF Range
  <2>2. PICK j : j = k + i
    OBVIOUS
  <2>3. j \in 1..len /\ j > k /\ e[i] = c[j] /\ j # 1
    BY <1>1, <1>2, <1>9, <1>10, <2>2
  <2>4. c[j].item # c[1].item
    BY <1>2, <1>3, <1>8, <1>9, <2>3
  <2>5. Precedes(c[1], c[j])
    BY <1>2, <2>3 DEF Sorted
  <2>6. QED
    BY <1>2, <2>3, <2>4, <2>5, PrecedingSteps
<1>15. QED
  BY <1>1, <1>11, <1>12, <1>13, <1>14, Zenon

\* The long text at the head is given up.
LEMMA WayGivesUp ==
  ASSUME NEW x, NEW p, NEW g, NEW n, NEW d \in Seq(StepMessages), NEW e \in Seq(StepMessages),
         WayOK(x, p, d \o e, g, TRUE, n), WayTypes(x, p, d \o e, g, n), NEW i,
         \A m \in Range(d) : m.item = i, \A m \in Range(e) : m.item.id # i.id
  PROVE  WayOK(x, p, e, g, TRUE, n)
<1>1. /\ Range(d) \in SUBSET StepMessages /\ Range(e) \in SUBSET StepMessages
      /\ x \in Seq(Messages) /\ Range(d \o e) = Range(d) \cup Range(e)
  BY RangeType, RangeJoin DEF WayTypes
<1>2. /\ StepsIn(Range(e)) = Range(e)
      /\ StepsIn(Range(d) \cup Range(e)) = Range(d) \cup Range(e)
      /\ Range(x) \in SUBSET Messages /\ StepsIn(Range(x)) \in SUBSET StepMessages
  BY <1>1, RangeType, StepsAreSteps
<1>3. PICK X : X = StepsIn(Range(x))
  OBVIOUS
<1>4. /\ Flow(x, d \o e, TRUE) = X \cup (Range(d) \cup Range(e))
      /\ Flow(x, e, TRUE) = X \cup Range(e)
  BY <1>1, <1>2, <1>3 DEF Flow
<1>5. Sorted(e) /\ Ahead(Range(x), Range(e)) /\ Numbered(Range(e), n)
  <2>1. Sorted(d \o e) /\ Ahead(Range(x), Range(d) \cup Range(e)) /\ Numbered(Range(d) \cup Range(e), n)
    BY <1>1 DEF WayOK
  <2>2. Sorted(e)
    BY <2>1, SortedJoin
  <2>3. QED
    BY <2>1, <2>2, AheadParts, NumberedParts, Zenon
<1>6. \A m \in X, y \in Range(d) : Precedes(m, y) /\ m \in StepMessages /\ y \in StepMessages
  <2>1. \A m \in Range(x), y \in Range(d) \cup Range(e) : Precedes(m, y)
    BY <1>1, Zenon DEF WayOK, Ahead
  <2>2. X \subseteq Range(x) /\ X \subseteq StepMessages
    BY <1>2, <1>3 DEF StepsIn
  <2>3. QED
    BY <1>1, <2>1, <2>2
<1>7. Lower(X \cup Range(e), X \cup (Range(d) \cup Range(e)))
  <2>1. SUFFICES ASSUME NEW m \in X \cup Range(e), NEW y \in Range(d),
                        y.item.id = m.item.id, y.n <= m.n
                 PROVE  FALSE
    BY DEF Lower
  <2>2. m \in X
    BY <2>1
  <2>3. QED
    BY <1>6, <2>1, <2>2, PrecedingSteps
<1>8. Lower(Range(e), Range(d) \cup Range(e))
  BY DEF Lower
<1>9. /\ Gapless(X \cup Range(e)) /\ Meets(X \cup Range(e), g) /\ Gapless(Range(e))
  <2>1. PICK F, G : F = X \cup (Range(d) \cup Range(e)) /\ G = Range(d) \cup Range(e)
    OBVIOUS
  <2>2. F \in SUBSET StepMessages /\ G \in SUBSET StepMessages
    BY <1>1, <1>2, <1>3, <2>1
  <2>3. Gapless(F) /\ Meets(F, g) /\ Gapless(G)
    BY <1>1, <1>2, <1>4, <2>1 DEF WayOK
  <2>4. PICK E : E = X \cup Range(e)
    OBVIOUS
  <2>5. Lower(E, F) /\ Lower(Range(e), G)
    BY <1>7, <1>8, <2>1, <2>4
  <2>6. QED
    BY <2>2, <2>3, <2>4, <2>5, LowerKeeps
<1>10. Fresh(x, DOMAIN g, Numbers(Range(e)))
  <2>1. Numbers(Range(d \o e)) = Numbers(Range(d)) \cup Numbers(Range(e))
    BY <1>1, StepsAreSteps
  <2>2. QED
    BY <2>1, FreshLess DEF WayOK
<1>11. QED
  BY <1>2, <1>4, <1>5, <1>9, <1>10, Zenon DEF WayOK

\* A step is heard, of a text of which h has as much as there is before the rest.
LEMMA WayHearsStep ==
  ASSUME NEW x, NEW p, NEW c, NEW g, NEW o \in BOOLEAN, NEW n,
         WayOK(x, p, c, g, o, n), WayTypes(x, p, c, g, n),
         NEW m \in StepMessages, x # <<>>, Head(x) = m, NEW h,
         DOMAIN h \subseteq DOMAIN g \cup {m.item.id},
         \A k \in DOMAIN h : k # m.item.id => h[k] = g[k],
         m.item.id \in DOMAIN h => Len(h[m.item.id]) = m.n
  PROVE  WayOK(Tail(x), p, c, h, o, n)
<1>1. PICK t : t = Tail(x)
  OBVIOUS
<1>2. /\ x \in Seq(Messages) /\ t \in Seq(Messages) /\ <<m>> \in Seq(Messages) /\ x = <<m>> \o t
      /\ m \in Messages /\ Range(x) = {m} \cup Range(t) /\ c \in Seq(StepMessages)
  <2>1. x \in Seq(Messages)
    BY DEF WayTypes
  <2>2. PICK m1 : m1 = m
    OBVIOUS
  <2>3. t \in Seq(Messages) /\ <<m1>> \in Seq(Messages) /\ x = <<m1>> \o t /\ m1 \in Messages
    BY <1>1, <2>1, <2>2, Parts
  <2>4. Range(<<m1>> \o t) = {m1} \cup Range(t)
    BY <2>3, RangeOne
  <2>5. QED
    BY <2>1, <2>2, <2>3, <2>4 DEF WayTypes
<1>3. Sorted(t) /\ Ahead({m}, Range(t))
  <2>1. PICK m1 : m1 = m
    OBVIOUS
  <2>2. Sorted(<<m1>> \o t) /\ m1 \in Messages
    BY <1>2, <2>1 DEF WayOK
  <2>3. Sorted(t) /\ Ahead({m1}, Range(t))
    BY <1>2, <2>2, SortedOne
  <2>4. QED
    BY <2>1, <2>3
<1>4. /\ Ahead(Range(t), Range(p)) /\ Ahead(Range(t), Range(c)) /\ Ahead({m}, Range(c))
      /\ Numbered(Range(t), n) /\ Numbered({m}, n)
  <2>1. /\ Ahead({m} \cup Range(t), Range(p)) /\ Ahead({m} \cup Range(t), Range(c))
        /\ Numbered({m} \cup Range(t), n)
    BY <1>2 DEF WayOK
  <2>2. QED
    BY <2>1, AheadParts, NumberedParts, Zenon
<1>5. PICK F, G : F = Flow(x, c, o) /\ G = Flow(t, c, o)
  OBVIOUS
<1>6. /\ F = G \cup {m} /\ F \in SUBSET StepMessages /\ Gapless(F) /\ Meets(F, g)
  <2>1. StepsIn({m}) = {m}
    BY DEF StepsIn, StepMessages
  <2>2. StepsIn(Range(x)) = StepsIn({m}) \cup StepsIn(Range(t))
    BY <1>2 DEF StepsIn
  <2>3. F = G \cup {m}
    BY <1>5, <2>1, <2>2 DEF Flow
  <2>4. QED
    BY <1>2, <1>5, <2>3, FlowType DEF WayOK
<1>7. \A y \in G : Precedes(m, y) /\ y \in StepMessages
  <2>1. G \subseteq Range(t) \cup Range(c)
    BY <1>5 DEF Flow, StepsIn
  <2>2. QED
    BY <1>3, <1>4, <1>6, <2>1 DEF Ahead
<1>8. ASSUME NEW y \in G, y.item.id = m.item.id
      PROVE  y.item = m.item /\ m.n < y.n
  BY <1>7, <1>8, PrecedingSteps
<1>9. m \notin G
  BY <1>7, PrecedingSteps
<1>10. Gapless(G)
  <2>1. SUFFICES ASSUME NEW y \in G, y.n > 0, Step(y.item, y.n - 1) \notin G,
                        NEW z \in G, z.item.id = y.item.id
                 PROVE  y.n <= z.n
    BY DEF Gapless
  <2>2. y \in StepMessages /\ z \in StepMessages /\ y.n \in Nat /\ z.n \in Nat
    BY <1>7, StepParts
  <2>3. PICK r : r = Step(y.item, y.n - 1)
    OBVIOUS
  <2>4. CASE r = m
    <3>1. m.item = y.item /\ m.n = y.n - 1
      BY <2>1, <2>2, <2>3, <2>4, StepParts
    <3>2. m.n < z.n
      BY <1>8, <2>1, <3>1
    <3>3. QED
      BY <2>2, <3>1, <3>2
  <2>5. CASE r # m
    <3>1. r \notin F /\ y \in F /\ z \in F
      BY <1>6, <2>1, <2>3, <2>5
    <3>2. QED
      BY <1>6, <2>1, <2>3, <3>1, Zenon DEF Gapless
  <2>6. QED
    BY <2>4, <2>5
<1>11. Meets(G, h)
  <2>1. SUFFICES ASSUME NEW y \in G, y.item.id \in DOMAIN h
                 PROVE  /\ y.n > Len(h[y.item.id])
                        /\ y.n = Len(h[y.item.id]) + 1 \/ Step(y.item, y.n - 1) \in G
    BY DEF Meets
  <2>2. y \in StepMessages /\ y.n \in Nat /\ m.n \in Nat /\ y \in F
    BY <1>6, <1>7, StepParts
  <2>3. PICK r : r = Step(y.item, y.n - 1)
    OBVIOUS
  <2>4. CASE y.item.id = m.item.id
    <3>1. y.item = m.item /\ m.n < y.n /\ Len(h[y.item.id]) = m.n
      BY <1>8, <2>1, <2>4
    <3>2. r \in F
      <4>1. m \in F /\ ~(y.n <= m.n) /\ y.n > 0
        BY <1>6, <2>2, <3>1
      <4>2. QED
        BY <1>6, <2>2, <2>3, <3>1, <4>1, Zenon DEF Gapless
    <3>3. r = m => y.n = m.n + 1
      <4>1. y.n > 0
        BY <2>2, <3>1
      <4>2. r.n = y.n - 1
        BY <2>2, <2>3, <4>1, StepParts
      <4>3. QED
        BY <2>2, <4>2
    <3>4. QED
      BY <1>6, <2>2, <2>3, <3>1, <3>2, <3>3
  <2>5. CASE y.item.id # m.item.id
    <3>1. y.item.id \in DOMAIN g /\ h[y.item.id] = g[y.item.id]
      BY <2>1, <2>5
    <3>2. /\ y.n > Len(g[y.item.id])
          /\ y.n = Len(g[y.item.id]) + 1 \/ r \in F
      BY <1>6, <2>2, <2>3, <3>1, Zenon DEF Meets
    <3>3. r.item = y.item
      BY <2>3 DEF Step
    <3>4. r # m
      BY <2>5, <3>3
    <3>5. QED
      BY <1>6, <2>3, <3>1, <3>2, <3>4, Zenon
  <2>6. QED
    BY <2>4, <2>5
<1>12. Fresh(t, DOMAIN h, Numbers(Range(c)))
  <2>1. PICK m1 : m1 = m
    OBVIOUS
  <2>2. Fresh(<<m1>> \o t, DOMAIN g, Numbers(Range(c))) /\ <<m1>> \in Seq(Messages)
    BY <1>2, <2>1 DEF WayOK
  <2>3. Fresh(t, DOMAIN g \cup Numbers(Range(<<m1>>)), Numbers(Range(c)))
    BY <1>2, <2>2, FreshJoin
  <2>4. m1.item.id \in Numbers(Range(<<m1>>))
    <3>1. Range(<<m1>>) = {m1}
      BY OneSorted
    <3>2. m1.type = "step"
      BY <2>1 DEF StepMessages
    <3>3. QED
      BY <3>1, <3>2 DEF Numbers, StepsIn
  <2>5. DOMAIN h \subseteq DOMAIN g \cup Numbers(Range(<<m1>>))
    BY <2>1, <2>4
  <2>6. QED
    BY <2>3, <2>5, FreshLess
<1>13. \A k \in DOMAIN h : k \in Nat /\ k <= n
  <2>1. m.item.id \in Nat /\ m.item.id <= n
    BY <1>4, StepParts DEF Numbered
  <2>2. QED
    BY <2>1 DEF WayOK
<1>14. WayOK(t, p, c, h, o, n)
  BY <1>3, <1>4, <1>5, <1>10, <1>11, <1>12, <1>13, Zenon DEF WayOK
<1>15. QED
  BY <1>1, <1>14

\* A way to a worker made anew.
LEMMA WayBegins ==
  ASSUME NEW x, NEW p, NEW c, NEW g, NEW o, NEW n,
         WayOK(x, p, c, g, o, n), WayTypes(x, p, c, g, n)
  PROVE  WayOK(<<Open>>, p, c, NoPartial, TRUE, n)
<1>1. PICK m : m = Open
  OBVIOUS
<1>2. Range(<<m>>) = {m} /\ Sorted(<<m>>)
  BY OneSorted
<1>3. /\ Range(p) \in SUBSET ControlMessages /\ Range(c) \in SUBSET StepMessages
  BY RangeType DEF WayTypes
<1>4. m.type \notin {"inline", "step"} /\ StepsIn({m}) = {}
  BY <1>1 DEF Open, StepsIn
<1>5. Ahead({m}, Range(p)) /\ Ahead({m}, Range(c)) /\ Numbered({m}, n)
  BY <1>4 DEF Ahead, Precedes, Numbered
<1>6. Flow(<<m>>, c, TRUE) = StepsIn(Range(c))
  BY <1>2, <1>4 DEF Flow
<1>7. DOMAIN NoPartial = {}
  BY DEF NoPartial
<1>8. Meets(Flow(<<m>>, c, TRUE), NoPartial)
  BY <1>7 DEF Meets
<1>9. Fresh(<<m>>, DOMAIN NoPartial, Numbers(Range(c)))
  BY <1>7, FreshOne DEF Older
<1>10. WayOK(<<m>>, p, c, NoPartial, TRUE, n)
  BY <1>2, <1>5, <1>6, <1>7, <1>8, <1>9, Zenon DEF WayOK
<1>11. QED
  BY <1>1, <1>10

-----------------------------------------------------------------------------
(***************************************************************************)
(* What sending does to the queues, the order of the messages included.    *)
(***************************************************************************)

LEMMA OfferParts ==
  ASSUME NEW p, p \in Seq(ControlMessages), NEW m, m \in ControlMessages,
         NEW k, k \in 0..Len(Append(p, m))
  PROVE  LET q == Append(p, m)
             a == SubSeq(q, 1, k)
             rest == SubSeq(q, k + 1, Len(q))
         IN  /\ a \in Seq(ControlMessages) /\ rest \in Seq(ControlMessages) /\ p \o <<m>> = a \o rest
             /\ rest # <<>> => Front(rest) \in Seq(ControlMessages)
             /\ rest # <<>> => p = a \o Front(rest)
<1>q. PICK q : q = Append(p, m)
  OBVIOUS
<1>a. PICK a : a = SubSeq(q, 1, k)
  OBVIOUS
<1>r. PICK rest : rest = SubSeq(q, k + 1, Len(q))
  OBVIOUS
<1>1. /\ Len(p) \in Nat /\ q \in Seq(ControlMessages) /\ Len(q) = Len(p) + 1 /\ q[Len(q)] = m
      /\ \A i \in 1..Len(p) : q[i] = p[i]
  BY <1>q
<1>2. q = p \o <<m>> /\ a \in Seq(ControlMessages) /\ rest \in Seq(ControlMessages) /\ q = a \o rest
  <2>1. PICK m1 : m1 = m
    OBVIOUS
  <2>2. m1 \in ControlMessages
    BY <2>1
  <2>3. q = p \o <<m1>>
    BY <1>q, <2>1, <2>2, Parts
  <2>4. a \in Seq(ControlMessages) /\ rest \in Seq(ControlMessages) /\ q = a \o rest
    <3>1. k \in 0..Len(q) /\ q \in Seq(ControlMessages)
      BY <1>1, <1>q
    <3>2. /\ SubSeq(q, 1, k) \in Seq(ControlMessages) /\ SubSeq(q, k + 1, Len(q)) \in Seq(ControlMessages)
          /\ q = SubSeq(q, 1, k) \o SubSeq(q, k + 1, Len(q))
      BY <3>1, SplitAt
    <3>3. QED
      BY <1>a, <1>r, <3>2
  <2>5. QED
    BY <2>1, <2>3, <2>4
<1>3. /\ Len(a) = k /\ Len(rest) = Len(q) - k /\ k \in Nat
      /\ \A i \in 1..k : a[i] = q[i]
      /\ \A j \in 1..Len(q) - k : rest[j] = q[k + j]
  <2>1. k \in Nat /\ k <= Len(q) /\ Len(q) \in Nat
    BY <1>1, <1>q
  <2>2. Len(a) = k /\ \A i \in 1..k : a[i] = q[i]
    BY <1>1, <1>a, <2>1
  <2>3. Len(rest) = Len(q) - k /\ \A j \in 1..Len(q) - k : rest[j] = q[k + j]
    BY <1>1, <1>r, <2>1
  <2>4. QED
    BY <2>1, <2>2, <2>3
<1>4. ASSUME rest # <<>>
      PROVE  Front(rest) \in Seq(ControlMessages) /\ p = a \o Front(rest)
  <2>1. PICK f : f = Front(rest)
    OBVIOUS
  <2>2. f \in Seq(ControlMessages) /\ Len(f) = Len(rest) - 1 /\ \A j \in 1..Len(f) : f[j] = rest[j]
    <3>1. Len(rest) \in Nat /\ Len(rest) > 0 /\ f = SubSeq(rest, 1, Len(rest) - 1)
      BY <1>2, <1>4, <2>1 DEF Front
    <3>2. PICK l : l = Len(rest) - 1
      OBVIOUS
    <3>3. l \in 0..Len(rest) /\ f = SubSeq(rest, 1, l)
      BY <3>1, <3>2
    <3>4. f \in Seq(ControlMessages) /\ Len(f) = l
      BY <1>2, <3>3, Beginning
    <3>5. \A j \in 1..l : f[j] = rest[j]
      BY <1>2, <3>3
    <3>6. QED
      BY <3>2, <3>4, <3>5
  <2>3. k <= Len(p)
    BY <1>1, <1>2, <1>3, <1>4
  <2>4. PICK z : z = a \o f
    OBVIOUS
  <2>5. /\ z \in Seq(ControlMessages) /\ Len(z) = Len(a) + Len(f)
        /\ \A i \in 1..Len(a) + Len(f) : z[i] = IF i <= Len(a) THEN a[i] ELSE f[i - Len(a)]
    BY <1>2, <2>2, <2>4, ConcatProperties
  <2>6. Len(z) = Len(p)
    BY <1>1, <1>3, <2>2, <2>3, <2>5
  <2>7. ASSUME NEW i \in 1..Len(p)
        PROVE  z[i] = p[i]
    <3>1. CASE i <= k
      <4>1. i \in 1..k /\ i \in 1..Len(a) + Len(f)
        BY <1>3, <2>5, <2>6, <3>1
      <4>2. a[i] = q[i]
        BY <1>3, <4>1
      <4>3. QED
        BY <1>1, <1>3, <2>5, <2>7, <3>1, <4>1, <4>2
    <3>2. CASE i > k
      <4>1. PICK j : j = i - k
        OBVIOUS
      <4>2. /\ j \in 1..Len(f) /\ j \in 1..Len(q) - k /\ k + j = i /\ i \in 1..Len(a) + Len(f)
            /\ ~(i <= Len(a))
        <5>1. /\ Len(a) = k /\ Len(f) = Len(p) - k /\ Len(q) = Len(p) + 1
              /\ k \in Nat /\ Len(p) \in Nat
          BY <1>1, <1>3, <2>2
        <5>2. QED
          BY <2>7, <3>2, <4>1, <5>1
      <4>3. z[i] = f[j] /\ f[j] = rest[j]
        BY <1>3, <2>2, <2>5, <4>1, <4>2
      <4>4. rest[j] = q[k + j]
        BY <1>3, <4>2
      <4>5. QED
        BY <1>1, <2>7, <4>2, <4>3, <4>4
    <3>3. QED
      BY <1>3, <3>1, <3>2
  <2>8. z = p
    BY <2>5, <2>6, <2>7, SeqEqual
  <2>9. QED
    BY <2>1, <2>2, <2>4, <2>8
<1>5. QED
  BY <1>q, <1>a, <1>r, <1>2, <1>4, Zenon

\* What of a message m and of what waits is sent, a, and what waits then, b.
Sends(s, p, m, a, b) ==
    /\ a \in Seq(ControlMessages) /\ b \in Seq(ControlMessages)
    /\ \/ p \o <<m>> = a \o b
       \/ p = a \o b /\ s \in asked'

LEMMA OfferSends ==
  ASSUME NEW s, NEW p, p \in Seq(ControlMessages), NEW m, m \in ControlMessages,
         NEW k, k \in 0..Len(Append(p, m)), NEW a, a = SubSeq(Append(p, m), 1, k),
         NEW rest, rest = SubSeq(Append(p, m), k + 1, Len(Append(p, m))),
         NEW b, b = IF Len(rest) > MaxPending THEN Front(rest) ELSE rest,
         Len(rest) > MaxPending => s \in asked'
  PROVE  Sends(s, p, m, a, b)
<1> DEFINE q == Append(p, m)
<1>1. a \in Seq(ControlMessages) /\ rest \in Seq(ControlMessages) /\ p \o <<m>> = a \o rest
  <2>1. /\ SubSeq(q, 1, k) \in Seq(ControlMessages) /\ SubSeq(q, k + 1, Len(q)) \in Seq(ControlMessages)
        /\ p \o <<m>> = SubSeq(q, 1, k) \o SubSeq(q, k + 1, Len(q))
    BY OfferParts, Zenon
  <2>2. QED
    BY <2>1
<1>2. rest # <<>> => Front(rest) \in Seq(ControlMessages) /\ p = a \o Front(rest)
  <2>1. LET r == SubSeq(q, k + 1, Len(q))
        IN  /\ r # <<>> => Front(r) \in Seq(ControlMessages)
            /\ r # <<>> => p = SubSeq(q, 1, k) \o Front(r)
    BY OfferParts, Zenon
  <2>2. QED
    BY <2>1, Zenon
<1>3. CASE Len(rest) > MaxPending
  <2>1. rest # <<>>
    <3>1. MaxPending \in Nat /\ MaxPending > 0
      BY LimitsAreNumbers
    <3>2. Len(<<>>) = 0
      OBVIOUS
    <3>3. ~(0 > MaxPending)
      BY <3>1
    <3>4. QED
      BY <1>3, <3>2, <3>3
  <2>2. QED
    BY <1>1, <1>2, <1>3, <2>1 DEF Sends
<1>4. CASE ~(Len(rest) > MaxPending)
  BY <1>1, <1>4 DEF Sends
<1>5. QED
  BY <1>3, <1>4

LEMMA SendShape ==
  ASSUME NEW s \in Sides, NEW box, NEW m \in ControlMessages,
         pending \in [Sides -> Seq(ControlMessages)], SendFrom(s, box, m)
  PROVE  \E a, b : /\ Sends(s, pending[s], m, a, b)
                   /\ inbox' = [box EXCEPT ![Other(s)] = @ \o a]
                   /\ pending' = [pending EXCEPT ![s] = b]
<1>1. PICK p : p = pending[s]
  OBVIOUS
<1>2. PICK k \in 0..Len(Append(p, m)) :
        LET q == Append(p, m)
            rest == SubSeq(q, k + 1, Len(q))
        IN
        /\ pending' = [pending EXCEPT ![s] = IF Len(rest) > MaxPending THEN Front(rest) ELSE rest]
        /\ asked' = IF Len(rest) > MaxPending THEN asked \cup {s} ELSE asked
        /\ inbox' = [box EXCEPT ![Other(s)] = @ \o SubSeq(q, 1, k)]
  BY <1>1 DEF SendFrom
<1>3. PICK a : a = SubSeq(Append(p, m), 1, k)
  OBVIOUS
<1>4. PICK rest : rest = SubSeq(Append(p, m), k + 1, Len(Append(p, m)))
  OBVIOUS
<1>5. PICK b : b = IF Len(rest) > MaxPending THEN Front(rest) ELSE rest
  OBVIOUS
<1>6. /\ p \in Seq(ControlMessages) /\ m \in ControlMessages
      /\ k \in 0..Len(Append(p, m)) /\ (Len(rest) > MaxPending => s \in asked')
  BY <1>1, <1>2, <1>4
<1>7. Sends(s, p, m, a, b)
  BY <1>3, <1>4, <1>5, <1>6, OfferSends
<1>8. inbox' = [box EXCEPT ![Other(s)] = @ \o a] /\ pending' = [pending EXCEPT ![s] = b]
  BY <1>2, <1>3, <1>4, <1>5
<1>9. QED
  BY <1>1, <1>7, <1>8

\* The control queue p and then n chunks of q are offered; k messages are taken.
LEMMA DrainsSome ==
  ASSUME NEW p, p \in Seq(Messages), NEW q, q \in Seq(Messages), NEW k, k \in Nat, k < Len(p)
  PROVE  SubSeq(p \o q, 1, k) = SubSeq(p, 1, k)
<1>1. PICK all : all = p \o q
  OBVIOUS
<1>2. /\ Len(p) \in Nat /\ Len(q) \in Nat /\ all \in Seq(Messages) /\ Len(all) = Len(p) + Len(q)
      /\ \A i \in 1..Len(p) + Len(q) : all[i] = IF i <= Len(p) THEN p[i] ELSE q[i - Len(p)]
  BY <1>1, ConcatProperties
<1>3. PICK z, y : z = SubSeq(all, 1, k) /\ y = SubSeq(p, 1, k)
  OBVIOUS
<1>4. z \in Seq(Messages) /\ Len(z) = k /\ \A i \in 1..k : z[i] = all[i]
  <2>1. k <= Len(all)
    BY <1>2
  <2>2. QED
    BY <1>2, <1>3, <2>1
<1>5. y \in Seq(Messages) /\ Len(y) = k /\ \A i \in 1..k : y[i] = p[i]
  BY <1>2, <1>3
<1>6. ASSUME NEW i \in 1..k
      PROVE  z[i] = y[i]
  <2>1. i <= Len(p) /\ i \in 1..Len(p) + Len(q)
    BY <1>2
  <2>2. QED
    BY <1>2, <1>4, <1>5, <2>1
<1>7. z = y
  BY <1>4, <1>5, <1>6, SeqEqual
<1>8. QED
  BY <1>1, <1>3, <1>7

LEMMA DrainsMore ==
  ASSUME NEW p, p \in Seq(Messages), NEW q, q \in Seq(Messages), NEW n, n \in 0..Len(q),
         NEW k, k \in 0..Len(p) + n, ~(k < Len(p))
  PROVE  /\ k - Len(p) \in 0..Len(q)
         /\ SubSeq(p \o SubSeq(q, 1, n), 1, k) = p \o SubSeq(q, 1, k - Len(p))
<1>1. PICK r : r = SubSeq(q, 1, n)
  OBVIOUS
<1>2. /\ Len(p) \in Nat /\ Len(q) \in Nat /\ n \in Nat /\ r \in Seq(Messages) /\ Len(r) = n
      /\ \A i \in 1..n : r[i] = q[i]
  BY <1>1
<1>3. PICK all : all = p \o r
  OBVIOUS
<1>4. /\ all \in Seq(Messages) /\ Len(all) = Len(p) + n
      /\ \A i \in 1..Len(p) + n : all[i] = IF i <= Len(p) THEN p[i] ELSE r[i - Len(p)]
  <2>1. /\ all \in Seq(Messages) /\ Len(all) = Len(p) + Len(r)
        /\ \A i \in 1..Len(p) + Len(r) : all[i] = IF i <= Len(p) THEN p[i] ELSE r[i - Len(p)]
    BY <1>2, <1>3, ConcatProperties
  <2>2. QED
    BY <1>2, <2>1
<1>5. PICK z : z = SubSeq(all, 1, k)
  OBVIOUS
<1>6. z \in Seq(Messages) /\ Len(z) = k /\ \A i \in 1..k : z[i] = all[i]
  BY <1>2, <1>4, <1>5
<1>7. PICK j : j = k - Len(p)
  OBVIOUS
<1>8. j \in 0..n /\ j \in 0..Len(q) /\ k = Len(p) + j
  BY <1>2, <1>7
<1>9. PICK u : u = SubSeq(q, 1, j)
  OBVIOUS
<1>10. u \in Seq(Messages) /\ Len(u) = j /\ \A i \in 1..j : u[i] = q[i]
  BY <1>2, <1>8, <1>9
<1>11. PICK y : y = p \o u
  OBVIOUS
<1>12. /\ y \in Seq(Messages) /\ Len(y) = Len(p) + j
       /\ \A i \in 1..Len(p) + j : y[i] = IF i <= Len(p) THEN p[i] ELSE u[i - Len(p)]
  <2>1. /\ y \in Seq(Messages) /\ Len(y) = Len(p) + Len(u)
        /\ \A i \in 1..Len(p) + Len(u) : y[i] = IF i <= Len(p) THEN p[i] ELSE u[i - Len(p)]
    BY <1>10, <1>11, ConcatProperties
  <2>2. QED
    BY <1>10, <2>1
<1>13. ASSUME NEW i \in 1..k
       PROVE  z[i] = y[i]
  <2>1. i \in 1..Len(p) + n /\ i \in 1..Len(p) + j
    BY <1>2, <1>8
  <2>2. CASE i <= Len(p)
    BY <1>4, <1>6, <1>12, <2>1, <2>2
  <2>3. CASE ~(i <= Len(p))
    <3>1. PICK h : h = i - Len(p)
      OBVIOUS
    <3>2. h \in 1..j /\ h \in 1..n
      BY <1>2, <1>8, <2>3, <3>1
    <3>3. r[h] = q[h] /\ u[h] = q[h]
      BY <1>2, <1>10, <3>2
    <3>4. z[i] = r[h] /\ y[i] = u[h]
      BY <1>4, <1>6, <1>12, <1>13, <2>1, <2>3, <3>1
    <3>5. QED
      BY <3>3, <3>4
  <2>4. QED
    BY <2>2, <2>3
<1>14. z = y
  BY <1>6, <1>8, <1>12, <1>13, SeqEqual
<1>15. QED
  BY <1>1, <1>3, <1>5, <1>7, <1>8, <1>9, <1>11, <1>14

\* What waits is sent up to some message, then chunks up to some chunk.
Drains(s, q, a, r, u, v) ==
    /\ a \in Seq(ControlMessages) /\ r \in Seq(ControlMessages)
    /\ u \in Seq(StepMessages) /\ v \in Seq(StepMessages)
    /\ pending[s] = a \o r /\ q = u \o v
    /\ inbox' = [inbox EXCEPT ![Other(s)] = @ \o (a \o u)]
    /\ pending' = [pending EXCEPT ![s] = r]
    /\ chunks' = [chunks EXCEPT ![s] = v]

LEMMA DrainShape ==
  ASSUME NEW s \in Sides, LanesTypes, NEW q \in Seq(StepMessages), NEW b \in Nat,
         DrainOpen(s, q, b)
  PROVE  \E a, r, u, v : Drains(s, q, a, r, u, v)
<1>1. PICK n : n = IF b < HighWatermark THEN Min({Len(q), BatchMessages, HighWatermark - b}) ELSE 0
  OBVIOUS
<1>2. PICK first : first = IF n = 0 THEN <<>> ELSE pending[s]
  OBVIOUS
<1>3. PICK all : all = first \o SubSeq(q, 1, n)
  OBVIOUS
<1>4. PICK k \in 0..Len(all) :
        LET left == IF k < Len(first) THEN q ELSE SubSeq(q, k - Len(first) + 1, Len(q))
            sent == SubSeq(all, 1, k)
        IN  /\ Arrive(s, sent)
            /\ pending' = [pending EXCEPT ![s] = IF n = 0 THEN @ ELSE SubSeq(@, k + 1, Len(@))]
            /\ chunks' = [chunks EXCEPT ![s] = left]
  BY <1>1, <1>2, <1>3, Zenon DEF DrainOpen
<1>5. n \in 0..Len(q)
  <2>1. Len(q) \in Nat /\ BatchMessages \in Nat /\ HighWatermark \in Nat
    BY LimitsAreNumbers
  <2>2. CASE b < HighWatermark
    <3>1. HighWatermark - b \in Nat
      BY <2>1, <2>2
    <3>2. PICK l, d, e : l = Len(q) /\ d = BatchMessages /\ e = HighWatermark - b
      OBVIOUS
    <3>3. l \in Nat /\ d \in Nat /\ e \in Nat
      BY <2>1, <3>1, <3>2
    <3>4. Min({l, d, e}) \in Nat /\ Min({l, d, e}) <= l
      BY <3>3, MinOfThree
    <3>5. n = Min({l, d, e})
      BY <1>1, <2>2, <3>2
    <3>6. QED
      BY <3>2, <3>3, <3>4, <3>5
  <2>3. CASE ~(b < HighWatermark)
    BY <1>1, <2>1, <2>3
  <2>4. QED
    BY <2>2, <2>3
<1>6. PICK left : left = IF k < Len(first) THEN q ELSE SubSeq(q, k - Len(first) + 1, Len(q))
  OBVIOUS
<1>7. PICK sent : sent = SubSeq(all, 1, k)
  OBVIOUS
<1>8. PICK p : p = pending[s]
  OBVIOUS
<1>9. PICK r : r = IF n = 0 THEN p ELSE SubSeq(p, k + 1, Len(p))
  OBVIOUS
<1>10. /\ inbox' = [inbox EXCEPT ![Other(s)] = @ \o sent]
       /\ chunks' = [chunks EXCEPT ![s] = left]
       /\ pending' = [pending EXCEPT ![s] = r]
  BY <1>4, <1>6, <1>7, <1>8, <1>9, Zenon DEF Arrive
<1>11. p \in Seq(ControlMessages) /\ first = IF n = 0 THEN <<>> ELSE p
  BY <1>2, <1>8 DEF LanesTypes
<1>12. /\ p \in Seq(Messages) /\ q \in Seq(Messages) /\ first \in Seq(Messages)
  <2>1. p \in Seq(Messages) /\ q \in Seq(Messages)
    BY <1>11, StepsAreSteps, Wider
  <2>2. QED
    BY <1>11, <2>1
<1>13. /\ <<>> \in Seq(StepMessages) /\ <<>> \in Seq(ControlMessages) /\ Len(<<>>) = 0
       /\ Len(p) \in Nat /\ Len(q) \in Nat /\ Len(first) \in Nat /\ k \in 0..Len(first) + n
  <2>1. PICK t : t = SubSeq(q, 1, n)
    OBVIOUS
  <2>2. t \in Seq(Messages) /\ Len(t) = n
    BY <1>5, <1>12, <2>1
  <2>3. Len(all) = Len(first) + n
    BY <1>3, <1>12, <2>1, <2>2, ConcatProperties
  <2>4. k \in 0..Len(first) + n
    BY <1>4, <2>3
  <2>5. <<>> \in Seq(StepMessages) /\ <<>> \in Seq(ControlMessages) /\ Len(<<>>) = 0
    OBVIOUS
  <2>6. Len(p) \in Nat /\ Len(q) \in Nat /\ Len(first) \in Nat
    BY <1>11, <1>12
  <2>7. QED
    BY <2>4, <2>5, <2>6
<1>14. CASE k < Len(first)
  <2>1. first = p /\ n # 0 /\ k \in 0..Len(p)
    BY <1>11, <1>13, <1>14
  <2>2. sent = SubSeq(p, 1, k) /\ r = SubSeq(p, k + 1, Len(p)) /\ left = q
    <3>1. PICK t : t = SubSeq(q, 1, n)
      OBVIOUS
    <3>2. t \in Seq(Messages)
      BY <1>5, <1>12, <3>1
    <3>3. SubSeq(p \o t, 1, k) = SubSeq(p, 1, k)
      BY <1>12, <1>13, <1>14, <2>1, <3>2, DrainsSome
    <3>4. QED
      BY <1>3, <1>6, <1>7, <1>9, <1>14, <2>1, <3>1, <3>3
  <2>3. sent \in Seq(ControlMessages) /\ r \in Seq(ControlMessages) /\ p = sent \o r
    <3>1. /\ SubSeq(p, 1, k) \in Seq(ControlMessages)
          /\ SubSeq(p, k + 1, Len(p)) \in Seq(ControlMessages)
          /\ p = SubSeq(p, 1, k) \o SubSeq(p, k + 1, Len(p))
      BY <1>11, <2>1, Parts
    <3>2. QED
      BY <2>2, <3>1
  <2>4. sent \o <<>> = sent /\ <<>> \o q = q
    BY <2>3
  <2>5. Drains(s, q, sent, r, <<>>, q)
    BY <1>8, <1>10, <1>13, <2>2, <2>3, <2>4 DEF Drains
  <2>6. QED
    BY <2>5
<1>15. CASE ~(k < Len(first))
  <2>1. PICK j : j = k - Len(first)
    OBVIOUS
  <2>2. j \in 0..Len(q) /\ sent = first \o SubSeq(q, 1, j) /\ left = SubSeq(q, j + 1, Len(q))
    <3>1. /\ k - Len(first) \in 0..Len(q)
          /\ SubSeq(first \o SubSeq(q, 1, n), 1, k) = first \o SubSeq(q, 1, k - Len(first))
      <4>1. /\ first \in Seq(Messages) /\ q \in Seq(Messages) /\ n \in 0..Len(q)
            /\ k \in 0..Len(first) + n /\ ~(k < Len(first))
        BY <1>5, <1>12, <1>13, <1>15
      <4>2. QED
        BY <4>1, DrainsMore
    <3>2. QED
      BY <1>3, <1>6, <1>7, <1>15, <2>1, <3>1
  <2>3. PICK u : u = SubSeq(q, 1, j)
    OBVIOUS
  <2>4. u \in Seq(StepMessages) /\ left \in Seq(StepMessages) /\ q = u \o left
    <3>1. /\ SubSeq(q, 1, j) \in Seq(StepMessages) /\ SubSeq(q, j + 1, Len(q)) \in Seq(StepMessages)
          /\ q = SubSeq(q, 1, j) \o SubSeq(q, j + 1, Len(q))
      BY <2>2, Parts
    <3>2. QED
      BY <2>2, <2>3, <3>1
  <2>5. p = first \o r /\ r \in Seq(ControlMessages) /\ first \in Seq(ControlMessages)
    <3>1. CASE n = 0
      <4>1. first = <<>> /\ r = p
        BY <1>9, <1>11, <3>1
      <4>2. QED
        BY <1>11, <1>13, <4>1
    <3>2. CASE n # 0
      <4>1. first = p /\ r = SubSeq(p, k + 1, Len(p))
        BY <1>9, <1>11, <3>2
      <4>2. Len(p) < k + 1 /\ k \in Nat
        BY <1>13, <1>15, <4>1
      <4>3. r = <<>>
        BY <1>13, <4>1, <4>2, SubSeqEmpty
      <4>4. p \o <<>> = p
        BY <1>11
      <4>5. QED
        BY <1>11, <1>13, <4>1, <4>3, <4>4
    <3>3. QED
      BY <3>1, <3>2
  <2>6. Drains(s, q, first, r, u, left)
    BY <1>8, <1>10, <2>2, <2>3, <2>4, <2>5 DEF Drains
  <2>7. QED
    BY <2>6
<1>16. QED
  BY <1>14, <1>15

\* A message is sent, or joins the ones that wait, or is dropped.
LEMMA WaySends ==
  ASSUME NEW x, NEW p, NEW c, NEW g, NEW o, NEW n,
         WayOK(x, p, c, g, o, n), WayTypes(x, p, c, g, n), NEW m \in ControlMessages,
         NEW k \in Nat, n <= k, m.type = "inline" => n < m.item.id /\ m.item.id <= k,
         NEW s, NEW a, NEW b, Sends(s, p, m, a, b)
  PROVE  WayOK(x \o a, b, c, g, o, k) /\ WayTypes(x \o a, b, c, g, k)
<1>1. a \in Seq(ControlMessages) /\ b \in Seq(ControlMessages)
  BY DEF Sends
<1>2. WayTypes(x, p, c, g, k)
  BY DEF WayTypes
<1>3. WayOK(x, a \o b, c, g, o, k)
  <2>1. CASE p \o <<m>> = a \o b
    <3>1. WayOK(x, p \o <<m>>, c, g, o, k)
      BY WayPosts
    <3>2. QED
      BY <2>1, <3>1
  <2>2. CASE p = a \o b
    <3>1. WayOK(x, p, c, g, o, k)
      BY WayLater
    <3>2. QED
      BY <2>2, <3>1
  <2>3. QED
    BY <2>1, <2>2 DEF Sends
<1>4. WayTypes(x, a \o b, c, g, k)
  BY <1>1, <1>2, Joined DEF WayTypes
<1>5. WayOK(x \o a, b, c, g, o, k)
  BY <1>1, <1>3, <1>4, WayMoves
<1>6. x \o a \in Seq(Messages)
  <2>1. a \in Seq(Messages) /\ x \in Seq(Messages)
    BY <1>1, <1>2, StepsAreSteps, Wider DEF WayTypes
  <2>2. QED
    BY <2>1, Joined
<1>7. QED
  BY <1>1, <1>2, <1>5, <1>6 DEF WayTypes

LEMMA JoinThree ==
  ASSUME NEW S, NEW x \in Seq(S), NEW y \in Seq(S), NEW z \in Seq(S)
  PROVE  (x \o y) \o z = x \o (y \o z)
BY ConcatAssociative

LEMMA MessagesJoined ==
  ASSUME NEW x, x \in Seq(Messages), NEW y, y \in Seq(Messages)
  PROVE  /\ Range(x \o y) = Range(x) \cup Range(y)
         /\ \A z \in Seq(Messages) : (x \o y) \o z = x \o (y \o z)
<1>1. Range(x \o y) = Range(x) \cup Range(y)
  BY RangeJoin
<1>2. \A z \in Seq(Messages) : (x \o y) \o z = x \o (y \o z)
  BY JoinThree
<1>3. QED
  BY <1>1, <1>2

\* What waits is sent, then chunks.
LEMMA WayDrains ==
  ASSUME NEW x, NEW g, NEW n, NEW a \in Seq(ControlMessages), NEW r \in Seq(ControlMessages),
         NEW u \in Seq(StepMessages), NEW v \in Seq(StepMessages),
         WayOK(x, a \o r, u \o v, g, TRUE, n), WayTypes(x, a \o r, u \o v, g, n)
  PROVE  WayOK(x \o (a \o u), r, v, g, TRUE, n)
<1>1. WayOK(x \o a, r, u \o v, g, TRUE, n)
  BY WayMoves
<1>2. x \in Seq(Messages) /\ a \in Seq(Messages) /\ u \in Seq(Messages)
  BY StepsAreSteps, Wider DEF WayTypes
<1>3. WayTypes(x \o a, r, u \o v, g, n)
  <2>1. x \o a \in Seq(Messages)
    BY <1>2, Joined
  <2>2. QED
    BY <2>1 DEF WayTypes
<1>4. WayOK((x \o a) \o u, r, v, g, TRUE, n)
  <2>1. PICK y : y = x \o a
    OBVIOUS
  <2>2. WayOK(y \o u, r, v, g, TRUE, n)
    BY <1>1, <1>3, <2>1, WayShifts
  <2>3. QED
    BY <2>1, <2>2
<1>5. (x \o a) \o u = x \o (a \o u)
  <2>1. x \in Seq(Messages) /\ a \in Seq(Messages) /\ u \in Seq(Messages)
    BY <1>2
  <2>2. QED
    BY <2>1, MessagesJoined
<1>6. QED
  BY <1>4, <1>5

-----------------------------------------------------------------------------
(***************************************************************************)
(* The two lanes of each way are what is in its messages.  M is what is    *)
(* under way, D what has begun to come.                                    *)
(***************************************************************************)

Noise == {Open, Closed, Result, Capabilities, Request}
Begins(M, D, i) == i.id \in D \/ Step(i, 0) \in M
ShortOf(M) == {Outline(m.item) : m \in {x \in M : x.type = "inline"}}
LongOf(M, D) == {Outline(m.item) : m \in {x \in M : IsEnd(x) /\ Begins(M, D, x.item)}}

LaneKept(s) == ShortLane(s)' = ShortLane(s) /\ LongLane(s)' = LongLane(s)
LaneLess(s) == ShortLane(s)' \subseteq ShortLane(s) /\ LongLane(s)' \subseteq LongLane(s)

LEMMA LanesAre ==
  ASSUME NEW s
  PROVE  /\ ShortLane(s) = ShortOf(UnderWay(s))
         /\ LongLane(s) = LongOf(UnderWay(s), Ids(Other(s)))
         /\ ShortLane(s)' = ShortOf(UnderWay(s)')
         /\ LongLane(s)' = LongOf(UnderWay(s)', Ids(Other(s))')
BY Zenon DEF ShortLane, LongLane, ShortOf, LongOf, Begun, Begins

LEMMA NoiseIsSilent ==
  ASSUME NEW m \in Noise
  PROVE  m.type # "inline" /\ m.type # "step" /\ ~IsEnd(m)
BY DEF Noise, Open, Closed, Result, Capabilities, Request, IsEnd

LEMMA LanesShrink ==
  ASSUME NEW M, NEW N, M \subseteq N \cup Noise, NEW C, NEW D, C \subseteq D
  PROVE  ShortOf(M) \subseteq ShortOf(N) /\ LongOf(M, C) \subseteq LongOf(N, D)
<1>1. ASSUME NEW m \in M, m.type = "inline" \/ m.type = "step"
      PROVE  m \in N
  BY <1>1, NoiseIsSilent
<1>2. \A m \in M : m.type = "inline" => m \in N
  BY <1>1
<1>3. \A m \in M : IsEnd(m) => m \in N
  BY <1>1 DEF IsEnd
<1>4. \A i : Begins(M, C, i) => Begins(N, D, i)
  <2>1. \A i : Step(i, 0).type = "step"
    BY DEF Step
  <2>2. QED
    BY <1>1, <2>1 DEF Begins
<1>5. ShortOf(M) \subseteq ShortOf(N)
  BY <1>2 DEF ShortOf
<1>6. LongOf(M, C) \subseteq LongOf(N, D)
  BY <1>3, <1>4 DEF LongOf
<1>7. QED
  BY <1>5, <1>6

LEMMA LaneShrinks ==
  ASSUME NEW s, UnderWay(s)' \subseteq UnderWay(s) \cup Noise, Ids(Other(s))' \subseteq Ids(Other(s))
  PROVE  LaneLess(s)
<1>1. PICK M, N, C, D : /\ M = UnderWay(s)' /\ N = UnderWay(s)
                        /\ C = Ids(Other(s))' /\ D = Ids(Other(s))
  OBVIOUS
<1>2. ShortOf(M) \subseteq ShortOf(N) /\ LongOf(M, C) \subseteq LongOf(N, D)
  BY <1>1, LanesShrink
<1>3. QED
  BY <1>1, <1>2, LanesAre DEF LaneLess

LEMMA LaneStays ==
  ASSUME NEW s, UnderWay(s)' \subseteq UnderWay(s) \cup Noise,
         UnderWay(s) \subseteq UnderWay(s)' \cup Noise, Ids(Other(s))' = Ids(Other(s))
  PROVE  LaneKept(s)
<1>1. PICK M, N, C, D : /\ M = UnderWay(s)' /\ N = UnderWay(s)
                        /\ C = Ids(Other(s))' /\ D = Ids(Other(s))
  OBVIOUS
<1>2. /\ ShortOf(M) \subseteq ShortOf(N) /\ LongOf(M, C) \subseteq LongOf(N, D)
      /\ ShortOf(N) \subseteq ShortOf(M) /\ LongOf(N, D) \subseteq LongOf(M, C)
  BY <1>1, LanesShrink
<1>3. QED
  BY <1>1, <1>2, LanesAre DEF LaneKept

\* A short text more.
LEMMA ShortGains ==
  ASSUME NEW M, NEW N, NEW m, m.type = "inline", M \subseteq N \cup {m} \cup Noise,
         N \cup {m} \subseteq M \cup Noise, NEW D
  PROVE  ShortOf(M) = ShortOf(N) \cup {Outline(m.item)} /\ LongOf(M, D) = LongOf(N, D)
<1>1. \A x \in Noise : x.type # "inline" /\ x.type # "step"
  BY NoiseIsSilent
<1>2. ShortOf(M) = ShortOf(N) \cup {Outline(m.item)}
  <2>1. \A x \in M : x.type = "inline" => x \in N \/ x = m
    BY <1>1
  <2>2. m \in M /\ \A x \in N : x.type = "inline" => x \in M
    BY <1>1
  <2>3. ShortOf(M) \subseteq ShortOf(N) \cup {Outline(m.item)}
    BY <2>1 DEF ShortOf
  <2>4. ShortOf(N) \subseteq ShortOf(M)
    BY <2>2 DEF ShortOf
  <2>5. Outline(m.item) \in ShortOf(M)
    BY <2>2 DEF ShortOf
  <2>6. QED
    BY <2>3, <2>4, <2>5
<1>3. \A x : x.type = "step" => (x \in M <=> x \in N)
  BY <1>1
<1>4. \A x : IsEnd(x) => (x \in M <=> x \in N)
  BY <1>3 DEF IsEnd
<1>5. \A i : Begins(M, D, i) <=> Begins(N, D, i)
  <2>1. \A i : Step(i, 0).type = "step"
    BY DEF Step
  <2>2. QED
    BY <1>3, <2>1 DEF Begins
<1>6. LongOf(M, D) = LongOf(N, D)
  BY <1>4, <1>5 DEF LongOf
<1>7. QED
  BY <1>2, <1>6

\* A long text more.
LEMMA LongGains ==
  ASSUME NEW N, NEW i \in Items, NEW D
  PROVE  /\ ShortOf(N \cup Range(Steps(i))) = ShortOf(N)
         /\ (\A m \in N : IsEnd(m) => m.item.id # i.id)
                => LongOf(N \cup Range(Steps(i)), D) = LongOf(N, D) \cup {Outline(i)}
<1>1. PICK R : R = Range(Steps(i))
  OBVIOUS
<1>2. /\ \A m \in R : m \in StepMessages /\ m.item = i
      /\ Step(i, 0) \in R /\ Step(i, Chunks + 1) \in R
  BY <1>1, StepsMembers
<1>3. \A m \in R : m.type = "step" /\ m.type # "inline"
  BY <1>2, StepParts
<1>4. ShortOf(N \cup R) = ShortOf(N)
  BY <1>3 DEF ShortOf
<1>5. ASSUME \A m \in N : IsEnd(m) => m.item.id # i.id
      PROVE  LongOf(N \cup R, D) = LongOf(N, D) \cup {Outline(i)}
  <2>1. \A m \in N : IsEnd(m) => (Begins(N \cup R, D, m.item) <=> Begins(N, D, m.item))
    <3>1. ASSUME NEW m \in N, IsEnd(m)
          PROVE  Step(m.item, 0) \notin R
      <4>1. Step(m.item, 0).item = m.item
        BY DEF Step
      <4>2. m.item # i
        BY <1>5, <3>1
      <4>3. QED
        BY <1>2, <4>1, <4>2
    <3>2. QED
      BY <3>1 DEF Begins
  <2>2. LongOf(N, D) \subseteq LongOf(N \cup R, D)
    BY <2>1 DEF LongOf
  <2>3. Outline(i) \in LongOf(N \cup R, D)
    <3>1. PICK e : e = Step(i, Chunks + 1)
      OBVIOUS
    <3>2. IsEnd(e) /\ e.item = i /\ e \in N \cup R
      BY <1>2, <3>1 DEF Step, IsEnd
    <3>3. Begins(N \cup R, D, e.item)
      BY <1>2, <3>2 DEF Begins
    <3>4. QED
      BY <3>2, <3>3 DEF LongOf
  <2>4. LongOf(N \cup R, D) \subseteq LongOf(N, D) \cup {Outline(i)}
    <3>1. ASSUME NEW m \in N \cup R, IsEnd(m), Begins(N \cup R, D, m.item)
          PROVE  Outline(m.item) \in LongOf(N, D) \cup {Outline(i)}
      <4>1. CASE m \in R
        BY <1>2, <4>1
      <4>2. CASE m \notin R
        <5>1. m \in N /\ Begins(N, D, m.item)
          BY <2>1, <3>1, <4>2
        <5>2. QED
          BY <3>1, <5>1 DEF LongOf
      <4>3. QED
        BY <4>1, <4>2
    <3>2. QED
      BY <3>1 DEF LongOf
  <2>5. QED
    BY <2>2, <2>3, <2>4
<1>6. QED
  BY <1>1, <1>4, <1>5

LEMMA MessageParts ==
  ASSUME NEW m \in Messages
  PROVE  /\ m.type = "inline" => m \in ControlMessages /\ m.item \in Items /\ m.item.id \in Nat
         /\ m.type = "step" => m \in StepMessages
         /\ m.type = "open" => m = Open
         /\ m.type \notin {"inline", "step"} => m \in Noise
         /\ IsEnd(m) => m.type = "step" /\ m.n = Chunks + 1
BY DEF Messages, ControlMessages, StepMessages, Items, Open, Closed, Result, Capabilities, Request,
       Noise, IsEnd

\* A short text is heard.
LEMMA ShortLeaves ==
  ASSUME NEW N \in SUBSET Messages, NEW m \in Messages, m.type = "inline", Ahead({m}, N), NEW D
  PROVE  /\ ShortOf(N) = ShortOf({m} \cup N) \ {Outline(m.item)}
         /\ LongOf(N, D) = LongOf({m} \cup N, D)
         /\ Outline(m.item) \in ShortOf({m} \cup N)
         /\ \A j \in ShortOf({m} \cup N) : Outline(m.item).id <= j.id
<1>1. m.item \in Items /\ m.item.id \in Nat
  BY MessageParts
<1>2. \A i : Outline(i).id = i.id
  BY DEF Outline
<1>3. ASSUME NEW x \in N, x.type = "inline"
      PROVE  x.item.id \in Nat /\ m.item.id < x.item.id
  BY <1>3, MessageParts DEF Ahead, Precedes
<1>4. ASSUME NEW x \in N, x.type = "inline"
      PROVE  Outline(x.item) # Outline(m.item) /\ Outline(m.item).id <= Outline(x.item).id
  <2>1. x.item.id \in Nat /\ m.item.id < x.item.id
    BY <1>3, <1>4
  <2>2. m.item.id # x.item.id /\ m.item.id <= x.item.id
    BY <1>1, <2>1
  <2>3. QED
    BY <1>2, <2>2
<1>5. ShortOf({m} \cup N) = ShortOf(N) \cup {Outline(m.item)}
  BY DEF ShortOf
<1>6. Outline(m.item) \notin ShortOf(N)
  BY <1>4 DEF ShortOf
<1>7. \A j \in ShortOf(N) : Outline(m.item).id <= j.id
  BY <1>4 DEF ShortOf
<1>8. Outline(m.item).id <= Outline(m.item).id
  BY <1>1, <1>2
<1>9. LongOf(N, D) = LongOf({m} \cup N, D)
  <2>1. {m} \cup N \subseteq N \cup {m} \cup Noise /\ N \cup {m} \subseteq ({m} \cup N) \cup Noise
    OBVIOUS
  <2>2. QED
    BY <2>1, ShortGains
<1>10. QED
  BY <1>5, <1>6, <1>7, <1>8, <1>9

\* A chunk is heard: what has begun is begun.
LEMMA ChunkLeaves ==
  ASSUME NEW N \in SUBSET Messages, NEW m \in StepMessages, ~IsEnd(m), Ahead({m}, N), NEW D,
         NEW C, m.n = 0 => C = D \cup {m.item.id}, m.n # 0 => C = D
  PROVE  ShortOf(N) = ShortOf({m} \cup N) /\ LongOf(N, C) = LongOf({m} \cup N, D)
<1>1. m.type = "step" /\ m = Step(m.item, m.n)
  BY StepParts
<1>2. ShortOf(N) = ShortOf({m} \cup N)
  BY <1>1 DEF ShortOf
<1>3. ASSUME NEW e \in N, IsEnd(e)
      PROVE  Begins(N, C, e.item) <=> Begins({m} \cup N, D, e.item)
  <2>1. e \in StepMessages /\ Precedes(m, e)
    BY <1>3, MessageParts DEF Ahead
  <2>2. e.item.id = m.item.id => e.item = m.item
    BY <2>1, PrecedingSteps
  <2>3. ASSUME m.n = 0, e.item.id = m.item.id
        PROVE  Step(e.item, 0) = m
    BY <1>1, <2>2, <2>3
  <2>4. ASSUME Step(e.item, 0) = m
        PROVE  m.n = 0 /\ m.item = e.item
    <3>1. Step(e.item, 0).n = 0 /\ Step(e.item, 0).item = e.item
      BY DEF Step
    <3>2. QED
      BY <2>4, <3>1
  <2>5. ASSUME Begins(N, C, e.item)
        PROVE  Begins({m} \cup N, D, e.item)
    BY <2>3, <2>5 DEF Begins
  <2>6. ASSUME Begins({m} \cup N, D, e.item)
        PROVE  Begins(N, C, e.item)
    BY <2>4, <2>6 DEF Begins
  <2>7. QED
    BY <2>5, <2>6
<1>4. LongOf(N, C) \subseteq LongOf({m} \cup N, D)
  BY <1>3 DEF LongOf
<1>5. LongOf({m} \cup N, D) \subseteq LongOf(N, C)
  BY <1>3 DEF LongOf
<1>6. QED
  BY <1>2, <1>4, <1>5

\* The end of a long text is heard.  An end alone brings nothing.
LEMMA EndLeaves ==
  ASSUME NEW N \in SUBSET Messages, NEW m \in StepMessages, IsEnd(m), Ahead({m}, N), NEW D
  PROVE  /\ ShortOf(N) = ShortOf({m} \cup N)
         /\ m.item.id \notin D => LongOf(N, D \ {m.item.id}) = LongOf({m} \cup N, D)
         /\ m.item.id \in D =>
                /\ LongOf(N, D \ {m.item.id}) = LongOf({m} \cup N, D) \ {Outline(m.item)}
                /\ Outline(m.item) \in LongOf({m} \cup N, D)
                /\ \A j \in LongOf({m} \cup N, D) : Outline(m.item).id <= j.id
<1> DEFINE C == D \ {m.item.id}
<1>1. m.type = "step" /\ m = Step(m.item, m.n) /\ m.n = Chunks + 1 /\ m.item.id \in Nat
  BY StepParts DEF IsEnd
<1>2. ShortOf(N) = ShortOf({m} \cup N)
  BY <1>1 DEF ShortOf
<1>3. ASSUME NEW x \in N, x.type = "step"
      PROVE  m.item.id <= x.item.id /\ x.item.id # m.item.id /\ x \in StepMessages
  <2>1. x \in StepMessages /\ Precedes(m, x)
    BY <1>3, MessageParts DEF Ahead
  <2>2. x.n \in Nat /\ x.n <= Chunks + 1
    BY <2>1, StepParts
  <2>3. ~(m.n < x.n)
    BY <1>1, <2>2, LimitsAreNumbers
  <2>4. QED
    BY <2>1, <2>3, PrecedingSteps
<1>4. \A i : Step(i, 0).type = "step" /\ Step(i, 0).item = i /\ Step(i, 0) # m
  <2>1. \A i : Step(i, 0).type = "step" /\ Step(i, 0).item = i /\ Step(i, 0).n = 0
    BY DEF Step
  <2>2. m.n # 0
    BY <1>1, LimitsAreNumbers
  <2>3. QED
    BY <2>1, <2>2
<1>5. ASSUME NEW e \in N, IsEnd(e)
      PROVE  Begins(N, C, e.item) <=> Begins({m} \cup N, D, e.item)
  <2>1. e.item.id # m.item.id
    BY <1>3, <1>5 DEF IsEnd
  <2>2. QED
    BY <1>4, <2>1 DEF Begins
<1>6. Begins({m} \cup N, D, m.item) <=> m.item.id \in D
  <2>1. Step(m.item, 0) \notin {m} \cup N
    BY <1>3, <1>4
  <2>2. QED
    BY <2>1 DEF Begins
<1>7. LongOf(N, C) \subseteq LongOf({m} \cup N, D)
  BY <1>5 DEF LongOf
<1>8. LongOf({m} \cup N, D) \subseteq LongOf(N, C) \cup {Outline(m.item)}
  BY <1>5 DEF LongOf
<1>9. ASSUME m.item.id \notin D
      PROVE  LongOf({m} \cup N, D) \subseteq LongOf(N, C)
  BY <1>5, <1>6, <1>9 DEF LongOf
<1>10. \A j \in LongOf(N, C) : Outline(m.item).id <= j.id /\ j # Outline(m.item)
  <2>1. \A i : Outline(i).id = i.id
    BY DEF Outline
  <2>2. ASSUME NEW e \in N, IsEnd(e)
        PROVE  Outline(m.item).id <= Outline(e.item).id /\ Outline(e.item) # Outline(m.item)
    <3>1. m.item.id <= e.item.id /\ e.item.id # m.item.id
      BY <1>3, <2>2 DEF IsEnd
    <3>2. QED
      BY <2>1, <3>1
  <2>3. QED
    BY <2>2 DEF LongOf
<1>11. ASSUME m.item.id \in D
       PROVE  Outline(m.item) \in LongOf({m} \cup N, D)
  BY <1>6, <1>11 DEF LongOf
<1>12. Outline(m.item).id <= Outline(m.item).id
  BY <1>1 DEF Outline
<1>13. QED
  BY <1>2, <1>7, <1>8, <1>9, <1>10, <1>11, <1>12

\* The opening is heard: nothing that is still to come has begun to come.
LEMMA OpenLeaves ==
  ASSUME NEW N, NEW m \in Noise, NEW D, \A x \in N : x.type = "step" => x.item.id \notin D
  PROVE  ShortOf(N) = ShortOf({m} \cup N) /\ LongOf(N, {}) = LongOf({m} \cup N, D)
<1>1. m.type # "inline" /\ m.type # "step" /\ ~IsEnd(m)
  BY NoiseIsSilent
<1>2. ShortOf(N) = ShortOf({m} \cup N)
  BY <1>1 DEF ShortOf
<1>3. ASSUME NEW e \in N, IsEnd(e)
      PROVE  Begins(N, {}, e.item) <=> Begins({m} \cup N, D, e.item)
  <2>1. e.item.id \notin D
    BY <1>3 DEF IsEnd
  <2>2. Step(e.item, 0) # m
    BY <1>1 DEF Step
  <2>3. QED
    BY <2>1, <2>2 DEF Begins
<1>4. LongOf(N, {}) = LongOf({m} \cup N, D)
  BY <1>1, <1>3 DEF LongOf
<1>5. QED
  BY <1>2, <1>4

-----------------------------------------------------------------------------
(***************************************************************************)
(* What is at the head of a way.                                           *)
(***************************************************************************)

LEMMA WayHead ==
  ASSUME NEW x, NEW p, NEW c, NEW g, NEW o, NEW n, WayOK(x, p, c, g, o, n),
         WayTypes(x, p, c, g, n), x # <<>>
  PROVE  /\ Head(x) \in Messages
         /\ Range(x) = {Head(x)} \cup Range(Tail(x))
         /\ Range(Tail(x)) \cup Range(p) \cup Range(c) \in SUBSET Messages
         /\ Ahead({Head(x)}, Range(Tail(x)) \cup Range(p) \cup Range(c))
<1>1. PICK m, t : m = Head(x) /\ t = Tail(x)
  OBVIOUS
<1>2. /\ t \in Seq(Messages) /\ <<m>> \in Seq(Messages) /\ x = <<m>> \o t /\ m \in Messages
  BY <1>1, Parts DEF WayTypes
<1>3. Range(x) = {m} \cup Range(t)
  BY <1>2, RangeOne
<1>4. Range(t) \in SUBSET Messages /\ Range(p) \in SUBSET Messages /\ Range(c) \in SUBSET Messages
  BY <1>2, RangeType, StepsAreSteps DEF WayTypes
<1>5. Ahead({m}, Range(t))
  <2>1. Sorted(<<m>> \o t)
    BY <1>2 DEF WayOK
  <2>2. QED
    BY <1>2, <2>1, SortedOne
<1>6. Ahead({m}, Range(p)) /\ Ahead({m}, Range(c))
  <2>1. Ahead({m} \cup Range(t), Range(p)) /\ Ahead({m} \cup Range(t), Range(c))
    BY <1>3 DEF WayOK
  <2>2. QED
    BY <2>1, AheadParts, Zenon
<1>7. Ahead({m}, Range(t) \cup Range(p) \cup Range(c))
  BY <1>5, <1>6, AheadParts, Zenon
<1>8. QED
  BY <1>1, <1>2, <1>3, <1>4, <1>7

\* The step at the head is the next one of its text.
LEMMA HeadIsNext ==
  ASSUME NEW x, NEW p, NEW c, NEW g, NEW o, NEW n, WayOK(x, p, c, g, o, n),
         WayTypes(x, p, c, g, n), x # <<>>, Head(x).type = "step",
         Head(x).item.id \in DOMAIN g
  PROVE  Head(x).n = Len(g[Head(x).item.id]) + 1
<1>1. PICK m : m = Head(x)
  OBVIOUS
<1>2. m \in Messages /\ m \in StepMessages /\ m \in Range(x)
  <2>1. m \in Messages /\ m \in Range(x)
    BY <1>1, WayHead
  <2>2. QED
    BY <1>1, <2>1, MessageParts
<1>3. Ahead({m}, Range(Tail(x)) \cup Range(c)) /\ Range(x) = {m} \cup Range(Tail(x))
  <2>1. Ahead({m}, Range(Tail(x)) \cup Range(p) \cup Range(c)) /\ Range(x) = {m} \cup Range(Tail(x))
    BY <1>1, WayHead
  <2>2. QED
    BY <2>1 DEF Ahead
<1>4. PICK F : F = Flow(x, c, o)
  OBVIOUS
<1>5. m \in F /\ Meets(F, g) /\ F \subseteq Range(x) \cup Range(c) /\ F \in SUBSET StepMessages
  BY <1>1, <1>2, <1>4, FlowType DEF WayOK, WayTypes, Flow, StepsIn
<1>6. \/ m.n = Len(g[m.item.id]) + 1
      \/ Step(m.item, m.n - 1) \in F
  BY <1>1, <1>5 DEF Meets
<1>7. m.n > Len(g[m.item.id]) /\ Len(g[m.item.id]) \in Nat /\ m.n \in Nat
  BY <1>1, <1>2, <1>5, StepParts DEF Meets, WayTypes
<1>8. ASSUME Step(m.item, m.n - 1) \in F
      PROVE  FALSE
  <2>1. PICK y : y = Step(m.item, m.n - 1)
    OBVIOUS
  <2>2. y.item = m.item /\ y.n = m.n - 1 /\ y \in StepMessages
    BY <1>5, <1>8, <2>1 DEF Step
  <2>3. y # m /\ y.n <= m.n
    BY <1>7, <2>2
  <2>4. Precedes(m, y)
    BY <1>3, <1>5, <1>8, <2>1, <2>3 DEF Ahead
  <2>5. QED
    BY <1>2, <2>2, <2>3, <2>4, PrecedingSteps
<1>9. QED
  BY <1>1, <1>6, <1>8

\* Behind the opening there is nothing of what has begun to come.
LEMMA BehindOpen ==
  ASSUME NEW x, NEW p, NEW c, NEW g, NEW o, NEW n, WayOK(x, p, c, g, o, n),
         WayTypes(x, p, c, g, n), x # <<>>, Head(x) = Open
  PROVE  \A m \in Range(Tail(x)) \cup Range(p) \cup Range(c) :
            m.type = "step" => m.item.id \notin DOMAIN g
<1>1. PICK h, t : h = Head(x) /\ t = Tail(x)
  OBVIOUS
<1>2. t \in Seq(Messages) /\ <<h>> \in Seq(Messages) /\ x = <<h>> \o t
  BY <1>1, Parts DEF WayTypes
<1>3. Fresh(<<h>> \o t, DOMAIN g, Numbers(Range(c)))
  BY <1>2 DEF WayOK
<1>4. Fresh(<<h>>, DOMAIN g, Numbers(Range(c)) \cup Numbers(Range(t)))
  BY <1>2, <1>3, FreshJoin
<1>5. Older(DOMAIN g, Numbers(Range(c)) \cup Numbers(Range(t)))
  BY <1>1, <1>4, FreshOne
<1>6. Range(p) \in SUBSET ControlMessages
  BY RangeType DEF WayTypes
<1>7. \A m \in Range(p) : m.type # "step"
  BY <1>6, ControlAndSteps
<1>8. \A d \in DOMAIN g : d \in Nat
  BY DEF WayOK
<1>9. ASSUME NEW m \in Range(t) \cup Range(c), m.type = "step", m.item.id \in DOMAIN g
      PROVE  FALSE
  <2>1. m.item.id \in Numbers(Range(c)) \cup Numbers(Range(t))
    BY <1>9 DEF Numbers, StepsIn
  <2>2. m.item.id < m.item.id
    BY <1>5, <1>9, <2>1 DEF Older
  <2>3. QED
    BY <1>8, <1>9, <2>2
<1>10. QED
  BY <1>1, <1>7, <1>9

-----------------------------------------------------------------------------
(***************************************************************************)
(* Both ways, and what each step does to them.                             *)
(***************************************************************************)

Way(s) == WayOK(inbox[Other(s)], pending[s], chunks[s], partial[Other(s)], channel = "open", issued)
WaysOK == \A s \in Sides : Way(s)

LEMMA WayTyped ==
  ASSUME ClipInv, NEW s \in Sides
  PROVE  /\ WayTypes(inbox[Other(s)], pending[s], chunks[s], partial[Other(s)], issued)
         /\ UnderWay(s) \in SUBSET Messages
         /\ inbox[s] \in Seq(Messages) /\ inbox[Other(s)] \in Seq(Messages)
         /\ pending[s] \in Seq(ControlMessages) /\ chunks[s] \in Seq(StepMessages)
         /\ issued \in Nat
<1>1. /\ inbox[s] \in Seq(Messages) /\ inbox[Other(s)] \in Seq(Messages)
      /\ pending[s] \in Seq(ControlMessages) /\ chunks[s] \in Seq(StepMessages)
      /\ issued \in Nat
  BY TwoSides DEF ClipInv, LanesOK, LanesTypes, SessionOK
<1>2. \A d \in DOMAIN partial[Other(s)] : Len(partial[Other(s)][d]) \in Nat
  <2>1. \A k \in 0..Chunks : Len(Upto(k)) \in Nat
    BY LimitsAreNumbers DEF Upto
  <2>2. \A d \in DOMAIN partial[Other(s)] : \E k \in 0..Chunks : partial[Other(s)][d] = Upto(k)
    BY TwoSides DEF ClipInv, PartialOK, Ids
  <2>3. QED
    BY <2>1, <2>2
<1>3. UnderWay(s) \in SUBSET Messages
  <2>1. /\ Range(inbox[Other(s)]) \in SUBSET Messages /\ Range(pending[s]) \in SUBSET ControlMessages
        /\ Range(chunks[s]) \in SUBSET StepMessages
    BY <1>1, RangeType
  <2>2. QED
    BY <2>1, StepsAreSteps DEF UnderWay
<1>4. QED
  BY <1>1, <1>2, <1>3 DEF WayTypes

\* A step that leaves one way alone.
LEMMA WayStill ==
  ASSUME ClipInv, WaysOK, NEW s \in Sides, inbox'[Other(s)] = inbox[Other(s)],
         pending'[s] = pending[s], chunks'[s] = chunks[s], partial'[Other(s)] = partial[Other(s)],
         channel' = channel, issued' \in {issued, issued + 1}
  PROVE  Way(s)' /\ LaneKept(s)
<1>1. PICK x, p, c, g, o : /\ x = inbox[Other(s)] /\ p = pending[s] /\ c = chunks[s]
                           /\ g = partial[Other(s)] /\ o = (channel = "open")
  OBVIOUS
<1>2. WayTypes(x, p, c, g, issued) /\ issued \in Nat
  BY <1>1, WayTyped
<1>3. WayOK(x, p, c, g, o, issued)
  BY <1>1 DEF WaysOK, Way
<1>4. issued' \in Nat /\ issued <= issued'
  BY <1>2
<1>5. WayOK(x, p, c, g, o, issued')
  BY <1>2, <1>3, <1>4, WayLater
<1>6. Way(s)'
  BY <1>1, <1>5 DEF Way
<1>7. UnderWay(s)' = UnderWay(s) /\ Ids(Other(s))' = Ids(Other(s))
  BY DEF UnderWay, Ids
<1>8. LaneKept(s)
  BY <1>7, LaneStays
<1>9. QED
  BY <1>6, <1>8

LEMMA WaysStill ==
  ASSUME ClipInv, WaysOK, UNCHANGED <<channel, inbox, pending, chunks, partial, issued>>
  PROVE  WaysOK' /\ \A s \in Sides : LaneKept(s)
<1>1. ASSUME NEW s \in Sides
      PROVE  Way(s)' /\ LaneKept(s)
  BY WayStill
<1>2. QED
  BY <1>1 DEF WaysOK

\* What is under way to s without what it hears next.
Behind(s) == Range(Tail(inbox[s])) \cup Range(pending[Other(s)]) \cup Range(chunks[Other(s)])

LEMMA Heard ==
  ASSUME ClipInv, WaysOK, NEW s \in Sides, inbox[s] # <<>>
  PROVE  /\ Head(inbox[s]) \in Messages
         /\ UnderWay(Other(s)) = {Head(inbox[s])} \cup Behind(s)
         /\ Behind(s) \in SUBSET Messages
         /\ Ahead({Head(inbox[s])}, Behind(s))
         /\ WayOK(inbox[s], pending[Other(s)], chunks[Other(s)], partial[s], channel = "open", issued)
         /\ WayTypes(inbox[s], pending[Other(s)], chunks[Other(s)], partial[s], issued)
<1>1. Other(s) \in Sides /\ Other(Other(s)) = s
  BY TwoSides
<1>2. PICK x, p, c, g, o : /\ x = inbox[s] /\ p = pending[Other(s)] /\ c = chunks[Other(s)]
                           /\ g = partial[s] /\ o = (channel = "open")
  OBVIOUS
<1>3. WayTypes(x, p, c, g, issued)
  BY <1>1, <1>2, WayTyped
<1>4. WayOK(x, p, c, g, o, issued)
  BY <1>1, <1>2 DEF WaysOK, Way
<1>5. /\ Head(x) \in Messages
      /\ Range(x) = {Head(x)} \cup Range(Tail(x))
      /\ Range(Tail(x)) \cup Range(p) \cup Range(c) \in SUBSET Messages
      /\ Ahead({Head(x)}, Range(Tail(x)) \cup Range(p) \cup Range(c))
  BY <1>2, <1>3, <1>4, WayHead
<1>6. Behind(s) = Range(Tail(x)) \cup Range(p) \cup Range(c)
  BY <1>2 DEF Behind
<1>7. UnderWay(Other(s)) = Range(x) \cup Range(p) \cup Range(c)
  BY <1>1, <1>2 DEF UnderWay
<1>8. QED
  BY <1>2, <1>3, <1>4, <1>5, <1>6, <1>7

\* What has come is no step.
LEMMA NoStepHeard ==
  ASSUME ClipInv, WaysOK, NEW s \in Sides, inbox[s] # <<>>, Head(inbox[s]).type # "step",
         inbox' = [inbox EXCEPT ![s] = Tail(@)], UNCHANGED <<channel, pending, chunks, partial, issued>>
  PROVE  /\ WaysOK' /\ LaneKept(s)
         /\ UnderWay(Other(s))' = Behind(s) /\ Ids(s)' = Ids(s)
<1>1. Other(s) \in Sides /\ Other(Other(s)) = s /\ Other(s) # s
  BY TwoSides
<1>2. inbox'[s] = Tail(inbox[s]) /\ inbox'[Other(s)] = inbox[Other(s)]
  BY <1>1 DEF ClipInv, LanesOK, LanesTypes
<1>3. Way(s)' /\ LaneKept(s)
  BY <1>1, <1>2, WayStill
<1>4. PICK x, p, c, g, o : /\ x = inbox[s] /\ p = pending[Other(s)] /\ c = chunks[Other(s)]
                           /\ g = partial[s] /\ o = (channel = "open")
  OBVIOUS
<1>5. WayTypes(x, p, c, g, issued) /\ WayOK(x, p, c, g, o, issued)
  BY <1>4, Heard
<1>6. WayOK(Tail(x), p, c, g, o, issued)
  BY <1>4, <1>5, WayHeard
<1>7. Way(Other(s))'
  BY <1>1, <1>2, <1>4, <1>6 DEF Way
<1>8. WaysOK'
  BY <1>3, <1>7, TwoSides DEF WaysOK
<1>9. UnderWay(Other(s))' = Behind(s) /\ Ids(s)' = Ids(s)
  BY <1>1, <1>2 DEF UnderWay, Behind, Ids
<1>10. QED
  BY <1>3, <1>8, <1>9

LEMMA NoiseHeard ==
  ASSUME ClipInv, WaysOK, NEW s \in Sides, inbox[s] # <<>>,
         Head(inbox[s]).type \notin {"inline", "step"},
         inbox' = [inbox EXCEPT ![s] = Tail(@)], UNCHANGED <<channel, pending, chunks, partial, issued>>
  PROVE  WaysOK' /\ \A r \in Sides : LaneKept(r)
<1>1. Other(s) \in Sides /\ Other(Other(s)) = s
  BY TwoSides
<1>2. /\ WaysOK' /\ LaneKept(s)
      /\ UnderWay(Other(s))' = Behind(s) /\ Ids(s)' = Ids(s)
  BY NoStepHeard
<1>3. UnderWay(Other(s)) = {Head(inbox[s])} \cup Behind(s) /\ Head(inbox[s]) \in Noise
  BY Heard, MessageParts
<1>4. LaneKept(Other(s))
  BY <1>1, <1>2, <1>3, LaneStays
<1>5. QED
  BY <1>2, <1>4, TwoSides

\* The text that is first in its lane comes out at the side s.
Comes(s, k, i) ==
    /\ i \in LaneOf(Other(s), k)
    /\ \A j \in LaneOf(Other(s), k) : i.id <= j.id
    /\ LaneOf(Other(s), k)' = LaneOf(Other(s), k) \ {i}
    /\ \A t \in Sides, l \in {"short", "long"} :
           <<t, l>> # <<Other(s), k>> => LaneOf(t, l)' = LaneOf(t, l)

LEMMA ShortHeard ==
  ASSUME ClipInv, WaysOK, NEW s \in Sides, HearInline(s)
  PROVE  WaysOK' /\ Comes(s, "short", Outline(Head(inbox[s]).item))
<1>1. Other(s) \in Sides /\ Other(Other(s)) = s /\ Other(s) # s
  BY TwoSides
<1>2. /\ inbox[s] # <<>> /\ Head(inbox[s]).type = "inline"
      /\ inbox' = [inbox EXCEPT ![s] = Tail(@)]
      /\ UNCHANGED <<channel, pending, chunks, partial, issued>>
  BY DEF HearInline, Hears
<1>3. /\ WaysOK' /\ LaneKept(s)
      /\ UnderWay(Other(s))' = Behind(s) /\ Ids(s)' = Ids(s)
  BY <1>2, NoStepHeard
<1>4. PICK m, N, D : m = Head(inbox[s]) /\ N = Behind(s) /\ D = Ids(s)
  OBVIOUS
<1>5. /\ m \in Messages /\ UnderWay(Other(s)) = {m} \cup N /\ N \in SUBSET Messages /\ Ahead({m}, N)
      /\ m.type = "inline"
  BY <1>2, <1>4, Heard
<1>6. /\ ShortOf(N) = ShortOf({m} \cup N) \ {Outline(m.item)}
      /\ LongOf(N, D) = LongOf({m} \cup N, D)
      /\ Outline(m.item) \in ShortOf({m} \cup N)
      /\ \A j \in ShortOf({m} \cup N) : Outline(m.item).id <= j.id
  BY <1>5, ShortLeaves
<1>7. /\ ShortLane(Other(s)) = ShortOf({m} \cup N) /\ LongLane(Other(s)) = LongOf({m} \cup N, D)
      /\ ShortLane(Other(s))' = ShortOf(N) /\ LongLane(Other(s))' = LongOf(N, D)
  BY <1>1, <1>3, <1>4, <1>5, LanesAre
<1>8. \A t \in Sides, l \in {"short", "long"} :
          <<t, l>> # <<Other(s), "short">> => LaneOf(t, l)' = LaneOf(t, l)
  <2>1. TAKE t \in Sides, l \in {"short", "long"}
  <2>2. HAVE <<t, l>> # <<Other(s), "short">>
  <2>3. t = s \/ (t = Other(s) /\ l = "long")
    BY <2>2, TwoSides
  <2>4. CASE t = s
    BY <1>3, <2>4 DEF LaneKept, LaneOf
  <2>5. CASE t = Other(s) /\ l = "long"
    BY <1>6, <1>7, <2>5 DEF LaneOf
  <2>6. QED
    BY <2>3, <2>4, <2>5
<1>9. LaneOf(Other(s), "short") = ShortLane(Other(s)) /\ LaneOf(Other(s), "short")' = ShortLane(Other(s))'
  BY DEF LaneOf
<1>10. QED
  BY <1>3, <1>4, <1>6, <1>7, <1>8, <1>9, Zenon DEF Comes

\* What has come is a step, after which the side that hears has h.
LEMMA StepHeard ==
  ASSUME ClipInv, WaysOK, NEW s \in Sides, inbox[s] # <<>>, Head(inbox[s]).type = "step",
         inbox' = [inbox EXCEPT ![s] = Tail(@)], UNCHANGED <<channel, pending, chunks, issued>>,
         NEW h, partial' = [partial EXCEPT ![s] = h],
         DOMAIN h \subseteq Ids(s) \cup {Head(inbox[s]).item.id},
         \A k \in DOMAIN h : k # Head(inbox[s]).item.id => h[k] = partial[s][k],
         Head(inbox[s]).item.id \in DOMAIN h =>
             Len(h[Head(inbox[s]).item.id]) = Head(inbox[s]).n
  PROVE  /\ WaysOK' /\ LaneKept(s)
         /\ UnderWay(Other(s))' = Behind(s) /\ Ids(s)' = DOMAIN h
<1>1. Other(s) \in Sides /\ Other(Other(s)) = s /\ Other(s) # s
  BY TwoSides
<1>2. inbox'[s] = Tail(inbox[s]) /\ inbox'[Other(s)] = inbox[Other(s)]
  BY <1>1 DEF ClipInv, LanesOK, LanesTypes
<1>3. partial'[s] = h /\ partial'[Other(s)] = partial[Other(s)]
  <2>1. partial = [t \in Sides |-> partial[t]]
    BY DEF ClipInv, PartialOK
  <2>2. QED
    BY <1>1, <2>1
<1>4. Way(s)' /\ LaneKept(s)
  BY <1>1, <1>2, <1>3, WayStill
<1>5. PICK x, p, c, g, o : /\ x = inbox[s] /\ p = pending[Other(s)] /\ c = chunks[Other(s)]
                           /\ g = partial[s] /\ o = (channel = "open")
  OBVIOUS
<1>6. WayTypes(x, p, c, g, issued) /\ WayOK(x, p, c, g, o, issued) /\ o \in BOOLEAN
  BY <1>5, Heard
<1>7. PICK m : m = Head(x)
  OBVIOUS
<1>8. m \in StepMessages /\ x # <<>>
  BY <1>5, <1>7, Heard, MessageParts
<1>9. /\ DOMAIN h \subseteq DOMAIN g \cup {m.item.id}
      /\ \A k \in DOMAIN h : k # m.item.id => h[k] = g[k]
      /\ m.item.id \in DOMAIN h => Len(h[m.item.id]) = m.n
  BY <1>5, <1>7 DEF Ids
<1>10. WayOK(Tail(x), p, c, h, o, issued)
  BY <1>6, <1>7, <1>8, <1>9, WayHearsStep
<1>11. Way(Other(s))'
  BY <1>1, <1>2, <1>3, <1>5, <1>10 DEF Way
<1>12. WaysOK'
  BY <1>4, <1>11, TwoSides DEF WaysOK
<1>13. UnderWay(Other(s))' = Behind(s) /\ Ids(s)' = DOMAIN h
  BY <1>1, <1>2, <1>3 DEF UnderWay, Behind, Ids
<1>14. QED
  BY <1>4, <1>12, <1>13

\* The receiving half keeps every chunk: none comes that is not the next.
LEMMA KeepsAll ==
  ASSUME NEW g, NEW m \in StepMessages, \A d \in DOMAIN g : g[d] \in Seq(Nat),
         m.item.id \in DOMAIN g => m.n = Len(g[m.item.id]) + 1
  PROVE  /\ DOMAIN Keeps(g, m) = DOMAIN g \cup (IF m.n = 0 THEN {m.item.id} ELSE {})
         /\ \A k \in DOMAIN Keeps(g, m) : k # m.item.id => Keeps(g, m)[k] = g[k]
         /\ m.item.id \in DOMAIN Keeps(g, m) => Len(Keeps(g, m)[m.item.id]) = m.n
<1>1. PICK x, k : x = m.item.id /\ k = m.n
  OBVIOUS
<1>2. k \in Nat /\ (x \in DOMAIN g => k = Len(g[x]) + 1 /\ k # 0 /\ g[x] \in Seq(Nat))
  BY <1>1, StepParts
<1>3. PICK h : h = Keeps(g, m)
  OBVIOUS
<1>4. CASE k = 0
  <2>1. x \notin DOMAIN g /\ h = Put(g, x, <<>>)
    BY <1>1, <1>2, <1>3, <1>4 DEF Keeps
  <2>2. /\ DOMAIN h = DOMAIN g \cup {x} /\ h[x] = <<>>
        /\ \A y \in DOMAIN h : y # x => h[y] = g[y]
    BY <2>1 DEF Put
  <2>3. QED
    BY <1>1, <1>3, <1>4, <2>2
<1>5. CASE k # 0 /\ x \notin DOMAIN g
  <2>1. h = g
    BY <1>1, <1>3, <1>5 DEF Keeps
  <2>2. QED
    BY <1>1, <1>3, <1>5, <2>1
<1>6. CASE k # 0 /\ x \in DOMAIN g
  <2>1. h = Put(g, x, Append(g[x], k))
    BY <1>1, <1>2, <1>3, <1>6 DEF Keeps
  <2>2. /\ DOMAIN h = DOMAIN g /\ h[x] = Append(g[x], k)
        /\ \A y \in DOMAIN h : y # x => h[y] = g[y]
    BY <1>6, <2>1 DEF Put
  <2>3. Len(Append(g[x], k)) = k
    BY <1>2, <1>6
  <2>4. QED
    BY <1>1, <1>3, <1>6, <2>2, <2>3
<1>7. QED
  BY <1>4, <1>5, <1>6

LEMMA ChunkHeard ==
  ASSUME ClipInv, WaysOK, NEW s \in Sides, HearChunk(s)
  PROVE  WaysOK' /\ \A r \in Sides : LaneKept(r)
<1>1. Other(s) \in Sides /\ Other(Other(s)) = s /\ Other(s) # s
  BY TwoSides
<1>2. PICK m, g, h : m = Head(inbox[s]) /\ g = partial[s] /\ h = Keeps(g, m)
  OBVIOUS
<1>3. /\ inbox[s] # <<>> /\ m.type = "step" /\ ~IsEnd(m)
      /\ inbox' = [inbox EXCEPT ![s] = Tail(@)]
      /\ UNCHANGED <<channel, pending, chunks, issued>>
      /\ partial' = [partial EXCEPT ![s] = h]
  <2>1. partial = [t \in Sides |-> partial[t]]
    BY DEF ClipInv, PartialOK
  <2>2. QED
    BY <1>2, <2>1 DEF HearChunk, Hears
<1>4. /\ m \in Messages /\ UnderWay(Other(s)) = {m} \cup Behind(s) /\ Behind(s) \in SUBSET Messages
      /\ Ahead({m}, Behind(s))
  BY <1>2, <1>3, Heard
<1>5. m \in StepMessages
  BY <1>3, <1>4, MessageParts
<1>6. m.item.id \in DOMAIN g => m.n = Len(g[m.item.id]) + 1
  <2>1. /\ WayOK(inbox[s], pending[Other(s)], chunks[Other(s)], g, channel = "open", issued)
        /\ WayTypes(inbox[s], pending[Other(s)], chunks[Other(s)], g, issued)
    BY <1>2, <1>3, Heard
  <2>2. PICK x, p, c, o : /\ x = inbox[s] /\ p = pending[Other(s)] /\ c = chunks[Other(s)]
                          /\ o = (channel = "open")
    OBVIOUS
  <2>3. WayOK(x, p, c, g, o, issued) /\ WayTypes(x, p, c, g, issued)
    BY <2>1, <2>2
  <2>4. x # <<>> /\ Head(x) = m /\ m.type = "step"
    BY <1>2, <1>3, <2>2
  <2>5. QED
    BY <2>3, <2>4, HeadIsNext
<1>7. \A d \in DOMAIN g : g[d] \in Seq(Nat)
  <2>1. \A k \in 0..Chunks : Upto(k) \in Seq(Nat)
    BY LimitsAreNumbers DEF Upto
  <2>2. \A d \in DOMAIN g : \E k \in 0..Chunks : g[d] = Upto(k)
    BY <1>2 DEF ClipInv, PartialOK, Ids
  <2>3. QED
    BY <2>1, <2>2
<1>8. /\ DOMAIN h = DOMAIN g \cup (IF m.n = 0 THEN {m.item.id} ELSE {})
      /\ \A k \in DOMAIN h : k # m.item.id => h[k] = g[k]
      /\ m.item.id \in DOMAIN h => Len(h[m.item.id]) = m.n
  <2>1. /\ DOMAIN Keeps(g, m) = DOMAIN g \cup (IF m.n = 0 THEN {m.item.id} ELSE {})
        /\ \A k \in DOMAIN Keeps(g, m) : k # m.item.id => Keeps(g, m)[k] = g[k]
        /\ m.item.id \in DOMAIN Keeps(g, m) => Len(Keeps(g, m)[m.item.id]) = m.n
    BY <1>5, <1>6, <1>7, KeepsAll
  <2>2. QED
    BY <1>2, <2>1
<1>9. /\ DOMAIN h \subseteq Ids(s) \cup {Head(inbox[s]).item.id}
      /\ \A k \in DOMAIN h : k # Head(inbox[s]).item.id => h[k] = partial[s][k]
      /\ Head(inbox[s]).item.id \in DOMAIN h => Len(h[Head(inbox[s]).item.id]) = Head(inbox[s]).n
  BY <1>2, <1>8 DEF Ids
<1>10. /\ WaysOK' /\ LaneKept(s)
       /\ UnderWay(Other(s))' = Behind(s) /\ Ids(s)' = DOMAIN h
  <2>1. /\ inbox[s] # <<>> /\ Head(inbox[s]).type = "step"
        /\ inbox' = [inbox EXCEPT ![s] = Tail(@)]
        /\ UNCHANGED <<channel, pending, chunks, issued>>
        /\ partial' = [partial EXCEPT ![s] = h]
    BY <1>2, <1>3
  <2>2. QED
    BY <1>9, <2>1, StepHeard
<1>11. PICK N, D, C : N = Behind(s) /\ D = Ids(s) /\ C = DOMAIN h
  OBVIOUS
<1>12. (m.n = 0 => C = D \cup {m.item.id}) /\ (m.n # 0 => C = D)
  BY <1>2, <1>8, <1>11 DEF Ids
<1>13. ShortOf(N) = ShortOf({m} \cup N) /\ LongOf(N, C) = LongOf({m} \cup N, D)
  <2>1. N \in SUBSET Messages /\ Ahead({m}, N) /\ m \in StepMessages /\ ~IsEnd(m)
    BY <1>3, <1>4, <1>5, <1>11
  <2>2. QED
    BY <1>12, <2>1, ChunkLeaves
<1>14. /\ ShortLane(Other(s)) = ShortOf({m} \cup N) /\ LongLane(Other(s)) = LongOf({m} \cup N, D)
       /\ ShortLane(Other(s))' = ShortOf(N) /\ LongLane(Other(s))' = LongOf(N, C)
  BY <1>1, <1>4, <1>10, <1>11, LanesAre
<1>15. LaneKept(Other(s))
  BY <1>13, <1>14 DEF LaneKept
<1>16. QED
  BY <1>10, <1>15, TwoSides

LEMMA LongHeard ==
  ASSUME ClipInv, WaysOK, NEW s \in Sides, HearEnd(s)
  PROVE  /\ WaysOK'
         /\ Complete(s, Head(inbox[s]).item) => Comes(s, "long", Outline(Head(inbox[s]).item))
         /\ ~Complete(s, Head(inbox[s]).item) => \A r \in Sides : LaneKept(r)
<1>1. Other(s) \in Sides /\ Other(Other(s)) = s /\ Other(s) # s
  BY TwoSides
<1>2. PICK m, g, h : m = Head(inbox[s]) /\ g = partial[s] /\ h = Drop(g, m.item.id)
  OBVIOUS
<1>3. /\ inbox[s] # <<>> /\ m.type = "step" /\ IsEnd(m)
      /\ inbox' = [inbox EXCEPT ![s] = Tail(@)]
      /\ UNCHANGED <<channel, pending, chunks, issued>>
      /\ partial' = [partial EXCEPT ![s] = h]
  <2>1. partial = [t \in Sides |-> partial[t]]
    BY DEF ClipInv, PartialOK
  <2>2. QED
    BY <1>2, <2>1 DEF HearEnd, Hears
<1>4. /\ m \in Messages /\ UnderWay(Other(s)) = {m} \cup Behind(s) /\ Behind(s) \in SUBSET Messages
      /\ Ahead({m}, Behind(s))
  BY <1>2, <1>3, Heard
<1>5. m \in StepMessages /\ m.n = Chunks + 1
  BY <1>3, <1>4, MessageParts
<1>6. m.item.id \in DOMAIN g => m.n = Len(g[m.item.id]) + 1
  <2>1. /\ WayOK(inbox[s], pending[Other(s)], chunks[Other(s)], g, channel = "open", issued)
        /\ WayTypes(inbox[s], pending[Other(s)], chunks[Other(s)], g, issued)
    BY <1>2, <1>3, Heard
  <2>2. PICK x, p, c, o : /\ x = inbox[s] /\ p = pending[Other(s)] /\ c = chunks[Other(s)]
                          /\ o = (channel = "open")
    OBVIOUS
  <2>3. WayOK(x, p, c, g, o, issued) /\ WayTypes(x, p, c, g, issued)
    BY <2>1, <2>2
  <2>4. x # <<>> /\ Head(x) = m /\ m.type = "step"
    BY <1>2, <1>3, <2>2
  <2>5. QED
    BY <2>3, <2>4, HeadIsNext
<1>7. Complete(s, m.item) <=> m.item.id \in Ids(s)
  <2>1. ASSUME m.item.id \in Ids(s)
        PROVE  Len(partial[s][m.item.id]) = Chunks
    <3>1. Chunks + 1 = Len(g[m.item.id]) + 1
      BY <1>2, <1>5, <1>6, <2>1 DEF Ids
    <3>2. Len(g[m.item.id]) \in Nat
      BY <1>1, <1>2, <2>1, WayTyped DEF WayTypes, Ids
    <3>3. QED
      BY <1>2, <3>1, <3>2, LimitsAreNumbers
  <2>2. QED
    BY <2>1 DEF Complete
<1>8. DOMAIN h = Ids(s) \ {m.item.id} /\ \A k \in DOMAIN h : h[k] = partial[s][k]
  BY <1>2 DEF Drop, Ids
<1>9. /\ WaysOK' /\ LaneKept(s)
      /\ UnderWay(Other(s))' = Behind(s) /\ Ids(s)' = DOMAIN h
  <2>1. /\ inbox[s] # <<>> /\ Head(inbox[s]).type = "step"
        /\ inbox' = [inbox EXCEPT ![s] = Tail(@)]
        /\ UNCHANGED <<channel, pending, chunks, issued>>
        /\ partial' = [partial EXCEPT ![s] = h]
    BY <1>2, <1>3
  <2>2. /\ DOMAIN h \subseteq Ids(s) \cup {Head(inbox[s]).item.id}
        /\ \A k \in DOMAIN h : k # Head(inbox[s]).item.id => h[k] = partial[s][k]
        /\ Head(inbox[s]).item.id \in DOMAIN h => Len(h[Head(inbox[s]).item.id]) = Head(inbox[s]).n
    BY <1>2, <1>8
  <2>3. QED
    BY <2>1, <2>2, StepHeard
<1>10. PICK N, D, C : N = Behind(s) /\ D = Ids(s) /\ C = DOMAIN h
  OBVIOUS
<1>11. C = D \ {m.item.id}
  BY <1>8, <1>10
<1>12. /\ ShortOf(N) = ShortOf({m} \cup N)
       /\ m.item.id \notin D => LongOf(N, C) = LongOf({m} \cup N, D)
       /\ m.item.id \in D =>
              /\ LongOf(N, C) = LongOf({m} \cup N, D) \ {Outline(m.item)}
              /\ Outline(m.item) \in LongOf({m} \cup N, D)
              /\ \A j \in LongOf({m} \cup N, D) : Outline(m.item).id <= j.id
  <2>1. N \in SUBSET Messages /\ Ahead({m}, N) /\ m \in StepMessages /\ IsEnd(m)
    BY <1>3, <1>4, <1>5, <1>10
  <2>2. /\ ShortOf(N) = ShortOf({m} \cup N)
        /\ m.item.id \notin D => LongOf(N, D \ {m.item.id}) = LongOf({m} \cup N, D)
        /\ m.item.id \in D =>
               /\ LongOf(N, D \ {m.item.id}) = LongOf({m} \cup N, D) \ {Outline(m.item)}
               /\ Outline(m.item) \in LongOf({m} \cup N, D)
               /\ \A j \in LongOf({m} \cup N, D) : Outline(m.item).id <= j.id
    BY <2>1, EndLeaves
  <2>3. QED
    BY <1>11, <2>2
<1>13. /\ ShortLane(Other(s)) = ShortOf({m} \cup N) /\ LongLane(Other(s)) = LongOf({m} \cup N, D)
       /\ ShortLane(Other(s))' = ShortOf(N) /\ LongLane(Other(s))' = LongOf(N, C)
  BY <1>1, <1>4, <1>9, <1>10, LanesAre
<1>14. ASSUME ~Complete(s, m.item)
       PROVE  \A r \in Sides : LaneKept(r)
  <2>1. LaneKept(Other(s))
    BY <1>7, <1>10, <1>12, <1>13, <1>14 DEF LaneKept
  <2>2. QED
    BY <1>9, <2>1, TwoSides
<1>15. ASSUME Complete(s, m.item)
       PROVE  Comes(s, "long", Outline(m.item))
  <2>1. /\ LaneOf(Other(s), "long") = LongLane(Other(s))
        /\ LaneOf(Other(s), "long")' = LongLane(Other(s))'
    BY DEF LaneOf
  <2>2. \A t \in Sides, l \in {"short", "long"} :
            <<t, l>> # <<Other(s), "long">> => LaneOf(t, l)' = LaneOf(t, l)
    <3>1. TAKE t \in Sides, l \in {"short", "long"}
    <3>2. HAVE <<t, l>> # <<Other(s), "long">>
    <3>3. t = s \/ (t = Other(s) /\ l = "short")
      BY <3>2, TwoSides
    <3>4. CASE t = s
      BY <1>9, <3>4 DEF LaneKept, LaneOf
    <3>5. CASE t = Other(s) /\ l = "short"
      BY <1>12, <1>13, <3>5 DEF LaneOf
    <3>6. QED
      BY <3>3, <3>4, <3>5
  <2>3. m.item.id \in D
    BY <1>7, <1>10, <1>15
  <2>4. QED
    BY <1>12, <1>13, <2>1, <2>2, <2>3, Zenon DEF Comes
<1>16. QED
  BY <1>2, <1>9, <1>14, <1>15

LEMMA SentRange ==
  ASSUME NEW x \in Seq(Messages), NEW p \in Seq(ControlMessages), NEW m \in ControlMessages,
         NEW s, NEW a, NEW b, Sends(s, p, m, a, b)
  PROVE  \/ Range(x \o a) \cup Range(b) = Range(x) \cup Range(p) \cup {m}
         \/ Range(x \o a) \cup Range(b) = Range(x) \cup Range(p) /\ s \in asked'
<1>1. a \in Seq(ControlMessages) /\ b \in Seq(ControlMessages)
  BY DEF Sends
<1>2. a \in Seq(Messages)
  BY <1>1, StepsAreSteps, Wider
<1>3. Range(x \o a) = Range(x) \cup Range(a)
  BY <1>2, RangeJoin
<1>4. Range(a \o b) = Range(a) \cup Range(b)
  BY <1>1, RangeJoin
<1>5. Range(p \o <<m>>) = Range(p) \cup {m}
  BY RangeOne
<1>6. CASE p \o <<m>> = a \o b
  BY <1>3, <1>4, <1>5, <1>6
<1>7. CASE p = a \o b /\ s \in asked'
  BY <1>3, <1>4, <1>7
<1>8. QED
  BY <1>6, <1>7 DEF Sends

\* A message is sent, joins the ones that wait or is dropped; box is the channel's
\* inboxes before, which may be without what the sender has just heard.
LEMMA Posted ==
  ASSUME ClipInv, WaysOK, NEW s \in Sides, NEW box, box \in [Sides -> Seq(Messages)],
         box[Other(s)] = inbox[Other(s)], NEW m, m \in ControlMessages, SendFrom(s, box, m),
         issued' \in {issued, issued + 1},
         m.type = "inline" => issued < m.item.id /\ m.item.id <= issued',
         UNCHANGED channel, chunks'[s] = chunks[s], partial'[Other(s)] = partial[Other(s)]
  PROVE  /\ Way(s)' /\ Ids(Other(s))' = Ids(Other(s))
         /\ \/ UnderWay(s)' = UnderWay(s) \cup {m}
            \/ UnderWay(s)' = UnderWay(s) /\ s \in asked'
         /\ inbox'[s] = box[s] /\ pending'[Other(s)] = pending[Other(s)]
<1>1. Other(s) \in Sides /\ Other(Other(s)) = s /\ Other(s) # s
  BY TwoSides
<1>2. /\ pending \in [Sides -> Seq(ControlMessages)]
      /\ Way(s) /\ WayTypes(inbox[Other(s)], pending[s], chunks[s], partial[Other(s)], issued)
      /\ issued \in Nat
  BY WayTyped DEF ClipInv, LanesOK, LanesTypes, WaysOK
<1>3. PICK a, b : /\ Sends(s, pending[s], m, a, b)
                  /\ inbox' = [box EXCEPT ![Other(s)] = @ \o a]
                  /\ pending' = [pending EXCEPT ![s] = b]
  BY <1>2, SendShape
<1>4. /\ inbox'[Other(s)] = inbox[Other(s)] \o a /\ inbox'[s] = box[s]
      /\ pending'[s] = b /\ pending'[Other(s)] = pending[Other(s)]
  BY <1>1, <1>2, <1>3
<1>5. PICK x, p, c, g, o, n, k :
          /\ x = inbox[Other(s)] /\ p = pending[s] /\ c = chunks[s] /\ g = partial[Other(s)]
          /\ o = (channel = "open") /\ n = issued /\ k = issued'
  OBVIOUS
<1>6. /\ WayOK(x, p, c, g, o, n) /\ WayTypes(x, p, c, g, n) /\ Sends(s, p, m, a, b)
      /\ k \in Nat /\ n <= k /\ (m.type = "inline" => n < m.item.id /\ m.item.id <= k)
  BY <1>2, <1>3, <1>5 DEF Way
<1>7. WayOK(x \o a, b, c, g, o, k)
  BY <1>6, WaySends
<1>8. Way(s)'
  BY <1>4, <1>5, <1>7 DEF Way
<1>9. x \in Seq(Messages) /\ p \in Seq(ControlMessages)
  BY <1>6 DEF WayTypes
<1>10. \/ Range(x \o a) \cup Range(b) = Range(x) \cup Range(p) \cup {m}
       \/ Range(x \o a) \cup Range(b) = Range(x) \cup Range(p) /\ s \in asked'
  BY <1>6, <1>9, SentRange
<1>11. /\ UnderWay(s) = Range(x) \cup Range(p) \cup Range(c)
       /\ UnderWay(s)' = Range(x \o a) \cup Range(b) \cup Range(c)
  BY <1>4, <1>5 DEF UnderWay
<1>12. QED
  BY <1>4, <1>8, <1>10, <1>11 DEF Ids

LEMMA NoisePosted ==
  ASSUME NEW s \in Sides, NEW m \in Noise, Ids(Other(s))' = Ids(Other(s)),
         \/ UnderWay(s)' = UnderWay(s) \cup {m}
         \/ UnderWay(s)' = UnderWay(s) /\ s \in asked'
  PROVE  LaneKept(s)
<1>1. UnderWay(s)' \subseteq UnderWay(s) \cup Noise /\ UnderWay(s) \subseteq UnderWay(s)' \cup Noise
  OBVIOUS
<1>2. QED
  BY <1>1, LaneStays

\* A result or a request is sent.
LEMMA NoiseSent ==
  ASSUME ClipInv, WaysOK, NEW s \in Sides, NEW m \in {Result, Request}, Send(s, m),
         UNCHANGED <<channel, chunks, partial, issued>>
  PROVE  WaysOK' /\ \A r \in Sides : LaneKept(r)
<1>1. Other(s) \in Sides /\ Other(Other(s)) = s /\ Other(s) # s
  BY TwoSides
<1>2. m \in ControlMessages /\ m \in Noise /\ m.type # "inline"
  BY NoiseIsSilent DEF ControlMessages, Noise
<1>3. inbox \in [Sides -> Seq(Messages)]
  BY DEF ClipInv, LanesOK, LanesTypes
<1>4. /\ Way(s)' /\ Ids(Other(s))' = Ids(Other(s))
      /\ \/ UnderWay(s)' = UnderWay(s) \cup {m}
         \/ UnderWay(s)' = UnderWay(s) /\ s \in asked'
      /\ inbox'[s] = inbox[s] /\ pending'[Other(s)] = pending[Other(s)]
  BY <1>2, <1>3, Posted DEF Send
<1>5. LaneKept(s)
  BY <1>2, <1>4, NoisePosted
<1>6. Way(Other(s))' /\ LaneKept(Other(s))
  BY <1>1, <1>4, WayStill
<1>7. QED
  BY <1>4, <1>5, <1>6, TwoSides DEF WaysOK

LEMMA OpenHeard ==
  ASSUME ClipInv, WaysOK, NEW s \in Sides, HearOpen(s)
  PROVE  WaysOK' /\ \A r \in Sides : LaneKept(r)
<1>1. Other(s) \in Sides /\ Other(Other(s)) = s /\ Other(s) # s
  BY TwoSides
<1>2. /\ inbox[s] # <<>> /\ Head(inbox[s]).type = "open"
      /\ UNCHANGED <<channel, chunks, issued>>
      /\ partial' = [partial EXCEPT ![s] = NoPartial]
      /\ SendFrom(s, [inbox EXCEPT ![s] = Tail(@)], Capabilities)
  BY DEF HearOpen, Hears, ClearPartial
<1>3. /\ inbox \in [Sides -> Seq(Messages)] /\ partial = [t \in Sides |-> partial[t]]
      /\ Tail(inbox[s]) \in Seq(Messages)
  BY <1>2, ArrivingTail DEF ClipInv, LanesOK, LanesTypes, PartialOK
<1>4. PICK box : box = [inbox EXCEPT ![s] = Tail(@)]
  OBVIOUS
<1>5. /\ box \in [Sides -> Seq(Messages)] /\ box[s] = Tail(inbox[s])
      /\ box[Other(s)] = inbox[Other(s)] /\ SendFrom(s, box, Capabilities)
  BY <1>1, <1>2, <1>3, <1>4
<1>6. partial'[s] = NoPartial /\ partial'[Other(s)] = partial[Other(s)]
  BY <1>1, <1>2, <1>3
<1>7. Capabilities \in ControlMessages /\ Capabilities \in Noise /\ Capabilities.type # "inline"
  BY NoiseIsSilent DEF ControlMessages, Noise
<1>8. /\ Way(s)' /\ Ids(Other(s))' = Ids(Other(s))
      /\ \/ UnderWay(s)' = UnderWay(s) \cup {Capabilities}
         \/ UnderWay(s)' = UnderWay(s) /\ s \in asked'
      /\ inbox'[s] = box[s] /\ pending'[Other(s)] = pending[Other(s)]
  BY <1>2, <1>5, <1>6, <1>7, Posted
<1>9. LaneKept(s)
  BY <1>7, <1>8, NoisePosted
<1>10. /\ Head(inbox[s]) \in Messages /\ UnderWay(Other(s)) = {Head(inbox[s])} \cup Behind(s)
       /\ WayOK(inbox[s], pending[Other(s)], chunks[Other(s)], partial[s], channel = "open", issued)
       /\ WayTypes(inbox[s], pending[Other(s)], chunks[Other(s)], partial[s], issued)
  BY <1>2, Heard
<1>11. PICK x, p, c, g, o, N : /\ x = inbox[s] /\ p = pending[Other(s)] /\ c = chunks[Other(s)]
                               /\ g = partial[s] /\ o = (channel = "open") /\ N = Behind(s)
  OBVIOUS
<1>12. /\ WayOK(x, p, c, g, o, issued) /\ WayTypes(x, p, c, g, issued)
       /\ x # <<>> /\ Head(x) = Open /\ Head(x).type # "step"
       /\ N = Range(Tail(x)) \cup Range(p) \cup Range(c)
  BY <1>2, <1>10, <1>11, MessageParts DEF Behind
<1>13. WayOK(Tail(x), p, c, g, o, issued)
  BY <1>12, WayHeard
<1>14. DOMAIN NoPartial = {}
  BY DEF NoPartial
<1>15. WayOK(Tail(x), p, c, NoPartial, o, issued)
  BY <1>13, <1>14, WayForgets
<1>16. Way(Other(s))'
  BY <1>1, <1>2, <1>5, <1>6, <1>8, <1>11, <1>15 DEF Way
<1>17. \A y \in N : y.type = "step" => y.item.id \notin DOMAIN g
  BY <1>12, BehindOpen
<1>18. /\ UnderWay(Other(s))' = N /\ UnderWay(Other(s)) = {Open} \cup N
       /\ Ids(s) = DOMAIN g /\ Ids(s)' = {}
  BY <1>1, <1>2, <1>5, <1>6, <1>8, <1>10, <1>11, <1>12, <1>14 DEF UnderWay, Ids
<1>19. ShortOf(N) = ShortOf({Open} \cup N) /\ LongOf(N, {}) = LongOf({Open} \cup N, DOMAIN g)
  BY <1>17, OpenLeaves DEF Noise
<1>20. LaneKept(Other(s))
  BY <1>1, <1>18, <1>19, LanesAre DEF LaneKept
<1>21. QED
  BY <1>8, <1>9, <1>16, <1>20, TwoSides DEF WaysOK

(***************************************************************************)
(* The steps that may lose texts.                                          *)
(***************************************************************************)
\* Both queues of the side that sends are given up.
LEMMA WayStops ==
  ASSUME NEW x, NEW p, NEW c, NEW g, NEW o, NEW n,
         WayOK(x, p, c, g, o, n), WayTypes(x, p, c, g, n)
  PROVE  /\ WayOK(x, <<>>, <<>>, g, TRUE, n) /\ WayOK(x, <<>>, <<>>, g, FALSE, n)
         /\ WayTypes(x, <<>>, <<>>, g, n)
<1>1. /\ p \in Seq(ControlMessages) /\ <<>> \in Seq(ControlMessages) /\ <<>> \in Seq(StepMessages)
      /\ <<>> \o p = p
  BY DEF WayTypes
<1>2. WayOK(x, <<>> \o p, c, g, o, n)
  BY <1>1
<1>3. WayOK(x, <<>>, c, g, o, n)
  BY <1>1, <1>2, WayShorter
<1>4. WayTypes(x, <<>>, c, g, n)
  BY <1>1 DEF WayTypes
<1>5. WayOK(x, <<>>, <<>>, g, TRUE, n) /\ WayOK(x, <<>>, <<>>, g, FALSE, n)
  BY <1>3, <1>4, WayFails
<1>6. QED
  BY <1>1, <1>5 DEF WayTypes

\* The side that hears gives up what has come.
LEMMA WayEmptied ==
  ASSUME NEW x, NEW p, NEW c, NEW g, NEW o, NEW n, WayOK(x, p, c, g, o, n)
  PROVE  WayOK(x, p, c, NoPartial, o, n)
<1>1. DOMAIN NoPartial = {}
  BY DEF NoPartial
<1>2. QED
  BY <1>1, WayForgets

\* Of what is under way only a part is heard; then the channel is closed.
LEMMA WayCutOff ==
  ASSUME NEW x, NEW p, NEW c, NEW g, NEW o, NEW n,
         WayOK(x, p, c, g, o, n), WayTypes(x, p, c, g, n), NEW k \in 0..Len(x)
  PROVE  LET m == Append(SubSeq(x, 1, k), Closed)
         IN  /\ WayOK(m, p, c, g, FALSE, n) /\ WayTypes(m, p, c, g, n)
             /\ WayOK(Front(m), p, c, g, FALSE, n) /\ WayTypes(Front(m), p, c, g, n)
             /\ Range(m) \subseteq Range(x) \cup {Closed} /\ Range(Front(m)) \subseteq Range(x)
<1>1. x \in Seq(Messages) /\ Closed \in Messages
  BY DEF WayTypes, Messages
<1>2. PICK a, b : a = SubSeq(x, 1, k) /\ b = SubSeq(x, k + 1, Len(x))
  OBVIOUS
<1>3. a \in Seq(Messages) /\ b \in Seq(Messages) /\ x = a \o b
  <2>1. /\ SubSeq(x, 1, k) \in Seq(Messages) /\ SubSeq(x, k + 1, Len(x)) \in Seq(Messages)
        /\ x = SubSeq(x, 1, k) \o SubSeq(x, k + 1, Len(x))
    BY <1>1, SplitAt
  <2>2. QED
    BY <1>2, <2>1
<1>4. WayOK(a \o b, p, c, g, o, n) /\ WayTypes(a \o b, p, c, g, n)
  BY <1>3
<1>5. WayOK(a, p, c, g, FALSE, n)
  BY <1>3, <1>4, WayCut
<1>6. WayTypes(a, p, c, g, n)
  BY <1>3 DEF WayTypes
<1>7. WayOK(a \o <<Closed>>, p, c, g, FALSE, n)
  <2>1. Closed \in {Open, Closed} /\ Closed # Open
    BY DEF Open, Closed
  <2>2. QED
    BY <1>5, <1>6, <2>1, WayMarked
<1>8. PICK m : m = Append(a, Closed)
  OBVIOUS
<1>9. m = a \o <<Closed>> /\ m \in Seq(Messages)
  BY <1>1, <1>3, <1>8, Parts
<1>10. Front(m) = a
  <2>1. m # <<>> /\ Len(m) = Len(a) + 1 /\ Len(a) \in Nat
    BY <1>1, <1>3, <1>8
  <2>2. Front(m) = SubSeq(m, 1, Len(a))
    BY <2>1 DEF Front
  <2>3. SubSeq(m, 1, Len(a)) = a
    BY <1>1, <1>3, <1>8
  <2>4. QED
    BY <2>2, <2>3
<1>11. Range(m) = Range(a) \cup {Closed} /\ Range(a) \subseteq Range(x)
  <2>1. Range(a \o b) = Range(a) \cup Range(b)
    BY <1>3, RangeJoin
  <2>2. Range(a \o <<Closed>>) = Range(a) \cup {Closed}
    BY <1>1, <1>3, RangeOne
  <2>3. QED
    BY <1>3, <1>9, <2>1, <2>2
<1>12. WayTypes(m, p, c, g, n)
  BY <1>9 DEF WayTypes
<1>13. WayOK(m, p, c, g, FALSE, n)
  BY <1>7, <1>9
<1>14. QED
  BY <1>2, <1>5, <1>6, <1>8, <1>10, <1>11, <1>12, <1>13

LEMMA TextExpired ==
  ASSUME ClipInv, WaysOK, NEW s \in Sides, Expire(s)
  PROVE  WaysOK' /\ \A r \in Sides : LaneLess(r)
<1>1. Other(s) \in Sides /\ Other(Other(s)) = s /\ Other(s) # s
  BY TwoSides
<1>2. PICK y \in Ids(s) : partial' = [partial EXCEPT ![s] = Drop(@, y)]
  BY DEF Expire
<1>3. UNCHANGED <<channel, inbox, pending, chunks, issued>>
  BY DEF Expire
<1>4. PICK h : h = Drop(partial[s], y)
  OBVIOUS
<1>5. partial'[s] = h /\ partial'[Other(s)] = partial[Other(s)]
  <2>1. partial = [t \in Sides |-> partial[t]]
    BY DEF ClipInv, PartialOK
  <2>2. QED
    BY <1>1, <1>2, <1>4, <2>1
<1>6. DOMAIN h \subseteq Ids(s) /\ \A d \in DOMAIN h : h[d] = partial[s][d]
  BY <1>4 DEF Drop, Ids
<1>7. Way(s)' /\ LaneKept(s)
  BY <1>1, <1>3, <1>5, WayStill
<1>8. PICK x, p, c, g, o : /\ x = inbox[s] /\ p = pending[Other(s)] /\ c = chunks[Other(s)]
                           /\ g = partial[s] /\ o = (channel = "open")
  OBVIOUS
<1>9. WayOK(x, p, c, g, o, issued)
  BY <1>1, <1>8 DEF WaysOK, Way
<1>10. WayOK(x, p, c, h, o, issued)
  BY <1>6, <1>8, <1>9, WayForgets DEF Ids
<1>11. Way(Other(s))'
  BY <1>1, <1>3, <1>5, <1>8, <1>10 DEF Way
<1>12. UnderWay(Other(s))' = UnderWay(Other(s)) /\ Ids(s)' \subseteq Ids(s)
  BY <1>3, <1>5, <1>6 DEF UnderWay, Ids
<1>13. LaneLess(Other(s))
  BY <1>1, <1>12, LaneShrinks
<1>14. LaneLess(s)
  BY <1>7 DEF LaneKept, LaneLess
<1>15. QED
  BY <1>7, <1>11, <1>13, <1>14, TwoSides DEF WaysOK

LEMMA ClosedHeard ==
  ASSUME ClipInv, WaysOK, NEW s \in Sides, HearClosed(s)
  PROVE  WaysOK' /\ \A r \in Sides : LaneLess(r)
<1>1. Other(s) \in Sides /\ Other(Other(s)) = s /\ Other(s) # s
  BY TwoSides
<1>2. /\ inbox[s] # <<>> /\ Head(inbox[s]).type = "closed"
      /\ inbox' = [inbox EXCEPT ![s] = Tail(@)] /\ pending' = [pending EXCEPT ![s] = <<>>]
      /\ chunks' = [chunks EXCEPT ![s] = <<>>] /\ partial' = [partial EXCEPT ![s] = NoPartial]
      /\ UNCHANGED <<channel, issued>>
  BY DEF HearClosed, Hears, FailChunks, ClearPartial
<1>3. /\ inbox \in [Sides -> Seq(Messages)] /\ pending \in [Sides -> Seq(ControlMessages)]
      /\ chunks \in [Sides -> Seq(StepMessages)] /\ partial = [t \in Sides |-> partial[t]]
  BY DEF ClipInv, LanesOK, LanesTypes, PartialOK
<1>4. /\ inbox'[s] = Tail(inbox[s]) /\ inbox'[Other(s)] = inbox[Other(s)]
      /\ pending'[s] = <<>> /\ pending'[Other(s)] = pending[Other(s)]
      /\ chunks'[s] = <<>> /\ chunks'[Other(s)] = chunks[Other(s)]
      /\ partial'[s] = NoPartial /\ partial'[Other(s)] = partial[Other(s)]
  BY <1>1, <1>2, <1>3
<1>5. Way(s)'
  <2>1. PICK x, p, c, g, o : /\ x = inbox[Other(s)] /\ p = pending[s] /\ c = chunks[s]
                             /\ g = partial[Other(s)] /\ o = (channel = "open")
    OBVIOUS
  <2>2. WayOK(x, p, c, g, o, issued) /\ WayTypes(x, p, c, g, issued) /\ o \in BOOLEAN
    BY <2>1, WayTyped DEF WaysOK, Way
  <2>3. WayOK(x, <<>>, <<>>, g, TRUE, issued) /\ WayOK(x, <<>>, <<>>, g, FALSE, issued)
    BY <2>2, WayStops
  <2>4. WayOK(x, <<>>, <<>>, g, o, issued)
    BY <2>2, <2>3
  <2>5. QED
    BY <1>2, <1>4, <2>1, <2>4 DEF Way
<1>6. Way(Other(s))'
  <2>1. PICK x, p, c, g, o : /\ x = inbox[s] /\ p = pending[Other(s)] /\ c = chunks[Other(s)]
                             /\ g = partial[s] /\ o = (channel = "open")
    OBVIOUS
  <2>2. WayOK(x, p, c, g, o, issued) /\ WayTypes(x, p, c, g, issued)
    BY <1>2, <2>1, Heard
  <2>3. x # <<>> /\ Head(x).type # "step"
    BY <1>2, <2>1
  <2>4. WayOK(Tail(x), p, c, g, o, issued)
    BY <2>2, <2>3, WayHeard
  <2>5. WayOK(Tail(x), p, c, NoPartial, o, issued)
    BY <2>4, WayEmptied
  <2>6. QED
    BY <1>1, <1>2, <1>4, <2>1, <2>5 DEF Way
<1>7. LaneLess(s)
  <2>1. Range(<<>>) = {}
    BY OneSorted
  <2>2. UnderWay(s)' \subseteq UnderWay(s) /\ Ids(Other(s))' = Ids(Other(s))
    BY <1>4, <2>1 DEF UnderWay, Ids
  <2>3. QED
    BY <2>2, LaneShrinks
<1>8. LaneLess(Other(s))
  <2>1. UnderWay(Other(s)) = {Head(inbox[s])} \cup Behind(s)
    BY <1>2, Heard
  <2>2. UnderWay(Other(s))' = Behind(s)
    BY <1>1, <1>4 DEF UnderWay, Behind
  <2>3. Ids(s)' \subseteq Ids(s)
    BY <1>4 DEF Ids, NoPartial
  <2>4. QED
    BY <1>1, <2>1, <2>2, <2>3, LaneShrinks
<1>9. QED
  BY <1>5, <1>6, <1>7, <1>8, TwoSides DEF WaysOK

LEMMA Lost ==
  ASSUME ClipInv, WaysOK, Lose
  PROVE  WaysOK' /\ \A r \in Sides : LaneLess(r)
<1>1. channel' # "open" /\ UNCHANGED <<pending, chunks, partial, issued>>
  BY DEF Lose
<1>2. \A s \in Sides : inbox'[s] \in CutOff(s)
  BY BothSides DEF Lose
<1>3. ASSUME NEW s \in Sides
      PROVE  Way(s)' /\ LaneLess(s)
  <2>1. Other(s) \in Sides
    BY TwoSides
  <2>2. PICK x, p, c, g, o : /\ x = inbox[Other(s)] /\ p = pending[s] /\ c = chunks[s]
                             /\ g = partial[Other(s)] /\ o = (channel = "open")
    OBVIOUS
  <2>3. WayOK(x, p, c, g, o, issued) /\ WayTypes(x, p, c, g, issued)
    BY <2>2, WayTyped DEF WaysOK, Way
  <2>4. PICK k \in 0..Len(x) : inbox'[Other(s)] = Append(SubSeq(x, 1, k), Closed)
    BY <1>2, <2>1, <2>2 DEF CutOff
  <2>5. PICK m : m = Append(SubSeq(x, 1, k), Closed)
    OBVIOUS
  <2>6. WayOK(m, p, c, g, FALSE, issued) /\ Range(m) \subseteq Range(x) \cup {Closed}
    BY <2>3, <2>5, WayCutOff
  <2>7. Way(s)'
    BY <1>1, <2>2, <2>4, <2>5, <2>6 DEF Way
  <2>8. /\ UnderWay(s)' = Range(m) \cup Range(p) \cup Range(c)
        /\ UnderWay(s) = Range(x) \cup Range(p) \cup Range(c)
        /\ Ids(Other(s))' = Ids(Other(s))
    BY <1>1, <2>2, <2>4, <2>5 DEF UnderWay, Ids
  <2>9. UnderWay(s)' \subseteq UnderWay(s) \cup Noise
    BY <2>6, <2>8 DEF Noise
  <2>10. QED
    BY <2>7, <2>8, <2>9, LaneShrinks
<1>4. QED
  BY <1>3 DEF WaysOK

\* What a worker that is made anew has still to hear of the channel before.
LEMMA RedialledInbox ==
  ASSUME ClipInv, Redial, NEW s \in Sides
  PROVE  \/ channel # "open" /\ inbox'[s] = inbox[s]
         \/ \E k \in 0..Len(inbox[s]) :
                LET m == Append(SubSeq(inbox[s], 1, k), Closed)
                IN  inbox'[s] \in {m, Front(m)}
<1>1. CASE channel # "open"
  BY <1>1 DEF Redial
<1>2. CASE channel = "open"
  <2>1. PICK m \in CutOff("ctl"), n \in CutOff("cli") :
            inbox' = [t \in Sides |-> IF t = "ctl" THEN Front(m) ELSE n]
    BY <1>2 DEF Redial
  <2>2. inbox'["ctl"] = Front(m) /\ inbox'["cli"] = n
    BY <2>1, BothSides
  <2>3. CASE s = "ctl"
    BY <2>2, <2>3 DEF CutOff
  <2>4. CASE s = "cli"
    BY <2>2, <2>4 DEF CutOff
  <2>5. QED
    BY <2>3, <2>4, BothSides
<1>3. QED
  BY <1>1, <1>2

\* The channel is closed to what is under way of x.
LEMMA WayRedialled ==
  ASSUME NEW x, NEW p, NEW c, NEW g, NEW o \in BOOLEAN, NEW n,
         WayOK(x, p, c, g, o, n), WayTypes(x, p, c, g, n), NEW y,
         \/ ~o /\ y = x
         \/ \E k \in 0..Len(x) : y \in {Append(SubSeq(x, 1, k), Closed),
                                        Front(Append(SubSeq(x, 1, k), Closed))}
  PROVE  /\ WayOK(y, p, c, g, FALSE, n) /\ WayTypes(y, p, c, g, n)
         /\ Range(y) \subseteq Range(x) \cup {Closed}
<1>1. CASE ~o /\ y = x
  BY <1>1
<1>2. ASSUME NEW k \in 0..Len(x), y \in {Append(SubSeq(x, 1, k), Closed),
                                         Front(Append(SubSeq(x, 1, k), Closed))}
      PROVE  /\ WayOK(y, p, c, g, FALSE, n) /\ WayTypes(y, p, c, g, n)
             /\ Range(y) \subseteq Range(x) \cup {Closed}
  <2>1. PICK m : m = Append(SubSeq(x, 1, k), Closed)
    OBVIOUS
  <2>2. /\ WayOK(m, p, c, g, FALSE, n) /\ WayTypes(m, p, c, g, n)
        /\ WayOK(Front(m), p, c, g, FALSE, n) /\ WayTypes(Front(m), p, c, g, n)
        /\ Range(m) \subseteq Range(x) \cup {Closed} /\ Range(Front(m)) \subseteq Range(x)
    BY <2>1, WayCutOff
  <2>3. y = m \/ y = Front(m)
    BY <1>2, <2>1
  <2>4. CASE y = m
    BY <2>2, <2>4
  <2>5. CASE y = Front(m)
    BY <2>2, <2>5
  <2>6. QED
    BY <2>3, <2>4, <2>5
<1>3. QED
  BY <1>1, <1>2

LEMMA Redialled ==
  ASSUME ClipInv, WaysOK, Redial
  PROVE  WaysOK' /\ \A r \in Sides : LaneLess(r)
<1>1. channel' # "open" /\ issued' = issued
  BY DEF Redial
<1>2. /\ pending' = [pending EXCEPT !["ctl"] = <<>>] /\ chunks' = [chunks EXCEPT !["ctl"] = <<>>]
      /\ partial' = [partial EXCEPT !["ctl"] = NoPartial]
  BY DEF Redial, FailChunks, ClearPartial
<1>3. /\ pending \in [Sides -> Seq(ControlMessages)] /\ chunks \in [Sides -> Seq(StepMessages)]
      /\ partial = [t \in Sides |-> partial[t]]
  BY DEF ClipInv, LanesOK, LanesTypes, PartialOK
<1>4. /\ pending'["ctl"] = <<>> /\ chunks'["ctl"] = <<>> /\ partial'["ctl"] = NoPartial
      /\ pending'["cli"] = pending["cli"] /\ chunks'["cli"] = chunks["cli"]
      /\ partial'["cli"] = partial["cli"]
  BY <1>2, <1>3, BothSides
<1>5. ASSUME NEW s \in Sides
      PROVE  /\ WayOK(inbox'[Other(s)], pending[s], chunks[s], partial[Other(s)], FALSE, issued)
             /\ WayTypes(inbox'[Other(s)], pending[s], chunks[s], partial[Other(s)], issued)
             /\ Range(inbox'[Other(s)]) \subseteq Range(inbox[Other(s)]) \cup {Closed}
  <2>1. Other(s) \in Sides
    BY TwoSides
  <2>2. PICK x, p, c, g, o, y : /\ x = inbox[Other(s)] /\ p = pending[s] /\ c = chunks[s]
                                /\ g = partial[Other(s)] /\ o = (channel = "open")
                                /\ y = inbox'[Other(s)]
    OBVIOUS
  <2>3. WayOK(x, p, c, g, o, issued) /\ WayTypes(x, p, c, g, issued) /\ o \in BOOLEAN
    BY <2>2, WayTyped DEF WaysOK, Way
  <2>4. \/ ~o /\ y = x
        \/ \E k \in 0..Len(x) : y \in {Append(SubSeq(x, 1, k), Closed),
                                       Front(Append(SubSeq(x, 1, k), Closed))}
    BY <2>1, <2>2, RedialledInbox
  <2>5. /\ WayOK(y, p, c, g, FALSE, issued) /\ WayTypes(y, p, c, g, issued)
        /\ Range(y) \subseteq Range(x) \cup {Closed}
    BY <2>3, <2>4, WayRedialled
  <2>6. QED
    BY <2>2, <2>5
<1>6. Way("ctl")' /\ LaneLess("ctl")
  <2>1. PICK x, p, c, g : /\ x = inbox'["cli"] /\ p = pending["ctl"] /\ c = chunks["ctl"]
                          /\ g = partial["cli"]
    OBVIOUS
  <2>2. /\ WayOK(x, p, c, g, FALSE, issued) /\ WayTypes(x, p, c, g, issued)
        /\ Range(x) \subseteq Range(inbox["cli"]) \cup {Closed}
    BY <1>5, <2>1, BothSides
  <2>3. WayOK(x, <<>>, <<>>, g, FALSE, issued)
    BY <2>2, WayStops
  <2>4. Way("ctl")'
    BY <1>1, <1>4, <2>1, <2>3, BothSides DEF Way
  <2>5. Range(<<>>) = {}
    BY OneSorted
  <2>6. UnderWay("ctl")' \subseteq UnderWay("ctl") \cup Noise /\ Ids("cli")' = Ids("cli")
    BY <1>4, <2>1, <2>2, <2>5, BothSides DEF UnderWay, Noise, Ids
  <2>7. QED
    BY <2>4, <2>6, BothSides, LaneShrinks
<1>7. Way("cli")' /\ LaneLess("cli")
  <2>1. PICK x, p, c, g : /\ x = inbox'["ctl"] /\ p = pending["cli"] /\ c = chunks["cli"]
                          /\ g = partial["ctl"]
    OBVIOUS
  <2>2. /\ WayOK(x, p, c, g, FALSE, issued)
        /\ Range(x) \subseteq Range(inbox["ctl"]) \cup {Closed}
    BY <1>5, <2>1, BothSides
  <2>3. WayOK(x, p, c, NoPartial, FALSE, issued)
    BY <2>2, WayEmptied
  <2>4. Way("cli")'
    BY <1>1, <1>4, <2>1, <2>3, BothSides DEF Way
  <2>5. UnderWay("cli")' \subseteq UnderWay("cli") \cup Noise /\ Ids("ctl")' \subseteq Ids("ctl")
    BY <1>4, <2>1, <2>2, BothSides DEF UnderWay, Noise, Ids, NoPartial
  <2>6. QED
    BY <2>4, <2>5, BothSides, LaneShrinks
<1>8. QED
  BY <1>6, <1>7, BothSides DEF WaysOK

LEMMA Connected ==
  ASSUME ClipInv, WaysOK, Connect
  PROVE  WaysOK' /\ \A r \in Sides : LaneLess(r)
<1>1. channel' = "open" /\ issued' = issued
  BY DEF Connect
<1>2. /\ inbox' = [inbox EXCEPT !["ctl"] = Append(@, Open), !["cli"] = <<Open>>]
      /\ pending' = [pending EXCEPT !["cli"] = <<>>] /\ chunks' = [chunks EXCEPT !["cli"] = <<>>]
      /\ partial' = [partial EXCEPT !["cli"] = NoPartial]
  BY DEF Connect, FailChunks, ClearPartial
<1>3. /\ inbox \in [Sides -> Seq(Messages)]
      /\ pending \in [Sides -> Seq(ControlMessages)] /\ chunks \in [Sides -> Seq(StepMessages)]
      /\ partial = [t \in Sides |-> partial[t]]
  BY DEF ClipInv, LanesOK, LanesTypes, PartialOK
<1>4. /\ inbox'["ctl"] = Append(inbox["ctl"], Open) /\ inbox'["cli"] = <<Open>>
      /\ pending'["cli"] = <<>> /\ chunks'["cli"] = <<>> /\ partial'["cli"] = NoPartial
      /\ pending'["ctl"] = pending["ctl"] /\ chunks'["ctl"] = chunks["ctl"]
      /\ partial'["ctl"] = partial["ctl"]
  BY <1>2, <1>3, BothSides
<1>5. Range(<<Open>>) = {Open} /\ Range(<<>>) = {}
  BY OneSorted
<1>6. Way("ctl")' /\ LaneLess("ctl")
  <2>1. PICK x, p, c, g, o : /\ x = inbox["cli"] /\ p = pending["ctl"] /\ c = chunks["ctl"]
                             /\ g = partial["cli"] /\ o = (channel = "open")
    OBVIOUS
  <2>2. WayOK(x, p, c, g, o, issued) /\ WayTypes(x, p, c, g, issued)
    BY <2>1, WayTyped, BothSides DEF WaysOK, Way
  <2>3. WayOK(<<Open>>, p, c, NoPartial, TRUE, issued)
    BY <2>2, WayBegins
  <2>4. Way("ctl")'
    BY <1>1, <1>4, <2>1, <2>3, BothSides DEF Way
  <2>5. UnderWay("ctl")' \subseteq UnderWay("ctl") \cup Noise /\ Ids("cli")' \subseteq Ids("cli")
    BY <1>4, <1>5, <2>1, BothSides DEF UnderWay, Noise, Ids, NoPartial
  <2>6. QED
    BY <2>4, <2>5, BothSides, LaneShrinks
<1>7. Way("cli")' /\ LaneLess("cli")
  <2>1. PICK x, p, c, g, o : /\ x = inbox["ctl"] /\ p = pending["cli"] /\ c = chunks["cli"]
                             /\ g = partial["ctl"] /\ o = (channel = "open")
    OBVIOUS
  <2>2. WayOK(x, p, c, g, o, issued) /\ WayTypes(x, p, c, g, issued)
    BY <2>1, WayTyped, BothSides DEF WaysOK, Way
  <2>3. WayOK(x, <<>>, <<>>, g, TRUE, issued) /\ WayTypes(x, <<>>, <<>>, g, issued)
    BY <2>2, WayStops
  <2>4. WayOK(x \o <<Open>>, <<>>, <<>>, g, TRUE, issued)
    <3>1. Open \in {Open, Closed} /\ (Open = Open => <<>> = <<>>)
      OBVIOUS
    <3>2. QED
      BY <2>3, <3>1, WayMarked
  <2>5. x \in Seq(Messages) /\ Open \in Messages
    BY <2>2 DEF WayTypes, Messages
  <2>6. Append(x, Open) = x \o <<Open>> /\ Range(x \o <<Open>>) = Range(x) \cup {Open}
    BY <2>5, Parts, RangeOne
  <2>7. Way("cli")'
    BY <1>1, <1>4, <2>1, <2>4, <2>6, BothSides DEF Way
  <2>8. UnderWay("cli")' \subseteq UnderWay("cli") \cup Noise /\ Ids("ctl")' = Ids("ctl")
    BY <1>4, <1>5, <2>1, <2>6, BothSides DEF UnderWay, Noise, Ids
  <2>9. QED
    BY <2>7, <2>8, BothSides, LaneShrinks
<1>8. QED
  BY <1>6, <1>7, BothSides DEF WaysOK

(***************************************************************************)
(* The steps that send.                                                    *)
(***************************************************************************)
LEMMA DrainedRange ==
  ASSUME NEW x \in Seq(Messages), NEW a \in Seq(ControlMessages), NEW r \in Seq(ControlMessages),
         NEW u \in Seq(StepMessages), NEW v \in Seq(StepMessages)
  PROVE  Range(x \o (a \o u)) \cup Range(r) \cup Range(v)
             = Range(x) \cup Range(a \o r) \cup Range(u \o v)
<1>1. a \in Seq(Messages) /\ u \in Seq(Messages)
  BY StepsAreSteps, Wider
<1>2. a \o u \in Seq(Messages)
  BY <1>1, Joined
<1>3. Range(x \o (a \o u)) = Range(x) \cup Range(a \o u)
  <2>1. PICK w : w = a \o u
    OBVIOUS
  <2>2. x \in Seq(Messages) /\ w \in Seq(Messages)
    BY <1>2, <2>1
  <2>3. Range(x \o w) = Range(x) \cup Range(w)
    BY <2>2, MessagesJoined
  <2>4. QED
    BY <2>1, <2>3
<1>4. Range(a \o u) = Range(a) \cup Range(u)
  BY <1>1, RangeJoin
<1>5. Range(a \o r) = Range(a) \cup Range(r)
  BY RangeJoin
<1>6. Range(u \o v) = Range(u) \cup Range(v)
  BY RangeJoin
<1>7. QED
  BY <1>3, <1>4, <1>5, <1>6

LEMMA Drained ==
  ASSUME ClipInv, NEW s \in Sides, NEW q, q \in Seq(StepMessages), NEW b, b \in Nat,
         DrainOpen(s, q, b), channel = "open", UNCHANGED <<channel, partial, issued>>,
         WayOK(inbox[Other(s)], pending[s], q, partial[Other(s)], TRUE, issued)
  PROVE  /\ Way(s)'
         /\ UnderWay(s)' = Range(inbox[Other(s)]) \cup Range(pending[s]) \cup Range(q)
         /\ inbox'[s] = inbox[s]
         /\ pending'[Other(s)] = pending[Other(s)] /\ chunks'[Other(s)] = chunks[Other(s)]
<1>1. Other(s) \in Sides /\ Other(Other(s)) = s /\ Other(s) # s
  BY TwoSides
<1>2. LanesTypes
  BY DEF ClipInv, LanesOK
<1>3. PICK a, r, u, v : Drains(s, q, a, r, u, v)
  BY <1>2, DrainShape
<1>4. /\ a \in Seq(ControlMessages) /\ r \in Seq(ControlMessages)
      /\ u \in Seq(StepMessages) /\ v \in Seq(StepMessages)
      /\ pending[s] = a \o r /\ q = u \o v
  BY <1>3 DEF Drains
<1>5. /\ inbox'[Other(s)] = inbox[Other(s)] \o (a \o u) /\ inbox'[s] = inbox[s]
      /\ pending'[s] = r /\ pending'[Other(s)] = pending[Other(s)]
      /\ chunks'[s] = v /\ chunks'[Other(s)] = chunks[Other(s)]
  BY <1>1, <1>2, <1>3 DEF Drains, LanesTypes
<1>6. PICK x, g : x = inbox[Other(s)] /\ g = partial[Other(s)]
  OBVIOUS
<1>7. WayTypes(inbox[Other(s)], pending[s], chunks[s], partial[Other(s)], issued)
  BY WayTyped
<1>8. WayTypes(x, a \o r, u \o v, g, issued)
  BY <1>4, <1>6, <1>7 DEF WayTypes
<1>9. WayOK(x, a \o r, u \o v, g, TRUE, issued)
  BY <1>4, <1>6
<1>10. WayOK(x \o (a \o u), r, v, g, TRUE, issued)
  BY <1>4, <1>8, <1>9, WayDrains
<1>11. Way(s)'
  BY <1>5, <1>6, <1>10 DEF Way
<1>12. x \in Seq(Messages)
  BY <1>8 DEF WayTypes
<1>13. Range(x \o (a \o u)) \cup Range(r) \cup Range(v)
           = Range(x) \cup Range(a \o r) \cup Range(u \o v)
  BY <1>4, <1>12, DrainedRange
<1>14. UnderWay(s)' = Range(inbox[Other(s)]) \cup Range(pending[s]) \cup Range(q)
  BY <1>4, <1>5, <1>6, <1>13 DEF UnderWay
<1>15. QED
  BY <1>5, <1>11, <1>14

LEMMA TimerStopped ==
  ASSUME ClipInv, WaysOK, NEW s \in Sides, ChunkTimer(s), channel # "open"
  PROVE  WaysOK' /\ \A r \in Sides : LaneLess(r)
<1>1. Other(s) \in Sides /\ Other(Other(s)) = s /\ Other(s) # s
  BY TwoSides
<1>2. /\ UNCHANGED <<channel, inbox, pending, partial, issued>>
      /\ chunks' = [chunks EXCEPT ![s] = <<>>]
  BY DEF ChunkTimer, FailChunks
<1>3. chunks'[s] = <<>> /\ chunks'[Other(s)] = chunks[Other(s)]
  BY <1>1, <1>2 DEF ClipInv, LanesOK, LanesTypes
<1>4. Way(Other(s))' /\ LaneKept(Other(s))
  BY <1>1, <1>2, <1>3, WayStill
<1>5. PICK x, p, c, g, o : /\ x = inbox[Other(s)] /\ p = pending[s] /\ c = chunks[s]
                           /\ g = partial[Other(s)] /\ o = (channel = "open")
  OBVIOUS
<1>6. WayOK(x, p, c, g, o, issued) /\ WayTypes(x, p, c, g, issued)
  BY <1>5, WayTyped DEF WaysOK, Way
<1>7. WayOK(x, p, <<>>, g, FALSE, issued)
  BY <1>6, WayFails
<1>8. Way(s)'
  BY <1>2, <1>3, <1>5, <1>7 DEF Way
<1>9. Range(<<>>) = {}
  BY OneSorted
<1>10. UnderWay(s)' \subseteq UnderWay(s) /\ Ids(Other(s))' = Ids(Other(s))
  BY <1>2, <1>3, <1>9 DEF UnderWay, Ids
<1>11. LaneLess(s)
  BY <1>10, LaneShrinks
<1>12. LaneLess(Other(s))
  BY <1>4 DEF LaneKept, LaneLess
<1>13. QED
  BY <1>4, <1>8, <1>11, <1>12, TwoSides DEF WaysOK

\* What is left of the queue of chunks when the text at its head is given up.
LEMMA WithoutHeadIsLess ==
  ASSUME ClipInv, WaysOK, NEW s \in Sides, channel = "open"
  PROVE  LET q == WithoutHead(chunks[s])
         IN  /\ q \in Seq(StepMessages) /\ Range(q) \subseteq Range(chunks[s])
             /\ WayOK(inbox[Other(s)], pending[s], q, partial[Other(s)], TRUE, issued)
<1>1. PICK x, p, c, g : /\ x = inbox[Other(s)] /\ p = pending[s] /\ c = chunks[s]
                        /\ g = partial[Other(s)]
  OBVIOUS
<1>2. WayOK(x, p, c, g, TRUE, issued) /\ WayTypes(x, p, c, g, issued)
  BY <1>1, WayTyped DEF WaysOK, Way
<1>3. c \in Seq(StepMessages) /\ Sorted(c)
  BY <1>2 DEF WayTypes, WayOK
<1>4. CASE c = <<>>
  <2>1. WithoutHead(c) = <<>>
    <3>1. {n \in DOMAIN c : c[n].item = Head(c).item} = {}
      BY <1>4
    <3>2. Cardinality({n \in DOMAIN c : c[n].item = Head(c).item}) = 0
      BY <3>1, FS_EmptySet
    <3>3. QED
      BY <1>4, <3>2 DEF WithoutHead
  <2>2. QED
    BY <1>1, <1>2, <1>3, <1>4, <2>1
<1>5. CASE c # <<>>
  <2>1. PICK d \in Seq(StepMessages), e \in Seq(StepMessages) :
            /\ c = d \o e /\ WithoutHead(c) = e
            /\ \A m \in Range(d) : m.item = Head(c).item
            /\ \A m \in Range(e) : m.item.id # Head(c).item.id
    BY <1>3, <1>5, HeadlessParts
  <2>2. PICK i : i = Head(c).item
    OBVIOUS
  <2>3. WayOK(x, p, d \o e, g, TRUE, issued) /\ WayTypes(x, p, d \o e, g, issued)
    BY <1>2, <2>1
  <2>4. (\A m \in Range(d) : m.item = i) /\ \A m \in Range(e) : m.item.id # i.id
    BY <2>1, <2>2
  <2>5. WayOK(x, p, e, g, TRUE, issued)
    BY <2>3, <2>4, WayGivesUp
  <2>6. Range(d \o e) = Range(d) \cup Range(e)
    BY RangeJoin
  <2>7. QED
    BY <1>1, <2>1, <2>5, <2>6
<1>6. QED
  BY <1>4, <1>5

LEMMA TimerFired ==
  ASSUME ClipInv, WaysOK, NEW s \in Sides, ChunkTimer(s)
  PROVE  /\ WaysOK'
         /\ \/ \A r \in Sides : LaneKept(r)
            \/ (channel # "open" \/ faults' # faults) /\ \A r \in Sides : LaneLess(r)
<1>1. CASE channel # "open"
  BY <1>1, TimerStopped
<1>2. CASE channel = "open"
  <2>1. UNCHANGED <<channel, partial, issued>>
    BY DEF ChunkTimer
  <2>2. Other(s) \in Sides /\ Other(Other(s)) = s /\ Other(s) # s
    BY TwoSides
  <2>3. PICK b \in 0..Len(inbox[Other(s)]) :
            \/ DrainOpen(s, chunks[s], b)
            \/ faults' # faults /\ DrainOpen(s, WithoutHead(chunks[s]), b)
    BY <1>2 DEF ChunkTimer, Fault
  <2>4. b \in Nat
    OBVIOUS
  <2>5. ASSUME NEW q, q \in Seq(StepMessages), DrainOpen(s, q, b),
               WayOK(inbox[Other(s)], pending[s], q, partial[Other(s)], TRUE, issued)
        PROVE  /\ WaysOK' /\ LaneKept(Other(s))
               /\ UnderWay(s)' = Range(inbox[Other(s)]) \cup Range(pending[s]) \cup Range(q)
    <3>1. /\ Way(s)'
          /\ UnderWay(s)' = Range(inbox[Other(s)]) \cup Range(pending[s]) \cup Range(q)
          /\ inbox'[s] = inbox[s]
          /\ pending'[Other(s)] = pending[Other(s)] /\ chunks'[Other(s)] = chunks[Other(s)]
      BY <1>2, <2>1, <2>4, <2>5, Drained
    <3>2. Way(Other(s))' /\ LaneKept(Other(s))
      BY <2>1, <2>2, <3>1, WayStill
    <3>3. QED
      BY <3>1, <3>2, TwoSides DEF WaysOK
  <2>6. Ids(Other(s))' = Ids(Other(s))
    BY <2>1 DEF Ids
  <2>7. CASE DrainOpen(s, chunks[s], b)
    <3>1. chunks[s] \in Seq(StepMessages)
      BY WayTyped
    <3>2. WayOK(inbox[Other(s)], pending[s], chunks[s], partial[Other(s)], TRUE, issued)
      BY <1>2 DEF WaysOK, Way
    <3>3. WaysOK' /\ LaneKept(Other(s)) /\ UnderWay(s)' = UnderWay(s)
      BY <2>5, <2>7, <3>1, <3>2 DEF UnderWay
    <3>4. LaneKept(s)
      BY <2>6, <3>3, LaneStays
    <3>5. QED
      BY <3>3, <3>4, TwoSides
  <2>8. CASE faults' # faults /\ DrainOpen(s, WithoutHead(chunks[s]), b)
    <3>1. PICK q : q = WithoutHead(chunks[s])
      OBVIOUS
    <3>2. /\ q \in Seq(StepMessages) /\ Range(q) \subseteq Range(chunks[s])
          /\ WayOK(inbox[Other(s)], pending[s], q, partial[Other(s)], TRUE, issued)
      BY <1>2, <3>1, WithoutHeadIsLess
    <3>3. /\ WaysOK' /\ LaneKept(Other(s))
          /\ UnderWay(s)' = Range(inbox[Other(s)]) \cup Range(pending[s]) \cup Range(q)
      BY <2>5, <2>8, <3>1, <3>2
    <3>4. UnderWay(s)' \subseteq UnderWay(s)
      BY <3>2, <3>3 DEF UnderWay
    <3>5. LaneLess(s)
      BY <2>6, <3>4, LaneShrinks
    <3>6. LaneLess(Other(s))
      BY <3>3 DEF LaneKept, LaneLess
    <3>7. QED
      BY <2>8, <3>3, <3>5, <3>6, TwoSides
  <2>9. QED
    BY <2>3, <2>7, <2>8
<1>3. QED
  BY <1>1, <1>2

\* A text is sent: its lane has it, or it is dropped.
LEMMA TextPut ==
  ASSUME ClipInv, WaysOK, NEW s \in Sides, NEW t \in Texts, NEW f \in Origins,
         SendText(s, Item(t, f)), UNCHANGED <<channel, partial>>
  PROVE  /\ WaysOK' /\ issued' = issued + 1 /\ LaneKept(Other(s))
         /\ \/ /\ ShortLane(s)' = ShortLane(s) \cup {Outline(Item(t, f))}
               /\ LongLane(s)' = LongLane(s)
            \/ /\ LongLane(s)' = LongLane(s) \cup {Outline(Item(t, f))}
               /\ ShortLane(s)' = ShortLane(s)
            \/ s \in asked' /\ LaneKept(s)
<1>1. Other(s) \in Sides /\ Other(Other(s)) = s /\ Other(s) # s
  BY TwoSides
<1>2. PICK i : i = Item(t, f)
  OBVIOUS
<1>3. issued \in Nat
  BY WayTyped
<1>4. i \in Items /\ i.id = issued + 1
  BY <1>2, <1>3 DEF Item, Items
<1>5. issued' = issued + 1
  BY <1>2, <1>4 DEF SendText
<1>6. Ids(Other(s))' = Ids(Other(s))
  BY DEF Ids
<1>7. CASE i.text \in Long
  <2>1. /\ UNCHANGED <<inbox, pending>>
        /\ chunks' = [chunks EXCEPT ![s] = @ \o Steps(i)]
    BY <1>2, <1>7 DEF SendText, EnqueueChunks
  <2>2. chunks'[s] = chunks[s] \o Steps(i) /\ chunks'[Other(s)] = chunks[Other(s)]
    BY <1>1, <2>1 DEF ClipInv, LanesOK, LanesTypes
  <2>3. Way(Other(s))' /\ LaneKept(Other(s))
    BY <1>1, <1>5, <2>1, <2>2, WayStill
  <2>4. PICK x, p, c, g, o : /\ x = inbox[Other(s)] /\ p = pending[s] /\ c = chunks[s]
                             /\ g = partial[Other(s)] /\ o = (channel = "open")
    OBVIOUS
  <2>5. WayOK(x, p, c, g, o, issued) /\ WayTypes(x, p, c, g, issued) /\ o \in BOOLEAN
    BY <2>4, WayTyped DEF WaysOK, Way
  <2>6. WayOK(x, p, c \o Steps(i), g, o, issued + 1)
    BY <1>4, <2>5, WayEnqueues
  <2>7. Way(s)'
    BY <1>5, <2>1, <2>2, <2>4, <2>6 DEF Way
  <2>8. c \in Seq(StepMessages) /\ Steps(i) \in Seq(StepMessages)
    BY <1>4, <2>5, StepsMembers DEF WayTypes
  <2>9. Range(c \o Steps(i)) = Range(c) \cup Range(Steps(i))
    BY <2>8, RangeJoin
  <2>10. PICK N, D : N = UnderWay(s) /\ D = Ids(Other(s))
    OBVIOUS
  <2>11. UnderWay(s)' = N \cup Range(Steps(i)) /\ Ids(Other(s))' = D
    BY <1>6, <2>1, <2>2, <2>4, <2>9, <2>10 DEF UnderWay
  <2>12. \A m \in N : IsEnd(m) => m.item.id # i.id
    <3>1. Numbered(Range(x), issued) /\ Numbered(Range(p), issued) /\ Numbered(Range(c), issued)
      BY <2>5 DEF WayOK
    <3>2. N = Range(x) \cup Range(p) \cup Range(c) /\ N \in SUBSET Messages
      BY <2>4, <2>10, WayTyped DEF UnderWay
    <3>3. ASSUME NEW m \in N, IsEnd(m)
          PROVE  m.item.id # i.id
      <4>1. m.type = "step" /\ m \in Messages
        BY <3>2, <3>3 DEF IsEnd
      <4>2. m.item.id <= issued
        BY <3>1, <3>2, <4>1 DEF Numbered
      <4>3. m.item.id \in Nat
        BY <4>1, MessageParts, StepParts
      <4>4. QED
        BY <1>3, <1>4, <4>2, <4>3
    <3>4. QED
      BY <3>3
  <2>13. /\ ShortOf(N \cup Range(Steps(i))) = ShortOf(N)
         /\ LongOf(N \cup Range(Steps(i)), D) = LongOf(N, D) \cup {Outline(i)}
    BY <1>4, <2>12, LongGains
  <2>14. /\ ShortLane(s) = ShortOf(N) /\ LongLane(s) = LongOf(N, D)
         /\ ShortLane(s)' = ShortOf(N \cup Range(Steps(i)))
         /\ LongLane(s)' = LongOf(N \cup Range(Steps(i)), D)
    BY <2>10, <2>11, LanesAre
  <2>15. QED
    BY <1>2, <1>5, <2>3, <2>7, <2>13, <2>14, TwoSides DEF WaysOK
<1>8. CASE i.text \notin Long
  <2>1. UNCHANGED chunks /\ SendFrom(s, inbox, Inline(i))
    BY <1>2, <1>8 DEF SendText, Send
  <2>2. PICK m : m = Inline(i)
    OBVIOUS
  <2>3. m.type = "inline" /\ m.item = i /\ m \in ControlMessages
    BY <1>4, <2>2 DEF Inline, ControlMessages
  <2>4. inbox \in [Sides -> Seq(Messages)]
    BY DEF ClipInv, LanesOK, LanesTypes
  <2>5. issued < m.item.id /\ m.item.id <= issued' /\ issued' \in {issued, issued + 1}
    BY <1>3, <1>4, <1>5, <2>3
  <2>6. /\ Way(s)' /\ Ids(Other(s))' = Ids(Other(s))
        /\ \/ UnderWay(s)' = UnderWay(s) \cup {m}
           \/ UnderWay(s)' = UnderWay(s) /\ s \in asked'
        /\ inbox'[s] = inbox[s] /\ pending'[Other(s)] = pending[Other(s)]
    BY <2>1, <2>2, <2>3, <2>4, <2>5, Posted
  <2>7. Way(Other(s))' /\ LaneKept(Other(s))
    BY <1>1, <1>5, <2>1, <2>6, WayStill
  <2>8. WaysOK'
    BY <2>6, <2>7, TwoSides DEF WaysOK
  <2>9. CASE UnderWay(s)' = UnderWay(s) \cup {m}
    <3>1. PICK N, M, D : N = UnderWay(s) /\ M = UnderWay(s)' /\ D = Ids(Other(s))
      OBVIOUS
    <3>2. M \subseteq N \cup {m} \cup Noise /\ N \cup {m} \subseteq M \cup Noise
      BY <2>9, <3>1
    <3>3. ShortOf(M) = ShortOf(N) \cup {Outline(m.item)} /\ LongOf(M, D) = LongOf(N, D)
      BY <2>3, <3>2, ShortGains
    <3>4. /\ ShortLane(s) = ShortOf(N) /\ LongLane(s) = LongOf(N, D)
          /\ ShortLane(s)' = ShortOf(M) /\ LongLane(s)' = LongOf(M, D)
      BY <2>6, <3>1, LanesAre
    <3>5. QED
      BY <1>2, <1>5, <2>3, <2>7, <2>8, <3>3, <3>4
  <2>10. CASE UnderWay(s)' = UnderWay(s) /\ s \in asked'
    <3>1. LaneKept(s)
      BY <2>6, <2>10, LaneStays
    <3>2. QED
      BY <1>5, <2>7, <2>8, <2>10, <3>1
  <2>11. QED
    BY <2>6, <2>9, <2>10
<1>9. QED
  BY <1>7, <1>8
-----------------------------------------------------------------------------
(***************************************************************************)
(* What the threads of the clipboards have still to do.                    *)
(***************************************************************************)
\* The image g of a sequence that gains x, or that loses its head, from its image f
\* before.
LEMMA MappedSeq ==
  ASSUME NEW n \in Nat, NEW f, f = [i \in 1..n |-> f[i]], NEW T, \A i \in 1..n : f[i] \in T
  PROVE  f \in Seq(T) /\ Len(f) = n
<1>1. f \in [1..n -> T]
  OBVIOUS
<1>2. f \in Seq(T)
  BY <1>1, SeqDef
<1>3. QED
  BY <1>1, <1>2

\* The sequence g is f and then y.
Longer(f, g, y) == g = Append(f, y)

LEMMA MapAppends ==
  ASSUME NEW n \in Nat, NEW f, f = [i \in 1..n |-> f[i]],
         NEW g, g = [i \in 1..n + 1 |-> g[i]], \A i \in 1..n : g[i] = f[i]
  PROVE  Longer(f, g, g[n + 1])
<1>1. PICK T, y : T = {g[i] : i \in 1..n + 1} /\ y = g[n + 1]
  OBVIOUS
<1>2. \A i \in 1..n + 1 : g[i] \in T
  BY <1>1
<1>3. f \in Seq(T) /\ Len(f) = n
  <2>1. ASSUME NEW i \in 1..n
        PROVE  f[i] \in T
    <3>1. i \in 1..n + 1 /\ g[i] = f[i]
      OBVIOUS
    <3>2. QED
      BY <1>2, <3>1
  <2>2. QED
    BY <2>1, MappedSeq
<1>4. g \in Seq(T) /\ Len(g) = n + 1
  <2>1. n + 1 \in Nat
    OBVIOUS
  <2>2. QED
    BY <1>2, <2>1, MappedSeq
<1>5. y \in T
  <2>1. n + 1 \in 1..n + 1
    OBVIOUS
  <2>2. QED
    BY <1>1, <1>2, <2>1
<1>6. /\ Append(f, y) \in Seq(T) /\ Len(Append(f, y)) = n + 1
      /\ \A i \in 1..n : Append(f, y)[i] = f[i]
      /\ Append(f, y)[n + 1] = y
  BY <1>3, <1>5
<1>7. ASSUME NEW i \in 1..n + 1
      PROVE  g[i] = Append(f, y)[i]
  <2>1. i \in 1..n \/ i = n + 1
    OBVIOUS
  <2>2. CASE i \in 1..n
    BY <1>6, <2>2
  <2>3. CASE i = n + 1
    BY <1>1, <1>6, <2>3
  <2>4. QED
    BY <2>1, <2>2, <2>3
<1>8. \A i \in 1..Len(g) : g[i] = Append(f, y)[i]
  BY <1>4, <1>7
<1>9. Len(g) = Len(Append(f, y))
  BY <1>4, <1>6
<1>10. g = Append(f, y)
  BY <1>4, <1>6, <1>8, <1>9, SeqEqual
<1>11. QED
  BY <1>1, <1>10 DEF Longer

LEMMA MapTails ==
  ASSUME NEW n \in Nat, NEW f, f = [i \in 1..n + 1 |-> f[i]],
         NEW g, g = [i \in 1..n |-> g[i]], \A i \in 1..n : g[i] = f[i + 1]
  PROVE  f # <<>> /\ g = Tail(f)
<1>1. PICK T : T = {f[i] : i \in 1..n + 1}
  OBVIOUS
<1>2. f \in Seq(T) /\ Len(f) = n + 1
  <2>1. n + 1 \in Nat /\ \A i \in 1..n + 1 : f[i] \in T
    BY <1>1
  <2>2. QED
    BY <2>1, MappedSeq
<1>3. g \in Seq(T) /\ Len(g) = n
  <2>1. ASSUME NEW i \in 1..n
        PROVE  g[i] \in T
    <3>1. i + 1 \in 1..n + 1
      OBVIOUS
    <3>2. g[i] = f[i + 1]
      OBVIOUS
    <3>3. QED
      BY <1>1, <3>1, <3>2
  <2>2. QED
    BY <2>1, MappedSeq
<1>4. /\ Tail(f) \in Seq(T) /\ Len(Tail(f)) = n
      /\ \A i \in 1..n : Tail(f)[i] = f[i + 1]
  BY <1>2
<1>5. \A i \in 1..Len(g) : g[i] = Tail(f)[i]
  BY <1>3, <1>4
<1>6. Len(g) = Len(Tail(f))
  BY <1>3, <1>4
<1>7. g = Tail(f)
  BY <1>3, <1>4, <1>5, <1>6, SeqEqual
<1>8. f # <<>>
  BY <1>2
<1>9. QED
  BY <1>7, <1>8

LEMMA JobsOf ==
  /\ Jobs("ctl") = [n \in DOMAIN applies |-> Outline(applies[n])]
  /\ Jobs("ctl")' = [n \in DOMAIN applies' |-> Outline(applies'[n])]
  /\ Jobs("cli") = [n \in DOMAIN gui |-> Job(gui[n])]
  /\ Jobs("cli")' = [n \in DOMAIN gui' |-> Job(gui'[n])]
BY BothSides DEF Jobs

LEMMA JobsTyped ==
  ASSUME ClipInv
  PROVE  applies \in Seq(Items) /\ gui \in Seq(Tasks)
BY DEF ClipInv, WindowOK, DeviceOK

LEMMA JobsStill ==
  ASSUME UNCHANGED <<applies, gui>>
  PROVE  \A s \in Sides : Jobs(s)' = Jobs(s)
BY JobsOf, BothSides

\* A thread gets something to do.
LEMMA WindowGets ==
  ASSUME ClipInv, NEW t \in Items, applies' = Append(applies, t), gui' = gui
  PROVE  Jobs("ctl")' = Append(Jobs("ctl"), Outline(t)) /\ Jobs("cli")' = Jobs("cli")
<1>1. PICK q, r, f, g : q = applies /\ r = applies' /\ f = Jobs("ctl") /\ g = Jobs("ctl")'
  OBVIOUS
<1>2. q \in Seq(Items) /\ r = Append(q, t)
  BY <1>1, JobsTyped
<1>3. f = [n \in DOMAIN q |-> Outline(q[n])] /\ g = [n \in DOMAIN r |-> Outline(r[n])]
  BY <1>1, JobsOf
<1>4. PICK n \in Nat : n = Len(q)
  BY <1>2
<1>5. /\ DOMAIN q = 1..n /\ DOMAIN r = 1..n + 1
      /\ (\A i \in 1..n : r[i] = q[i]) /\ r[n + 1] = t
  BY <1>2, <1>4
<1>6. f = [i \in 1..n |-> Outline(q[i])] /\ g = [i \in 1..n + 1 |-> Outline(r[i])]
  BY <1>3, <1>5
<1>7. /\ f = [i \in 1..n |-> f[i]] /\ g = [i \in 1..n + 1 |-> g[i]]
      /\ (\A i \in 1..n : g[i] = f[i]) /\ g[n + 1] = Outline(t)
  BY <1>5, <1>6
<1>8. Longer(f, g, g[n + 1])
  BY <1>7, MapAppends
<1>9. QED
  BY <1>1, <1>7, <1>8, JobsOf DEF Longer

LEMMA DeviceGets ==
  ASSUME ClipInv, NEW k \in Tasks, gui' = Append(gui, k), applies' = applies
  PROVE  Jobs("cli")' = Append(Jobs("cli"), Job(k)) /\ Jobs("ctl")' = Jobs("ctl")
<1>1. PICK q, r, f, g : q = gui /\ r = gui' /\ f = Jobs("cli") /\ g = Jobs("cli")'
  OBVIOUS
<1>2. q \in Seq(Tasks) /\ r = Append(q, k)
  BY <1>1, JobsTyped
<1>3. f = [n \in DOMAIN q |-> Job(q[n])] /\ g = [n \in DOMAIN r |-> Job(r[n])]
  BY <1>1, JobsOf
<1>4. PICK n \in Nat : n = Len(q)
  BY <1>2
<1>5. /\ DOMAIN q = 1..n /\ DOMAIN r = 1..n + 1
      /\ (\A i \in 1..n : r[i] = q[i]) /\ r[n + 1] = k
  BY <1>2, <1>4
<1>6. f = [i \in 1..n |-> Job(q[i])] /\ g = [i \in 1..n + 1 |-> Job(r[i])]
  BY <1>3, <1>5
<1>7. /\ f = [i \in 1..n |-> f[i]] /\ g = [i \in 1..n + 1 |-> g[i]]
      /\ (\A i \in 1..n : g[i] = f[i]) /\ g[n + 1] = Job(k)
  BY <1>5, <1>6
<1>8. Longer(f, g, g[n + 1])
  BY <1>7, MapAppends
<1>9. QED
  BY <1>1, <1>7, <1>8, JobsOf DEF Longer

\* A thread does what it has to do first.
LEMMA WindowDoes ==
  ASSUME ClipInv, applies # <<>>, applies' = Tail(applies), gui' = gui
  PROVE  /\ Jobs("ctl") # <<>> /\ Jobs("ctl")' = Tail(Jobs("ctl"))
         /\ Jobs("cli")' = Jobs("cli")
<1>1. PICK q, r, f, g : q = applies /\ r = applies' /\ f = Jobs("ctl") /\ g = Jobs("ctl")'
  OBVIOUS
<1>2. q \in Seq(Items) /\ q # <<>> /\ r = Tail(q)
  BY <1>1, JobsTyped
<1>3. f = [n \in DOMAIN q |-> Outline(q[n])] /\ g = [n \in DOMAIN r |-> Outline(r[n])]
  BY <1>1, JobsOf
<1>4. PICK n \in Nat : n + 1 = Len(q)
  <2>1. Len(q) \in Nat /\ Len(q) # 0
    BY <1>2
  <2>2. Len(q) - 1 \in Nat /\ (Len(q) - 1) + 1 = Len(q)
    BY <2>1
  <2>3. QED
    BY <2>2
<1>5. DOMAIN q = 1..n + 1 /\ DOMAIN r = 1..n /\ \A i \in 1..n : r[i] = q[i + 1]
  BY <1>2, <1>4
<1>6. f = [i \in 1..n + 1 |-> Outline(q[i])] /\ g = [i \in 1..n |-> Outline(r[i])]
  BY <1>3, <1>5
<1>7. /\ f = [i \in 1..n + 1 |-> f[i]] /\ g = [i \in 1..n |-> g[i]]
      /\ \A i \in 1..n : g[i] = f[i + 1]
  BY <1>5, <1>6
<1>8. f # <<>> /\ g = Tail(f)
  BY <1>7, MapTails
<1>9. QED
  BY <1>1, <1>8, JobsOf

LEMMA DeviceDoes ==
  ASSUME ClipInv, gui # <<>>, gui' = Tail(gui), applies' = applies
  PROVE  /\ Jobs("cli") # <<>> /\ Jobs("cli")' = Tail(Jobs("cli"))
         /\ Jobs("ctl")' = Jobs("ctl")
<1>1. PICK q, r, f, g : q = gui /\ r = gui' /\ f = Jobs("cli") /\ g = Jobs("cli")'
  OBVIOUS
<1>2. q \in Seq(Tasks) /\ q # <<>> /\ r = Tail(q)
  BY <1>1, JobsTyped
<1>3. f = [n \in DOMAIN q |-> Job(q[n])] /\ g = [n \in DOMAIN r |-> Job(r[n])]
  BY <1>1, JobsOf
<1>4. PICK n \in Nat : n + 1 = Len(q)
  <2>1. Len(q) \in Nat /\ Len(q) # 0
    BY <1>2
  <2>2. Len(q) - 1 \in Nat /\ (Len(q) - 1) + 1 = Len(q)
    BY <2>1
  <2>3. QED
    BY <2>2
<1>5. DOMAIN q = 1..n + 1 /\ DOMAIN r = 1..n /\ \A i \in 1..n : r[i] = q[i + 1]
  BY <1>2, <1>4
<1>6. f = [i \in 1..n + 1 |-> Job(q[i])] /\ g = [i \in 1..n |-> Job(r[i])]
  BY <1>3, <1>5
<1>7. /\ f = [i \in 1..n + 1 |-> f[i]] /\ g = [i \in 1..n |-> g[i]]
      /\ \A i \in 1..n : g[i] = f[i + 1]
  BY <1>5, <1>6
<1>8. f # <<>> /\ g = Tail(f)
  BY <1>7, MapTails
<1>9. QED
  BY <1>1, <1>8, JobsOf

\* The tasks of the worker before run, but nobody hears of them.
LEMMA JobsOutlive ==
  ASSUME ClipInv, Connect
  PROVE  \A s \in Sides : Jobs(s)' = Jobs(s)
<1>1. gui' = [n \in DOMAIN gui |-> [gui[n] EXCEPT !.live = FALSE]] /\ applies' = applies
  BY DEF Connect, window
<1>2. DOMAIN gui' = DOMAIN gui /\ \A n \in DOMAIN gui : gui'[n] = [gui[n] EXCEPT !.live = FALSE]
  BY <1>1
<1>3. ASSUME NEW k \in Tasks
      PROVE  Job([k EXCEPT !.live = FALSE]) = Job(k)
  <2>1. CASE k \in Monitors
    BY <2>1 DEF Monitors, Job
  <2>2. CASE k \in Reads
    BY <2>2 DEF Reads, Job
  <2>3. CASE k \in WriteTasks
    BY <2>3 DEF WriteTasks, Job
  <2>4. QED
    BY <2>1, <2>2, <2>3 DEF Tasks
<1>4. \A n \in DOMAIN gui : gui[n] \in Tasks
  BY JobsTyped
<1>5. \A n \in DOMAIN gui : Job(gui'[n]) = Job(gui[n])
  BY <1>2, <1>3, <1>4
<1>6. Jobs("cli")' = Jobs("cli")
  BY <1>2, <1>5, JobsOf
<1>7. Jobs("ctl")' = Jobs("ctl")
  BY <1>1, JobsOf
<1>8. QED
  BY <1>6, <1>7, BothSides
-----------------------------------------------------------------------------
(***************************************************************************)
(* The steps of the abstract specification.                                *)
(***************************************************************************)
Kinds == {"short", "long"}
BothLanes == [s \in Sides |-> [k \in Kinds |-> LaneOf(s, k)]]
AllJobs == [s \in Sides |-> Jobs(s)]
\* A text may be lost.
Unsound == channel # "open" \/ asked # {} \/ channel' # "open" \/ asked' # {} \/ faults' # faults

\* The lanes g are f but for one, v.
Differs(f, g, s, k, v) == g = [f EXCEPT ![s][k] = v]

LEMMA OneLaneChanges ==
  ASSUME NEW S, NEW K, NEW f, f = [s \in S |-> [k \in K |-> f[s][k]]],
         NEW g, g = [s \in S |-> [k \in K |-> g[s][k]]], NEW s \in S, NEW k \in K,
         \A t \in S, l \in K : <<t, l>> # <<s, k>> => g[t][l] = f[t][l]
  PROVE  Differs(f, g, s, k, g[s][k])
<1>1. PICK h : h = [f EXCEPT ![s][k] = g[s][k]]
  OBVIOUS
<1>2. /\ \A t \in S : f[t] = [l \in K |-> f[t][l]] /\ g[t] = [l \in K |-> g[t][l]]
      /\ DOMAIN f = S
  OBVIOUS
<1>3. h = [t \in S |-> IF t = s THEN [f[s] EXCEPT ![k] = g[s][k]] ELSE f[t]]
  BY <1>1, <1>2
<1>4. ASSUME NEW t \in S
      PROVE  h[t] = g[t]
  <2>1. CASE t # s
    <3>1. \A l \in K : g[t][l] = f[t][l]
      BY <2>1
    <3>2. g[t] = f[t]
      BY <1>2, <3>1
    <3>3. QED
      BY <1>3, <2>1, <3>2
  <2>2. CASE t = s
    <3>1. PICK u, v : u = f[s] /\ v = g[s]
      OBVIOUS
    <3>2. u = [l \in K |-> u[l]] /\ v = [l \in K |-> v[l]]
      BY <1>2, <3>1
    <3>3. \A l \in K : l # k => v[l] = u[l]
      BY <3>1
    <3>4. v = [u EXCEPT ![k] = v[k]]
      BY <3>2, <3>3
    <3>5. QED
      BY <1>3, <2>2, <3>1, <3>4
  <2>3. QED
    BY <2>1, <2>2
<1>5. h = [t \in S |-> g[t]] /\ g = [t \in S |-> g[t]]
  BY <1>3, <1>4
<1>6. QED
  BY <1>1, <1>5 DEF Differs

LEMMA LanesMapped ==
  /\ BothLanes = [s \in Sides |-> [k \in Kinds |-> BothLanes[s][k]]]
  /\ BothLanes' = [s \in Sides |-> [k \in Kinds |-> BothLanes'[s][k]]]
  /\ \A s \in Sides, k \in Kinds : /\ BothLanes[s][k] = LaneOf(s, k)
                                   /\ BothLanes'[s][k] = LaneOf(s, k)'
  /\ AllJobs = [s \in Sides |-> AllJobs[s]] /\ AllJobs' = [s \in Sides |-> AllJobs'[s]]
  /\ \A s \in Sides : AllJobs[s] = Jobs(s) /\ AllJobs'[s] = Jobs(s)'
BY DEF BothLanes, AllJobs

\* The instance's names, with what they stand for.
LEMMA AbstractSteps ==
  /\ L!Turn <=> /\ \/ AllJobs' = AllJobs
                   \/ \E s \in Sides :
                          AllJobs' = [AllJobs EXCEPT ![s] = Append(AllJobs[s], [id |-> 0])]
                /\ BothLanes' = BothLanes /\ issued' = issued
  /\ L!Take <=> /\ \E s \in Sides : /\ AllJobs[s] # <<>>
                                    /\ AllJobs' = [AllJobs EXCEPT ![s] = Tail(AllJobs[s])]
                /\ BothLanes' = BothLanes /\ issued' = issued
  /\ L!Lose <=> /\ Unsound
                /\ BothLanes' = [s \in Sides |-> [k \in Kinds |-> BothLanes'[s][k]]]
                /\ \A s \in Sides, k \in Kinds : BothLanes'[s][k] \subseteq BothLanes[s][k]
                /\ AllJobs' = AllJobs /\ issued' = issued
  /\ L!Put <=> /\ issued' = issued + 1
               /\ \/ \E s \in Sides, k \in Kinds, t \in Texts :
                         BothLanes' = [BothLanes EXCEPT ![s][k] =
                                          BothLanes[s][k] \cup {[id |-> issued + 1, text |-> t]}]
                  \/ Unsound /\ BothLanes' = BothLanes
               /\ AllJobs' = AllJobs
  /\ L!Deliver <=> /\ \E s, o \in Sides, k \in Kinds : \E i \in BothLanes[s][k] :
                          /\ s # o
                          /\ \A j \in BothLanes[s][k] : i.id <= j.id
                          /\ BothLanes' = [BothLanes EXCEPT ![s][k] = BothLanes[s][k] \ {i}]
                          /\ AllJobs' = [AllJobs EXCEPT ![o] = Append(AllJobs[o], i)]
                   /\ issued' = issued
<1>1. L!Turn <=> /\ \/ AllJobs' = AllJobs
                    \/ \E s \in Sides :
                           AllJobs' = [AllJobs EXCEPT ![s] = Append(AllJobs[s], [id |-> 0])]
                 /\ BothLanes' = BothLanes /\ issued' = issued
  BY DEF L!Turn, L!Chore, BothLanes, AllJobs, Kinds
<1>2. L!Take <=> /\ \E s \in Sides : /\ AllJobs[s] # <<>>
                                     /\ AllJobs' = [AllJobs EXCEPT ![s] = Tail(AllJobs[s])]
                 /\ BothLanes' = BothLanes /\ issued' = issued
  BY DEF L!Take, BothLanes, AllJobs, Kinds
<1>3. L!Lose <=> /\ Unsound
                 /\ BothLanes' = [s \in Sides |-> [k \in Kinds |-> BothLanes'[s][k]]]
                 /\ \A s \in Sides, k \in Kinds : BothLanes'[s][k] \subseteq BothLanes[s][k]
                 /\ AllJobs' = AllJobs /\ issued' = issued
  BY DEF L!Lose, L!MayLose, Unsound, BothLanes, AllJobs, Kinds
<1>4. L!Put <=> /\ issued' = issued + 1
                /\ \/ \E s \in Sides, k \in Kinds, t \in Texts :
                          BothLanes' = [BothLanes EXCEPT ![s][k] =
                                           BothLanes[s][k] \cup {[id |-> issued + 1, text |-> t]}]
                   \/ Unsound /\ BothLanes' = BothLanes
                /\ AllJobs' = AllJobs
  BY DEF L!Put, L!NewItem, L!MayLose, Unsound, BothLanes, AllJobs, Kinds
<1>5. L!Deliver <=> /\ \E s, o \in Sides, k \in Kinds : \E i \in BothLanes[s][k] :
                           /\ s # o
                           /\ \A j \in BothLanes[s][k] : i.id <= j.id
                           /\ BothLanes' = [BothLanes EXCEPT ![s][k] = BothLanes[s][k] \ {i}]
                           /\ AllJobs' = [AllJobs EXCEPT ![o] = Append(AllJobs[o], i)]
                    /\ issued' = issued
  BY DEF L!Deliver, BothLanes, AllJobs, Kinds
<1>6. QED
  BY <1>1, <1>2, <1>3, <1>4, <1>5

LEMMA LanesTheSame ==
  ASSUME \A r \in Sides : LaneKept(r)
  PROVE  BothLanes' = BothLanes
<1>1. \A s \in Sides, k \in Kinds : LaneOf(s, k)' = LaneOf(s, k)
  BY DEF LaneKept, LaneOf
<1>2. QED
  BY <1>1 DEF BothLanes

LEMMA JobsTheSame ==
  ASSUME \A s \in Sides : Jobs(s)' = Jobs(s)
  PROVE  AllJobs' = AllJobs
BY DEF AllJobs

LEMMA OneJobMore ==
  ASSUME NEW s \in Sides, NEW j, Jobs(s)' = Append(Jobs(s), j), Jobs(Other(s))' = Jobs(Other(s))
  PROVE  AllJobs' = [AllJobs EXCEPT ![s] = Append(AllJobs[s], j)]
<1>1. \A t \in Sides : t # s => Jobs(t)' = Jobs(t)
  BY TwoSides
<1>2. QED
  BY <1>1 DEF AllJobs

LEMMA OneJobLess ==
  ASSUME NEW s \in Sides, Jobs(s)' = Tail(Jobs(s)), Jobs(Other(s))' = Jobs(Other(s))
  PROVE  AllJobs' = [AllJobs EXCEPT ![s] = Tail(AllJobs[s])]
<1>1. \A t \in Sides : t # s => Jobs(t)' = Jobs(t)
  BY TwoSides
<1>2. QED
  BY <1>1 DEF AllJobs

LEMMA IsTurn ==
  ASSUME \A r \in Sides : LaneKept(r), \A s \in Sides : Jobs(s)' = Jobs(s), issued' = issued
  PROVE  L!Next
BY LanesTheSame, JobsTheSame, AbstractSteps, Zenon DEF L!Next

LEMMA IsChore ==
  ASSUME \A r \in Sides : LaneKept(r), issued' = issued,
         NEW s \in Sides, Jobs(s)' = Append(Jobs(s), [id |-> 0]), Jobs(Other(s))' = Jobs(Other(s))
  PROVE  L!Next
<1>1. BothLanes' = BothLanes
  BY LanesTheSame
<1>2. AllJobs' = [AllJobs EXCEPT ![s] = Append(AllJobs[s], [id |-> 0])]
  BY OneJobMore
<1>3. L!Turn
  BY <1>1, <1>2, AbstractSteps, Zenon
<1>4. QED
  BY <1>3 DEF L!Next

LEMMA IsTake ==
  ASSUME \A r \in Sides : LaneKept(r), issued' = issued, NEW s \in Sides, Jobs(s) # <<>>,
         Jobs(s)' = Tail(Jobs(s)), Jobs(Other(s))' = Jobs(Other(s))
  PROVE  L!Next
<1>1. BothLanes' = BothLanes
  BY LanesTheSame
<1>2. AllJobs[s] # <<>> /\ AllJobs' = [AllJobs EXCEPT ![s] = Tail(AllJobs[s])]
  BY OneJobLess, LanesMapped
<1>3. L!Take
  BY <1>1, <1>2, AbstractSteps, Zenon
<1>4. QED
  BY <1>3 DEF L!Next

LEMMA IsLoss ==
  ASSUME \A r \in Sides : LaneLess(r), Unsound, \A s \in Sides : Jobs(s)' = Jobs(s),
         issued' = issued
  PROVE  L!Next
<1>1. ASSUME NEW s \in Sides, NEW k \in Kinds
      PROVE  BothLanes'[s][k] \subseteq BothLanes[s][k]
  <2>1. LaneOf(s, k)' \subseteq LaneOf(s, k)
    BY DEF LaneLess, LaneOf
  <2>2. QED
    BY <2>1, LanesMapped
<1>2. AllJobs' = AllJobs
  BY JobsTheSame
<1>3. BothLanes' = [s \in Sides |-> [k \in Kinds |-> BothLanes'[s][k]]]
  BY LanesMapped
<1>4. L!Lose
  BY <1>1, <1>2, <1>3, AbstractSteps, Zenon
<1>5. QED
  BY <1>4 DEF L!Next

\* One lane changes.
LEMMA LaneChanges ==
  ASSUME NEW s \in Sides, NEW k \in Kinds, NEW v, LaneOf(s, k)' = v,
         \A t \in Sides, l \in Kinds : <<t, l>> # <<s, k>> => LaneOf(t, l)' = LaneOf(t, l)
  PROVE  BothLanes' = [BothLanes EXCEPT ![s][k] = v]
<1>1. PICK f, g : f = BothLanes /\ g = BothLanes'
  OBVIOUS
<1>2. /\ f = [t \in Sides |-> [l \in Kinds |-> f[t][l]]]
      /\ g = [t \in Sides |-> [l \in Kinds |-> g[t][l]]]
  BY <1>1, LanesMapped
<1>3. \A t \in Sides, l \in Kinds : <<t, l>> # <<s, k>> => g[t][l] = f[t][l]
  BY <1>1, LanesMapped
<1>4. g[s][k] = v
  BY <1>1, LanesMapped
<1>5. Differs(f, g, s, k, g[s][k])
  BY <1>2, <1>3, OneLaneChanges
<1>6. QED
  BY <1>1, <1>4, <1>5 DEF Differs

LEMMA IsDelivery ==
  ASSUME NEW s \in Sides, NEW k \in Kinds, NEW i, Comes(s, k, i), issued' = issued,
         Jobs(s)' = Append(Jobs(s), i), Jobs(Other(s))' = Jobs(Other(s))
  PROVE  L!Next
<1>1. Other(s) \in Sides /\ Other(s) # s
  BY TwoSides
<1>2. /\ i \in LaneOf(Other(s), k) /\ \A j \in LaneOf(Other(s), k) : i.id <= j.id
      /\ LaneOf(Other(s), k)' = LaneOf(Other(s), k) \ {i}
      /\ \A t \in Sides, l \in Kinds :
             <<t, l>> # <<Other(s), k>> => LaneOf(t, l)' = LaneOf(t, l)
  BY Zenon DEF Comes, Kinds
<1>3. PICK o, v : o = Other(s) /\ v = LaneOf(o, k) \ {i}
  OBVIOUS
<1>4. BothLanes' = [BothLanes EXCEPT ![o][k] = v]
  <2>1. /\ o \in Sides /\ LaneOf(o, k)' = v
        /\ \A t \in Sides, l \in Kinds : <<t, l>> # <<o, k>> => LaneOf(t, l)' = LaneOf(t, l)
    BY <1>1, <1>2, <1>3
  <2>2. QED
    BY <2>1, LaneChanges
<1>5. BothLanes[o][k] = LaneOf(o, k)
  BY <1>1, <1>3, LanesMapped
<1>6. /\ o \in Sides /\ o # s /\ i \in BothLanes[o][k] /\ \A j \in BothLanes[o][k] : i.id <= j.id
      /\ BothLanes' = [BothLanes EXCEPT ![o][k] = BothLanes[o][k] \ {i}]
  BY <1>1, <1>2, <1>3, <1>4, <1>5
<1>7. AllJobs' = [AllJobs EXCEPT ![s] = Append(AllJobs[s], i)]
  BY OneJobMore
<1>8. L!Deliver
  BY <1>6, <1>7, AbstractSteps, Zenon
<1>9. QED
  BY <1>8 DEF L!Next

LEMMA IsPut ==
  ASSUME NEW s \in Sides, NEW t \in Texts, NEW i, i = [id |-> issued + 1, text |-> t],
         issued' = issued + 1, \A r \in Sides : Jobs(r)' = Jobs(r), LaneKept(Other(s)),
         \/ ShortLane(s)' = ShortLane(s) \cup {i} /\ LongLane(s)' = LongLane(s)
         \/ LongLane(s)' = LongLane(s) \cup {i} /\ ShortLane(s)' = ShortLane(s)
         \/ s \in asked' /\ LaneKept(s)
  PROVE  L!Next
<1>1. AllJobs' = AllJobs
  BY JobsTheSame
<1>2. ASSUME NEW k \in Kinds, LaneOf(s, k)' = LaneOf(s, k) \cup {i},
             \A l \in Kinds : l # k => LaneOf(s, l)' = LaneOf(s, l)
      PROVE  L!Put
  <2>1. PICK v : v = LaneOf(s, k) \cup {i}
    OBVIOUS
  <2>2. ASSUME NEW r \in Sides, NEW l \in Kinds, <<r, l>> # <<s, k>>
        PROVE  LaneOf(r, l)' = LaneOf(r, l)
    <3>1. CASE r = s
      BY <1>2, <2>2, <3>1
    <3>2. CASE r = Other(s)
      BY <3>2 DEF LaneKept, LaneOf
    <3>3. QED
      BY <3>1, <3>2, TwoSides
  <2>3. LaneOf(s, k)' = v
    BY <1>2, <2>1
  <2>4. BothLanes' = [BothLanes EXCEPT ![s][k] = v]
    BY <2>2, <2>3, LaneChanges
  <2>5. BothLanes[s][k] = LaneOf(s, k)
    BY LanesMapped
  <2>6. BothLanes' = [BothLanes EXCEPT ![s][k] =
                         BothLanes[s][k] \cup {[id |-> issued + 1, text |-> t]}]
    BY <2>1, <2>4, <2>5
  <2>7. QED
    BY <1>1, <2>6, AbstractSteps, Zenon
<1>3. CASE ShortLane(s)' = ShortLane(s) \cup {i} /\ LongLane(s)' = LongLane(s)
  <2>1. /\ "short" \in Kinds /\ LaneOf(s, "short")' = LaneOf(s, "short") \cup {i}
        /\ \A l \in Kinds : l # "short" => LaneOf(s, l)' = LaneOf(s, l)
    BY <1>3 DEF LaneOf, Kinds
  <2>2. QED
    BY <1>2, <2>1 DEF L!Next
<1>4. CASE LongLane(s)' = LongLane(s) \cup {i} /\ ShortLane(s)' = ShortLane(s)
  <2>1. /\ "long" \in Kinds /\ LaneOf(s, "long")' = LaneOf(s, "long") \cup {i}
        /\ \A l \in Kinds : l # "long" => LaneOf(s, l)' = LaneOf(s, l)
    BY <1>4 DEF LaneOf, Kinds
  <2>2. QED
    BY <1>2, <2>1 DEF L!Next
<1>5. CASE s \in asked' /\ LaneKept(s)
  <2>1. Unsound
    BY <1>5 DEF Unsound
  <2>2. BothLanes' = BothLanes
    BY <1>5, LanesTheSame, TwoSides
  <2>3. L!Put
    BY <1>1, <2>1, <2>2, AbstractSteps, Zenon
  <2>4. QED
    BY <2>3 DEF L!Next
<1>6. QED
  BY <1>3, <1>4, <1>5
-----------------------------------------------------------------------------
(***************************************************************************)
(* Each step is one of the abstract specification.                         *)
(***************************************************************************)
LEMMA NothingMoves ==
  ASSUME ClipInv, WaysOK, UNCHANGED <<channel, inbox, pending, chunks, partial, issued>>,
         UNCHANGED <<applies, gui>>
  PROVE  WaysOK' /\ L!Next
<1>1. WaysOK' /\ \A s \in Sides : LaneKept(s)
  BY WaysStill
<1>2. \A s \in Sides : Jobs(s)' = Jobs(s)
  BY JobsStill
<1>3. QED
  BY <1>1, <1>2, IsTurn

LEMMA UsersTurn ==
  ASSUME ClipInv, WaysOK, Users
  PROVE  WaysOK' /\ L!Next
<1>1. UNCHANGED <<channel, lanes, issued, applies, gui>>
  <2>1. ASSUME NEW s \in Sides, NEW t \in Texts \cup {NoText}, UserCopies(s, t)
        PROVE  UNCHANGED <<channel, lanes, issued, applies, gui>>
    BY <2>1 DEF UserCopies
  <2>2. CASE syncLocalClipboardToRemoteIfNeeded
    BY <2>2 DEF syncLocalClipboardToRemoteIfNeeded, device
  <2>3. CASE PasteShortcut
    BY <2>3 DEF PasteShortcut, device
  <2>4. CASE CopyShortcut
    BY <2>4 DEF CopyShortcut, device
  <2>5. QED
    BY <2>1, <2>2, <2>3, <2>4 DEF Users
<1>2. QED
  BY <1>1, NothingMoves DEF lanes

\* A received text is on its way to the thread that may write the clipboard.
LEMMA HandedOver ==
  ASSUME ClipInv, NEW s \in Sides, NEW i \in Items, HandOver(s, i)
  PROVE  Jobs(s)' = Append(Jobs(s), Outline(i)) /\ Jobs(Other(s))' = Jobs(Other(s))
<1>1. CASE s = "ctl"
  <2>1. applies' = Append(applies, i) /\ gui' = gui
    BY <1>1 DEF HandOver
  <2>2. QED
    BY <1>1, <2>1, WindowGets, BothSides
<1>2. CASE s = "cli"
  <2>1. PICK k : k = [do |-> "write", item |-> i, live |-> TRUE]
    OBVIOUS
  <2>2. k \in Tasks /\ Job(k) = Outline(i)
    BY <2>1 DEF Tasks, WriteTasks, Job
  <2>3. gui' = Append(gui, k) /\ applies' = applies
    BY <1>2, <2>1, BothSides DEF HandOver
  <2>4. QED
    BY <1>2, <2>2, <2>3, DeviceGets, BothSides
<1>3. QED
  BY <1>1, <1>2, BothSides

LEMMA ShortDelivered ==
  ASSUME ClipInv, WaysOK, NEW s \in Sides, HearInline(s)
  PROVE  WaysOK' /\ L!Next
<1>1. PICK i : i = Head(inbox[s]).item
  OBVIOUS
<1>2. HandOver(s, i) /\ issued' = issued /\ inbox[s] # <<>> /\ Head(inbox[s]).type = "inline"
  BY <1>1 DEF HearInline, Hears
<1>3. i \in Items
  BY <1>1, <1>2, Heard, MessageParts
<1>4. WaysOK' /\ Comes(s, "short", Outline(i))
  BY <1>1, ShortHeard
<1>5. Jobs(s)' = Append(Jobs(s), Outline(i)) /\ Jobs(Other(s))' = Jobs(Other(s))
  BY <1>2, <1>3, HandedOver
<1>6. "short" \in Kinds
  BY DEF Kinds
<1>7. QED
  BY <1>2, <1>4, <1>5, <1>6, IsDelivery

LEMMA LongDelivered ==
  ASSUME ClipInv, WaysOK, NEW s \in Sides, HearEnd(s)
  PROVE  WaysOK' /\ L!Next
<1>1. PICK i : i = Head(inbox[s]).item
  OBVIOUS
<1>2. issued' = issued /\ inbox[s] # <<>> /\ Head(inbox[s]).type = "step"
  BY DEF HearEnd, Hears
<1>3. /\ WaysOK'
      /\ Complete(s, i) => Comes(s, "long", Outline(i))
      /\ ~Complete(s, i) => \A r \in Sides : LaneKept(r)
  BY <1>1, LongHeard
<1>4. CASE Complete(s, i)
  <2>1. partial[s][i.id] = Whole /\ i \in Items
    BY <1>1, <1>2, <1>4, EndIsWhole DEF ClipInv
  <2>2. HandOver(s, [i EXCEPT !.text = IF partial[s][i.id] = Whole THEN @ ELSE Torn])
    BY <1>1, <1>4 DEF HearEnd
  <2>3. [i EXCEPT !.text = i.text] = i
    BY <2>1 DEF Items
  <2>4. HandOver(s, i)
    BY <2>1, <2>2, <2>3
  <2>5. Jobs(s)' = Append(Jobs(s), Outline(i)) /\ Jobs(Other(s))' = Jobs(Other(s))
    BY <2>1, <2>4, HandedOver
  <2>6. "long" \in Kinds
    BY DEF Kinds
  <2>7. QED
    BY <1>2, <1>3, <1>4, <2>5, <2>6, IsDelivery
<1>5. CASE ~Complete(s, i)
  <2>1. UNCHANGED <<applies, gui>>
    BY <1>1, <1>5 DEF HearEnd
  <2>2. \A r \in Sides : Jobs(r)' = Jobs(r)
    BY <2>1, JobsStill
  <2>3. QED
    BY <1>2, <1>3, <1>5, <2>2, IsTurn
<1>6. QED
  BY <1>4, <1>5

\* The window thread gets something to do besides writing texts.
LEMMA ChoreGiven ==
  ASSUME ClipInv, \A r \in Sides : LaneKept(r), issued' = issued, applies' = applies,
         NEW k \in Monitors \cup Reads, gui' = Append(gui, k)
  PROVE  L!Next
<1>1. k \in Tasks /\ Job(k) = [id |-> 0]
  BY DEF Tasks, Monitors, Reads, Job
<1>2. /\ Jobs("cli")' = Append(Jobs("cli"), [id |-> 0])
      /\ Jobs(Other("cli"))' = Jobs(Other("cli"))
  BY <1>1, DeviceGets, BothSides
<1>3. QED
  BY <1>2, BothSides, IsChore

LEMMA OpeningTurn ==
  ASSUME ClipInv, WaysOK, NEW s \in Sides, HearOpen(s)
  PROVE  WaysOK' /\ L!Next
<1>1. WaysOK' /\ \A r \in Sides : LaneKept(r)
  BY OpenHeard
<1>2. issued' = issued /\ applies' = applies
  BY DEF HearOpen, window
<1>3. CASE s = "cli"
  <2>1. PICK k : k = [do |-> "monitor", live |-> TRUE]
    OBVIOUS
  <2>2. k \in Monitors \cup Reads /\ gui' = Append(gui, k)
    BY <1>3, <2>1 DEF HearOpen, Monitors
  <2>3. QED
    BY <1>1, <1>2, <2>2, ChoreGiven
<1>4. CASE s # "cli"
  <2>1. gui' = gui
    BY <1>4 DEF HearOpen
  <2>2. \A r \in Sides : Jobs(r)' = Jobs(r)
    BY <1>2, <2>1, JobsStill
  <2>3. QED
    BY <1>1, <1>2, <2>2, IsTurn
<1>5. QED
  BY <1>3, <1>4

LEMMA ReceivesStep ==
  ASSUME ClipInv, WaysOK, NEW s \in Sides, Receives(s)
  PROVE  WaysOK' /\ L!Next
<1>1. CASE HearInline(s)
  BY <1>1, ShortDelivered
<1>2. CASE HearEnd(s)
  BY <1>2, LongDelivered
<1>3. CASE HearOpen(s)
  BY <1>3, OpeningTurn
<1>4. CASE HearChunk(s)
  <2>1. WaysOK' /\ \A r \in Sides : LaneKept(r)
    BY <1>4, ChunkHeard
  <2>2. issued' = issued /\ UNCHANGED <<applies, gui>>
    BY <1>4 DEF HearChunk, window, device
  <2>3. \A r \in Sides : Jobs(r)' = Jobs(r)
    BY <2>2, JobsStill
  <2>4. QED
    BY <2>1, <2>2, <2>3, IsTurn
<1>5. CASE HearOther(s)
  <2>1. /\ inbox[s] # <<>> /\ Head(inbox[s]).type \notin {"inline", "step"}
        /\ inbox' = [inbox EXCEPT ![s] = Tail(@)]
        /\ UNCHANGED <<channel, pending, chunks, partial, issued>> /\ UNCHANGED <<applies, gui>>
    BY <1>5 DEF HearOther, Hears, window, device
  <2>2. WaysOK' /\ \A r \in Sides : LaneKept(r)
    BY <2>1, NoiseHeard
  <2>3. \A r \in Sides : Jobs(r)' = Jobs(r)
    BY <2>1, JobsStill
  <2>4. QED
    BY <2>1, <2>2, <2>3, IsTurn
<1>6. CASE HearClosed(s)
  <2>1. WaysOK' /\ \A r \in Sides : LaneLess(r)
    BY <1>6, ClosedHeard
  <2>2. issued' = issued /\ UNCHANGED <<applies, gui>> /\ asked' = asked \cup {s}
    BY <1>6 DEF HearClosed, window
  <2>3. Unsound
    BY <2>2 DEF Unsound
  <2>4. \A r \in Sides : Jobs(r)' = Jobs(r)
    BY <2>2, JobsStill
  <2>5. QED
    BY <2>1, <2>2, <2>3, <2>4, IsLoss
<1>7. QED
  BY <1>1, <1>2, <1>3, <1>4, <1>5, <1>6 DEF Receives

\* A text is sent, and nothing else moves.
LEMMA TextPutStep ==
  ASSUME ClipInv, WaysOK, NEW s \in Sides, NEW t \in Texts, NEW f \in Origins,
         SendText(s, Item(t, f)), UNCHANGED <<channel, partial>>, UNCHANGED <<applies, gui>>
  PROVE  WaysOK' /\ L!Next
<1>1. PICK i : i = Outline(Item(t, f))
  OBVIOUS
<1>2. i = [id |-> issued + 1, text |-> t]
  BY <1>1 DEF Outline, Item
<1>3. /\ WaysOK' /\ issued' = issued + 1 /\ LaneKept(Other(s))
      /\ \/ ShortLane(s)' = ShortLane(s) \cup {i} /\ LongLane(s)' = LongLane(s)
         \/ LongLane(s)' = LongLane(s) \cup {i} /\ ShortLane(s)' = ShortLane(s)
         \/ s \in asked' /\ LaneKept(s)
  BY <1>1, TextPut
<1>4. \A r \in Sides : Jobs(r)' = Jobs(r)
  BY JobsStill
<1>5. QED
  BY <1>2, <1>3, <1>4, IsPut

LEMMA NoiseSentStep ==
  ASSUME ClipInv, WaysOK, NEW s \in Sides, NEW m \in {Result, Request}, Send(s, m),
         UNCHANGED <<channel, chunks, partial, issued>>, UNCHANGED <<applies, gui>>
  PROVE  WaysOK' /\ L!Next
<1>1. WaysOK' /\ \A r \in Sides : LaneKept(r)
  BY NoiseSent
<1>2. \A r \in Sides : Jobs(r)' = Jobs(r)
  BY JobsStill
<1>3. QED
  BY <1>1, <1>2, IsTurn

LEMMA RequestStep ==
  ASSUME ClipInv, WaysOK, HandleRequest
  PROVE  WaysOK' /\ L!Next
<1>1. PICK r : r = Head(requests)
  OBVIOUS
<1>2. r \in Orders
  BY <1>1, ArrivingTail DEF HandleRequest, ClipInv, WindowOK
<1>3. UNCHANGED <<channel, partial>> /\ UNCHANGED <<applies, gui>>
  BY DEF HandleRequest, device
<1>4. CASE r.type = "set"
  <2>1. r.text \in Texts
    BY <1>2, <1>4 DEF Orders, Request
  <2>2. SendText("ctl", Item(r.text, "user"))
    BY <1>1, <1>4 DEF HandleRequest
  <2>3. "user" \in Origins
    BY DEF Origins
  <2>4. QED
    BY <1>3, <2>1, <2>2, <2>3, BothSides, TextPutStep
<1>5. CASE r.type # "set"
  <2>1. Send("ctl", Request) /\ UNCHANGED <<chunks, issued>>
    BY <1>1, <1>5 DEF HandleRequest
  <2>2. QED
    BY <1>3, <2>1, BothSides, NoiseSentStep
<1>6. QED
  BY <1>4, <1>5

\* The controlled side answers or reports a text, or says nothing.
LEMMA AnswerStep ==
  ASSUME ClipInv, WaysOK, UNCHANGED <<channel, partial>>, UNCHANGED <<applies, gui>>,
         NEW t, NEW f, Silent \/ (t \in Texts /\ f \in Origins /\ Answer(t, f))
  PROVE  WaysOK' /\ L!Next
<1>1. CASE Silent
  BY <1>1, NothingMoves DEF Silent
<1>2. CASE t \in Texts /\ f \in Origins /\ Answer(t, f)
  <2>1. SendText("cli", Item(t, f))
    BY <1>2 DEF Answer
  <2>2. QED
    BY <1>2, <2>1, BothSides, TextPutStep
<1>3. QED
  BY <1>1, <1>2

LEMMA SnapshotStep ==
  ASSUME ClipInv, WaysOK, SendSnapshot
  PROVE  WaysOK' /\ L!Next
<1>1. PICK c : c = Head(done)
  OBVIOUS
<1>2. done # <<>> /\ c.did = "read"
  BY <1>1 DEF SendSnapshot
<1>3. c \in Completions
  BY <1>1, <1>2, ArrivingTail, DeviceTyped DEF ClipInv
<1>4. c.saw \in Holdings
  BY <1>2, <1>3, CompletionKinds DEF ReadsDone
<1>5. c.saw.text \in Texts \cup {NoText} /\ c.saw.from \in Origins
  BY <1>4 DEF Holdings
<1>6. UNCHANGED <<channel, partial>> /\ UNCHANGED <<applies, gui>>
  BY DEF SendSnapshot, window
<1>7. Silent \/ (c.saw.text # NoText /\ Answer(c.saw.text, c.saw.from))
  BY <1>1 DEF SendSnapshot
<1>8. Silent \/ (c.saw.text \in Texts /\ c.saw.from \in Origins /\ Answer(c.saw.text, c.saw.from))
  BY <1>5, <1>7, Zenon
<1>9. QED
  BY <1>6, <1>8, AnswerStep

LEMMA ExpansionStep ==
  ASSUME ClipInv, WaysOK, FinishExpansion
  PROVE  WaysOK' /\ L!Next
<1>1. PICK n \in DOMAIN expanding :
          IF expanding[n] = NoText THEN Silent /\ UNCHANGED cli ELSE Answer(expanding[n], "asked")
  BY DEF FinishExpansion
<1>2. expanding[n] \in Texts \cup {NoText}
  BY DeviceTyped DEF ClipInv
<1>3. UNCHANGED <<channel, partial>> /\ UNCHANGED <<applies, gui>>
  BY DEF FinishExpansion, window
<1>4. "asked" \in Origins
  BY DEF Origins
<1>5. PICK t : t = expanding[n]
  OBVIOUS
<1>6. Silent \/ (t \in Texts /\ "asked" \in Origins /\ Answer(t, "asked"))
  BY <1>1, <1>2, <1>4, <1>5
<1>7. QED
  BY <1>3, <1>6, AnswerStep

\* The worker asks the window thread to read the clipboard.
LEMMA ReadAsked ==
  ASSUME ClipInv, WaysOK, \A r \in Sides : LaneKept(r), UNCHANGED <<issued, applies>>,
         NEW b \in BOOLEAN,
         gui' = IF channel = "open"
                THEN Append(gui, [do |-> "read", explicit |-> b, live |-> TRUE]) ELSE gui
  PROVE  L!Next
<1>1. CASE channel = "open"
  <2>1. PICK k : k = [do |-> "read", explicit |-> b, live |-> TRUE]
    OBVIOUS
  <2>2. k \in Monitors \cup Reads /\ gui' = Append(gui, k)
    BY <1>1, <2>1 DEF Reads
  <2>3. QED
    BY <2>2, ChoreGiven
<1>2. CASE channel # "open"
  <2>1. \A r \in Sides : Jobs(r)' = Jobs(r)
    BY <1>2, JobsStill
  <2>2. QED
    BY <2>1, IsTurn
<1>3. QED
  BY <1>1, <1>2

LEMMA ControlledWorkerStep ==
  ASSUME ClipInv, WaysOK, ControlledWorker
  PROVE  WaysOK' /\ L!Next
<1>1. CASE HearRequest
  <2>1. /\ inbox["cli"] # <<>> /\ Head(inbox["cli"]).type = "request"
        /\ inbox' = [inbox EXCEPT !["cli"] = Tail(@)]
        /\ UNCHANGED <<channel, pending, chunks, partial, issued>>
        /\ UNCHANGED <<issued, applies>>
        /\ gui' = IF channel = "open"
                  THEN Append(gui, [do |-> "read", explicit |-> TRUE, live |-> TRUE]) ELSE gui
    BY <1>1 DEF HearRequest, Hears, window
  <2>2. Head(inbox["cli"]).type \notin {"inline", "step"}
    BY <2>1
  <2>3. WaysOK' /\ \A r \in Sides : LaneKept(r)
    BY <2>1, <2>2, BothSides, NoiseHeard
  <2>4. QED
    BY <2>1, <2>3, ReadAsked
<1>2. CASE scheduleLocalClipboardSnapshot
  <2>1. /\ UNCHANGED <<channel, inbox, pending, chunks, partial, issued>>
        /\ UNCHANGED <<applies, gui>>
    BY <1>2 DEF scheduleLocalClipboardSnapshot, lanes, window
  <2>2. QED
    BY <2>1, NothingMoves
<1>3. CASE SnapshotTimer
  <2>1. /\ UNCHANGED <<channel, inbox, pending, chunks, partial, issued>>
        /\ UNCHANGED <<issued, applies>>
        /\ gui' = IF channel = "open"
                  THEN Append(gui, [do |-> "read", explicit |-> FALSE, live |-> TRUE]) ELSE gui
    BY <1>3 DEF SnapshotTimer, lanes, window
  <2>2. WaysOK' /\ \A r \in Sides : LaneKept(r)
    BY <2>1, WaysStill
  <2>3. QED
    BY <2>1, <2>2, ReadAsked
<1>4. CASE FinishApply
  <2>1. /\ Send("cli", Result) /\ UNCHANGED <<channel, chunks, partial, issued>>
        /\ UNCHANGED <<applies, gui>>
    BY <1>4 DEF FinishApply, window
  <2>2. QED
    BY <2>1, BothSides, NoiseSentStep
<1>5. CASE SendSnapshot
  BY <1>5, SnapshotStep
<1>6. CASE StartExpansion
  <2>1. /\ UNCHANGED <<channel, inbox, pending, chunks, partial, issued>>
        /\ UNCHANGED <<applies, gui>>
    BY <1>6 DEF StartExpansion, lanes, window
  <2>2. QED
    BY <2>1, NothingMoves
<1>7. CASE FinishExpansion
  BY <1>7, ExpansionStep
<1>8. QED
  BY <1>1, <1>2, <1>3, <1>4, <1>5, <1>6, <1>7 DEF ControlledWorker

\* A step that may lose texts, and moves nothing else.
LEMMA LossStep ==
  ASSUME \A r \in Sides : LaneLess(r), Unsound, UNCHANGED <<applies, gui, issued>>
  PROVE  L!Next
<1>1. \A r \in Sides : Jobs(r)' = Jobs(r)
  BY JobsStill
<1>2. QED
  BY <1>1, IsLoss

LEMMA TimersStep ==
  ASSUME ClipInv, WaysOK, NEW s \in Sides, ChunkTimer(s) \/ Expire(s)
  PROVE  WaysOK' /\ L!Next
<1>1. CASE ChunkTimer(s)
  <2>1. UNCHANGED <<applies, gui, issued>>
    BY <1>1 DEF ChunkTimer, window
  <2>2. /\ WaysOK'
        /\ \/ \A r \in Sides : LaneKept(r)
           \/ (channel # "open" \/ faults' # faults) /\ \A r \in Sides : LaneLess(r)
    BY <1>1, TimerFired
  <2>3. CASE \A r \in Sides : LaneKept(r)
    <3>1. \A r \in Sides : Jobs(r)' = Jobs(r)
      BY <2>1, JobsStill
    <3>2. QED
      BY <2>1, <2>2, <2>3, <3>1, IsTurn
  <2>4. CASE (channel # "open" \/ faults' # faults) /\ \A r \in Sides : LaneLess(r)
    <3>1. Unsound
      BY <2>4 DEF Unsound
    <3>2. QED
      BY <2>1, <2>2, <2>4, <3>1, LossStep
  <2>5. QED
    BY <2>2, <2>3, <2>4
<1>2. CASE Expire(s)
  <2>1. UNCHANGED <<applies, gui, issued>> /\ faults' # faults
    BY <1>2 DEF Expire, Fault, window, device
  <2>2. WaysOK' /\ \A r \in Sides : LaneLess(r)
    BY <1>2, TextExpired
  <2>3. Unsound
    BY <2>1 DEF Unsound
  <2>4. QED
    BY <2>1, <2>2, <2>3, LossStep
<1>3. QED
  BY <1>1, <1>2

LEMMA WindowThreadStep ==
  ASSUME ClipInv, WaysOK, NEW s \in Sides, WindowThread(s)
  PROVE  WaysOK' /\ L!Next
<1>1. CASE noteLocalClipboardChanged
  <2>1. /\ UNCHANGED <<channel, inbox, pending, chunks, partial, issued>>
        /\ UNCHANGED <<applies, gui>>
    BY <1>1 DEF noteLocalClipboardChanged, lanes, device
  <2>2. QED
    BY <2>1, NothingMoves
<1>2. CASE applyLocalClipboardPayload
  <2>1. /\ UNCHANGED <<channel, inbox, pending, chunks, partial, issued>>
        /\ applies # <<>> /\ applies' = Tail(applies) /\ gui' = gui
    BY <1>2 DEF applyLocalClipboardPayload, lanes, device
  <2>2. WaysOK' /\ \A r \in Sides : LaneKept(r)
    BY <2>1, WaysStill
  <2>3. /\ Jobs("ctl") # <<>> /\ Jobs("ctl")' = Tail(Jobs("ctl"))
        /\ Jobs(Other("ctl"))' = Jobs(Other("ctl"))
    BY <2>1, WindowDoes, BothSides
  <2>4. QED
    BY <2>1, <2>2, <2>3, BothSides, IsTake
<1>3. CASE ConnectMonitor \/ ReadClipboard \/ WriteClipboard
  <2>1. /\ UNCHANGED <<channel, inbox, pending, chunks, partial, issued>>
        /\ gui # <<>> /\ gui' = Tail(gui) /\ applies' = applies
    BY <1>3 DEF ConnectMonitor, ReadClipboard, WriteClipboard, lanes, window
  <2>2. WaysOK' /\ \A r \in Sides : LaneKept(r)
    BY <2>1, WaysStill
  <2>3. /\ Jobs("cli") # <<>> /\ Jobs("cli")' = Tail(Jobs("cli"))
        /\ Jobs(Other("cli"))' = Jobs(Other("cli"))
    BY <2>1, DeviceDoes, BothSides
  <2>4. QED
    BY <2>1, <2>2, <2>3, BothSides, IsTake
<1>4. QED
  BY <1>1, <1>2, <1>3 DEF WindowThread

LEMMA SessionStep ==
  ASSUME ClipInv, WaysOK, Session
  PROVE  WaysOK' /\ L!Next
<1>1. CASE Lose
  <2>1. UNCHANGED <<applies, gui, issued>> /\ channel' # "open"
    BY <1>1 DEF Lose, window, device
  <2>2. WaysOK' /\ \A r \in Sides : LaneLess(r)
    BY <1>1, Lost
  <2>3. Unsound
    BY <2>1 DEF Unsound
  <2>4. QED
    BY <2>1, <2>2, <2>3, LossStep
<1>2. CASE Redial
  <2>1. UNCHANGED <<applies, gui, issued>> /\ channel' # "open"
    BY <1>2 DEF Redial, window, device
  <2>2. WaysOK' /\ \A r \in Sides : LaneLess(r)
    BY <1>2, Redialled
  <2>3. Unsound
    BY <2>1 DEF Unsound
  <2>4. QED
    BY <2>1, <2>2, <2>3, LossStep
<1>3. CASE Connect
  <2>1. issued' = issued /\ channel # "open"
    BY <1>3 DEF Connect
  <2>2. WaysOK' /\ \A r \in Sides : LaneLess(r)
    BY <1>3, Connected
  <2>3. Unsound
    BY <2>1 DEF Unsound
  <2>4. \A r \in Sides : Jobs(r)' = Jobs(r)
    BY <1>3, JobsOutlive
  <2>5. QED
    BY <2>1, <2>2, <2>3, <2>4, IsLoss
<1>4. QED
  BY <1>1, <1>2, <1>3 DEF Session

LEMMA EveryStep ==
  ASSUME ClipInv, WaysOK, [Next]_vars
  PROVE  WaysOK' /\ (L!Next \/ UNCHANGED L!lanesVars)
<1>1. CASE UNCHANGED vars
  <2>1. /\ UNCHANGED <<channel, inbox, pending, chunks, partial, issued>>
        /\ UNCHANGED <<applies, gui>>
    BY <1>1 DEF vars, lanes, window, device
  <2>2. QED
    BY <2>1, NothingMoves
<1>2. CASE Users
  BY <1>2, UsersTurn
<1>3. ASSUME NEW s \in Sides, Worker(s)
      PROVE  WaysOK' /\ L!Next
  <2>1. CASE Receives(s)
    BY <2>1, ReceivesStep
  <2>2. CASE HandleRequest
    BY <2>2, RequestStep
  <2>3. CASE ControlledWorker
    BY <2>3, ControlledWorkerStep
  <2>4. QED
    BY <1>3, <2>1, <2>2, <2>3 DEF Worker
<1>4. ASSUME NEW s \in Sides, ChunkTimer(s) \/ Expire(s) \/ WindowThread(s)
      PROVE  WaysOK' /\ L!Next
  BY <1>4, TimersStep, WindowThreadStep
<1>5. CASE Session
  BY <1>5, SessionStep
<1>6. QED
  BY <1>1, <1>2, <1>3, <1>4, <1>5 DEF Next

LEMMA WaysStart ==
  ASSUME Init
  PROVE  WaysOK /\ L!Init
<1>1. Range(<<>>) = {} /\ Sorted(<<>>)
  BY OneSorted
<1>2. DOMAIN NoPartial = {}
  BY DEF NoPartial
<1>3. /\ \A s \in Sides : /\ inbox[s] = <<>> /\ pending[s] = <<>> /\ chunks[s] = <<>>
                          /\ partial[s] = NoPartial
      /\ issued = 0 /\ channel = "dialling" /\ applies = <<>> /\ gui = <<>>
  BY DEF Init
<1>4. Flow(<<>>, <<>>, FALSE) = {}
  BY <1>1 DEF Flow, StepsIn
<1>5. WayOK(<<>>, <<>>, <<>>, NoPartial, FALSE, 0)
  <2>1. Ahead({}, {}) /\ Numbered({}, 0)
    BY DEF Ahead, Numbered
  <2>2. Gapless({}) /\ Meets({}, NoPartial) /\ StepsIn({}) = {}
    BY DEF Gapless, Meets, StepsIn
  <2>3. Fresh(<<>>, {}, Numbers({}))
    BY FreshOne
  <2>4. QED
    BY <1>1, <1>2, <1>4, <2>1, <2>2, <2>3 DEF WayOK
<1>6. (channel = "open") = FALSE
  BY <1>3
<1>7. WaysOK
  BY <1>3, <1>5, <1>6, TwoSides DEF WaysOK, Way
<1>8. \A s \in Sides, k \in Kinds : LaneOf(s, k) = {}
  <2>1. \A s \in Sides : UnderWay(s) = {}
    BY <1>1, <1>3, TwoSides DEF UnderWay
  <2>2. QED
    BY <2>1 DEF LaneOf, ShortLane, LongLane
<1>9. \A s \in Sides : Jobs(s) = <<>>
  BY <1>3, JobsOf, BothSides
<1>10. L!Init
  BY <1>3, <1>8, <1>9 DEF L!Init, Kinds
<1>11. QED
  BY <1>7, <1>10

\* Each way of the channel is two queues: a text comes out whole, at most once and
\* after the texts put before it into the same queue, and none is lost but by a fault
\* or while the channel is not open.
THEOREM LanesImplemented == Spec => ImplementsLanes
<1>1. Init => WaysOK /\ L!Init
  BY WaysStart
<1>2. ClipInv /\ WaysOK /\ [Next]_vars => WaysOK' /\ [L!Next]_L!lanesVars
  BY EveryStep
<1>3. QED
  BY <1>1, <1>2, ClipboardInvariant, PTL DEF Spec, ImplementsLanes, L!LanesSpec
=============================================================================
