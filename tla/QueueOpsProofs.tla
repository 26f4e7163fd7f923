--------------------------- MODULE QueueOpsProofs ---------------------------
(***************************************************************************)
(* The safety of QueueOps for any number of threads, operations and edits. *)
(*                                                                         *)
(* An entry has one place, and the properties follow entries from place to *)
(* place: from the queue into the hands of an operation and back.  What    *)
(* has to be added to them is who counts on a resume entry: its claims are *)
(* those of the plays that have not settled yet, as long as the entry is   *)
(* somewhere.                                                              *)
(***************************************************************************)
EXTENDS QueueOps, FiniteSetTheorems, TLAPS

(* The inductive invariant *)

\* A play between its preserve and its settlement counts on an interruption.
Working == {"ready", "start", "settle", "rollback"}
Holding(t) == IF pc[t] \in Working THEN kept[t] ELSE 0
Holders(n) == {t \in Threads : Holding(t) = n}

Queued == ToSet(queue)
Placed == Queued \cup UNION {Out(t) : t \in Threads}

FlagsOK == playing \in BOOLEAN

\* The shape of the state, the numbers of claims apart.
ShapeOK ==
    /\ queue \in Seq(AllEntries)
    /\ clean \subseteq Threads /\ touched \subseteq Threads
    /\ claims \in [Interruptions -> Nat]
    /\ newest \in Threads \cup {NoThread} /\ now \in 0..asked
    /\ sess \in {"idle", "playing", "closed"}
    /\ advLock \in Threads \cup {NoThread}
    /\ asked \in Nat \ {0} /\ interruptions \in Nat

\* The shape of what a thread works with.
LocalOK ==
    /\ pc \in [Threads -> Steps] /\ op \in [Threads -> Requests]
    /\ spot \in [Threads -> Nat] /\ prior \in [Threads -> 0..asked]
    /\ item \in [Threads -> AllEntries \cup {Nothing}]
    /\ held \in [Threads -> AllEntries \cup {Nothing}]
    /\ kept \in [Threads -> 0..interruptions]
    /\ before \in [Threads -> SUBSET [media : Nat, nth : Nat]]

\* What an operation has in its hands at each of its steps.
FlowOK ==
    \A t \in Threads :
      /\ pc[t] = "idle" => op[t] = "idle"
      /\ op[t] \in {"queue_play", "play_now"} =>
           pc[t] \in Working \cup {"interrupt", "preserve", "restore"}
      /\ spot[t] # 0 => op[t] \in {"queue_play", "play_next"} /\ item[t] # Nothing
      /\ pc[t] \in {"popped", "claim", "resolve"} => held[t] # Nothing
      /\ pc[t] = "restore" => spot[t] # 0
      /\ pc[t] \in {"idle", "interrupt", "preserve"} => kept[t] = 0
      /\ pc[t] = "preserve" => prior[t] # 0

\* An interruption belongs to an operation that has begun.
Interrupting == {t \in Threads : pc[t] \in {"interrupt", "preserve"}}
CountOK == starts \in 0..MaxStarts /\ interruptions + Cardinality(Interrupting) <= starts

PlacesOK ==
    /\ IsInjective(queue)
    /\ \A t \in Threads : Out(t) \cap Queued = {}
    /\ \A t, u \in Threads : t # u => Out(t) \cap Out(u) = {}
    /\ \A t \in Threads : spot[t] # 0 /\ held[t] # Nothing => item[t] # held[t]
    /\ \A e, f \in Placed : e.nth # 0 /\ e.nth = f.nth => e = f

\* The claims on an interruption are at most those of its holders; on one whose
\* entry is somewhere they are exactly those, and once it has come about nobody
\* holds it, or it is committed.  What is held, or has come about, is in the queue
\* unless it was spent.
ClaimsOK ==
    /\ \A n \in Interruptions : claims[n] <= Cardinality(Holders(n))
    /\ \A e \in Placed : e.nth # 0 =>
         /\ claims[e.nth] = Cardinality(Holders(e.nth))
         /\ e.nth \in accepted => Holders(e.nth) = {} \/ e.nth \in committed
    /\ \A t \in Threads :
         Holding(t) \notin gone \cup {0} => \E e \in Queued : e.nth = Holding(t)
    /\ InterruptedIsKept
    /\ committed \subseteq {n \in Interruptions : claims[n] > 0}
    /\ accepted \subseteq 1..interruptions

\* What was cleared stays out: nobody has it but those who know of the change.
ClearedOK ==
    /\ cleared \subseteq AllEntries /\ ClearWins
    /\ \A t \in Threads :
         /\ spot[t] # 0 /\ item[t] \in cleared => t \notin clean
         /\ held[t] \notin cleared

\* A queue that nobody else has changed is the one that was dequeued from.
RestoreOK ==
    \A t \in Threads : spot[t] # 0 /\ t \notin touched =>
      /\ t \in clean
      /\ op[t] = "queue_play" => Ordinary(Queued \cup {item[t]}) = before[t]

IInv ==
    /\ FlagsOK /\ ShapeOK /\ LocalOK /\ FlowOK /\ CountOK
    /\ PlacesOK /\ ClaimsOK /\ ClearedOK /\ RestoreOK
-----------------------------------------------------------------------------
(* Sequences of distinct entries *)

LEMMA InSequence ==
  ASSUME NEW S, NEW q \in Seq(S), NEW e
  PROVE  /\ e \in ToSet(q) <=> \E i \in 1..Len(q) : q[i] = e
         /\ IsInjective(q) <=> \A i, k \in 1..Len(q) : q[i] = q[k] => i = k
BY DEF ToSet, IsInjective

\* What is left without its i-th element.
LEMMA Removed ==
  ASSUME NEW S, NEW q \in Seq(S), NEW i \in 1..Len(q)
  PROVE  /\ RemoveAt(q, i) \in Seq(S)
         /\ q[i] \in ToSet(q) /\ q[i] \in S
         /\ \A e : e \in ToSet(RemoveAt(q, i)) => e \in ToSet(q)
         /\ \A e : e \in ToSet(q) /\ e # q[i] => e \in ToSet(RemoveAt(q, i))
         /\ IsInjective(q) => IsInjective(RemoveAt(q, i)) /\ q[i] \notin ToSet(RemoveAt(q, i))
<1> DEFINE w == RemoveAt(q, i)
<1>1. /\ w \in Seq(S) /\ Len(w) = Len(q) - 1
      /\ \A k \in 1..(Len(q) - 1) : w[k] = IF k < i THEN q[k] ELSE q[k + 1]
  <2> DEFINE a == SubSeq(q, 1, i - 1)
             b == SubSeq(q, i + 1, Len(q))
  <2>1. a \in Seq(S) /\ Len(a) = i - 1 /\ \A k \in 1..(i - 1) : a[k] = q[k]
    OBVIOUS
  <2>2. b \in Seq(S) /\ Len(b) = Len(q) - i /\ \A k \in 1..(Len(q) - i) : b[k] = q[k + i]
    OBVIOUS
  <2>3. w = a \o b
    BY DEF RemoveAt
  <2> HIDE DEF a, b, w
  <2>4. w \in Seq(S) /\ Len(w) = Len(q) - 1
    BY <2>1, <2>2, <2>3
  <2>5. ASSUME NEW k \in 1..(Len(q) - 1), k < i PROVE w[k] = q[k]
    BY <2>1, <2>2, <2>3, <2>5
  <2>6. ASSUME NEW k \in 1..(Len(q) - 1), k >= i PROVE w[k] = q[k + 1]
    <3>1. w[k] = b[k - (i - 1)]
      BY <2>1, <2>2, <2>3, <2>6
    <3>2. k - (i - 1) \in 1..(Len(q) - i) /\ k - (i - 1) + i = k + 1
      BY <2>6
    <3>3. QED
      BY <2>2, <3>1, <3>2
  <2>7. QED
    BY <2>4, <2>5, <2>6
<1> HIDE DEF w
<1>2. \A k \in 1..Len(w) :
        \E m \in 1..Len(q) : m # i /\ m = (IF k < i THEN k ELSE k + 1) /\ w[k] = q[m]
  BY <1>1
<1>3. \A e : e \in ToSet(w) => e \in ToSet(q)
  BY <1>1, <1>2, InSequence
<1>4. ASSUME NEW e, e \in ToSet(q), e # q[i] PROVE e \in ToSet(w)
  <2>1. PICK k \in 1..Len(q) : q[k] = e /\ k # i
    BY <1>4, InSequence
  <2>2. CASE k < i
    BY <1>1, <2>1, <2>2, InSequence
  <2>3. CASE k > i
    <3>1. k - 1 \in 1..(Len(q) - 1) /\ w[k - 1] = q[k]
      BY <1>1, <2>1, <2>3
    <3>2. QED
      BY <1>1, <2>1, <3>1, InSequence
  <2>4. QED
    BY <2>1, <2>2, <2>3
<1>5. ASSUME IsInjective(q) PROVE IsInjective(w) /\ q[i] \notin ToSet(w)
  <2>1. \A k, m \in 1..Len(q) : q[k] = q[m] => k = m
    BY <1>5, InSequence
  <2>2. q[i] \notin ToSet(w)
    BY <1>1, <1>2, <2>1, InSequence
  <2>3. ASSUME NEW k \in 1..Len(w), NEW m \in 1..Len(w), w[k] = w[m] PROVE k = m
    <3>1. PICK a \in 1..Len(q) : a = (IF k < i THEN k ELSE k + 1) /\ w[k] = q[a]
      BY <1>2
    <3>2. PICK b \in 1..Len(q) : b = (IF m < i THEN m ELSE m + 1) /\ w[m] = q[b]
      BY <1>2
    <3>3. a = b
      BY <2>1, <2>3, <3>1, <3>2
    <3>4. k \in Nat /\ m \in Nat /\ i \in Nat
      BY <1>1
    <3> HIDE <2>3
    <3>5. QED
      BY <3>1, <3>2, <3>3, <3>4
  <2>4. IsInjective(w)
    BY <1>1, <2>3, InSequence
  <2>5. QED
    BY <2>2, <2>4
<1>6. q[i] \in ToSet(q) /\ q[i] \in S
  BY InSequence
<1>7. QED
  BY <1>1, <1>3, <1>4, <1>5, <1>6 DEF w

\* What it is with a new element at place i.
LEMMA Inserted ==
  ASSUME NEW S, NEW q \in Seq(S), NEW e \in S, NEW i \in 1..(Len(q) + 1)
  PROVE  /\ InsertAt(q, i, e) \in Seq(S)
         /\ \A x : x \in ToSet(InsertAt(q, i, e)) <=> x = e \/ x \in ToSet(q)
         /\ IsInjective(q) /\ e \notin ToSet(q) => IsInjective(InsertAt(q, i, e))
<1> DEFINE w == InsertAt(q, i, e)
<1>1. /\ w \in Seq(S) /\ Len(w) = Len(q) + 1
      /\ \A k \in 1..(Len(q) + 1) :
           w[k] = IF k < i THEN q[k] ELSE IF k = i THEN e ELSE q[k - 1]
  <2> DEFINE a == SubSeq(q, 1, i - 1)
             b == SubSeq(q, i, Len(q))
             c == a \o <<e>>
  <2>1. a \in Seq(S) /\ Len(a) = i - 1 /\ \A k \in 1..(i - 1) : a[k] = q[k]
    OBVIOUS
  <2>2. /\ b \in Seq(S) /\ Len(b) = Len(q) - i + 1
        /\ \A k \in 1..(Len(q) - i + 1) : b[k] = q[k + i - 1]
    OBVIOUS
  <2>3. w = c \o b
    BY DEF InsertAt
  <2> HIDE DEF a, b
  <2>4. /\ c \in Seq(S) /\ Len(c) = i
        /\ \A k \in 1..i : c[k] = IF k < i THEN q[k] ELSE e
    BY <2>1
  <2> HIDE DEF c, w
  <2>5. w \in Seq(S) /\ Len(w) = Len(q) + 1
    <3>0. c \in Seq(S) /\ b \in Seq(S)
      BY <2>2, <2>4
    <3>1. w \in Seq(S) /\ Len(w) = Len(c) + Len(b)
      BY <2>3, <3>0
    <3>2. Len(q) \in Nat
      OBVIOUS
    <3>3. QED
      BY <2>2, <2>4, <3>1, <3>2
  <2>6. ASSUME NEW k \in 1..(Len(q) + 1), k <= i
        PROVE  w[k] = IF k < i THEN q[k] ELSE e
    BY <2>2, <2>3, <2>4, <2>6
  <2>7. ASSUME NEW k \in 1..(Len(q) + 1), k > i PROVE w[k] = q[k - 1]
    <3>1. w[k] = b[k - i]
      BY <2>2, <2>3, <2>4, <2>7
    <3>2. k - i \in 1..(Len(q) - i + 1) /\ k - i + i - 1 = k - 1
      BY <2>7
    <3>3. QED
      BY <2>2, <3>1, <3>2
  <2>8. QED
    BY <2>5, <2>6, <2>7
<1> HIDE DEF w
<1>2. ASSUME NEW x, x \in ToSet(w) PROVE x = e \/ x \in ToSet(q)
  BY <1>1, <1>2, InSequence
<1>3. e \in ToSet(w)
  BY <1>1, InSequence
<1>4. ASSUME NEW x, x \in ToSet(q) PROVE x \in ToSet(w)
  <2>1. PICK k \in 1..Len(q) : q[k] = x
    BY <1>4, InSequence
  <2>2. CASE k < i
    BY <1>1, <2>1, <2>2, InSequence
  <2>3. CASE k >= i
    <3>1. k + 1 \in 1..(Len(q) + 1) /\ w[k + 1] = q[k]
      BY <1>1, <2>1, <2>3
    <3>2. QED
      BY <1>1, <2>1, <3>1, InSequence
  <2>4. QED
    BY <2>2, <2>3
<1>5. ASSUME IsInjective(q), e \notin ToSet(q) PROVE IsInjective(w)
  <2>1. \A k, m \in 1..Len(q) : q[k] = q[m] => k = m
    BY <1>5, InSequence
  <2>2. \A k \in 1..Len(q) : q[k] # e
    BY <1>5, InSequence
  <2>3. ASSUME NEW k \in 1..Len(w), NEW m \in 1..Len(w), w[k] = w[m] PROVE k = m
    <3>1. /\ k < i \/ k = i \/ (k > i /\ k - 1 \in 1..Len(q))
          /\ m < i \/ m = i \/ (m > i /\ m - 1 \in 1..Len(q))
          /\ k < i => k \in 1..Len(q)
          /\ m < i => m \in 1..Len(q)
      BY <1>1
    <3>2. CASE k < i
      BY SMTT(30), <1>1, <2>1, <2>2, <2>3, <3>1, <3>2
    <3>3. CASE k = i
      BY <1>1, <2>1, <2>2, <2>3, <3>1, <3>3
    <3>4. CASE k > i
      <4>1. w[k] = q[k - 1] /\ k - 1 \in 1..Len(q)
        BY <1>1, <3>1, <3>4
      <4>2. CASE m < i
        <5>1. w[m] = q[m] /\ m \in 1..Len(q)
          BY <1>1, <3>1, <4>2
        <5>2. k - 1 = m
          BY <2>1, <2>3, <4>1, <5>1
        <5>3. QED
          BY <3>4, <4>2, <5>2
      <4>3. CASE m = i
        <5>1. w[m] = e
          BY <1>1, <3>1, <4>3
        <5>2. QED
          BY <2>2, <2>3, <4>1, <5>1
      <4>4. CASE m > i
        <5>1. w[m] = q[m - 1] /\ m - 1 \in 1..Len(q)
          BY <1>1, <3>1, <4>4
        <5>2. k - 1 = m - 1
          BY <2>1, <2>3, <4>1, <5>1
        <5>3. QED
          BY <1>1, <5>2
      <4>5. QED
        BY <3>1, <4>2, <4>3, <4>4
    <3>5. QED
      BY <3>1, <3>2, <3>3, <3>4
  <2>4. QED
    BY <1>1, <2>3, InSequence
<1>6. QED
  BY <1>1, <1>2, <1>3, <1>4, <1>5 DEF w

\* The head of a queue is one of it.
LEMMA HeadQueued ==
  ASSUME NEW S, NEW q \in Seq(S), q # <<>>
  PROVE  1 \in 1..Len(q) /\ Head(q) = q[1] /\ q[1] \in ToSet(q) /\ q[1] \in S
<1>1. 1 \in 1..Len(q) /\ Head(q) = q[1]
  OBVIOUS
<1>2. QED
  BY <1>1, InSequence
-----------------------------------------------------------------------------
(* The shape of the state *)

LEMMA FlagsInv == ASSUME FlagsOK, Next PROVE FlagsOK'
<1> USE DEF FlagsOK, Publish, PutBack, Claim, Finish, Begin, playback
<1>1. ASSUME NEW t \in Threads, Advance(t) PROVE FlagsOK'
  BY <1>1, Zenon
     DEF Advance, AutoNext, SkipToNext, AdvanceEnter, SeamlessPop, TrackerPop, SeamlessPublish,
         AdvanceEmpty, AdvanceSuppressed, AdvancePop, AdvanceClosed, AdvanceOpen, AdvanceClaim,
         AdvanceDone, AdvanceSkip, AdvanceFail
<1>2. ASSUME NEW t \in Threads, Play(t) PROVE FlagsOK'
  BY <1>2, Zenon
     DEF Play, QueuePlay, PlayNow, PreserveNothing, PreserveShared, PreserveCapture, Preserve,
         PlayClaim, PlayStarts, PlayFails, PlayOvertaken, PlayPostLive, Settle, Rollback, Restore
<1>3. ASSUME NEW t \in Threads, Close(t) PROVE FlagsOK'
  BY <1>3, Zenon DEF Close, CloseRetire, CloseWrite, CloseTeardown
<1>4. ASSUME Edit \/ MediaEnds \/ NaturalEnd PROVE FlagsOK'
  BY <1>4, Zenon DEF Edit, Clear, AddAt, RemoveOne, MediaEnds, NaturalEnd
<1>5. QED
  BY <1>1, <1>2, <1>3, <1>4 DEF Next

Shapes == ShapeOK /\ LocalOK /\ FlowOK

LEMMA Entries ==
  ASSUME ShapeOK
  PROVE  /\ Nothing \notin AllEntries
         /\ \A e \in AllEntries : e.media \in 1..asked /\ e.nth \in 0..interruptions
         /\ \A m \in 1..asked : Entry(m) \in AllEntries
BY DEF ShapeOK, AllEntries, Nothing, Entry

\* The queue keeps its shape as numbers are given out.
LEMMA More ==
  ASSUME ShapeOK, asked' \in Nat, asked <= asked', interruptions' \in Nat,
         interruptions <= interruptions'
  PROVE  AllEntries \subseteq AllEntries' /\ Seq(AllEntries) \subseteq Seq(AllEntries')
<1>1. AllEntries \subseteq AllEntries'
  BY DEF ShapeOK, AllEntries
<1>2. QED
  BY <1>1

LEMMA Dequeued ==
  ASSUME ShapeOK, NEW t, NEW i \in DOMAIN queue, Dequeue(t, i)
  PROVE  /\ queue' \in Seq(AllEntries) /\ queue[i] \in AllEntries /\ queue[i] \in Queued
         /\ \A e : e \in Queued' => e \in Queued
         /\ \A e : e \in Queued /\ e # queue[i] => e \in Queued'
         /\ IsInjective(queue) => IsInjective(queue') /\ queue[i] \notin Queued'
<1>1. queue \in Seq(AllEntries) /\ i \in 1..Len(queue) /\ queue' = RemoveAt(queue, i)
  BY DEF ShapeOK, Dequeue
<1>2. QED
  BY <1>1, Removed DEF Queued

LEMMA Enqueued ==
  ASSUME ShapeOK, NEW t, NEW e \in AllEntries', Seq(AllEntries) \subseteq Seq(AllEntries'),
         NEW i \in 1..(Len(queue) + 1), Enqueue(t, i, e)
  PROVE  /\ queue' \in Seq(AllEntries')
         /\ \A x : x \in Queued' <=> x = e \/ x \in Queued
         /\ IsInjective(queue) /\ e \notin Queued => IsInjective(queue')
<1>1. queue \in Seq(AllEntries') /\ queue' = InsertAt(queue, i, e)
  BY DEF ShapeOK, Enqueue
<1>2. QED
  BY <1>1, Inserted DEF Queued

LEMMA HeadFirst ==
  ASSUME ShapeOK, queue # <<>>
  PROVE  1 \in DOMAIN queue /\ Head(queue) = queue[1] /\ Head(queue) \in Queued
         /\ Head(queue) \in AllEntries
<1>1. queue \in Seq(AllEntries)
  BY DEF ShapeOK
<1>2. QED
  BY <1>1, HeadQueued DEF Queued

LEMMA Counted ==
  ASSUME ShapeOK, CountOK
  PROVE  /\ MaxStarts \in Nat /\ starts \in Nat /\ interruptions <= MaxStarts
         /\ IsFiniteSet(Interrupting)
         /\ \A t \in Threads : t \in Interrupting => interruptions + 1 <= MaxStarts
<1>1. MaxStarts \in Nat
  BY BoundAssumption
<1>2. IsFiniteSet(Interrupting)
  BY ThreadAssumption, FS_Subset DEF Interrupting
<1>3. Cardinality(Interrupting) \in Nat
  BY <1>2, FS_CardinalityType
<1>4. ASSUME NEW t \in Interrupting PROVE Cardinality(Interrupting) # 0
  BY <1>2, FS_EmptySet
<1>5. QED
  BY <1>1, <1>2, <1>3, <1>4 DEF CountOK, ShapeOK

LEMMA HeadResumes ==
  ASSUME ShapeOK, CountOK, HeadIsResume
  PROVE  /\ Head(queue).nth \in 0..interruptions /\ Head(queue).nth \in Interruptions
         /\ Head(queue).nth # 0
<1>1. Head(queue).nth \in 0..interruptions /\ Head(queue).nth # 0
  BY HeadFirst, Entries DEF HeadIsResume, IsResume
<1>2. interruptions \in Nat /\ interruptions <= MaxStarts /\ MaxStarts \in Nat
  BY Counted DEF ShapeOK
<1>3. QED
  BY <1>1, <1>2 DEF Interruptions

LEMMA AdvanceShapes == ASSUME Shapes, CountOK, NEW t \in Threads, Advance(t) PROVE Shapes'
<1> USE DEF Shapes, LocalOK, FlowOK, At, Goto, Set, Begin, Finish, Working, Steps, Requests,
            waiting, resume, playback, local, bounds, history
<1>a. /\ Nothing \notin AllEntries /\ asked \in Nat /\ interruptions \in Nat
      /\ \A e \in AllEntries \cup {Nothing} : e.media \in 0..asked
  BY Entries DEF Nothing, ShapeOK
<1>1. ASSUME AutoNext(t) PROVE Shapes'
  <2>1. AllEntries' = AllEntries
    BY <1>1 DEF AutoNext, AllEntries
  <2>2. ShapeOK'
    BY <1>a, <1>1, <2>1 DEF AutoNext, ShapeOK
  <2>3. LocalOK'
    BY <1>a, <1>1, <2>1 DEF AutoNext
  <2>4. FlowOK'
    BY <1>1 DEF AutoNext
  <2>5. QED
    BY <2>2, <2>3, <2>4
<1>2. ASSUME SkipToNext(t) PROVE Shapes'
  <2>1. AllEntries' = AllEntries
    BY <1>2 DEF SkipToNext, AllEntries
  <2>2. ShapeOK'
    BY <1>a, <1>2, <2>1 DEF SkipToNext, ShapeOK
  <2>3. LocalOK'
    BY <1>a, <1>2, <2>1 DEF SkipToNext
  <2>4. FlowOK'
    BY <1>2 DEF SkipToNext
  <2>5. QED
    BY <2>2, <2>3, <2>4
<1>3. ASSUME AdvanceEnter(t) PROVE Shapes'
  <2>1. AllEntries' = AllEntries
    BY <1>3 DEF AdvanceEnter, AllEntries
  <2>2. ShapeOK'
    BY <1>a, <1>3, <2>1 DEF AdvanceEnter, ShapeOK
  <2>3. LocalOK'
    <3>1. CASE op[t] = "auto_next" /\ sess = "closed"
      BY <1>a, <1>3, <2>1, <3>1 DEF AdvanceEnter
    <3>2. CASE ~(op[t] = "auto_next" /\ sess = "closed")
      BY <1>a, <1>3, <2>1, <3>2 DEF AdvanceEnter
    <3>3. QED
      BY <3>1, <3>2
  <2>4. FlowOK'
    BY <1>3 DEF AdvanceEnter
  <2>5. QED
    BY <2>2, <2>3, <2>4
<1>4. ASSUME NEW i \in DOMAIN queue, SeamlessPop(t, i) PROVE Shapes'
  <2>1. AllEntries' = AllEntries
    BY <1>4 DEF SeamlessPop, AllEntries
  <2>2. queue' \in Seq(AllEntries) /\ queue[i] \in AllEntries
    BY <1>4, Dequeued DEF SeamlessPop, Consume
  <2>3. ShapeOK'
    BY <1>4, <2>1, <2>2 DEF SeamlessPop, Consume, Dequeue, Mutated, ShapeOK
  <2>4. LocalOK' /\ FlowOK'
    BY <1>a, <1>4, <2>1, <2>2 DEF SeamlessPop, Consume, Dequeue, Mutated, ShapeOK
  <2>5. QED
    BY <2>3, <2>4
<1>5. ASSUME NEW i \in DOMAIN queue, TrackerPop(t, i) PROVE Shapes'
  <2>1. AllEntries' = AllEntries
    BY <1>5 DEF TrackerPop, AllEntries
  <2>2. queue' \in Seq(AllEntries) /\ queue[i] \in AllEntries
    BY <1>5, Dequeued DEF TrackerPop, Consume
  <2>3. ShapeOK'
    BY <1>5, <2>1, <2>2 DEF TrackerPop, Consume, Dequeue, Mutated, ShapeOK
  <2>4. LocalOK' /\ FlowOK'
    BY <1>a, <1>5, <2>1, <2>2 DEF TrackerPop, Consume
  <2>5. QED
    BY <2>3, <2>4
<1>6. ASSUME SeamlessPublish(t) PROVE Shapes'
  <2>1. AllEntries' = AllEntries
    BY <1>6 DEF SeamlessPublish, AllEntries
  <2>2. ShapeOK'
    BY <1>a, <1>6, <2>1 DEF SeamlessPublish, ShapeOK
  <2>3. LocalOK'
    BY <1>a, <1>6, <2>1 DEF SeamlessPublish
  <2>4. FlowOK'
    BY <1>6 DEF SeamlessPublish
  <2>5. QED
    BY <2>2, <2>3, <2>4
<1>7. ASSUME AdvanceEmpty(t) PROVE Shapes'
  <2>1. AllEntries' = AllEntries
    BY <1>7 DEF AdvanceEmpty, GoIdle, AllEntries
  <2>2. ShapeOK'
    BY <1>a, <1>7, <2>1 DEF AdvanceEmpty, GoIdle, ShapeOK
  <2>3. LocalOK'
    BY <1>a, <1>7, <2>1 DEF AdvanceEmpty, GoIdle
  <2>4. FlowOK'
    BY <1>7 DEF AdvanceEmpty, GoIdle
  <2>5. QED
    BY <2>2, <2>3, <2>4
<1>8. ASSUME AdvanceSuppressed(t) PROVE Shapes'
  <2>1. AllEntries' = AllEntries
    BY <1>8 DEF AdvanceSuppressed, AllEntries
  <2>2. ShapeOK'
    BY <1>a, <1>8, <2>1 DEF AdvanceSuppressed, ShapeOK
  <2>3. LocalOK'
    BY <1>a, <1>8, <2>1 DEF AdvanceSuppressed
  <2>4. FlowOK'
    BY <1>8 DEF AdvanceSuppressed
  <2>5. QED
    BY <2>2, <2>3, <2>4
<1>9. ASSUME AdvancePop(t) PROVE Shapes'
  <2>1. AllEntries' = AllEntries
    BY <1>9 DEF AdvancePop, AllEntries
  <2>2. queue' \in Seq(AllEntries) /\ Head(queue) \in AllEntries
    BY <1>9, Dequeued, HeadFirst DEF AdvancePop
  <2>3. ShapeOK'
    BY <1>9, <2>1, <2>2 DEF AdvancePop, Dequeue, Mutated, ShapeOK
  <2>4. LocalOK' /\ FlowOK'
    BY <1>a, <1>9, <2>1, <2>2 DEF AdvancePop
  <2>5. QED
    BY <2>3, <2>4
<1>10. ASSUME AdvanceClosed(t) \/ AdvanceFail(t) PROVE Shapes'
  <2>1. AllEntries' = AllEntries /\ held[t] \in AllEntries /\ 1 \in 1..(Len(queue) + 1)
    <3>1. AllEntries' = AllEntries
      BY <1>10 DEF AdvanceClosed, AdvanceFail, AllEntries
    <3>2. held[t] # Nothing
      BY <1>10 DEF AdvanceClosed, AdvanceFail
    <3>3. Len(queue) \in Nat
      BY DEF ShapeOK
    <3>4. QED
      BY <3>1, <3>2, <3>3
  <2>2. PutBack(t) /\ UNCHANGED <<resume, playback, bounds>>
    BY <1>10 DEF AdvanceClosed, AdvanceFail
  <2>3. queue' \in Seq(AllEntries)
    BY <2>1, <2>2, Enqueued DEF PutBack
  <2>4. ShapeOK'
    BY <2>1, <2>2, <2>3 DEF PutBack, Enqueue, Mutated, ShapeOK
  <2>5. CASE spot[t] = 0
    <3>0. Finish(t) /\ UNCHANGED <<asked, interruptions>>
      BY <2>2, <2>5 DEF PutBack
    <3>1. LocalOK'
      BY <1>a, <2>1, <3>0
    <3>2. FlowOK'
      BY <1>10, <2>2, <2>5 DEF PutBack, AdvanceClosed, AdvanceFail
    <3>3. QED
      BY <2>4, <3>1, <3>2
  <2>6. CASE spot[t] # 0
    <3>1. LocalOK'
      BY <2>1, <2>2, <2>6 DEF PutBack
    <3>2. FlowOK'
      BY <1>10, <2>2, <2>6 DEF PutBack, AdvanceClosed, AdvanceFail
    <3>3. QED
      BY <2>4, <3>1, <3>2
  <2>7. QED
    BY <2>5, <2>6
<1>11. ASSUME AdvanceOpen(t) PROVE Shapes'
  <2>1. AllEntries' = AllEntries
    BY <1>11 DEF AdvanceOpen, AllEntries
  <2>2. ShapeOK'
    BY <1>a, <1>11, <2>1 DEF AdvanceOpen, ShapeOK
  <2>3. LocalOK'
    BY <1>a, <1>11, <2>1 DEF AdvanceOpen
  <2>4. FlowOK'
    BY <1>11 DEF AdvanceOpen
  <2>5. QED
    BY <2>2, <2>3, <2>4
<1>12. ASSUME AdvanceClaim(t) PROVE Shapes'
  <2>1. AllEntries' = AllEntries
    BY <1>12 DEF AdvanceClaim, Claim, AllEntries
  <2>2. ShapeOK'
    BY <1>a, <1>12, <2>1 DEF AdvanceClaim, Claim, ShapeOK
  <2>3. LocalOK'
    BY <1>a, <1>12, <2>1 DEF AdvanceClaim, Claim
  <2>4. FlowOK'
    BY <1>12 DEF AdvanceClaim, Claim
  <2>5. QED
    BY <2>2, <2>3, <2>4
<1>13. ASSUME AdvanceDone(t) PROVE Shapes'
  <2>1. AllEntries' = AllEntries
    BY <1>13 DEF AdvanceDone, Publish, Owned, AllEntries
  <2>2. ShapeOK'
    BY <1>a, <1>13, <2>1 DEF AdvanceDone, Publish, Owned, ShapeOK
  <2>3. LocalOK'
    BY <1>a, <1>13, <2>1 DEF AdvanceDone, Publish, Owned
  <2>4. FlowOK'
    BY <1>13 DEF AdvanceDone, Publish, Owned
  <2>5. QED
    BY <2>2, <2>3, <2>4
<1>14. ASSUME AdvanceSkip(t) PROVE Shapes'
  <2>1. AllEntries' = AllEntries
    BY <1>14 DEF AdvanceSkip, AllEntries
  <2>2. ShapeOK'
    BY <1>a, <1>14, <2>1 DEF AdvanceSkip, ShapeOK
  <2>3. LocalOK'
    BY <1>a, <1>14, <2>1 DEF AdvanceSkip
  <2>4. FlowOK'
    BY <1>14 DEF AdvanceSkip
  <2>5. QED
    BY <2>2, <2>3, <2>4
<1>15. QED
  BY <1>1, <1>2, <1>3, <1>4, <1>5, <1>6, <1>7, <1>8, <1>9, <1>10, <1>11, <1>12, <1>13, <1>14 DEF Advance

LEMMA PlayShapes == ASSUME Shapes, CountOK, NEW t \in Threads, Play(t) PROVE Shapes'
<1> USE DEF Shapes, LocalOK, FlowOK, At, Goto, Set, Begin, Finish, Working, Steps, Requests,
            waiting, resume, playback, local, bounds, history
<1>a. /\ Nothing \notin AllEntries /\ asked \in Nat /\ interruptions \in Nat
      /\ \A e \in AllEntries \cup {Nothing} : e.media \in 0..asked
  BY Entries DEF Nothing, ShapeOK
<1>1. ASSUME NEW i \in DOMAIN queue, QueuePlay(t, i) PROVE Shapes'
  <2>1. AllEntries' = AllEntries
    BY <1>1 DEF QueuePlay, AllEntries
  <2>2. queue' \in Seq(AllEntries) /\ queue[i] \in AllEntries /\ i \in Nat /\ i # 0
    <3>1. queue \in Seq(AllEntries) /\ i \in 1..Len(queue) /\ queue' = RemoveAt(queue, i)
      BY <1>1 DEF QueuePlay, ShapeOK
    <3>2. QED
      BY <3>1, Removed
  <2>3. ToSet(queue) \subseteq AllEntries
    BY DEF ToSet, ShapeOK
  <2>4. ShapeOK'
    BY <1>1, <2>1, <2>2 DEF QueuePlay, ShapeOK
  <2>5. LocalOK'
    <3>1. Ordinary(ToSet(queue)) \subseteq [media : Nat, nth : Nat]
      BY <2>3 DEF Ordinary, AllEntries, ShapeOK
    <3>2. QED
      BY <1>a, <1>1, <2>1, <2>2, <3>1 DEF QueuePlay
  <2>6. FlowOK'
    BY <1>a, <1>1, <2>2 DEF QueuePlay
  <2>7. QED
    BY <2>4, <2>5, <2>6
<1>2. ASSUME PlayNow(t) PROVE Shapes'
  <2>1. asked' = asked + 1 /\ interruptions' = interruptions /\ AllEntries \subseteq AllEntries'
        /\ Seq(AllEntries) \subseteq Seq(AllEntries')
    BY <1>2, More DEF PlayNow, ShapeOK
  <2>2. Entry(asked + 1) \in AllEntries'
    BY <2>1 DEF AllEntries, Entry, ShapeOK
  <2>3. ShapeOK'
    BY <1>2, <2>1 DEF PlayNow, ShapeOK
  <2>4. LocalOK'
    <3>1. asked \in Nat
      BY DEF ShapeOK
    <3>2. QED
      BY <1>2, <2>1, <2>2, <3>1 DEF PlayNow
  <2>5. FlowOK'
    BY <1>2 DEF PlayNow
  <2>6. QED
    BY <2>3, <2>4, <2>5
<1>3. ASSUME PreserveNothing(t) PROVE Shapes'
  <2>1. AllEntries' = AllEntries
    BY <1>3 DEF PreserveNothing, AllEntries
  <2>2. ShapeOK'
    BY <1>a, <1>3, <2>1 DEF PreserveNothing, ShapeOK
  <2>3. LocalOK'
    BY <1>a, <1>3, <2>1 DEF PreserveNothing
  <2>4. FlowOK'
    BY <1>3 DEF PreserveNothing
  <2>5. QED
    BY <2>2, <2>3, <2>4
<1>4. ASSUME PreserveShared(t) PROVE Shapes'
  <2>1. AllEntries' = AllEntries
    BY <1>4 DEF PreserveShared, AllEntries
  <2>2. Head(queue).nth \in 0..interruptions /\ Head(queue).nth \in Interruptions
    BY <1>4, HeadResumes DEF PreserveShared
  <2>a. claims' \in [Interruptions -> Nat]
    <3>1. \/ UNCHANGED claims
          \/ claims' = [claims EXCEPT ![Head(queue).nth] = @ + 1]
      BY <1>4 DEF PreserveShared, Share
    <3>2. claims \in [Interruptions -> Nat]
      BY DEF ShapeOK
    <3>3. QED
      BY <2>2, <3>1, <3>2
  <2>3. ShapeOK'
    BY <1>4, <2>1, <2>a DEF PreserveShared, ShapeOK
  <2>4. LocalOK' /\ FlowOK'
    BY <1>4, <2>1, <2>2 DEF PreserveShared, Share
  <2>5. QED
    BY <2>3, <2>4
<1>5. ASSUME PreserveCapture(t) PROVE Shapes'
  <2>1. AllEntries' = AllEntries
    BY <1>5 DEF PreserveCapture, AllEntries
  <2>2. ShapeOK'
    BY <1>a, <1>5, <2>1 DEF PreserveCapture, ShapeOK
  <2>3. LocalOK'
    BY <1>a, <1>5, <2>1 DEF PreserveCapture, ShapeOK
  <2>4. FlowOK'
    BY <1>5 DEF PreserveCapture
  <2>5. QED
    BY <2>2, <2>3, <2>4
<1>6. ASSUME Preserve(t) PROVE Shapes'
  <2>1. asked' = asked /\ interruptions' \in {interruptions, interruptions + 1}
        /\ AllEntries \subseteq AllEntries' /\ Seq(AllEntries) \subseteq Seq(AllEntries')
    <3>1. asked' = asked /\ interruptions' \in {interruptions, interruptions + 1}
      BY <1>6 DEF Preserve
    <3>2. QED
      BY SMTT(30), <3>1, More DEF ShapeOK
  <2>2. CASE HeadIsResume
    <3>1. Head(queue).nth \in 0..interruptions /\ Head(queue).nth \in Interruptions
      BY <2>2, HeadResumes
    <3>a. claims' \in [Interruptions -> Nat]
      <4>1. \/ UNCHANGED claims
            \/ claims' = [claims EXCEPT ![Head(queue).nth] = @ + 1]
        BY <1>6, <2>2 DEF Preserve, Share
      <4>2. claims \in [Interruptions -> Nat]
        BY DEF ShapeOK
      <4>3. QED
        BY <3>1, <4>1, <4>2
    <3>2. AllEntries' = AllEntries
      BY <1>6, <2>2 DEF Preserve, AllEntries
    <3>3. ShapeOK'
      BY <1>6, <2>2, <3>2, <3>a DEF Preserve, Share, ShapeOK
    <3>4. LocalOK' /\ FlowOK'
      BY <1>6, <2>2, <3>1, <3>2 DEF Preserve, Share
    <3>5. QED
      BY <3>3, <3>4
  <2>3. CASE ~HeadIsResume
    <3> DEFINE e == [media |-> prior[t], nth |-> interruptions + 1]
    <3>1. /\ interruptions' = interruptions + 1 /\ Enqueue(t, 1, e) /\ 1 \in 1..(Len(queue) + 1)
      BY <1>6, <2>3 DEF Preserve, ShapeOK
    <3>2. e \in AllEntries'
      BY <1>6, <2>1, <3>1 DEF Preserve, AllEntries, ShapeOK
    <3>3. queue' \in Seq(AllEntries')
      BY <2>1, <3>1, <3>2, Enqueued
    <3> HIDE DEF e
    <3>4. ShapeOK'
      <4>1. interruptions + 1 \in Interruptions /\ claims' = [claims EXCEPT ![interruptions + 1] = 1]
        BY <1>6, <2>3, Counted DEF Preserve, Interruptions, ShapeOK, Interrupting
      <4>2. claims' \in [Interruptions -> Nat]
        BY <4>1 DEF ShapeOK
      <4>3. QED
        BY <1>6, <2>1, <3>1, <3>3, <4>2 DEF Preserve, Enqueue, Mutated, ShapeOK
    <3>5. interruptions \in Nat /\ kept' = [kept EXCEPT ![t] = interruptions + 1]
      BY <1>6, <2>3 DEF Preserve, ShapeOK
    <3>6. LocalOK'
      BY <1>6, <2>1, <3>1, <3>5 DEF Preserve
    <3>7. FlowOK'
      BY <1>6, <3>5 DEF Preserve
    <3>8. QED
      BY <3>4, <3>6, <3>7
  <2>4. QED
    BY <2>2, <2>3
<1>7. ASSUME PlayClaim(t) PROVE Shapes'
  <2>1. AllEntries' = AllEntries
    BY <1>7 DEF PlayClaim, Claim, AllEntries
  <2>2. ShapeOK'
    BY <1>a, <1>7, <2>1 DEF PlayClaim, Claim, ShapeOK
  <2>3. LocalOK'
    BY <1>a, <1>7, <2>1 DEF PlayClaim, Claim
  <2>4. FlowOK'
    BY <1>7 DEF PlayClaim, Claim
  <2>5. QED
    BY <2>2, <2>3, <2>4
<1>8. ASSUME PlayStarts(t) PROVE Shapes'
  <2>1. AllEntries' = AllEntries
    BY <1>8 DEF PlayStarts, Publish, Owned, AllEntries
  <2>2. ShapeOK'
    BY <1>a, <1>8, <2>1 DEF PlayStarts, Publish, Owned, ShapeOK
  <2>3. LocalOK'
    BY <1>a, <1>8, <2>1 DEF PlayStarts, Publish, Owned
  <2>4. FlowOK'
    BY <1>8 DEF PlayStarts, Publish, Owned
  <2>5. QED
    BY <2>2, <2>3, <2>4
<1>9. ASSUME PlayFails(t) PROVE Shapes'
  <2>1. AllEntries' = AllEntries
    BY <1>9 DEF PlayFails, AllEntries
  <2>2. ShapeOK'
    BY <1>a, <1>9, <2>1 DEF PlayFails, ShapeOK
  <2>3. LocalOK'
    BY <1>a, <1>9, <2>1 DEF PlayFails
  <2>4. FlowOK'
    BY <1>9 DEF PlayFails
  <2>5. QED
    BY <2>2, <2>3, <2>4
<1>10. ASSUME PlayOvertaken(t) PROVE Shapes'
  <2>1. AllEntries' = AllEntries
    BY <1>10 DEF PlayOvertaken, AllEntries
  <2>2. ShapeOK'
    BY <1>a, <1>10, <2>1 DEF PlayOvertaken, ShapeOK
  <2>3. LocalOK'
    BY <1>a, <1>10, <2>1 DEF PlayOvertaken
  <2>4. FlowOK'
    BY <1>10 DEF PlayOvertaken
  <2>5. QED
    BY <2>2, <2>3, <2>4
<1>11. ASSUME PlayPostLive(t) PROVE Shapes'
  <2>1. AllEntries' = AllEntries
    BY <1>11 DEF PlayPostLive, AllEntries
  <2>2. ShapeOK'
    BY <1>a, <1>11, <2>1 DEF PlayPostLive, ShapeOK
  <2>3. LocalOK'
    BY <1>a, <1>11, <2>1 DEF PlayPostLive
  <2>4. FlowOK'
    BY <1>11 DEF PlayPostLive
  <2>5. QED
    BY <2>2, <2>3, <2>4
<1>12. ASSUME Settle(t) PROVE Shapes'
  <2>1. AllEntries' = AllEntries
    BY <1>12 DEF Settle, AllEntries
  <2>2. queue' \in Seq(AllEntries) /\ clean' \subseteq Threads /\ touched' \subseteq Threads
    <3>1. CASE Redundant(t)
      <4>1. 1 \in DOMAIN queue /\ Dequeue(t, 1)
        BY <1>12, <3>1, HeadFirst DEF Settle, Redundant, HeadIsResume
      <4>2. QED
        BY <4>1, Dequeued DEF Dequeue, Mutated, ShapeOK
    <3>2. CASE ~Redundant(t)
      BY <1>12, <3>2 DEF Settle, ShapeOK
    <3>3. QED
      BY <3>1, <3>2
  <2>3. claims' \in [Interruptions -> Nat]
    <3>1. \A m \in Interruptions : claims[m] \in Nat /\ m # 0
      BY DEF ShapeOK, Interruptions
    <3>2. QED
      BY <1>12, <3>1 DEF Settle
  <2>4. ShapeOK'
    BY <1>12, <2>1, <2>2, <2>3 DEF Settle, ShapeOK
  <2>5. LocalOK'
    BY <1>a, <1>12, <2>1 DEF Settle
  <2>6. FlowOK'
    BY <1>12 DEF Settle
  <2>7. QED
    BY <2>4, <2>5, <2>6
<1>13. ASSUME Rollback(t) PROVE Shapes'
  <2>1. AllEntries' = AllEntries
    BY <1>13 DEF Rollback, AllEntries
  <2>2. queue' \in Seq(AllEntries) /\ clean' \subseteq Threads /\ touched' \subseteq Threads
    <3>1. CASE queue # <<>> /\ Dequeue(t, 1)
      <4>1. 1 \in DOMAIN queue /\ Dequeue(t, 1)
        BY <3>1, HeadFirst
      <4>2. QED
        BY <4>1, Dequeued DEF Dequeue, Mutated, ShapeOK
    <3>2. CASE UNCHANGED waiting
      BY <3>2 DEF ShapeOK
    <3>3. QED
      BY <1>13, <3>1, <3>2 DEF Rollback, HeadIsResume
  <2>3. claims' \in [Interruptions -> Nat]
    BY <1>13 DEF Rollback, ShapeOK
  <2>4. ShapeOK'
    BY <1>13, <2>1, <2>2, <2>3 DEF Rollback, ShapeOK
  <2>5. LocalOK'
    BY SMTT(30), <1>a, <1>13, <2>1 DEF Rollback
  <2>6. FlowOK'
    BY <1>13 DEF Rollback
  <2>7. QED
    BY <2>4, <2>5, <2>6
<1>14. ASSUME Restore(t) PROVE Shapes'
  <2>1. AllEntries' = AllEntries /\ item[t] \in AllEntries
    BY <1>14 DEF Restore, AllEntries
  <2>2. queue' \in Seq(AllEntries) /\ clean' \subseteq Threads /\ touched' \subseteq Threads
    <3>1. CASE t \in clean
      <4> DEFINE i == IF spot[t] <= Len(queue) THEN spot[t] ELSE Len(queue) + 1
      <4>1. i \in 1..(Len(queue) + 1) /\ Enqueue(t, i, item[t])
        BY <1>14, <3>1 DEF Restore, ShapeOK
      <4> HIDE DEF i
      <4>2. QED
        BY <2>1, <4>1, Enqueued DEF Enqueue, Mutated, ShapeOK
    <3>2. CASE t \notin clean
      BY <1>14, <3>2 DEF Restore, ShapeOK
    <3>3. QED
      BY <3>1, <3>2
  <2>3. ShapeOK'
    BY <1>14, <2>1, <2>2 DEF Restore, ShapeOK
  <2>4. LocalOK'
    BY <1>a, <1>14, <2>1 DEF Restore
  <2>5. FlowOK'
    BY <1>14 DEF Restore
  <2>6. QED
    BY <2>3, <2>4, <2>5
<1>15. QED
  BY <1>1, <1>2, <1>3, <1>4, <1>5, <1>6, <1>7, <1>8, <1>9, <1>10, <1>11, <1>12, <1>13, <1>14 DEF Play

LEMMA CloseShapes == ASSUME Shapes, CountOK, NEW t \in Threads, Close(t) PROVE Shapes'
<1> USE DEF Shapes, LocalOK, FlowOK, At, Goto, Set, Begin, Finish, Working, Steps, Requests,
            waiting, resume, playback, local, bounds, history
<1>a. /\ Nothing \notin AllEntries /\ asked \in Nat /\ interruptions \in Nat
      /\ \A e \in AllEntries \cup {Nothing} : e.media \in 0..asked
  BY Entries DEF Nothing, ShapeOK
<1>1. ASSUME CloseRetire(t) PROVE Shapes'
  <2>1. AllEntries' = AllEntries
    BY <1>1 DEF CloseRetire, AllEntries
  <2>2. ShapeOK'
    BY <1>a, <1>1, <2>1 DEF CloseRetire, ShapeOK
  <2>3. LocalOK'
    BY <1>a, <1>1, <2>1 DEF CloseRetire
  <2>4. FlowOK'
    BY <1>1 DEF CloseRetire
  <2>5. QED
    BY <2>2, <2>3, <2>4
<1>2. ASSUME CloseWrite(t) PROVE Shapes'
  <2>1. AllEntries' = AllEntries
    BY <1>2 DEF CloseWrite, AllEntries
  <2>2. ShapeOK'
    BY <1>a, <1>2, <2>1 DEF CloseWrite, ShapeOK
  <2>3. LocalOK'
    BY <1>a, <1>2, <2>1 DEF CloseWrite
  <2>4. FlowOK'
    BY <1>2 DEF CloseWrite
  <2>5. QED
    BY <2>2, <2>3, <2>4
<1>3. ASSUME CloseTeardown(t) PROVE Shapes'
  <2>1. AllEntries' = AllEntries
    BY <1>3 DEF CloseTeardown, AllEntries
  <2>2. ShapeOK'
    BY <1>a, <1>3, <2>1 DEF CloseTeardown, ShapeOK
  <2>3. LocalOK'
    BY <1>a, <1>3, <2>1 DEF CloseTeardown
  <2>4. FlowOK'
    BY <1>3 DEF CloseTeardown
  <2>5. QED
    BY <2>2, <2>3, <2>4
<1>4. QED
  BY <1>1, <1>2, <1>3 DEF Close

LEMMA OtherShapes == ASSUME Shapes, Edit \/ MediaEnds \/ NaturalEnd PROVE Shapes'
<1> USE DEF Shapes
<1>1. ASSUME UNCHANGED <<pc, local, interruptions, asked>> PROVE LocalOK' /\ FlowOK'
  BY <1>1 DEF LocalOK, FlowOK, local, AllEntries
<1>2. CASE Clear
  <2>1. AllEntries' = AllEntries /\ queue' \in Seq(AllEntries)
    BY <1>2 DEF Clear, AllEntries, resume
  <2>2. ShapeOK'
    BY <1>2, <2>1 DEF Clear, Mutated, ShapeOK, resume, playback
  <2>3. QED
    BY <1>1, <1>2, <2>2 DEF Clear, resume
<1>3. ASSUME NEW i \in {1, Len(queue) + 1}, AddAt(i) PROVE Shapes'
  <2>1. asked' = asked + 1 /\ interruptions' = interruptions /\ AllEntries \subseteq AllEntries'
        /\ Seq(AllEntries) \subseteq Seq(AllEntries')
    BY <1>3, More DEF AddAt, ShapeOK, resume
  <2>2. Entry(asked + 1) \in AllEntries'
    BY <2>1 DEF AllEntries, Entry, ShapeOK
  <2>3. i \in 1..(Len(queue) + 1)
    BY DEF ShapeOK
  <2>4. queue' \in Seq(AllEntries')
    BY <1>3, <2>1, <2>2, <2>3, Enqueued DEF AddAt
  <2>5. ShapeOK'
    BY <1>3, <2>1, <2>4 DEF AddAt, Enqueue, Mutated, ShapeOK, resume, playback
  <2>6. LocalOK'
    <3>1. asked \in Nat
      BY DEF ShapeOK
    <3>2. QED
      BY <1>3, <2>1, <3>1 DEF AddAt, LocalOK, local
  <2>7. FlowOK'
    BY <1>3 DEF AddAt, FlowOK, local
  <2>8. QED
    BY <2>5, <2>6, <2>7
<1>4. ASSUME NEW i \in DOMAIN queue, RemoveOne(i) PROVE Shapes'
  <2>1. AllEntries' = AllEntries
    BY <1>4 DEF RemoveOne, AllEntries, resume
  <2>2. queue' \in Seq(AllEntries)
    BY <1>4, Dequeued DEF RemoveOne
  <2>3. ShapeOK'
    BY <1>4, <2>1, <2>2 DEF RemoveOne, Dequeue, Mutated, ShapeOK, resume, playback
  <2>4. QED
    BY <1>1, <1>4, <2>3 DEF RemoveOne, resume
<1>5. CASE MediaEnds
  <2>1. AllEntries' = AllEntries
    BY <1>5 DEF MediaEnds, AllEntries, resume, bounds
  <2>2. QED
    BY <1>1, <1>5, <2>1 DEF MediaEnds, ShapeOK, waiting, resume, bounds
<1>6. CASE NaturalEnd
  <2>1. AllEntries' = AllEntries
    BY <1>6 DEF NaturalEnd, AllEntries, resume, bounds
  <2>2. QED
    BY <1>1, <1>6, <2>1 DEF NaturalEnd, GoIdle, ShapeOK, waiting, resume, bounds
<1>7. QED
  BY <1>2, <1>3, <1>4, <1>5, <1>6 DEF Edit

-----------------------------------------------------------------------------
(* The number of interruptions *)

LEMMA CountKept ==
  ASSUME ShapeOK, CountOK, NEW t \in Threads, interruptions' = interruptions,
         \/ starts' = starts /\ Interrupting' \subseteq Interrupting
         \/ starts' = starts + 1 /\ starts < MaxStarts
            /\ Interrupting' \subseteq Interrupting \cup {t}
  PROVE  CountOK'
<1>1. /\ IsFiniteSet(Interrupting) /\ MaxStarts \in Nat /\ starts \in Nat
      /\ Cardinality(Interrupting) \in Nat
  BY Counted, FS_CardinalityType
<1>2. /\ IsFiniteSet(Interrupting \cup {t})
      /\ Cardinality(Interrupting \cup {t}) \in Nat
      /\ Cardinality(Interrupting \cup {t}) <= Cardinality(Interrupting) + 1
  <2>1. /\ IsFiniteSet(Interrupting \cup {t})
        /\ Cardinality(Interrupting \cup {t}) =
             IF t \in Interrupting THEN Cardinality(Interrupting) ELSE Cardinality(Interrupting) + 1
    BY <1>1, FS_AddElement
  <2>2. QED
    BY <1>1, <2>1
<1>3. CASE starts' = starts /\ Interrupting' \subseteq Interrupting
  <2>1. Cardinality(Interrupting') <= Cardinality(Interrupting) /\ Cardinality(Interrupting') \in Nat
    BY <1>1, <1>3, FS_Subset, FS_CardinalityType
  <2>2. QED
    BY <1>1, <1>3, <2>1 DEF CountOK, ShapeOK
<1>4. CASE starts' = starts + 1 /\ starts < MaxStarts
           /\ Interrupting' \subseteq Interrupting \cup {t}
  <2>1. /\ Cardinality(Interrupting') <= Cardinality(Interrupting \cup {t})
        /\ Cardinality(Interrupting') \in Nat
    BY <1>2, <1>4, FS_Subset, FS_CardinalityType
  <2>2. QED
    BY <1>1, <1>2, <1>4, <2>1 DEF CountOK, ShapeOK
<1>5. QED
  BY <1>3, <1>4

LEMMA CountSpent ==
  ASSUME ShapeOK, CountOK, NEW t \in Interrupting, Interrupting' \subseteq Interrupting \ {t},
         interruptions' \in {interruptions, interruptions + 1}, starts' = starts
  PROVE  CountOK'
<1>1. /\ IsFiniteSet(Interrupting) /\ MaxStarts \in Nat /\ starts \in Nat
      /\ Cardinality(Interrupting) \in Nat
  BY Counted, FS_CardinalityType
<1>2. /\ IsFiniteSet(Interrupting \ {t})
      /\ Cardinality(Interrupting \ {t}) = Cardinality(Interrupting) - 1
  BY <1>1, FS_RemoveElement
<1>3. /\ Cardinality(Interrupting') <= Cardinality(Interrupting \ {t})
      /\ Cardinality(Interrupting') \in Nat
  BY <1>2, FS_Subset, FS_CardinalityType
<1>4. QED
  BY <1>1, <1>2, <1>3 DEF CountOK, ShapeOK

LEMMA CountInv == ASSUME Shapes, CountOK, Next PROVE CountOK'
<1> USE DEF Shapes
<1>0. pc \in [Threads -> Steps]
  BY DEF LocalOK
<1>1. ASSUME NEW t \in Threads, Advance(t) \/ Play(t) \/ Close(t), ~Preserve(t) PROVE CountOK'
  <2>1. \/ interruptions' = interruptions /\ starts' = starts /\ Interrupting' \subseteq Interrupting
        \/ interruptions' = interruptions /\ starts' = starts + 1 /\ starts < MaxStarts
           /\ Interrupting' \subseteq Interrupting \cup {t}
    <3> USE <1>0 DEF Begin, Finish, At, Goto, Set, resume, bounds, Interrupting
    <3>1. CASE Advance(t)
      BY <3>1
         DEF Advance, AutoNext, SkipToNext, AdvanceEnter, SeamlessPop, TrackerPop,
             SeamlessPublish, AdvanceEmpty, AdvanceSuppressed, AdvancePop, AdvanceClosed,
             AdvanceOpen, AdvanceClaim, AdvanceDone, AdvanceSkip, AdvanceFail, PutBack, Claim
    <3>2. CASE Play(t)
      BY <1>1, <3>2
         DEF Play, QueuePlay, PlayNow, PreserveNothing, PreserveShared, PreserveCapture,
             PlayClaim, PlayStarts, PlayFails, PlayOvertaken, PlayPostLive, Settle, Rollback,
             Restore, Claim
    <3>3. CASE Close(t)
      BY <3>3 DEF Close, CloseRetire, CloseWrite, CloseTeardown
    <3>4. QED
      BY <1>1, <3>1, <3>2, <3>3
  <2>2. QED
    BY <2>1, CountKept
<1>2. ASSUME NEW t \in Threads, Preserve(t) PROVE CountOK'
  <2>1. /\ t \in Interrupting /\ Interrupting' \subseteq Interrupting \ {t}
        /\ interruptions' \in {interruptions, interruptions + 1} /\ starts' = starts
    BY <1>0, <1>2 DEF Preserve, At, Goto, Interrupting, bounds
  <2>2. QED
    BY <2>1, CountSpent
<1>3. ASSUME Edit \/ MediaEnds \/ NaturalEnd PROVE CountOK'
  BY <1>3 DEF CountOK, Interrupting, Edit, Clear, AddAt, RemoveOne, MediaEnds, NaturalEnd, resume,
              bounds
<1>4. QED
  BY <1>1, <1>2, <1>3 DEF Next

-----------------------------------------------------------------------------
(* What follows from where the entries go *)

\* Entries stay with their holders or leave them, but for one, e, which may come to
\* the queue or to the thread t, from where it was or as a new one.
LEMMA PlacesKept ==
  ASSUME PlacesOK, IsInjective(queue'), NEW t, NEW e,
         \A x : x \in Queued' => x \in Queued \/ x = e,
         \A u \in Threads : \A x : x \in Out(u)' => x \in Out(u) \/ (u = t /\ x = e),
         e \in Queued' => \A u \in Threads : e \notin Out(u)',
         t \in Threads /\ e \in Out(t)' => \A u \in Threads : u # t => e \notin Out(u)',
         \A u \in Threads : spot'[u] # 0 /\ held'[u] # Nothing => item'[u] # held'[u],
         e \in Placed \/ e.nth = 0 \/ \A f \in Placed : f.nth # e.nth
  PROVE  PlacesOK'
<1>1. ASSUME NEW u \in Threads PROVE (Out(u) \cap Queued)' = {}
  BY DEF PlacesOK
<1>2. ASSUME NEW u \in Threads, NEW v \in Threads, u # v PROVE (Out(u) \cap Out(v))' = {}
  BY <1>2 DEF PlacesOK
<1>3. \A x : x \in Placed' => x \in Placed \/ x = e
  BY DEF Placed
<1>4. ASSUME NEW x \in Placed', NEW y \in Placed', x.nth # 0, x.nth = y.nth PROVE x = y
  BY <1>3, <1>4 DEF PlacesOK
<1>5. QED
  BY <1>1, <1>2, <1>4 DEF PlacesOK

\* The claims stay right while nobody joins or settles, if what a play counts on is
\* only spent, or returns to the queue.
LEMMA ClaimsKept ==
  ASSUME ClaimsOK, UNCHANGED <<claims, committed, accepted, interruptions>>,
         \A u \in Threads : Holding(u)' = Holding(u),
         \A x : x \in Placed' => x \in Placed \/ x.nth = 0,
         \A n : n \notin gone' /\ n # 0 /\ (n \in gone \/ \E x \in Queued : x.nth = n)
                  => \E x \in Queued' : x.nth = n
  PROVE  ClaimsOK'
<1>1. \A n : Holders(n)' = Holders(n)
  BY DEF Holders
<1>2. \A n \in Interruptions : claims'[n] <= Cardinality(Holders(n)')
  BY <1>1 DEF ClaimsOK
<1>3. ASSUME NEW x \in Placed', x.nth # 0
      PROVE  /\ claims'[x.nth] = Cardinality(Holders(x.nth)')
             /\ x.nth \in accepted' => Holders(x.nth)' = {} \/ x.nth \in committed'
  <2>1. x \in Placed
    BY <1>3
  <2>2. QED
    BY <1>1, <1>3, <2>1 DEF ClaimsOK
<1>4. ASSUME NEW u \in Threads, Holding(u)' \notin gone' \cup {0}
      PROVE  \E x \in Queued' : x.nth = Holding(u)'
  BY <1>4 DEF ClaimsOK
<1>5. InterruptedIsKept'
  <2>1. ASSUME NEW n \in accepted', n \notin gone' PROVE \E x \in Queued' : x.nth = n
    <3>1. n # 0 /\ n \in accepted
      BY DEF ClaimsOK
    <3>2. n \in gone \/ \E x \in Queued : x.nth = n
      BY <3>1 DEF ClaimsOK, InterruptedIsKept, Queued
    <3>3. QED
      BY <2>1, <3>1, <3>2
  <2>2. QED
    BY <2>1 DEF InterruptedIsKept, Queued
<1>6. QED
  BY <1>2, <1>3, <1>4, <1>5 DEF ClaimsOK

Moving == PlacesOK /\ ClaimsOK /\ ClearedOK /\ RestoreOK

\* A step that leaves the queue and the claims alone; an operation may only let go of
\* what it has.
Quiet ==
    /\ UNCHANGED <<queue, clean, touched, claims, committed, interruptions, history>>
    /\ AllEntries \subseteq AllEntries'
    /\ \A u \in Threads :
         /\ Holding(u)' = Holding(u)
         /\ held'[u] \in {held[u], Nothing}
         /\ \/ spot'[u] = 0
            \/ /\ UNCHANGED <<spot[u], item[u], before[u]>>
               /\ op'[u] = "queue_play" => op[u] = "queue_play"

LEMMA QuietInv == ASSUME ShapeOK, Moving, Quiet PROVE Moving'
<1>1. /\ queue' = queue /\ gone' = gone /\ cleared' = cleared /\ accepted' = accepted
      /\ Queued' = Queued
  BY DEF Quiet, history, Queued
<1>2. \A u \in Threads : \A x : x \in Out(u)' => x \in Out(u)
  BY DEF Quiet, Out
<1>3. PlacesOK'
  <2>1. \A u \in Threads : Out(u)' \cap Queued = {}
    BY <1>2 DEF Moving, PlacesOK
  <2>2. Nothing.nth = 0 /\ IsInjective(queue')
    BY <1>1 DEF Moving, PlacesOK, Nothing
  <2>3. \A u, v \in Threads : u # v => Out(u)' \cap Out(v)' = {}
    BY <1>2 DEF Moving, PlacesOK
  <2>4. \A x : x \in Placed' => x \in Placed
    BY <1>1, <1>2 DEF Placed
  <2>5. \A x, y \in Placed' : x.nth # 0 /\ x.nth = y.nth => x = y
    BY <2>4 DEF Moving, PlacesOK
  <2>6. \A u \in Threads : spot'[u] # 0 /\ held'[u] # Nothing => item'[u] # held'[u]
    BY DEF Moving, PlacesOK, Quiet
  <2>7. QED
    BY <1>1, <2>1, <2>2, <2>3, <2>5, <2>6 DEF PlacesOK
<1>4. ClaimsOK'
  <2>1. \A x : x \in Placed' => x \in Placed
    BY <1>1, <1>2 DEF Placed
  <2>2. \A n : n \notin gone' /\ n # 0 /\ (n \in gone \/ \E x \in Queued : x.nth = n)
                 => \E x \in Queued' : x.nth = n
    BY <1>1
  <2>3. UNCHANGED <<claims, committed, accepted, interruptions>>
        /\ \A u \in Threads : Holding(u)' = Holding(u)
    BY DEF Quiet, history
  <2>4. ClaimsOK
    BY DEF Moving
  <2>5. QED
    BY <2>1, <2>2, <2>3, <2>4, ClaimsKept
<1>5. ClearedOK'
  <2>1. Nothing \notin cleared
    BY Entries DEF Moving, ClearedOK
  <2>2. ClearWins' /\ cleared' \subseteq AllEntries'
    BY <1>1 DEF Moving, ClearedOK, ClearWins, Quiet
  <2>3. ASSUME NEW u \in Threads
        PROVE  /\ spot'[u] # 0 /\ item'[u] \in cleared' => u \notin clean'
               /\ held'[u] \notin cleared'
    BY <1>1, <2>1 DEF Moving, ClearedOK, Quiet
  <2>4. QED
    BY <2>2, <2>3 DEF ClearedOK
<1>6. RestoreOK'
  <2>1. ASSUME NEW u \in Threads, spot'[u] # 0, u \notin touched'
        PROVE  /\ u \in clean'
               /\ op'[u] = "queue_play" => Ordinary(Queued' \cup {item'[u]}) = before'[u]
    BY <1>1, <2>1 DEF Moving, RestoreOK, Quiet, Ordinary
  <2>2. QED
    BY <2>1 DEF RestoreOK, Ordinary
<1>7. QED
  BY <1>3, <1>4, <1>5, <1>6 DEF Moving

LEMMA QuietSteps ==
  ASSUME Shapes, NEW t \in Threads,
         \/ AutoNext(t) \/ SkipToNext(t) \/ AdvanceEnter(t) \/ SeamlessPublish(t)
         \/ AdvanceEmpty(t) \/ AdvanceSuppressed(t) \/ AdvanceOpen(t) \/ AdvanceClaim(t)
         \/ AdvanceDone(t) \/ AdvanceSkip(t) \/ PlayNow(t) \/ PreserveNothing(t)
         \/ PreserveCapture(t) \/ PlayClaim(t) \/ PlayStarts(t) \/ PlayFails(t)
         \/ PlayOvertaken(t) \/ PlayPostLive(t) \/ Close(t)
  PROVE  Quiet
<1> USE DEF Shapes, LocalOK, FlowOK, Begin, Finish, At, Goto, Set, Working, Holding,
            waiting, resume, bounds, history, local
<1>1. CASE PlayNow(t)
  <2>1. AllEntries \subseteq AllEntries'
    BY <1>1, More DEF PlayNow, ShapeOK
  <2>2. QED
    BY <1>1, <2>1 DEF PlayNow, Quiet
<1>2. CASE ~PlayNow(t)
  <2>1. AllEntries \subseteq AllEntries'
    BY <1>2 DEF AllEntries, AutoNext, SkipToNext, AdvanceEnter, SeamlessPublish, AdvanceEmpty, AdvanceSuppressed,
         AdvanceOpen, AdvanceClaim, AdvanceDone, AdvanceSkip, PreserveNothing, PreserveCapture,
         PlayClaim, PlayStarts, PlayFails, PlayOvertaken, PlayPostLive, Close, CloseRetire, CloseWrite,
         CloseTeardown, Claim
  <2>2. CASE AutoNext(t) \/ SkipToNext(t)
    BY <2>1, <2>2 DEF AutoNext, SkipToNext, Quiet
  <2>3. CASE AdvanceEnter(t)
    BY <2>1, <2>3 DEF AdvanceEnter, Quiet
  <2>4. CASE SeamlessPublish(t) \/ AdvanceEmpty(t) \/ AdvanceSuppressed(t)
    BY <2>1, <2>4 DEF SeamlessPublish, AdvanceEmpty, AdvanceSuppressed, Quiet
  <2>5. CASE AdvanceOpen(t) \/ AdvanceClaim(t) \/ AdvanceSkip(t)
    BY <2>1, <2>5 DEF AdvanceOpen, AdvanceClaim, AdvanceSkip, Claim, Quiet
  <2>6. CASE AdvanceDone(t)
    BY <2>1, <2>6 DEF AdvanceDone, Quiet
  <2>7. CASE PreserveNothing(t) \/ PreserveCapture(t)
    BY <2>1, <2>7 DEF PreserveNothing, PreserveCapture, Quiet
  <2>8. CASE PlayClaim(t) \/ PlayStarts(t) \/ PlayFails(t)
    BY <2>1, <2>8 DEF PlayClaim, PlayStarts, PlayFails, Claim, Quiet
  <2>9. CASE PlayOvertaken(t) \/ PlayPostLive(t)
    BY <2>1, <2>9 DEF PlayOvertaken, PlayPostLive, Quiet
  <2>10. CASE Close(t)
    BY <2>1, <2>10 DEF Close, CloseRetire, CloseWrite, CloseTeardown, Quiet
  <2>11. QED
    BY <1>2, <2>2, <2>3, <2>4, <2>5, <2>6, <2>7, <2>8, <2>9, <2>10
<1>3. QED
  BY <1>1, <1>2

-----------------------------------------------------------------------------
(* Entries that leave the queue, and entries that come back *)

\* The i-th entry leaves, for the hands of t or for good.
LEMMA TakenOut ==
  ASSUME ShapeOK, PlacesOK, ClaimsOK, NEW t, NEW i \in DOMAIN queue,
         queue' = RemoveAt(queue, i), Lost({queue[i]}),
         UNCHANGED <<claims, committed, accepted, interruptions>>,
         \A u \in Threads : Holding(u)' = Holding(u),
         \A u \in Threads : \A x : x \in Out(u)' => x \in Out(u) \/ (u = t /\ x = queue[i]),
         \A u \in Threads : spot'[u] # 0 /\ held'[u] # Nothing => item'[u] # held'[u]
  PROVE  PlacesOK' /\ ClaimsOK'
<1> DEFINE e == queue[i]
<1>1. /\ e \in AllEntries /\ e \in Queued
      /\ \A x : x \in Queued' => x \in Queued
      /\ \A x : x \in Queued /\ x # e => x \in Queued'
      /\ IsInjective(queue') /\ e \notin Queued'
  <2>1. queue \in Seq(AllEntries) /\ i \in 1..Len(queue) /\ IsInjective(queue)
    BY DEF ShapeOK, PlacesOK
  <2>2. QED
    BY <2>1, Removed DEF Queued
<1>2. \A n : n \in gone' <=> n \in gone \/ (n = e.nth /\ e.nth # 0)
  BY DEF Lost, IsResume
<1>3. \A u \in Threads : \A x : x \in Out(u)' => x \in Out(u) \/ (u = t /\ x = e)
  OBVIOUS
<1>4. e \in Placed /\ \A u \in Threads : e \notin Out(u)
  BY <1>1 DEF PlacesOK, Placed
<1> HIDE DEF e
<1>5. PlacesOK'
  BY <1>1, <1>3, <1>4, PlacesKept
<1>6. \A x : x \in Placed' => x \in Placed
  BY <1>1, <1>3, <1>4 DEF Placed
<1>7. ASSUME NEW n, n \notin gone', n # 0, n \in gone \/ \E x \in Queued : x.nth = n
      PROVE  \E x \in Queued' : x.nth = n
  BY <1>1, <1>2, <1>7
<1>8. ClaimsOK'
  BY <1>6, <1>7, ClaimsKept
<1>9. QED
  BY <1>5, <1>8

\* What t has comes back.
LEMMA BroughtBack ==
  ASSUME ShapeOK, PlacesOK, ClaimsOK, NEW t \in Threads, NEW e \in Out(t), e \in AllEntries,
         AllEntries' = AllEntries, NEW i \in 1..(Len(queue) + 1), Enqueue(t, i, e), Regained(e),
         UNCHANGED <<claims, committed, accepted, interruptions>>,
         \A u \in Threads : Holding(u)' = Holding(u),
         \A u \in Threads : \A x : x \in Out(u)' => x \in Out(u),
         \A u \in Threads : spot'[u] # 0 /\ held'[u] # Nothing => item'[u] # held'[u],
         e \notin Out(t)'
  PROVE  PlacesOK' /\ ClaimsOK'
<1>1. e \notin Queued /\ e \in Placed /\ IsInjective(queue)
  BY DEF PlacesOK, Placed
<1>2. /\ \A x : x \in Queued' <=> x = e \/ x \in Queued
      /\ IsInjective(queue')
  BY <1>1, Enqueued
<1>3. \A u \in Threads : u # t => e \notin Out(u)
  BY DEF PlacesOK
<1>4. \A u \in Threads : e \notin Out(u)'
  BY <1>3
<1>5. PlacesOK'
  BY <1>1, <1>2, <1>4, PlacesKept
<1>6. \A x : x \in Placed' => x \in Placed
  BY <1>1, <1>2 DEF Placed
<1>7. \A n : n \in gone' <=> n \in gone /\ n # e.nth
  BY DEF Regained
<1>8. ASSUME NEW n, n \notin gone', n # 0, n \in gone \/ \E x \in Queued : x.nth = n
      PROVE  \E x \in Queued' : x.nth = n
  BY <1>2, <1>7, <1>8
<1>9. ClaimsOK'
  BY <1>6, <1>8, ClaimsKept
<1>10. QED
  BY <1>5, <1>9

LEMMA PopSteps ==
  ASSUME Shapes, Moving, NEW t \in Threads, NEW i \in DOMAIN queue,
         SeamlessPop(t, i) \/ TrackerPop(t, i) \/ (AdvancePop(t) /\ i = 1)
  PROVE  Moving'
<1> USE DEF Shapes, Moving
<1>0. /\ pc \in [Threads -> Steps] /\ op \in [Threads -> Requests]
      /\ spot \in [Threads -> Nat] /\ DOMAIN held = Threads /\ DOMAIN item = Threads
      /\ \A u \in Threads : op[u] = "queue_play" => pc[u] \notin {"idle", "prefer", "pop"}
      /\ \A u \in Threads : pc[u] = "idle" => spot[u] = 0
  BY DEF LocalOK, FlowOK, Working
<1>1. /\ pc[t] \in {"prefer", "pop", "idle"}
      /\ held' = [held EXCEPT ![t] = queue[i]]
      /\ Dequeue(t, i) /\ Lost({queue[i]})
      /\ \E step \in {"handover", "popped"} : pc' = [pc EXCEPT ![t] = step]
      /\ \A u \in Threads : u # t => op'[u] = op[u]
      /\ op'[t] \in {op[t], "follow"}
      /\ UNCHANGED <<claims, committed, interruptions, accepted, cleared, item, spot, kept, before,
                     asked>>
  <2>1. CASE SeamlessPop(t, i)
    BY <2>1 DEF SeamlessPop, Consume, At, Goto, Set, resume, bounds
  <2>2. CASE TrackerPop(t, i)
    BY <2>2, <1>0 DEF TrackerPop, Consume, Begin, At, Goto, Set, resume
  <2>3. CASE AdvancePop(t) /\ i = 1
    <3>1. Head(queue) = queue[1]
      BY <2>3, HeadFirst DEF AdvancePop
    <3>2. QED
      BY <2>3, <3>1 DEF AdvancePop, At, Goto, Set, resume, bounds
  <2>4. QED
    BY <2>1, <2>2, <2>3
<1>2. AllEntries' = AllEntries
  BY <1>1 DEF AllEntries
<1>3. \A u \in Threads : Holding(u)' = Holding(u)
  BY <1>0, <1>1 DEF Holding, Working
<1>4. \A u \in Threads : \A x : x \in Out(u)' => x \in Out(u) \/ (u = t /\ x = queue[i])
  BY <1>0, <1>1 DEF Out
<1>5. /\ \A x : x \in Queued' => x \in Queued
      /\ queue[i] \in Queued
  BY <1>1, Dequeued
<1>6. PlacesOK' /\ ClaimsOK'
  <2>1. spot[t] # 0 => item[t] # queue[i]
    BY <1>5 DEF PlacesOK, Out
  <2>2. \A u \in Threads : spot'[u] # 0 /\ held'[u] # Nothing => item'[u] # held'[u]
    BY <1>0, <1>1, <2>1 DEF PlacesOK
  <2>3. QED
    BY <1>1, <1>3, <1>4, <2>2, TakenOut DEF Dequeue
<1>7. ClearedOK'
  <2>1. ClearWins' /\ cleared' \subseteq AllEntries' /\ queue[i] \notin cleared
    BY <1>1, <1>2, <1>5 DEF ClearedOK, ClearWins, Queued
  <2>2. QED
    BY <1>0, <1>1, <2>1 DEF ClearedOK, Dequeue, Mutated
<1>8. RestoreOK'
  BY <1>0, <1>1 DEF RestoreOK, Dequeue, Mutated
<1>9. QED
  BY <1>6, <1>7, <1>8

LEMMA PutBackSteps ==
  ASSUME Shapes, Moving, NEW t \in Threads, AdvanceClosed(t) \/ AdvanceFail(t)
  PROVE  Moving'
<1> USE DEF Shapes, Moving
<1>0. /\ pc \in [Threads -> Steps] /\ op \in [Threads -> Requests]
      /\ spot \in [Threads -> Nat] /\ DOMAIN held = Threads /\ DOMAIN item = Threads
      /\ \A u \in Threads : op[u] = "queue_play" => pc[u] \notin {"popped", "resolve"}
  BY DEF LocalOK, FlowOK, Working
<1>1. /\ pc[t] \in {"popped", "resolve"} /\ PutBack(t)
      /\ UNCHANGED <<claims, committed, interruptions, accepted, cleared, asked>>
  BY DEF AdvanceClosed, AdvanceFail, At, resume, bounds
<1>2. AllEntries' = AllEntries
  BY <1>1 DEF AllEntries
<1>3. held[t] \in AllEntries /\ held[t] # Nothing /\ held[t] \in Out(t)
  BY <1>1 DEF LocalOK, FlowOK, Out
<1>4. /\ held' = [held EXCEPT ![t] = Nothing]
      /\ \E step \in {"idle", "restore"} : pc' = [pc EXCEPT ![t] = step]
      /\ \A u \in Threads : u # t => op'[u] = op[u] /\ spot'[u] = spot[u] /\ item'[u] = item[u]
                                     /\ kept'[u] = kept[u] /\ before'[u] = before[u]
      /\ spot'[t] = 0 \/ UNCHANGED <<op, spot, item, before>>
      /\ Enqueue(t, 1, held[t]) /\ Regained(held[t])
  BY <1>0, <1>1 DEF PutBack, Finish, Goto, Set, LocalOK
<1>5. \A u \in Threads : Holding(u)' = Holding(u)
  BY <1>0, <1>1, <1>4 DEF Holding, Working
<1>6. \A u \in Threads : \A x : x \in Out(u)' => x \in Out(u)
  BY <1>0, <1>4 DEF Out
<1>7. held[t] \notin Out(t)'
  <2>1. spot[t] # 0 => item[t] # held[t]
    BY <1>3 DEF PlacesOK
  <2>2. QED
    BY <1>0, <1>3, <1>4, <2>1 DEF Out
<1>8. 1 \in 1..(Len(queue) + 1)
  BY DEF ShapeOK
<1>9. PlacesOK' /\ ClaimsOK'
  <2>1. \A u \in Threads : spot'[u] # 0 /\ held'[u] # Nothing => item'[u] # held'[u]
    BY <1>0, <1>4 DEF PlacesOK
  <2>2. QED
    BY <1>1, <1>2, <1>3, <1>4, <1>5, <1>6, <1>7, <1>8, <2>1, BroughtBack
<1>10. \A x : x \in Queued' <=> x = held[t] \/ x \in Queued
  BY <1>2, <1>3, <1>4, <1>8, Enqueued
<1>11. ClearedOK'
  <2>1. ClearWins' /\ cleared' \subseteq AllEntries'
    BY <1>1, <1>2, <1>10 DEF ClearedOK, ClearWins, Queued
  <2>2. Nothing \notin cleared
    BY Entries DEF ClearedOK
  <2>3. QED
    BY <1>0, <1>1, <1>4, <2>1, <2>2 DEF ClearedOK, Enqueue, Mutated
<1>12. RestoreOK'
  BY <1>0, <1>1, <1>4 DEF RestoreOK, Enqueue, Mutated
<1>13. QED
  BY <1>9, <1>11, <1>12

LEMMA QueuePlayStep ==
  ASSUME Shapes, Moving, NEW t \in Threads, NEW i \in DOMAIN queue, QueuePlay(t, i)
  PROVE  Moving'
<1> USE DEF Shapes, Moving
<1>0. /\ pc \in [Threads -> Steps] /\ op \in [Threads -> Requests]
      /\ spot \in [Threads -> Nat] /\ DOMAIN held = Threads /\ DOMAIN item = Threads
      /\ DOMAIN before = Threads
  BY DEF LocalOK
<1>1. /\ pc[t] = "idle" /\ pc' = [pc EXCEPT ![t] = "interrupt"]
      /\ op' = [op EXCEPT ![t] = "queue_play"]
      /\ item' = [item EXCEPT ![t] = queue[i]] /\ spot' = [spot EXCEPT ![t] = i]
      /\ before' = [before EXCEPT ![t] = Ordinary(Queued)]
      /\ queue' = RemoveAt(queue, i) /\ Lost({queue[i]})
      /\ clean' = {t}
      /\ touched' = (touched \cup {u \in Threads : spot[u] # 0}) \ {t}
      /\ UNCHANGED <<claims, committed, interruptions, accepted, cleared, held, kept, asked>>
  BY DEF QueuePlay, Begin, At, Goto, Set, resume, Queued
<1>2. AllEntries' = AllEntries
  BY <1>1 DEF AllEntries
<1>3. \A u \in Threads : Holding(u)' = Holding(u)
  BY <1>0, <1>1 DEF Holding, Working
<1>4. \A u \in Threads : \A x : x \in Out(u)' => x \in Out(u) \/ (u = t /\ x = queue[i])
  BY <1>0, <1>1 DEF Out
<1>5. /\ \A x : x \in Queued' => x \in Queued
      /\ \A x : x \in Queued /\ x # queue[i] => x \in Queued'
      /\ queue[i] \in Queued
  <2>1. queue \in Seq(AllEntries) /\ i \in 1..Len(queue)
    BY DEF ShapeOK
  <2>2. QED
    BY <1>1, <2>1, Removed DEF Queued
<1>6. PlacesOK' /\ ClaimsOK'
  <2>1. held[t] # Nothing => held[t] # queue[i]
    BY <1>5 DEF PlacesOK, Out
  <2>2. \A u \in Threads : spot'[u] # 0 /\ held'[u] # Nothing => item'[u] # held'[u]
    BY <1>0, <1>1, <2>1 DEF PlacesOK
  <2>3. QED
    BY <1>1, <1>3, <1>4, <2>2, TakenOut
<1>7. ClearedOK'
  <2>1. ClearWins' /\ cleared' \subseteq AllEntries' /\ queue[i] \notin cleared
    BY <1>1, <1>2, <1>5 DEF ClearedOK, ClearWins, Queued
  <2>2. QED
    BY <1>0, <1>1, <2>1 DEF ClearedOK
<1>8. RestoreOK'
  <2>1. Ordinary(Queued' \cup {item'[t]}) = Ordinary(Queued)
    <3>1. item'[t] = queue[i]
      BY <1>0, <1>1
    <3>2. \A x : x \in Queued' \cup {item'[t]} <=> x \in Queued
      BY <1>5, <3>1
    <3>3. Queued' \cup {item'[t]} = Queued
      BY <3>2
    <3>4. QED
      BY <3>3
  <2>2. ASSUME NEW u \in Threads, spot'[u] # 0, u \notin touched' PROVE u = t
    BY <1>0, <1>1, <2>2
  <2>3. t \in clean' /\ before'[t] = Ordinary(Queued)
    BY <1>0, <1>1
  <2>4. ASSUME NEW u \in Threads, spot'[u] # 0, u \notin touched'
        PROVE  /\ u \in clean'
               /\ op'[u] = "queue_play" => Ordinary(Queued' \cup {item'[u]}) = before'[u]
    BY <2>1, <2>2, <2>3, <2>4
  <2>5. QED
    BY <2>4 DEF RestoreOK, Ordinary
<1>9. QED
  BY <1>6, <1>7, <1>8

LEMMA RestoreStep ==
  ASSUME Shapes, Moving, NEW t \in Threads, Restore(t)
  PROVE  Moving'
<1> USE DEF Shapes, Moving
<1>0. /\ pc \in [Threads -> Steps] /\ op \in [Threads -> Requests]
      /\ spot \in [Threads -> Nat] /\ DOMAIN held = Threads /\ DOMAIN item = Threads
      /\ spot[t] # 0 /\ item[t] \in AllEntries
  BY DEF LocalOK, FlowOK, Restore, At
<1>1. /\ pc[t] = "restore" /\ pc' = [pc EXCEPT ![t] = "idle"]
      /\ spot' = [spot EXCEPT ![t] = 0] /\ op' = [op EXCEPT ![t] = "idle"]
      /\ held' = [held EXCEPT ![t] = Nothing]
      /\ \A u \in Threads : u # t => UNCHANGED <<item[u], kept[u], before[u]>>
      /\ UNCHANGED <<claims, committed, interruptions, accepted, cleared, asked>>
  BY DEF Restore, Finish, At, Goto, Set, resume, bounds, LocalOK
<1>2. AllEntries' = AllEntries
  BY <1>1 DEF AllEntries
<1>3. CASE t \notin clean
  <2>1. UNCHANGED <<queue, clean, touched, gone>>
    BY <1>3 DEF Restore, waiting
  <2>2. Quiet
    BY <1>0, <1>1, <1>2, <2>1 DEF Quiet, history, Holding, Working
  <2>3. QED
    BY <2>2, QuietInv
<1>4. CASE t \in clean
  <2> DEFINE i == IF spot[t] <= Len(queue) THEN spot[t] ELSE Len(queue) + 1
  <2>1. i \in 1..(Len(queue) + 1) /\ Enqueue(t, i, item[t]) /\ Regained(item[t])
    BY <1>0, <1>4 DEF Restore, ShapeOK
  <2> HIDE DEF i
  <2>2. \A u \in Threads : Holding(u)' = Holding(u)
    BY <1>0, <1>1 DEF Holding, Working
  <2>3. \A u \in Threads : \A x : x \in Out(u)' => x \in Out(u)
    BY <1>0, <1>1 DEF Out
  <2>4. item[t] \in Out(t) /\ item[t] \notin Out(t)'
    BY <1>0, <1>1 DEF Out
  <2>5. PlacesOK' /\ ClaimsOK'
    <3>1. \A u \in Threads : spot'[u] # 0 /\ held'[u] # Nothing => item'[u] # held'[u]
      BY <1>0, <1>1 DEF PlacesOK
    <3>2. QED
      BY <1>0, <1>1, <1>2, <2>1, <2>2, <2>3, <2>4, <3>1, BroughtBack
  <2>6. \A x : x \in Queued' <=> x = item[t] \/ x \in Queued
    BY <1>0, <1>2, <2>1, Enqueued
  <2>7. ClearedOK'
    <3>1. item[t] \notin cleared
      BY <1>0, <1>4 DEF ClearedOK
    <3>2. ClearWins' /\ cleared' \subseteq AllEntries'
      BY <1>1, <1>2, <2>6, <3>1 DEF ClearedOK, ClearWins, Queued
    <3>3. Nothing \notin cleared
      BY Entries DEF ClearedOK
    <3>4. QED
      BY <1>0, <1>1, <2>1, <3>2, <3>3 DEF ClearedOK, Enqueue, Mutated
  <2>8. RestoreOK'
    BY <1>0, <1>1, <2>1 DEF RestoreOK, Enqueue, Mutated
  <2>9. QED
    BY <2>5, <2>7, <2>8
<1>5. QED
  BY <1>3, <1>4

LEMMA EditSteps ==
  ASSUME Shapes, Moving, Edit \/ MediaEnds \/ NaturalEnd
  PROVE  Moving'
<1> USE DEF Shapes, Moving
<1>1. CASE Clear
  <2>1. /\ queue' = <<>> /\ Lost(Queued)
        /\ cleared' = cleared \cup Queued \cup {item[u] : u \in {v \in Threads : spot[v] # 0}}
        /\ Mutated(NoThread)
        /\ UNCHANGED <<claims, committed, interruptions, accepted, pc, op, item, spot, held, kept,
                       before, asked>>
    BY <1>1 DEF Clear, Queued, resume, local
  <2>2. AllEntries' = AllEntries
    BY <2>1 DEF AllEntries
  <2>3. Queued' = {} /\ IsInjective(queue')
    BY <2>1 DEF Queued, ToSet, IsInjective
  <2>4. \A u \in Threads : Out(u)' = Out(u) /\ Holding(u)' = Holding(u)
    BY <2>1 DEF Out, Holding
  <2>5. clean' = {} /\ \A u \in Threads : spot'[u] # 0 => u \in touched'
    BY <2>1, ThreadAssumption DEF Mutated, ShapeOK
  <2>6. PlacesOK'
    <3>1. Nothing.nth = 0
      BY DEF Nothing
    <3>2. \A u \in Threads : spot'[u] # 0 /\ held'[u] # Nothing => item'[u] # held'[u]
      BY <2>1 DEF PlacesOK
    <3>3. \A x : x \in Placed' => x \in Placed
      BY <2>3, <2>4 DEF Placed
    <3>4. QED
      BY <2>3, <2>4, <3>2, <3>3 DEF PlacesOK
  <2>7. ClaimsOK'
    <3>1. \A x : x \in Placed' => x \in Placed
      BY <2>3, <2>4 DEF Placed
    <3>2. \A n : n \in gone' <=> n \in gone \/ (n # 0 /\ \E x \in Queued : x.nth = n)
      BY <2>1 DEF Lost, IsResume
    <3>3. QED
      BY <2>1, <2>4, <3>1, <3>2, ClaimsKept
  <2>8. ClearedOK'
    <3>1. Queued \subseteq AllEntries
      BY DEF ShapeOK, Queued, ToSet
    <3>2. \A u \in Threads : spot[u] # 0 => item[u] \in AllEntries
      BY DEF LocalOK, FlowOK
    <3>3. cleared' \subseteq AllEntries'
      BY <2>1, <2>2, <3>1, <3>2 DEF ClearedOK
    <3>4. ClearWins'
      BY <2>3 DEF ClearWins, Queued
    <3>5. ASSUME NEW u \in Threads PROVE held'[u] \notin cleared'
      <4>1. held[u] \notin cleared
        BY DEF ClearedOK
      <4>2. CASE held[u] = Nothing
        BY <2>1, <3>1, <3>2, <4>1, <4>2, Entries
      <4>3. CASE held[u] # Nothing
        <5>1. held[u] \in Out(u) /\ held[u] \notin Queued
          BY <4>3 DEF Out, PlacesOK
        <5>2. ASSUME NEW v \in Threads, spot[v] # 0 PROVE held[u] # item[v]
          <6>1. item[v] \in Out(v)
            BY <5>2 DEF Out
          <6>2. QED
            BY <4>3, <5>1, <5>2, <6>1 DEF PlacesOK
        <5>3. QED
          BY <2>1, <4>1, <5>1, <5>2
      <4>4. QED
        BY <4>2, <4>3
    <3>6. QED
      BY <2>5, <3>3, <3>4, <3>5 DEF ClearedOK
  <2>9. RestoreOK'
    BY <2>5 DEF RestoreOK
  <2>10. QED
    BY <2>6, <2>7, <2>8, <2>9
<1>2. ASSUME NEW i \in {1, Len(queue) + 1}, AddAt(i) PROVE Moving'
  <2> DEFINE e == Entry(asked + 1)
  <2>1. /\ Enqueue(NoThread, i, e) /\ asked' = asked + 1
        /\ UNCHANGED <<claims, committed, interruptions, accepted, gone, cleared, pc, op, item, spot,
                       held, kept, before>>
    BY <1>2 DEF AddAt, resume, local, history
  <2>2. /\ AllEntries \subseteq AllEntries' /\ Seq(AllEntries) \subseteq Seq(AllEntries')
        /\ e \in AllEntries' /\ e \notin AllEntries /\ e.nth = 0 /\ e # Nothing
        /\ i \in 1..(Len(queue) + 1)
    <3>1. AllEntries \subseteq AllEntries' /\ Seq(AllEntries) \subseteq Seq(AllEntries')
      BY <2>1, More DEF ShapeOK
    <3>2. e \in AllEntries' /\ e \notin AllEntries /\ e.nth = 0 /\ e # Nothing
      BY <2>1 DEF AllEntries, Entry, ShapeOK, Nothing
    <3>3. i \in 1..(Len(queue) + 1)
      BY DEF ShapeOK
    <3>4. QED
      BY <3>1, <3>2, <3>3
  <2> HIDE DEF e
  <2>3. \A u \in Threads : Out(u)' = Out(u) /\ Holding(u)' = Holding(u)
    BY <2>1 DEF Out, Holding
  <2>4. clean' = {} /\ \A u \in Threads : spot'[u] # 0 => u \in touched'
    BY <2>1, ThreadAssumption DEF Enqueue, Mutated, ShapeOK
  <2>5. e \notin Queued /\ \A u \in Threads : e \notin Out(u)
    <3>1. Queued \subseteq AllEntries
      BY DEF ShapeOK, Queued, ToSet
    <3>2. \A u \in Threads : Out(u) \subseteq AllEntries
      BY DEF LocalOK, FlowOK, Out
    <3>3. QED
      BY <2>2, <3>1, <3>2
  <2>6. IsInjective(queue') /\ \A x : x \in Queued' <=> x = e \/ x \in Queued
    BY <2>1, <2>2, <2>5, Enqueued DEF PlacesOK
  <2>7. PlacesOK'
    <3>1. \A u \in Threads : spot'[u] # 0 /\ held'[u] # Nothing => item'[u] # held'[u]
      BY <2>1 DEF PlacesOK
    <3>2. \A u \in Threads : \A x : x \in Out(u)' => x \in Out(u) \/ (u = NoThread /\ x = e)
      BY <2>3
    <3>3. \A u \in Threads : e \notin Out(u)'
      BY <2>3, <2>5
    <3>4. QED
      BY SMTT(30), <2>2, <2>6, <3>1, <3>2, <3>3, PlacesKept
  <2>8. ClaimsOK'
    <3>1. \A x : x \in Placed' => x \in Placed \/ x.nth = 0
      BY <2>2, <2>3, <2>6 DEF Placed
    <3>2. \A n : n \notin gone' /\ n # 0 /\ (n \in gone \/ \E x \in Queued : x.nth = n)
                   => \E x \in Queued' : x.nth = n
      BY <2>1, <2>6
    <3>3. QED
      BY <2>1, <2>3, <3>1, <3>2, ClaimsKept
  <2>9. ClearedOK'
    <3>1. e \notin cleared
      BY <2>2 DEF ClearedOK
    <3>2. ClearWins'
      BY <2>1, <2>6, <3>1 DEF ClearedOK, ClearWins, Queued
    <3>3. QED
      BY <2>1, <2>2, <2>4, <3>2 DEF ClearedOK
  <2>10. RestoreOK'
    BY <2>4 DEF RestoreOK
  <2>11. QED
    BY <2>7, <2>8, <2>9, <2>10
<1>3. ASSUME NEW i \in DOMAIN queue, RemoveOne(i) PROVE Moving'
  <2>1. /\ Dequeue(NoThread, i) /\ Lost({queue[i]})
        /\ UNCHANGED <<claims, committed, interruptions, accepted, cleared, pc, op, item, spot, held,
                       kept, before, asked>>
    BY <1>3 DEF RemoveOne, resume, local
  <2>2. AllEntries' = AllEntries
    BY <2>1 DEF AllEntries
  <2>3. \A u \in Threads : Out(u)' = Out(u) /\ Holding(u)' = Holding(u)
    BY <2>1 DEF Out, Holding
  <2>4. clean' = {} /\ \A u \in Threads : spot'[u] # 0 => u \in touched'
    BY <2>1, ThreadAssumption DEF Dequeue, Mutated, ShapeOK
  <2>5. \A x : x \in Queued' => x \in Queued
    BY <2>1, Dequeued
  <2>6. PlacesOK' /\ ClaimsOK'
    <3>1. \A u \in Threads : spot'[u] # 0 /\ held'[u] # Nothing => item'[u] # held'[u]
      BY <2>1 DEF PlacesOK
    <3>2. QED
      BY <2>1, <2>3, <3>1, TakenOut DEF Dequeue
  <2>7. ClearedOK'
    <3>1. ClearWins'
      BY <2>1, <2>5 DEF ClearedOK, ClearWins, Queued
    <3>2. QED
      BY <2>1, <2>2, <2>4, <3>1 DEF ClearedOK
  <2>8. RestoreOK'
    BY <2>4 DEF RestoreOK
  <2>9. QED
    BY <2>6, <2>7, <2>8
<1>4. CASE MediaEnds \/ NaturalEnd
  <2>1. UNCHANGED <<waiting, resume, pc, local, bounds, history>>
    BY <1>4 DEF MediaEnds, NaturalEnd
  <2>2. Quiet
    BY <2>1 DEF Quiet, waiting, resume, local, bounds, history, AllEntries, Holding
  <2>3. QED
    BY <2>2, QuietInv
<1>5. QED
  BY <1>1, <1>2, <1>3, <1>4 DEF Edit

-----------------------------------------------------------------------------
(* Plays that count on an interruption, and settle it *)

LEMMA HoldersFinite ==
  ASSUME NEW n
  PROVE  /\ IsFiniteSet(Holders(n)) /\ Cardinality(Holders(n)) \in Nat
         /\ Cardinality(Holders(n)) = 0 <=> Holders(n) = {}
<1>1. IsFiniteSet(Holders(n))
  BY ThreadAssumption, FS_Subset DEF Holders
<1>2. QED
  BY <1>1, FS_CardinalityType, FS_EmptySet

LEMMA HoldersEmpty ==
  ASSUME NEW n, Cardinality(Holders(n)') = 0
  PROVE  Holders(n)' = {}
<1>1. IsFiniteSet(Holders(n)')
  BY ThreadAssumption, FS_Subset DEF Holders
<1>2. QED
  BY <1>1, FS_EmptySet

LEMMA PlacedNumbers ==
  ASSUME ShapeOK, LocalOK, CountOK, NEW x \in Placed
  PROVE  x.nth \in 0..interruptions /\ (x.nth # 0 => x.nth \in Interruptions)
<1>1. x \in AllEntries \/ x = Nothing
  BY DEF Placed, Out, Queued, ShapeOK, LocalOK, ToSet
<1>2. interruptions \in Nat /\ interruptions <= MaxStarts /\ MaxStarts \in Nat
  BY Counted DEF ShapeOK
<1>3. x.nth \in 0..interruptions
  BY <1>1, <1>2 DEF AllEntries, Nothing
<1>4. QED
  BY <1>2, <1>3 DEF Interruptions

\* t has nothing and joins n; or it lets go of it.
LEMMA Joined ==
  ASSUME NEW t \in Threads, NEW n, n # 0, Holding(t) = 0, Holding(t)' = n,
         \A u \in Threads : u # t => Holding(u)' = Holding(u)
  PROVE  /\ \A m : m # n /\ m # 0 => Holders(m)' = Holders(m)
         /\ Holders(n)' = Holders(n) \cup {t}
         /\ Cardinality(Holders(n)') = Cardinality(Holders(n)) + 1
<1>1. \A m : m # n /\ m # 0 => Holders(m)' = Holders(m)
  BY DEF Holders
<1>2. Holders(n)' = Holders(n) \cup {t} /\ t \notin Holders(n)
  BY DEF Holders
<1>3. IsFiniteSet(Holders(n))
  BY HoldersFinite
<1>4. Cardinality(Holders(n) \cup {t}) = Cardinality(Holders(n)) + 1
  BY <1>2, <1>3, FS_AddElement
<1>5. QED
  BY <1>1, <1>2, <1>4

LEMMA Released ==
  ASSUME NEW t \in Threads, NEW n, n = Holding(t), Holding(t)' = 0,
         \A u \in Threads : u # t => Holding(u)' = Holding(u)
  PROVE  /\ \A m : m # n /\ m # 0 => Holders(m)' = Holders(m)
         /\ n # 0 => /\ t \in Holders(n) /\ Holders(n)' = Holders(n) \ {t}
                     /\ Cardinality(Holders(n)) \in Nat \ {0}
                     /\ Cardinality(Holders(n)') = Cardinality(Holders(n)) - 1
<1>1. \A m : m # n /\ m # 0 => Holders(m)' = Holders(m)
  BY DEF Holders
<1>2. ASSUME n # 0
      PROVE  /\ t \in Holders(n) /\ Holders(n)' = Holders(n) \ {t}
             /\ Cardinality(Holders(n)) \in Nat \ {0}
             /\ Cardinality(Holders(n)') = Cardinality(Holders(n)) - 1
  <2>1. t \in Holders(n)
    BY DEF Holders
  <2>2. Holders(n)' = Holders(n) \ {t}
    BY <1>2 DEF Holders
  <2>3. IsFiniteSet(Holders(n)) /\ Cardinality(Holders(n)) \in Nat /\ Cardinality(Holders(n)) # 0
    BY <2>1, HoldersFinite
  <2>4. Cardinality(Holders(n) \ {t}) = Cardinality(Holders(n)) - 1
    BY <2>1, <2>3, FS_RemoveElement
  <2>5. QED
    BY <2>1, <2>2, <2>3, <2>4
<1>3. QED
  BY <1>1, <1>2

LEMMA SharedClaim ==
  ASSUME ShapeOK, CountOK, ClaimsOK, NEW t \in Threads, NEW e \in Queued,
         e.nth \in Interruptions, e.nth # 0, claims[e.nth] > 0, e.nth \notin committed,
         claims' = [claims EXCEPT ![e.nth] = @ + 1],
         Holding(t) = 0, Holding(t)' = e.nth,
         \A u \in Threads : u # t => Holding(u)' = Holding(u),
         UNCHANGED <<committed, accepted, interruptions, gone>>,
         Queued' = Queued, Placed' = Placed
  PROVE  ClaimsOK'
<1> DEFINE n == e.nth
<1>1. /\ \A m : m # n /\ m # 0 => Holders(m)' = Holders(m)
      /\ Cardinality(Holders(n)') = Cardinality(Holders(n)) + 1
  BY Joined
<1>2. /\ claims \in [Interruptions -> Nat] /\ n \in Interruptions /\ 0 \notin Interruptions
      /\ claims[n] \in Nat /\ claims[n] = Cardinality(Holders(n)) /\ e \in Placed
  BY DEF ShapeOK, Interruptions, ClaimsOK, Placed
<1>3. n \notin accepted
  <2>1. Holders(n) # {}
    BY <1>2, HoldersFinite
  <2>2. QED
    BY <1>2, <2>1 DEF ClaimsOK
<1>4. \A m \in Interruptions : claims'[m] = IF m = n THEN claims[n] + 1 ELSE claims[m]
  BY <1>2
<1>5. \A m \in Interruptions : claims'[m] <= Cardinality(Holders(m)')
  <2>1. claims'[n] <= Cardinality(Holders(n)')
    BY <1>1, <1>2, <1>4
  <2>2. \A m \in Interruptions : m # n => claims'[m] <= Cardinality(Holders(m)')
    BY <1>1, <1>2, <1>4 DEF ClaimsOK
  <2>3. QED
    BY <2>1, <2>2
<1>6. ASSUME NEW x \in Placed', x.nth # 0
      PROVE  /\ claims'[x.nth] = Cardinality(Holders(x.nth)')
             /\ x.nth \in accepted' => Holders(x.nth)' = {} \/ x.nth \in committed'
  <2>1. CASE x.nth = n
    BY <1>1, <1>2, <1>3, <1>4, <2>1
  <2>2. CASE x.nth # n
    <3>1. claims'[x.nth] = claims[x.nth]
      BY <2>2
    <3>2. Holders(x.nth)' = Holders(x.nth)
      BY <1>1, <1>6, <2>2
    <3>3. QED
      BY <1>6, <3>1, <3>2 DEF ClaimsOK
  <2>3. QED
    BY <2>1, <2>2
<1>7. ASSUME NEW u \in Threads, Holding(u)' \notin gone' \cup {0}
      PROVE  \E x \in Queued' : x.nth = Holding(u)'
  BY <1>7 DEF ClaimsOK
<1>8. InterruptedIsKept'
  BY DEF ClaimsOK, InterruptedIsKept, Queued
<1>9. committed' \subseteq {m \in Interruptions : claims'[m] > 0}
  BY <1>2, <1>4 DEF ClaimsOK
<1>10. QED
  BY <1>5, <1>6, <1>7, <1>8, <1>9 DEF ClaimsOK

LEMMA FirstClaim ==
  ASSUME ShapeOK, LocalOK, CountOK, ClaimsOK, NEW t \in Threads, NEW e,
         e.nth = interruptions + 1, e.nth \in Interruptions,
         claims' = [claims EXCEPT ![e.nth] = 1], interruptions' = interruptions + 1,
         Holding(t) = 0, Holding(t)' = e.nth,
         \A u \in Threads : u # t => Holding(u)' = Holding(u),
         UNCHANGED <<committed, accepted, gone>>,
         \A x : x \in Queued' <=> x = e \/ x \in Queued,
         \A x : x \in Placed' => x = e \/ (x \in Placed /\ x.nth \in 0..interruptions)
  PROVE  ClaimsOK'
<1> DEFINE n == e.nth
<1>1. /\ n # 0 /\ \A u \in Threads : Holding(u) # n
  <2>1. \A u \in Threads : Holding(u) \in 0..interruptions
    BY DEF LocalOK, Holding, ShapeOK
  <2>2. QED
    BY <2>1 DEF ShapeOK
<1>2. Holders(n) = {} /\ Cardinality(Holders(n)) = 0
  BY <1>1, HoldersFinite DEF Holders
<1>3. /\ \A m : m # n /\ m # 0 => Holders(m)' = Holders(m)
      /\ Cardinality(Holders(n)') = 1
  BY <1>1, <1>2, Joined
<1>4. /\ claims \in [Interruptions -> Nat] /\ 0 \notin Interruptions
      /\ \A m \in Interruptions : claims'[m] = IF m = n THEN 1 ELSE claims[m]
  BY DEF ShapeOK, Interruptions
<1>5. n \notin accepted
  BY DEF ClaimsOK, ShapeOK
<1>6. \A m \in Interruptions : claims'[m] <= Cardinality(Holders(m)')
  <2>1. claims'[n] <= Cardinality(Holders(n)')
    BY <1>3, <1>4
  <2>2. \A m \in Interruptions : m # n => claims'[m] <= Cardinality(Holders(m)')
    BY <1>3, <1>4 DEF ClaimsOK
  <2>3. QED
    BY <2>1, <2>2
<1>7. ASSUME NEW x \in Placed', x.nth # 0
      PROVE  /\ claims'[x.nth] = Cardinality(Holders(x.nth)')
             /\ x.nth \in accepted' => Holders(x.nth)' = {} \/ x.nth \in committed'
  <2>1. CASE x = e
    BY <1>3, <1>4, <1>5, <2>1
  <2>2. CASE x # e
    <3>1. x \in Placed /\ x.nth \in 0..interruptions
      BY <2>2
    <3>2. x.nth # n
      BY <3>1 DEF ShapeOK
    <3>3. claims'[x.nth] = claims[x.nth] /\ Holders(x.nth)' = Holders(x.nth)
      BY <1>3, <1>7, <3>2
    <3>4. QED
      BY <1>7, <3>1, <3>3 DEF ClaimsOK
  <2>3. QED
    BY <2>1, <2>2
<1>8. ASSUME NEW u \in Threads, Holding(u)' \notin gone' \cup {0}
      PROVE  \E x \in Queued' : x.nth = Holding(u)'
  BY <1>8 DEF ClaimsOK
<1>9. InterruptedIsKept'
  BY DEF ClaimsOK, InterruptedIsKept, Queued
<1>10. committed' \subseteq {m \in Interruptions : claims'[m] > 0}
  BY <1>4 DEF ClaimsOK
<1>11. accepted' \subseteq 1..interruptions'
  BY DEF ClaimsOK, ShapeOK
<1>12. QED
  BY <1>6, <1>7, <1>8, <1>9, <1>10, <1>11 DEF ClaimsOK

\* A play settles its interruption, n, and the entry at the head may leave for good.
Settles(t, n, spent, over) ==
    /\ n = Holding(t) /\ Holding(t)' = 0
    /\ \A u \in Threads : u # t => Holding(u)' = Holding(u)
    /\ over = (IF n # 0 /\ claims[n] <= 1 THEN {n} ELSE {}) \cup spent
    /\ \A m \in Interruptions :
          claims'[m] = IF m \in over THEN 0 ELSE IF m = n THEN claims[m] - 1 ELSE claims[m]
    /\ committed' = (IF n # 0 THEN committed \cup {n} ELSE committed) \ over
    /\ accepted' = (IF n # 0 THEN accepted \cup {n} ELSE accepted)
    /\ interruptions' = interruptions /\ gone' = gone \cup spent
    /\ \A x : x \in Queued' => x \in Queued /\ x.nth \notin spent
    /\ \A x : x \in Queued /\ x.nth \notin spent => x \in Queued'
    /\ \A x : x \in Placed' => x \in Placed /\ x.nth \notin spent

LEMMA SettledClaim ==
  ASSUME ShapeOK, LocalOK, CountOK, ClaimsOK, NEW t \in Threads, NEW n, NEW spent, NEW over,
         Settles(t, n, spent, over)
  PROVE  ClaimsOK'
<1> USE DEF Settles
<1>1. /\ \A m : m # n /\ m # 0 => Holders(m)' = Holders(m)
      /\ n # 0 => /\ t \in Holders(n)
                  /\ Cardinality(Holders(n)) \in Nat \ {0}
                  /\ Cardinality(Holders(n)') = Cardinality(Holders(n)) - 1
  BY Released
<1>2. n # 0 => n \in 1..interruptions /\ n \in Interruptions
  <2>1. n \in 0..interruptions
    BY DEF LocalOK, Holding, ShapeOK
  <2>2. interruptions \in Nat /\ interruptions <= MaxStarts /\ MaxStarts \in Nat
    BY Counted DEF ShapeOK
  <2>3. QED
    BY <2>1, <2>2 DEF Interruptions
<1>3. claims \in [Interruptions -> Nat] /\ 0 \notin Interruptions
  BY DEF ShapeOK, Interruptions
<1>4. ASSUME NEW m \in Interruptions
      PROVE  claims'[m] = IF m \in over THEN 0 ELSE IF m = n THEN claims[m] - 1 ELSE claims[m]
  OBVIOUS
<1>5. ASSUME NEW m \in Interruptions PROVE claims'[m] <= Cardinality(Holders(m)')
  <2>1. Cardinality(Holders(m)') \in Nat /\ claims[m] <= Cardinality(Holders(m)) /\ claims[m] \in Nat
    BY <1>1, <1>3, HoldersFinite DEF ClaimsOK
  <2>2. CASE m \in over
    BY <1>4, <2>1, <2>2
  <2>3. CASE m \notin over /\ m = n
    BY <1>1, <1>3, <1>4, <2>1, <2>3
  <2>4. CASE m \notin over /\ m # n
    BY <1>1, <1>3, <1>4, <2>1, <2>4
  <2>5. QED
    BY <2>2, <2>3, <2>4
<1>6. ASSUME NEW x \in Placed', x.nth # 0
      PROVE  /\ claims'[x.nth] = Cardinality(Holders(x.nth)')
             /\ x.nth \in accepted' => Holders(x.nth)' = {} \/ x.nth \in committed'
  <2>1. /\ x \in Placed /\ x.nth \notin spent /\ claims[x.nth] = Cardinality(Holders(x.nth))
        /\ x.nth \in accepted => Holders(x.nth) = {} \/ x.nth \in committed
    BY <1>6 DEF ClaimsOK
  <2>2. CASE x.nth = n
    <3>1. n \in Interruptions /\ claims[n] \in Nat
      BY <1>2, <1>3, <1>6, <2>2
    <3>2. CASE claims[n] <= 1
      <4>1. n \in over /\ claims'[n] = 0
        BY <1>4, <1>6, <2>2, <3>1, <3>2
      <4>2. Cardinality(Holders(n)') = 0
        BY <1>1, <1>6, <2>1, <2>2, <3>1, <3>2
      <4>3. Holders(n)' = {}
        BY <1>1, <1>6, <2>2, <4>2, HoldersEmpty
      <4>4. QED
        BY <2>2, <4>1, <4>2, <4>3
    <3>3. CASE claims[n] > 1
      <4>1. n \notin over
        BY <2>1, <2>2, <3>1, <3>3
      <4>2. claims'[n] = claims[n] - 1 /\ n \in committed'
        BY <1>4, <1>6, <2>2, <3>1, <4>1
      <4>3. QED
        BY <1>1, <1>6, <2>1, <2>2, <4>2
    <3>4. QED
      BY <3>1, <3>2, <3>3
  <2>3. CASE x.nth # n
    <3>1. x.nth \notin over
      BY <2>1, <2>3
    <3>2. Holders(x.nth)' = Holders(x.nth)
      BY <1>1, <1>6, <2>3
    <3>3. x.nth \in Interruptions
      BY <1>6, <2>1, PlacedNumbers
    <3>4. claims'[x.nth] = claims[x.nth]
      BY <1>4, <2>3, <3>1, <3>3
    <3>5. QED
      BY <2>1, <2>3, <3>1, <3>2, <3>4
  <2>4. QED
    BY <2>2, <2>3
<1>7. ASSUME NEW u \in Threads, Holding(u)' \notin gone' \cup {0}
      PROVE  \E x \in Queued' : x.nth = Holding(u)'
  <2>1. PICK x \in Queued : x.nth = Holding(u)' /\ Holding(u)' = Holding(u)
    BY <1>7 DEF ClaimsOK
  <2>2. QED
    BY <1>7, <2>1
<1>8. InterruptedIsKept'
  <2>1. ASSUME NEW m \in accepted', m \notin gone' PROVE \E x \in Queued' : x.nth = m
    <3>1. m \notin gone /\ m \notin spent
      BY <2>1
    <3>2. CASE m = n /\ n # 0
      <4>1. PICK x \in Queued : x.nth = n
        BY <3>1, <3>2 DEF ClaimsOK
      <4>2. QED
        BY <3>1, <3>2, <4>1
    <3>3. CASE m \in accepted
      <4>1. PICK x \in Queued : x.nth = m
        BY <3>1, <3>3 DEF ClaimsOK, InterruptedIsKept, Queued
      <4>2. QED
        BY <3>1, <4>1
    <3>4. QED
      BY <2>1, <3>2, <3>3
  <2>2. QED
    BY <2>1 DEF InterruptedIsKept, Queued
<1>9. ASSUME NEW m \in committed' PROVE m \in Interruptions /\ claims'[m] > 0
  <2>1. m \notin over
    OBVIOUS
  <2>2. CASE m = n /\ n # 0
    <3>1. n \in Interruptions /\ claims[n] \in Nat /\ ~(claims[n] <= 1)
      BY <1>2, <1>3, <2>1, <2>2
    <3>2. QED
      BY <1>4, <2>1, <2>2, <3>1
  <2>3. CASE m # n /\ m \in committed
    BY <1>4, <2>1, <2>3 DEF ClaimsOK
  <2>4. CASE m = n /\ n = 0
    BY <1>3, <2>4 DEF ClaimsOK
  <2>5. QED
    BY <2>2, <2>3, <2>4
<1>10. accepted' \subseteq 1..interruptions'
  BY <1>2 DEF ClaimsOK
<1>11. QED
  BY <1>5, <1>6, <1>7, <1>8, <1>9, <1>10 DEF ClaimsOK

\* A play gives up its interruption; the last one takes the entry at the head away.
LEMMA DroppedClaim ==
  ASSUME ShapeOK, LocalOK, CountOK, ClaimsOK, NEW t \in Threads, NEW n, n = Holding(t),
         Holding(t)' = 0, \A u \in Threads : u # t => Holding(u)' = Holding(u),
         NEW away,
         \A x \in away : /\ x \in Queued /\ x.nth = n /\ n # 0
                         /\ claims[n] <= 1 /\ n \notin committed,
         claims' = [m \in Interruptions |->
                      IF m = n /\ claims[m] > 0 THEN claims[m] - 1 ELSE claims[m]],
         committed' = (IF n # 0 /\ claims[n] <= 1 THEN committed \ {n} ELSE committed),
         UNCHANGED <<accepted, gone, interruptions>>,
         \A x : x \in Queued /\ x \notin away => x \in Queued',
         \A x : x \in Placed' => x \in Placed
  PROVE  ClaimsOK'
<1>1. /\ \A m : m # n /\ m # 0 => Holders(m)' = Holders(m)
      /\ n # 0 => /\ t \in Holders(n) /\ Holders(n)' = Holders(n) \ {t}
                  /\ Cardinality(Holders(n)) \in Nat \ {0}
                  /\ Cardinality(Holders(n)') = Cardinality(Holders(n)) - 1
  BY Released
<1>2. n # 0 => n \in 1..interruptions /\ n \in Interruptions
  <2>1. n \in 0..interruptions
    BY DEF LocalOK, Holding, ShapeOK
  <2>2. interruptions \in Nat /\ interruptions <= MaxStarts /\ MaxStarts \in Nat
    BY Counted DEF ShapeOK
  <2>3. QED
    BY <2>1, <2>2 DEF Interruptions
<1>3. claims \in [Interruptions -> Nat] /\ 0 \notin Interruptions
  BY DEF ShapeOK, Interruptions
<1>4. ASSUME NEW m \in Interruptions
      PROVE  claims'[m] = IF m = n /\ claims[m] > 0 THEN claims[m] - 1 ELSE claims[m]
  OBVIOUS
\* The entry that is taken away was held by t alone, and has not come about.
<1>5. ASSUME NEW x \in away
      PROVE  n # 0 /\ x.nth = n /\ Holders(n)' = {} /\ n \notin accepted
  <2>1. x \in Placed /\ x.nth = n /\ n # 0 /\ claims[n] = Cardinality(Holders(n))
    BY DEF Placed, ClaimsOK
  <2>2. Cardinality(Holders(n)') = 0
    BY <1>1, <2>1
  <2>3. Holders(n)' = {}
    BY <1>1, <2>1, <2>2, HoldersEmpty
  <2>4. n \notin accepted
    BY <1>1, <2>1 DEF ClaimsOK
  <2>5. QED
    BY <2>1, <2>3, <2>4
<1>6. ASSUME NEW m \in Interruptions PROVE claims'[m] <= Cardinality(Holders(m)')
  <2>1. Cardinality(Holders(m)') \in Nat /\ claims[m] <= Cardinality(Holders(m)) /\ claims[m] \in Nat
    BY <1>1, <1>3, HoldersFinite DEF ClaimsOK
  <2>2. CASE m = n
    BY <1>1, <1>3, <1>4, <2>1, <2>2
  <2>3. CASE m # n
    BY <1>1, <1>3, <1>4, <2>1, <2>3
  <2>4. QED
    BY <2>2, <2>3
<1>7. ASSUME NEW x \in Placed', x.nth # 0
      PROVE  /\ claims'[x.nth] = Cardinality(Holders(x.nth)')
             /\ x.nth \in accepted' => Holders(x.nth)' = {} \/ x.nth \in committed'
  <2>1. /\ x \in Placed /\ claims[x.nth] = Cardinality(Holders(x.nth))
        /\ x.nth \in accepted => Holders(x.nth) = {} \/ x.nth \in committed
    BY <1>7 DEF ClaimsOK
  <2>2. CASE x.nth = n
    <3>1. n \in Interruptions /\ claims[n] \in Nat \ {0}
      BY <1>1, <1>2, <1>3, <1>7, <2>1, <2>2
    <3>2. claims'[n] = Cardinality(Holders(n)')
      BY <1>1, <1>4, <1>7, <2>1, <2>2, <3>1
    <3>3. CASE claims[n] <= 1
      <4>1. Cardinality(Holders(n)') = 0
        BY <1>1, <1>7, <2>1, <2>2, <3>1, <3>3
      <4>2. Holders(n)' = {}
        BY <1>1, <1>7, <2>2, <4>1, HoldersEmpty
      <4>3. QED
        BY <2>2, <3>2, <4>2
    <3>4. CASE claims[n] > 1
      <4>1. committed' = committed /\ Holders(n) # {}
        BY <1>1, <1>7, <2>2, <3>1, <3>4
      <4>2. QED
        BY <2>1, <2>2, <3>2, <4>1
    <3>5. QED
      BY <3>1, <3>3, <3>4
  <2>3. CASE x.nth # n
    <3>1. Holders(x.nth)' = Holders(x.nth)
      BY <1>1, <1>7, <2>3
    <3>2. x.nth \in Interruptions
      BY <1>7, <2>1, PlacedNumbers
    <3>3. claims'[x.nth] = claims[x.nth]
      BY <1>4, <2>3, <3>2
    <3>4. QED
      BY <2>1, <2>3, <3>1, <3>3
  <2>4. QED
    BY <2>2, <2>3
<1>8. ASSUME NEW u \in Threads, Holding(u)' \notin gone' \cup {0}
      PROVE  \E x \in Queued' : x.nth = Holding(u)'
  <2>1. PICK x \in Queued : x.nth = Holding(u)'
    BY <1>8 DEF ClaimsOK
  <2>2. x \notin away
    BY <1>5, <2>1 DEF Holders
  <2>3. QED
    BY <2>1, <2>2
<1>9. InterruptedIsKept'
  <2>1. ASSUME NEW m \in accepted', m \notin gone' PROVE \E x \in Queued' : x.nth = m
    <3>1. PICK x \in Queued : x.nth = m
      BY <2>1 DEF ClaimsOK, InterruptedIsKept, Queued
    <3>2. x \notin away
      BY <1>5, <3>1
    <3>3. QED
      BY <3>1, <3>2
  <2>2. QED
    BY <2>1 DEF InterruptedIsKept, Queued
<1>10. ASSUME NEW m \in committed' PROVE m \in Interruptions /\ claims'[m] > 0
  <2>1. m \in Interruptions /\ claims[m] > 0 /\ claims[m] \in Nat /\ m # 0
    BY <1>3 DEF ClaimsOK
  <2>2. CASE m = n
    BY <1>4, <2>1, <2>2
  <2>3. CASE m # n
    BY <1>4, <2>1, <2>3
  <2>4. QED
    BY <2>2, <2>3
<1>11. QED
  BY <1>6, <1>7, <1>8, <1>9, <1>10 DEF ClaimsOK

LEMMA HeadQueuedEntry ==
  ASSUME ShapeOK, CountOK, HeadIsResume
  PROVE  /\ Head(queue) \in Queued /\ Head(queue) \in Placed
         /\ Head(queue).nth \in Interruptions /\ Head(queue).nth # 0
  BY HeadFirst, HeadResumes DEF Placed, HeadIsResume

\* Joining the play that has put the head there.
LEMMA ShareStep ==
  ASSUME Shapes, CountOK, Moving, NEW t \in Threads, pc[t] \in {"interrupt", "preserve"},
         NEW media, HeadIsResume, Share(t, media), Goto(t, "ready"),
         UNCHANGED <<waiting, committed, interruptions, asked, op, item, spot, held, before,
                     history>>
  PROVE  Moving'
<1> USE DEF Shapes, Moving
<1>0. /\ pc \in [Threads -> Steps] /\ kept[t] = 0 /\ pc' = [pc EXCEPT ![t] = "ready"]
      /\ kept \in [Threads -> 0..interruptions]
  BY DEF LocalOK, FlowOK, Goto
<1>1. AllEntries' = AllEntries
  BY DEF AllEntries
<1>2. CASE UNCHANGED <<claims, kept>>
  <2>1. \A u \in Threads : Holding(u)' = Holding(u)
    BY <1>0, <1>2 DEF Holding, Working
  <2>2. Quiet
    BY <1>1, <1>2, <2>1 DEF Quiet, waiting, history
  <2>3. QED
    BY <2>2, QuietInv
<1>3. CASE Shared(media)
  <2>1. PICK e : e = Head(queue)
    OBVIOUS
  <2>2. /\ claims' = [claims EXCEPT ![e.nth] = @ + 1] /\ kept' = [kept EXCEPT ![t] = e.nth]
        /\ claims[e.nth] > 0 /\ e.nth \notin committed
    BY <1>3, <2>1 DEF Share, Shared, Set
  <2>3. e \in Queued /\ e.nth \in Interruptions /\ e.nth # 0
    BY <2>1, HeadQueuedEntry
  <2>4. /\ queue' = queue /\ gone' = gone /\ accepted' = accepted /\ clean' = clean
        /\ touched' = touched /\ cleared' = cleared
    BY DEF waiting, history
  <2>5. \A u \in Threads : Out(u)' = Out(u)
    BY DEF Out
  <2>6. Queued' = Queued /\ Placed' = Placed
    BY <2>4, <2>5 DEF Queued, Placed
  <2>7. /\ Holding(t) = 0 /\ Holding(t)' = e.nth
        /\ \A u \in Threads : u # t => Holding(u)' = Holding(u)
    BY <1>0, <2>2 DEF Holding, Working
  <2>8. ClaimsOK'
    BY <2>2, <2>3, <2>4, <2>6, <2>7, SharedClaim
  <2>9. PlacesOK'
    BY <2>4, <2>5, <2>6 DEF PlacesOK
  <2>10. ClearedOK' /\ RestoreOK'
    BY <1>1, <2>4, <2>6 DEF ClearedOK, ClearWins, RestoreOK, Ordinary
  <2>11. QED
    BY <2>8, <2>9, <2>10
<1>4. QED
  BY <1>2, <1>3 DEF Share

LEMMA PreserveSteps ==
  ASSUME Shapes, CountOK, Moving, NEW t \in Threads, PreserveShared(t) \/ Preserve(t)
  PROVE  Moving'
<1> USE DEF Shapes, Moving
<1>1. CASE PreserveShared(t)
  <2>1. /\ pc[t] = "interrupt" /\ HeadIsResume /\ Share(t, now) /\ Goto(t, "ready")
        /\ UNCHANGED <<waiting, committed, interruptions, asked, op, item, spot, held, before,
                       history>>
    BY <1>1 DEF PreserveShared, At, bounds
  <2>2. QED
    BY <2>1, ShareStep
<1>2. CASE Preserve(t) /\ HeadIsResume
  <2>1. /\ pc[t] = "preserve" /\ HeadIsResume /\ Share(t, prior[t]) /\ Goto(t, "ready")
        /\ UNCHANGED <<waiting, committed, interruptions, asked, op, item, spot, held, before,
                       history>>
    BY <1>2 DEF Preserve, At, bounds
  <2>2. QED
    BY <2>1, ShareStep
<1>3. CASE Preserve(t) /\ ~HeadIsResume
  <2>0. PICK e : e = [media |-> prior[t], nth |-> interruptions + 1]
    OBVIOUS
  <2>1. /\ pc[t] = "preserve" /\ pc' = [pc EXCEPT ![t] = "ready"]
        /\ Enqueue(t, 1, e) /\ claims' = [claims EXCEPT ![e.nth] = 1]
        /\ kept' = [kept EXCEPT ![t] = e.nth] /\ interruptions' = interruptions + 1
        /\ e.nth = interruptions + 1
        /\ UNCHANGED <<committed, asked, op, item, spot, held, before, cleared, accepted, gone>>
    BY <1>3, <2>0 DEF Preserve, At, Goto, Set, bounds, history
  <2>2. /\ pc \in [Threads -> Steps] /\ kept \in [Threads -> 0..interruptions] /\ kept[t] = 0
        /\ prior[t] \in 1..asked /\ interruptions \in Nat /\ asked \in Nat
    BY <2>1 DEF LocalOK, FlowOK, ShapeOK
  <2>3. e.nth \in Interruptions
    BY <2>1, <2>2, Counted DEF Interrupting, Interruptions
  <2>4. /\ AllEntries \subseteq AllEntries' /\ Seq(AllEntries) \subseteq Seq(AllEntries')
        /\ e \in AllEntries' /\ e \notin AllEntries
    <3>1. AllEntries \subseteq AllEntries' /\ Seq(AllEntries) \subseteq Seq(AllEntries')
      BY <2>1, <2>2, More
    <3>2. e \in AllEntries' /\ e \notin AllEntries
      BY <2>0, <2>1, <2>2 DEF AllEntries
    <3>3. QED
      BY <3>1, <3>2
  <2>5. \A u \in Threads : Out(u)' = Out(u)
    BY <2>1 DEF Out
  <2>6. \A x : x \in Placed => x \in AllEntries /\ x.nth \in 0..interruptions
    <3>1. \A u \in Threads : Out(u) \subseteq AllEntries
      BY DEF LocalOK, FlowOK, Out
    <3>2. Queued \subseteq AllEntries
      BY DEF ShapeOK, Queued, ToSet
    <3>3. QED
      BY <3>1, <3>2, Entries DEF Placed
  <2>7. e \notin Placed /\ \A f \in Placed : f.nth # e.nth
    BY <2>1, <2>2, <2>4, <2>6
  <2>8. 1 \in 1..(Len(queue) + 1)
    BY DEF ShapeOK
  <2>9. IsInjective(queue') /\ \A x : x \in Queued' <=> x = e \/ x \in Queued
    <3>1. e \notin Queued /\ IsInjective(queue)
      BY <2>7 DEF Placed, PlacesOK
    <3>2. QED
      BY <2>1, <2>4, <2>8, <3>1, Enqueued
  <2>10. \A x : x \in Placed' => x = e \/ (x \in Placed /\ x.nth \in 0..interruptions)
    BY <2>5, <2>6, <2>9 DEF Placed
  <2>11. PlacesOK'
    <3>1. \A u \in Threads : \A x : x \in Out(u)' => x \in Out(u) \/ (u = NoThread /\ x = e)
      BY <2>5
    <3>2. \A u \in Threads : e \notin Out(u)'
      BY <2>5, <2>7 DEF Placed
    <3>3. \A u \in Threads : spot'[u] # 0 /\ held'[u] # Nothing => item'[u] # held'[u]
      BY <2>1 DEF PlacesOK
    <3>4. QED
      BY <2>7, <2>9, <3>1, <3>2, <3>3, PlacesKept
  <2>12. /\ Holding(t) = 0 /\ Holding(t)' = e.nth
         /\ \A u \in Threads : u # t => Holding(u)' = Holding(u)
    BY <2>1, <2>2 DEF Holding, Working
  <2>13. ClaimsOK'
    BY <2>1, <2>3, <2>9, <2>10, <2>12, FirstClaim
  <2>14. ClearedOK'
    <3>1. e \notin cleared
      BY <2>4 DEF ClearedOK
    <3>2. ClearWins' /\ cleared' \subseteq AllEntries'
      BY <2>1, <2>4, <2>9, <3>1 DEF ClearedOK, ClearWins, Queued
    <3>3. QED
      BY <2>1, <3>2 DEF ClearedOK, Enqueue, Mutated
  <2>15. RestoreOK'
    <3>1. IsResume(e)
      BY <2>1, <2>2 DEF IsResume
    <3>2. \A f : Ordinary(Queued' \cup {f}) = Ordinary(Queued \cup {f})
      BY <2>9, <3>1 DEF Ordinary
    <3>3. ASSUME NEW u \in Threads, spot'[u] # 0, u \notin touched'
          PROVE  /\ u \in clean'
                 /\ op'[u] = "queue_play" => Ordinary(Queued' \cup {item'[u]}) = before'[u]
      <4>1. u = t /\ u \notin touched /\ spot[u] # 0
        BY <2>1, <3>3 DEF Enqueue, Mutated
      <4>2. u \in clean /\ (op[u] = "queue_play" => Ordinary(Queued \cup {item[u]}) = before[u])
        BY <4>1 DEF RestoreOK
      <4>3. QED
        BY <2>1, <3>2, <4>1, <4>2 DEF Enqueue, Mutated
    <3>4. QED
      BY <3>3 DEF RestoreOK, Ordinary
  <2>16. QED
    BY <2>11, <2>13, <2>14, <2>15
<1>4. QED
  BY <1>1, <1>2, <1>3

\* The head of the queue is taken away, and t may finish.
LEMMA HeadTaken ==
  ASSUME Shapes, CountOK, Moving, HeadIsResume, NEW t \in Threads, Dequeue(t, 1),
         UNCHANGED <<cleared, asked, interruptions>>,
         \A u \in Threads : /\ held'[u] \in {held[u], Nothing}
                            /\ \/ spot'[u] = 0
                               \/ UNCHANGED <<spot[u], item[u], before[u], op[u]>>,
         \A u \in Threads : u # t => UNCHANGED spot[u]
  PROVE  /\ PlacesOK' /\ ClearedOK' /\ RestoreOK'
         /\ \A x : x \in Queued /\ x # Head(queue) => x \in Queued'
         /\ \A x : x \in Queued' => x \in Queued /\ x.nth # Head(queue).nth
         /\ \A x : x \in Placed' => x \in Placed /\ x.nth # Head(queue).nth
<1> USE DEF Shapes, Moving
<1>0. PICK e : e = Head(queue)
  OBVIOUS
<1>1. /\ 1 \in DOMAIN queue /\ e = queue[1] /\ e \in Queued /\ e \in Placed
      /\ e.nth \in Interruptions /\ e.nth # 0 /\ IsInjective(queue)
  BY <1>0, HeadFirst, HeadQueuedEntry DEF HeadIsResume, PlacesOK
<1>2. /\ \A x : x \in Queued' => x \in Queued
      /\ \A x : x \in Queued /\ x # e => x \in Queued'
      /\ IsInjective(queue') /\ e \notin Queued'
  BY <1>1, Dequeued
<1>3. \A u \in Threads : \A x : x \in Out(u)' => x \in Out(u)
  BY DEF Out
<1>4. \A u \in Threads : spot'[u] # 0 /\ held'[u] # Nothing => item'[u] # held'[u]
  BY DEF PlacesOK
<1>5. \A u \in Threads : e \notin Out(u)
  BY <1>1 DEF PlacesOK
<1>6. PlacesOK'
  <2>1. \A u \in Threads : \A x : x \in Out(u)' => x \in Out(u) \/ (u = NoThread /\ x = e)
    BY <1>3
  <2>2. \A u \in Threads : e \notin Out(u)'
    BY <1>3, <1>5
  <2>3. \A x : x \in Queued' => x \in Queued \/ x = e
    BY <1>2
  <2>4. QED
    BY <1>1, <1>2, <1>4, <2>1, <2>2, <2>3, PlacesKept
<1>7. \A x : x \in Placed' => x \in Placed /\ x # e
  BY <1>2, <1>3, <1>5 DEF Placed
<1>8. \A x : x \in Placed' => x.nth # e.nth
  BY <1>1, <1>7 DEF PlacesOK
<1>9. \A x : x \in Queued' => x.nth # e.nth
  BY <1>8 DEF Placed
<1>10. AllEntries' = AllEntries
  BY DEF AllEntries
<1>11. ClearedOK'
  <2>1. ClearWins' /\ cleared' \subseteq AllEntries'
    BY <1>2, <1>10 DEF ClearedOK, ClearWins, Queued
  <2>2. Nothing \notin cleared
    BY Entries DEF ClearedOK
  <2>3. QED
    BY <2>1, <2>2 DEF ClearedOK, Dequeue, Mutated
<1>12. RestoreOK'
  <2>1. IsResume(e)
    BY <1>1 DEF IsResume
  <2>2. \A f : Ordinary(Queued' \cup {f}) = Ordinary(Queued \cup {f})
    BY <1>2, <2>1 DEF Ordinary
  <2>3. ASSUME NEW u \in Threads, spot'[u] # 0, u \notin touched'
        PROVE  /\ u \in clean'
               /\ op'[u] = "queue_play" => Ordinary(Queued' \cup {item'[u]}) = before'[u]
    <3>1. u = t /\ u \notin touched /\ spot[u] # 0
      BY <2>3 DEF Dequeue, Mutated
    <3>2. u \in clean /\ (op[u] = "queue_play" => Ordinary(Queued \cup {item[u]}) = before[u])
      BY <3>1 DEF RestoreOK
    <3>3. QED
      BY <2>2, <2>3, <3>1, <3>2 DEF Dequeue, Mutated
  <2>4. QED
    BY <2>3 DEF RestoreOK, Ordinary
<1>13. QED
  BY <1>0, <1>2, <1>6, <1>7, <1>8, <1>9, <1>11, <1>12

\* The same steps of t when the queue stays as it is.
LEMMA QueueLeft ==
  ASSUME Shapes, Moving, NEW t \in Threads, UNCHANGED waiting,
         UNCHANGED <<cleared, asked, interruptions>>,
         \A u \in Threads : /\ held'[u] \in {held[u], Nothing}
                            /\ \/ spot'[u] = 0
                               \/ UNCHANGED <<spot[u], item[u], before[u], op[u]>>
  PROVE  /\ PlacesOK' /\ ClearedOK' /\ RestoreOK'
         /\ Queued' = Queued /\ \A x : x \in Placed' => x \in Placed
<1> USE DEF Shapes, Moving
<1>1. Queued' = Queued /\ queue' = queue /\ clean' = clean /\ touched' = touched
  BY DEF Queued, waiting
<1>2. \A u \in Threads : \A x : x \in Out(u)' => x \in Out(u)
  BY DEF Out
<1>3. \A x : x \in Placed' => x \in Placed
  BY <1>1, <1>2 DEF Placed
<1>4. PlacesOK'
  BY <1>1, <1>2, <1>3 DEF PlacesOK
<1>5. ClearedOK'
  <2>1. AllEntries' = AllEntries
    BY DEF AllEntries
  <2>2. Nothing \notin cleared
    BY Entries DEF ClearedOK
  <2>3. QED
    BY <1>1, <2>1, <2>2 DEF ClearedOK, ClearWins
<1>6. RestoreOK'
  BY <1>1 DEF RestoreOK, Ordinary
<1>7. QED
  BY <1>1, <1>3, <1>4, <1>5, <1>6

LEMMA SettleStep ==
  ASSUME Shapes, CountOK, Moving, NEW t \in Threads, Settle(t)
  PROVE  Moving'
<1> USE DEF Shapes, Moving
<1>0. /\ pc \in [Threads -> Steps] /\ op \in [Threads -> Requests]
      /\ spot \in [Threads -> Nat] /\ DOMAIN held = Threads /\ DOMAIN item = Threads
      /\ kept \in [Threads -> 0..interruptions] /\ DOMAIN before = Threads
  BY DEF LocalOK
<1>1. PICK n : n = kept[t]
  OBVIOUS
<1>2. PICK spent : spent = IF Redundant(t) THEN {Head(queue).nth} ELSE {}
  OBVIOUS
<1>3. PICK over : over = (IF n # 0 /\ claims[n] <= 1 THEN {n} ELSE {}) \cup spent
  OBVIOUS
<1>4. /\ pc[t] = "settle"
      /\ \A m \in Interruptions :
            claims'[m] = IF m \in over THEN 0 ELSE IF m = n THEN claims[m] - 1 ELSE claims[m]
      /\ committed' = (IF n # 0 THEN committed \cup {n} ELSE committed) \ over
      /\ accepted' = (IF n # 0 THEN accepted \cup {n} ELSE accepted)
      /\ interruptions' = interruptions /\ cleared' = cleared /\ asked' = asked
  BY <1>1, <1>2, <1>3 DEF Settle, At, bounds
<1>5. /\ \E step \in {"idle", "advance"} : pc' = [pc EXCEPT ![t] = step]
      /\ \A u \in Threads : u # t => UNCHANGED <<op[u], spot[u], item[u], held[u], kept[u], before[u]>>
      /\ held'[t] \in {held[t], Nothing}
      /\ spot'[t] = 0 \/ UNCHANGED <<spot[t], item[t], before[t], op[t]>>
  BY <1>0 DEF Settle, Finish, Goto, Set, local, LocalOK
<1>6. /\ n = Holding(t) /\ Holding(t)' = 0
      /\ \A u \in Threads : u # t => Holding(u)' = Holding(u)
  BY <1>0, <1>1, <1>4, <1>5 DEF Holding, Working
<1>7. CASE Redundant(t)
  <2>1. HeadIsResume /\ Dequeue(t, 1) /\ Lost({Head(queue)}) /\ spent = {Head(queue).nth}
    BY <1>2, <1>7 DEF Settle, Redundant
  <2>2. /\ PlacesOK' /\ ClearedOK' /\ RestoreOK'
        /\ \A x : x \in Queued /\ x # Head(queue) => x \in Queued'
        /\ \A x : x \in Queued' => x \in Queued /\ x.nth # Head(queue).nth
        /\ \A x : x \in Placed' => x \in Placed /\ x.nth # Head(queue).nth
    BY <1>4, <1>5, <2>1, HeadTaken
  <2>3. gone' = gone \cup spent
    BY <2>1 DEF Lost, HeadIsResume, IsResume
  <2>4. /\ \A x : x \in Queued' => x \in Queued /\ x.nth \notin spent
        /\ \A x : x \in Queued /\ x.nth \notin spent => x \in Queued'
        /\ \A x : x \in Placed' => x \in Placed /\ x.nth \notin spent
    BY <2>1, <2>2
  <2>5. Settles(t, n, spent, over)
    BY <1>3, <1>4, <1>6, <2>3, <2>4 DEF Settles
  <2>6. ClaimsOK'
    BY <2>5, SettledClaim
  <2>7. QED
    BY <2>2, <2>6
<1>8. CASE ~Redundant(t)
  <2>1. UNCHANGED waiting /\ gone' = gone /\ spent = {}
    BY <1>2, <1>8 DEF Settle
  <2>2. /\ PlacesOK' /\ ClearedOK' /\ RestoreOK'
        /\ Queued' = Queued /\ \A x : x \in Placed' => x \in Placed
    BY <1>4, <1>5, <2>1, QueueLeft
  <2>3. gone' = gone \cup spent
    BY <2>1
  <2>4. /\ \A x : x \in Queued' => x \in Queued /\ x.nth \notin spent
        /\ \A x : x \in Queued /\ x.nth \notin spent => x \in Queued'
        /\ \A x : x \in Placed' => x \in Placed /\ x.nth \notin spent
    BY <2>1, <2>2
  <2>5. Settles(t, n, spent, over)
    BY <1>3, <1>4, <1>6, <2>3, <2>4 DEF Settles
  <2>6. ClaimsOK'
    BY <2>5, SettledClaim
  <2>7. QED
    BY <2>2, <2>6
<1>9. QED
  BY <1>7, <1>8

LEMMA RollbackStep ==
  ASSUME Shapes, CountOK, Moving, NEW t \in Threads, Rollback(t)
  PROVE  Moving'
<1> USE DEF Shapes, Moving
<1>0. /\ pc \in [Threads -> Steps] /\ op \in [Threads -> Requests]
      /\ spot \in [Threads -> Nat] /\ DOMAIN held = Threads /\ DOMAIN item = Threads
      /\ kept \in [Threads -> 0..interruptions] /\ DOMAIN before = Threads
  BY DEF LocalOK
<1>1. PICK n : n = kept[t]
  OBVIOUS
<1>2. /\ pc[t] = "rollback"
      /\ claims' = [m \in Interruptions |->
                      IF m = n /\ claims[m] > 0 THEN claims[m] - 1 ELSE claims[m]]
      /\ committed' = (IF n # 0 /\ claims[n] <= 1 THEN committed \ {n} ELSE committed)
      /\ UNCHANGED <<accepted, gone, interruptions>> /\ cleared' = cleared /\ asked' = asked
  BY <1>1 DEF Rollback, At, bounds, history
<1>3. /\ \E step \in {"idle", "restore"} : pc' = [pc EXCEPT ![t] = step]
      /\ \A u \in Threads : u # t => UNCHANGED <<op[u], spot[u], item[u], held[u], kept[u], before[u]>>
      /\ held'[t] \in {held[t], Nothing}
      /\ spot'[t] = 0 \/ UNCHANGED <<spot[t], item[t], before[t], op[t]>>
  BY <1>0 DEF Rollback, Finish, Goto, Set, local, LocalOK
<1>4. /\ n = Holding(t) /\ Holding(t)' = 0
      /\ \A u \in Threads : u # t => Holding(u)' = Holding(u)
  BY <1>0, <1>1, <1>2, <1>3 DEF Holding, Working
<1>5. CASE n # 0 /\ claims[n] <= 1 /\ n \notin committed /\ HeadIsResume /\ Head(queue).nth = n
  <2>1. Dequeue(t, 1)
    BY <1>1, <1>5 DEF Rollback
  <2>2. /\ PlacesOK' /\ ClearedOK' /\ RestoreOK'
        /\ \A x : x \in Queued /\ x # Head(queue) => x \in Queued'
        /\ \A x : x \in Placed' => x \in Placed
    BY <1>2, <1>3, <1>5, <2>1, HeadTaken
  <2>3. PICK away : away = {Head(queue)}
    OBVIOUS
  <2>4. \A x \in away : /\ x \in Queued /\ x.nth = n /\ n # 0
                        /\ claims[n] <= 1 /\ n \notin committed
    BY <1>5, <2>3, HeadQueuedEntry
  <2>5. \A x : x \in Queued /\ x \notin away => x \in Queued'
    BY <2>2, <2>3
  <2>6. ClaimsOK'
    BY <1>2, <1>4, <2>2, <2>4, <2>5, DroppedClaim
  <2>7. QED
    BY <2>2, <2>6
<1>6. CASE ~(n # 0 /\ claims[n] <= 1 /\ n \notin committed /\ HeadIsResume /\ Head(queue).nth = n)
  <2>1. UNCHANGED waiting
    BY <1>1, <1>6 DEF Rollback
  <2>2. /\ PlacesOK' /\ ClearedOK' /\ RestoreOK'
        /\ Queued' = Queued /\ \A x : x \in Placed' => x \in Placed
    BY <1>2, <1>3, <2>1, QueueLeft
  <2>3. PICK away : away = {}
    OBVIOUS
  <2>4. \A x \in away : /\ x \in Queued /\ x.nth = n /\ n # 0
                        /\ claims[n] <= 1 /\ n \notin committed
    BY <2>3
  <2>5. \A x : x \in Queued /\ x \notin away => x \in Queued'
    BY <2>2
  <2>6. ClaimsOK'
    BY <1>2, <1>4, <2>2, <2>4, <2>5, DroppedClaim
  <2>7. QED
    BY <2>2, <2>6
<1>7. QED
  BY <1>5, <1>6

-----------------------------------------------------------------------------
(* The theorems *)

\* The inductive invariant.
THEOREM Invariance == Spec => []IInv
<1>1. Init => IInv
  <2> SUFFICES ASSUME Init PROVE IInv
    OBVIOUS
  <2> USE DEF Init
  <2>1. Backlog \in Nat /\ MaxStarts \in Nat
    BY BoundAssumption
  <2>2. /\ queue \in Seq(AllEntries) /\ IsInjective(queue)
        /\ \A e \in Queued : e \in AllEntries /\ e.nth = 0
    <3>1. /\ queue = [i \in 1..Backlog |-> Entry(i + 1)]
          /\ \A i \in 1..Backlog : Entry(i + 1) \in AllEntries
      BY <2>1 DEF AllEntries, Entry
    <3>2. queue \in Seq(AllEntries) /\ Len(queue) = Backlog
      BY <2>1, <3>1
    <3>3. IsInjective(queue)
      BY <2>1, <3>1, <3>2 DEF IsInjective, Entry
    <3>4. \A e \in Queued : e \in AllEntries /\ e.nth = 0
      BY <3>1, <3>2 DEF Queued, ToSet, Entry
    <3>5. QED
      BY <3>2, <3>3, <3>4
  <2>3. FlagsOK
    BY DEF FlagsOK
  <2>4. ShapeOK /\ LocalOK /\ FlowOK
    BY <2>1, <2>2, ThreadAssumption DEF ShapeOK, LocalOK, FlowOK, Steps, Requests, Working
  <2>5. CountOK
    <3>1. Interrupting = {}
      BY DEF Interrupting
    <3>2. QED
      BY <2>1, <3>1, FS_EmptySet DEF CountOK
  <2>6. \A t \in Threads : Out(t) = {} /\ Holding(t) = 0
    BY DEF Out, Holding, Working
  <2>7. Placed = Queued
    BY <2>6 DEF Placed
  <2>8. PlacesOK
    BY <2>2, <2>6, <2>7 DEF PlacesOK
  <2>9. ClaimsOK
    <3>1. \A n \in Interruptions : claims[n] <= Cardinality(Holders(n))
      BY HoldersFinite
    <3>2. QED
      BY <2>2, <2>6, <2>7, <3>1 DEF ClaimsOK, InterruptedIsKept
  <2>10. ClearedOK /\ RestoreOK
    BY DEF ClearedOK, ClearWins, RestoreOK
  <2>11. QED
    BY <2>3, <2>4, <2>5, <2>8, <2>9, <2>10 DEF IInv
<1>2. IInv /\ [Next]_vars => IInv'
  <2> SUFFICES ASSUME IInv, [Next]_vars PROVE IInv'
    OBVIOUS
  <2> USE DEF IInv, Shapes, Moving
  <2>1. CASE UNCHANGED vars
    <3> USE <2>1 DEF vars, waiting, resume, playback, local, bounds, history
    <3>1. Queued' = Queued /\ AllEntries' = AllEntries /\ Interrupting' = Interrupting
      BY DEF Queued, AllEntries, Interrupting, Working
    <3>2. \A t \in Threads : Out(t)' = Out(t) /\ Holding(t)' = Holding(t)
      BY DEF Out, Holding, Working
    <3>3. Placed' = Placed /\ \A n : Holders(n)' = Holders(n)
      BY <3>1, <3>2 DEF Placed, Holders
    <3>4. FlagsOK' /\ ShapeOK' /\ LocalOK' /\ FlowOK'
      BY <3>1 DEF FlagsOK, ShapeOK, LocalOK, FlowOK, Working
    <3>5. CountOK' /\ PlacesOK' /\ ClearedOK' /\ RestoreOK'
      BY <3>1, <3>2, <3>3 DEF CountOK, PlacesOK, ClearedOK, ClearWins, RestoreOK, Ordinary
    <3>6. ClaimsOK'
      BY <3>1, <3>2, <3>3 DEF ClaimsOK, InterruptedIsKept, Queued
    <3>7. QED
      BY <3>4, <3>5, <3>6
  <2>2. CASE Next
    <3>1. FlagsOK' /\ CountOK'
      BY <2>2, FlagsInv, CountInv
    <3>2. ASSUME NEW t \in Threads, Advance(t) PROVE Shapes' /\ Moving'
      <4>1. Shapes'
        BY <3>2, AdvanceShapes
      <4>2. Moving'
        <5>1. CASE \E i \in DOMAIN queue : SeamlessPop(t, i) \/ TrackerPop(t, i)
          BY <5>1, PopSteps
        <5>2. CASE AdvancePop(t)
          <6>1. 1 \in DOMAIN queue
            BY <5>2, HeadFirst DEF AdvancePop
          <6>2. QED
            BY <5>2, <6>1, PopSteps
        <5>3. CASE AdvanceClosed(t) \/ AdvanceFail(t)
          BY <5>3, PutBackSteps
        <5>4. CASE \/ AutoNext(t) \/ SkipToNext(t) \/ AdvanceEnter(t) \/ SeamlessPublish(t)
                   \/ AdvanceEmpty(t) \/ AdvanceSuppressed(t) \/ AdvanceOpen(t)
                   \/ AdvanceClaim(t) \/ AdvanceDone(t) \/ AdvanceSkip(t)
          BY <5>4, QuietSteps, QuietInv
        <5>5. QED
          BY <3>2, <5>1, <5>2, <5>3, <5>4 DEF Advance
      <4>3. QED
        BY <4>1, <4>2
    <3>3. ASSUME NEW t \in Threads, Play(t) PROVE Shapes' /\ Moving'
      <4>1. Shapes'
        BY <3>3, PlayShapes
      <4>2. Moving'
        <5>1. CASE \E i \in DOMAIN queue : QueuePlay(t, i)
          BY <5>1, QueuePlayStep
        <5>2. CASE PreserveShared(t) \/ Preserve(t)
          BY <5>2, PreserveSteps
        <5>3. CASE Settle(t) \/ Rollback(t) \/ Restore(t)
          BY <5>3, SettleStep, RollbackStep, RestoreStep
        <5>4. CASE \/ PlayNow(t) \/ PreserveNothing(t) \/ PreserveCapture(t) \/ PlayClaim(t)
                   \/ PlayStarts(t) \/ PlayFails(t) \/ PlayOvertaken(t) \/ PlayPostLive(t)
          BY <5>4, QuietSteps, QuietInv
        <5>5. QED
          BY <3>3, <5>1, <5>2, <5>3, <5>4 DEF Play
      <4>3. QED
        BY <4>1, <4>2
    <3>4. ASSUME NEW t \in Threads, Close(t) PROVE Shapes' /\ Moving'
      BY <3>4, CloseShapes, QuietSteps, QuietInv
    <3>5. ASSUME Edit \/ MediaEnds \/ NaturalEnd PROVE Shapes' /\ Moving'
      BY <3>5, OtherShapes, EditSteps
    <3>6. QED
      BY <2>2, <3>1, <3>2, <3>3, <3>4, <3>5 DEF Next
  <2>3. QED
    BY <2>1, <2>2
<1>3. QED
  BY <1>1, <1>2, PTL DEF Spec

\* An entry is in one place, in the queue once or with the operation that is starting
\* it, and claims are counted by those who hold them (RemoveAt and InsertAt of the
\* queue against every dequeue that is still being resolved).
THEOREM EntriesInOnePlace == Spec => []OnePlace
<1>1. IInv => OnePlace
  <2> SUFFICES ASSUME IInv PROVE OnePlace
    OBVIOUS
  <2> USE DEF IInv
  <2>1. \A n \in Interruptions : claims[n] <= Cardinality({t \in Threads : kept[t] = n})
    <3>1. ASSUME NEW n \in Interruptions
          PROVE  claims[n] <= Cardinality({t \in Threads : kept[t] = n})
      <4> DEFINE K == {t \in Threads : kept[t] = n}
      <4>1. n # 0 /\ claims[n] \in Nat /\ claims[n] <= Cardinality(Holders(n))
        BY DEF Interruptions, ShapeOK, ClaimsOK
      <4>2. Holders(n) \subseteq K
        BY <4>1 DEF Holders, Holding
      <4>3. IsFiniteSet(K)
        BY ThreadAssumption, FS_Subset
      <4>4. Cardinality(Holders(n)) <= Cardinality(K) /\ Cardinality(K) \in Nat
        BY <4>2, <4>3, FS_Subset, FS_CardinalityType
      <4>5. QED
        BY <4>1, <4>4, HoldersFinite
    <3>2. QED
      BY <3>1
  <2>2. TypeOK
    BY <2>1 DEF TypeOK, FlagsOK, ShapeOK, LocalOK, ClaimsOK
  <2>3. QED
    BY <2>2 DEF OnePlace, PlacesOK, Queued
<1>2. QED
  BY <1>1, Invariance, PTL

\* A Clear wins: what was in the queue, or was being started from it, never comes back
\* (the revision that _restore compares, and the empty hands of everybody else).
THEOREM ClearIsFinal == Spec => []ClearWins
<1>1. IInv => ClearWins
  BY DEF IInv, ClearedOK
<1>2. QED
  BY <1>1, Invariance, PTL

\* What a play-now has interrupted stays in the queue until it is played again or
\* taken away on purpose, whoever else failed to interrupt it (the claims of
\* preserve, settle and rollback).
THEOREM InterruptedStays == Spec => []InterruptedIsKept
<1>1. IInv => InterruptedIsKept
  BY DEF IInv, ClaimsOK
<1>2. QED
  BY <1>1, Invariance, PTL

\* An item of the queue that could not be played is back in it, with all it was with,
\* unless somebody else has changed the queue (queue_play._restore).
THEOREM FailureIsUndone == Spec => FailedPlayRestores
<1> DEFINE Undone ==
      \A t \in Threads :
         At(t, "restore") /\ pc'[t] = "idle" /\ t \notin touched =>
           /\ item[t] \in ToSet(queue')
           /\ op[t] # "play_next" => Ordinary(ToSet(queue')) = before[t]
<1>1. IInv /\ [Next]_vars => [Undone]_vars
  <2> SUFFICES ASSUME IInv, Next, NEW t \in Threads, At(t, "restore"), pc'[t] = "idle",
                      t \notin touched
               PROVE  /\ item[t] \in ToSet(queue')
                      /\ op[t] # "play_next" => Ordinary(ToSet(queue')) = before[t]
    OBVIOUS
  <2> USE DEF IInv
  <2>0. /\ pc \in [Threads -> Steps] /\ spot[t] # 0 /\ item[t] \in AllEntries
        /\ op[t] \in {"queue_play", "play_next"}
    BY DEF LocalOK, FlowOK, At
  <2>1. Restore(t)
    <3> USE <2>0 DEF At, Begin, Goto, Finish
    <3>1. ASSUME NEW u \in Threads, Advance(u) PROVE FALSE
      BY <3>1
         DEF Advance, AutoNext, SkipToNext, AdvanceEnter, SeamlessPop, TrackerPop, SeamlessPublish,
             AdvanceEmpty, AdvanceSuppressed, AdvancePop, AdvanceClosed, AdvanceOpen, AdvanceClaim,
             AdvanceDone, AdvanceSkip, AdvanceFail, PutBack, Claim
    <3>2. ASSUME NEW u \in Threads, Play(u), ~(u = t /\ Restore(t)) PROVE FALSE
      BY <3>2
         DEF Play, QueuePlay, PlayNow, PreserveNothing, PreserveShared, PreserveCapture, Preserve,
             PlayClaim, PlayStarts, PlayFails, PlayOvertaken, PlayPostLive, Settle, Rollback,
             Restore, Claim
    <3>3. ASSUME NEW u \in Threads, Close(u) PROVE FALSE
      BY <3>3 DEF Close, CloseRetire, CloseWrite, CloseTeardown
    <3>4. ASSUME Edit \/ MediaEnds \/ NaturalEnd PROVE FALSE
      BY <3>4 DEF Edit, Clear, AddAt, RemoveOne, MediaEnds, NaturalEnd
    <3>5. QED
      BY <3>1, <3>2, <3>3, <3>4 DEF Next
  <2>2. /\ t \in clean
        /\ op[t] # "play_next" => Ordinary(Queued \cup {item[t]}) = before[t]
    BY <2>0 DEF RestoreOK
  <2>3. \A x : x \in Queued' <=> x = item[t] \/ x \in Queued
    <3> DEFINE i == IF spot[t] <= Len(queue) THEN spot[t] ELSE Len(queue) + 1
    <3>1. i \in 1..(Len(queue) + 1) /\ Enqueue(t, i, item[t])
      BY <2>0, <2>1, <2>2 DEF Restore, ShapeOK, LocalOK
    <3> HIDE DEF i
    <3>2. AllEntries' = AllEntries
      BY <2>1 DEF Restore, AllEntries, resume, bounds
    <3>3. QED
      BY <2>0, <3>1, <3>2, Enqueued
  <2>4. Queued' = Queued \cup {item[t]}
    BY <2>3
  <2>5. QED
    BY <2>2, <2>4 DEF Queued
<1>2. QED
  BY <1>1, Invariance, PTL DEF Spec, FailedPlayRestores

=============================================================================
