------------------------ MODULE PlaylistImportsProofs ------------------------
(***************************************************************************)
(* The safety properties of PlaylistImports, for any number of requests,   *)
(* workers, restarts and edits of other people.                            *)
(***************************************************************************)
EXTENDS PlaylistImports, FiniteSetTheorems, TLAPS

Entries == (Requests \cup {Other}) \X (1..3)

\* A worker before, and after, its import is committed to the queue; and while the
\* start of its first video may still fail.
Before == {"extracting", "capturing", "staging", "failing"}
Pending == {"starting", "loading", "undoing"}
After == Pending \cup {"playing", "reporting"}

Finite == IsFiniteSet(Workers) /\ IsFiniteSet(Jobs)

\* An intent belongs to one job, which owns playback while the intent is the
\* newest; and it is only loaded after the commit.
IntentsOK ==
    \A r \in Requests : intent[r] # 0 =>
      /\ \A q \in Requests : intent[q] = intent[r] => q = r
      /\ intent[r] = generation => live = r
      /\ intent[r] = loading => worker[r] \notin Before

\* The public status of a job against what its thread does next, and the number of
\* its commits.
ProgressOK ==
    /\ imports \in [Requests -> {0, 1}]
    /\ \A r \in Requests :
         /\ worker[r] \in Before \/ status[r] = "none" => imports[r] = 0
         /\ status[r] = "none" => worker[r] = "none"
         /\ status[r] = "loading" => worker[r] \in Before
         /\ status[r] = "adding" <=> worker[r] \in After /\ status[r] # "cancelled"
         /\ worker[r] \in After => imports[r] = 1 /\ status[r] \in {"adding", "cancelled"}
         /\ status[r] \in Busy => ~stopping /\ era[r] = service

PromisedOK ==
    /\ promised \subseteq Requests
    /\ \A r \in promised : imports[r] = 0 /\ status[r] = "cancelled"

ClearedOK ==
    /\ cleared \subseteq Requests
    /\ \A r \in cleared : mark[r] < revision /\ status[r] \notin {"none", "loading"}
    /\ \A r \in cleared : \A k \in 1..3 : ~Queued(<<r, k>>)

\* Which entries of a job are in the queue: none before its commit, and neither
\* its first video nor a resume entry it has no use for.
EntriesOK ==
    /\ PlaylistOrder
    /\ \A k \in 2..3 : ~Queued(<<Other, k>>)
    /\ \A r \in Requests :
         /\ imports[r] = 0 => \A k \in 1..3 : ~Queued(<<r, k>>)
         /\ worker[r] \in Pending => ~Queued(<<r, 1>>)
         /\ Queued(<<r, 3>>) => r \in begun \/ (kept[r] /\ worker[r] \in Pending)

\* What a job has staged is still there unless somebody else edited the queue.
RetainedOK ==
    \A r \in Requests :
      /\ worker[r] = "playing" => r \in begun
      /\ r \notin edited /\ worker[r] \in Pending => revision = mark[r] /\ Queued(<<r, 2>>)
      /\ r \notin edited \cup begun /\ outcome[r] # "queued"
         /\ (status[r] = "completed" \/ (status[r] = "adding" /\ worker[r] = "reporting"))
           => Queued(<<r, 1>>) /\ Queued(<<r, 2>>)

IInv ==
    /\ TypeOK /\ Finite /\ IntentsOK /\ ProgressOK /\ PromisedOK /\ ClearedOK /\ EntriesOK
    /\ RetainedOK

-----------------------------------------------------------------------------
(* Sequences of entries *)

Ordered(s) ==
    \A i, k \in 1..Len(s) : i < k /\ s[i][1] = s[k][1] => s[i][2] < s[k][2]

LEMMA InRange ==
  ASSUME NEW s \in Seq(Entries), NEW e
  PROVE  e \in Range(s) <=> \E i \in 1..Len(s) : s[i] = e
BY DEF Range

LEMMA Joined ==
  ASSUME NEW s \in Seq(Entries), NEW t \in Seq(Entries), Ordered(s), Ordered(t),
         \A a \in Range(s), b \in Range(t) : a[1] = b[1] => a[2] < b[2]
  PROVE  /\ s \o t \in Seq(Entries)
         /\ Range(s \o t) = Range(s) \cup Range(t)
         /\ Ordered(s \o t)
<1>1. s \o t \in Seq(Entries)
  OBVIOUS
<1>2. Len(s \o t) = Len(s) + Len(t)
  OBVIOUS
<1>3. \A i \in 1..Len(s \o t) :
        (s \o t)[i] = IF i <= Len(s) THEN s[i] ELSE t[i - Len(s)]
  OBVIOUS
<1>4. \A i \in 1..Len(t) : i + Len(s) \in 1..Len(s \o t) /\ (s \o t)[i + Len(s)] = t[i]
  OBVIOUS
<1>5. \A e : e \in Range(s \o t) <=> e \in Range(s) \/ e \in Range(t)
  <2>1. ASSUME NEW e, e \in Range(s \o t) PROVE e \in Range(s) \/ e \in Range(t)
    <3>1. PICK i \in 1..Len(s \o t) : (s \o t)[i] = e
      BY <1>1, <2>1, InRange
    <3>2. CASE i <= Len(s)
      BY <1>3, <3>1, <3>2, InRange
    <3>3. CASE i > Len(s)
      <4>1. i - Len(s) \in 1..Len(t) /\ t[i - Len(s)] = e
        BY <1>2, <1>3, <3>1, <3>3
      <4>2. QED
        BY <4>1, InRange
    <3>4. QED
      BY <3>2, <3>3
  <2>2. ASSUME NEW e, e \in Range(s) PROVE e \in Range(s \o t)
    <3>1. PICK i \in 1..Len(s) : s[i] = e
      BY <2>2, InRange
    <3>2. i \in 1..Len(s \o t) /\ (s \o t)[i] = e
      BY <1>2, <1>3, <3>1
    <3>3. QED
      BY <1>1, <3>2, InRange
  <2>3. ASSUME NEW e, e \in Range(t) PROVE e \in Range(s \o t)
    <3>1. PICK i \in 1..Len(t) : t[i] = e
      BY <2>3, InRange
    <3>2. i + Len(s) \in 1..Len(s \o t) /\ (s \o t)[i + Len(s)] = e
      BY <1>4, <3>1
    <3>3. QED
      BY <1>1, <3>2, InRange
  <2>4. QED
    BY <2>1, <2>2, <2>3
<1>6. ASSUME NEW i \in 1..Len(s \o t), NEW k \in 1..Len(s \o t), i < k,
             (s \o t)[i][1] = (s \o t)[k][1]
      PROVE  (s \o t)[i][2] < (s \o t)[k][2]
  <2>1. CASE k <= Len(s)
    BY <1>2, <1>3, <1>6, <2>1 DEF Ordered
  <2>2. CASE i > Len(s)
    <3>1. i - Len(s) \in 1..Len(t) /\ k - Len(s) \in 1..Len(t) /\ i - Len(s) < k - Len(s)
      BY <1>2, <1>6, <2>2
    <3>2. (s \o t)[i] = t[i - Len(s)] /\ (s \o t)[k] = t[k - Len(s)]
      BY <1>3, <1>6, <2>2
    <3>3. QED
      BY <1>6, <3>1, <3>2 DEF Ordered
  <2>3. CASE i <= Len(s) /\ k > Len(s)
    <3>1. i \in 1..Len(s) /\ k - Len(s) \in 1..Len(t)
      BY <1>2, <2>3
    <3>2. s[i] \in Range(s) /\ t[k - Len(s)] \in Range(t)
      BY <3>1, InRange
    <3>3. (s \o t)[i] = s[i] /\ (s \o t)[k] = t[k - Len(s)]
      BY <1>3, <1>6, <2>3
    <3>4. QED
      BY <1>6, <3>2, <3>3
  <2>4. QED
    BY <1>6, <2>1, <2>2, <2>3
<1>7. QED
  BY <1>1, <1>5, <1>6 DEF Ordered

LEMMA Shortened ==
  ASSUME NEW s \in Seq(Entries), s # <<>>, Ordered(s)
  PROVE  Tail(s) \in Seq(Entries) /\ Range(Tail(s)) \subseteq Range(s) /\ Ordered(Tail(s))
<1>1. Tail(s) \in Seq(Entries) /\ Len(Tail(s)) = Len(s) - 1
      /\ \A i \in 1..(Len(s) - 1) : Tail(s)[i] = s[i + 1]
  OBVIOUS
<1>2. Range(Tail(s)) \subseteq Range(s)
  <2>1. ASSUME NEW e, e \in Range(Tail(s)) PROVE e \in Range(s)
    <3>1. PICK i \in 1..Len(Tail(s)) : Tail(s)[i] = e
      BY <1>1, <2>1, InRange
    <3>2. i + 1 \in 1..Len(s) /\ s[i + 1] = e
      BY <1>1, <3>1
    <3>3. QED
      BY <3>2, InRange
  <2>2. QED
    BY <2>1
<1>3. Ordered(Tail(s))
  BY <1>1 DEF Ordered
<1>4. QED
  BY <1>1, <1>2, <1>3

LEMMA Without ==
  ASSUME NEW s \in Seq(Entries), NEW j \in 1..Len(s), Ordered(s)
  PROVE  /\ RemoveAt(s, j) \in Seq(Entries)
         /\ Range(RemoveAt(s, j)) = Range(s) \ {s[j]}
         /\ Ordered(RemoveAt(s, j))
<1> DEFINE w == RemoveAt(s, j)
<1>1. /\ w \in Seq(Entries) /\ Len(w) = Len(s) - 1
      /\ \A i \in 1..(Len(s) - 1) : w[i] = IF i < j THEN s[i] ELSE s[i + 1]
  <2> DEFINE a == SubSeq(s, 1, j - 1)
             b == SubSeq(s, j + 1, Len(s))
  <2>1. a \in Seq(Entries) /\ Len(a) = j - 1 /\ \A i \in 1..(j - 1) : a[i] = s[i]
    OBVIOUS
  <2>2. /\ b \in Seq(Entries) /\ Len(b) = Len(s) - j
        /\ \A i \in 1..(Len(s) - j) : b[i] = s[i + j]
    OBVIOUS
  <2>3. w = a \o b
    BY DEF RemoveAt
  <2> HIDE DEF a, b, w
  <2>4. w \in Seq(Entries) /\ Len(w) = Len(s) - 1
    BY <2>1, <2>2, <2>3
  <2>5. ASSUME NEW i \in 1..(Len(s) - 1), i < j PROVE w[i] = s[i]
    BY <2>1, <2>2, <2>3, <2>5
  <2>6. ASSUME NEW i \in 1..(Len(s) - 1), i >= j PROVE w[i] = s[i + 1]
    <3>1. w[i] = b[i - (j - 1)]
      BY <2>1, <2>2, <2>3, <2>6
    <3>2. i - (j - 1) \in 1..(Len(s) - j) /\ i - (j - 1) + j = i + 1
      BY <2>6
    <3>3. QED
      BY <2>2, <3>1, <3>2
  <2>7. QED
    BY <2>4, <2>5, <2>6
<1> HIDE DEF w
<1>2. \A i, k \in 1..Len(s) : i # k => s[i] # s[k]
  <2>1. \A i \in 1..Len(s) : s[i] \in Entries
    OBVIOUS
  <2>2. QED
    BY SMTT(30), <2>1 DEF Ordered, Entries
<1>3. \A e : e \in Range(w) => e \in Range(s) /\ e # s[j]
  BY <1>1, <1>2, InRange
<1>4. ASSUME NEW e, e \in Range(s), e # s[j] PROVE e \in Range(w)
  <2>1. PICK i \in 1..Len(s) : s[i] = e /\ i # j
    BY <1>4, InRange
  <2>2. CASE i < j
    BY <1>1, <2>1, <2>2, InRange
  <2>3. CASE i > j
    <3>1. i - 1 \in 1..(Len(s) - 1) /\ w[i - 1] = s[i]
      BY <1>1, <2>1, <2>3
    <3>2. QED
      BY <1>1, <2>1, <3>1, InRange
  <2>4. QED
    BY <2>1, <2>2, <2>3
<1>5. Ordered(w)
  <2>1. ASSUME NEW i \in 1..Len(w), NEW k \in 1..Len(w), i < k, w[i][1] = w[k][1]
        PROVE  w[i][2] < w[k][2]
    <3>1. PICK m \in 1..Len(s) : w[i] = s[m] /\ m = IF i < j THEN i ELSE i + 1
      BY <1>1, <2>1
    <3>2. PICK n \in 1..Len(s) : w[k] = s[n] /\ n = IF k < j THEN k ELSE k + 1
      BY <1>1, <2>1
    <3>3. m < n
      BY <2>1, <3>1, <3>2
    <3>4. QED
      BY <2>1, <3>1, <3>2, <3>3 DEF Ordered
  <2>2. QED
    BY <2>1 DEF Ordered
<1>6. QED
  BY <1>1, <1>3, <1>4, <1>5 DEF w

LEMMA Few ==
  /\ <<>> \in Seq(Entries) /\ Ordered(<<>>) /\ Range(<<>>) = {}
  /\ \A e \in Entries : <<e>> \in Seq(Entries) /\ Ordered(<<e>>) /\ Range(<<e>>) = {e}
<1>1. <<>> \in Seq(Entries) /\ Len(<<>>) = 0
  OBVIOUS
<1>2. Range(<<>>) = {}
  BY DEF Range
<1>3. ASSUME NEW e \in Entries PROVE <<e>> \in Seq(Entries) /\ Ordered(<<e>>) /\ Range(<<e>>) = {e}
  <2>1. <<e>> \in Seq(Entries) /\ Len(<<e>>) = 1 /\ <<e>>[1] = e
    OBVIOUS
  <2>2. Range(<<e>>) = {e}
    BY DEF Range
  <2>3. QED
    BY <2>1, <2>2 DEF Ordered
<1>4. QED
  BY <1>1, <1>2, <1>3 DEF Ordered

LEMMA Pair ==
  ASSUME NEW r \in Requests, NEW i \in 1..3, NEW k \in 1..3, i < k
  PROVE  /\ <<<<r, i>>>> \o <<<<r, k>>>> \in Seq(Entries)
         /\ Ordered(<<<<r, i>>>> \o <<<<r, k>>>>)
         /\ Range(<<<<r, i>>>> \o <<<<r, k>>>>) = {<<r, i>>} \cup {<<r, k>>}
<1> DEFINE s == <<<<r, i>>>>
           t == <<<<r, k>>>>
<1>1. /\ s \in Seq(Entries) /\ Ordered(s) /\ Range(s) = {<<r, i>>}
      /\ t \in Seq(Entries) /\ Ordered(t) /\ Range(t) = {<<r, k>>}
  <2>1. <<r, i>> \in Entries /\ <<r, k>> \in Entries
    BY DEF Entries
  <2>2. QED
    BY <2>1, Few, Zenon
<1> HIDE DEF s, t
<1>2. s \o t \in Seq(Entries) /\ Range(s \o t) = {<<r, i>>} \cup {<<r, k>>} /\ Ordered(s \o t)
  BY <1>1, Joined
<1>3. QED
  BY <1>2 DEF s, t

\* What stage_playlist makes of the queue.
LEMMA StagedOK ==
  ASSUME NEW r \in Requests, queue \in Seq(Entries), Ordered(queue),
         \A k \in 1..3 : <<r, k>> \notin Range(queue)
  PROVE  /\ Staged(r) \in Seq(Entries) /\ Ordered(Staged(r))
         /\ Range(queue) \subseteq Range(Staged(r)) /\ <<r, 2>> \in Range(Staged(r))
         /\ \A e \in Range(Staged(r)) : \/ e \in Range(queue) \/ e = <<r, 2>>
                                        \/ e = <<r, 1>> /\ intent[r] = 0
                                        \/ e = <<r, 3>> /\ kept[r] /\ intent[r] # 0
         /\ intent[r] = 0 => <<r, 1>> \in Range(Staged(r))
<1>1. {<<r, 1>>, <<r, 2>>, <<r, 3>>} \subseteq Entries
  BY DEF Entries
<1>2. \A a \in Range(queue) : a[1] # r
  <2>1. \A a \in Range(queue) : a[2] \in 1..3 /\ a = <<a[1], a[2]>>
    BY InRange DEF Entries
  <2>2. QED
    BY <2>1
<1>3. Tail(Videos(r)) = <<<<r, 2>>>> /\ Videos(r) = <<<<r, 1>>>> \o <<<<r, 2>>>>
  BY <1>1 DEF Videos
<1>4. CASE intent[r] = 0
  <2>1. /\ Videos(r) \in Seq(Entries) /\ Ordered(Videos(r))
        /\ Range(Videos(r)) = {<<r, 1>>} \cup {<<r, 2>>}
    <3>1. 1 \in 1..3 /\ 2 \in 1..3 /\ 1 < 2
      OBVIOUS
    <3>2. /\ <<<<r, 1>>>> \o <<<<r, 2>>>> \in Seq(Entries)
          /\ Ordered(<<<<r, 1>>>> \o <<<<r, 2>>>>)
          /\ Range(<<<<r, 1>>>> \o <<<<r, 2>>>>) = {<<r, 1>>} \cup {<<r, 2>>}
      BY <3>1, Pair
    <3>3. QED
      BY <1>3, <3>2
  <2>2. /\ queue \o Videos(r) \in Seq(Entries) /\ Ordered(queue \o Videos(r))
        /\ Range(queue \o Videos(r)) = Range(queue) \cup Range(Videos(r))
    BY <1>2, <2>1, Joined
  <2>3. QED
    BY <1>4, <2>1, <2>2 DEF Staged
<1>5. CASE intent[r] # 0
  <2> DEFINE front == <<<<r, 2>>>> \o Resume(r)
  <2>1. /\ Resume(r) \in Seq(Entries) /\ Ordered(Resume(r))
        /\ Range(Resume(r)) = IF kept[r] THEN {<<r, 3>>} ELSE {}
    <3>1. CASE kept[r]
      <4>1. Resume(r) = <<<<r, 3>>>>
        BY <3>1 DEF Resume
      <4>2. QED
        BY <1>1, <3>1, <4>1, Few, Zenon
    <3>2. CASE ~kept[r]
      BY <3>2, Few, Zenon DEF Resume
    <3>3. QED
      BY <3>1, <3>2
  <2>2. /\ front \in Seq(Entries) /\ Ordered(front)
        /\ Range(front) = {<<r, 2>>} \cup Range(Resume(r))
    <3>1. CASE kept[r]
      <4>1. Resume(r) = <<<<r, 3>>>>
        BY <3>1 DEF Resume
      <4>2. QED
        <5>1. 2 \in 1..3 /\ 3 \in 1..3 /\ 2 < 3
          OBVIOUS
        <5>2. Range(Resume(r)) = {<<r, 3>>}
          BY <2>1, <3>1
        <5>3. QED
          <6>1. /\ <<<<r, 2>>>> \o <<<<r, 3>>>> \in Seq(Entries)
                /\ Ordered(<<<<r, 2>>>> \o <<<<r, 3>>>>)
                /\ Range(<<<<r, 2>>>> \o <<<<r, 3>>>>) = {<<r, 2>>} \cup {<<r, 3>>}
            BY <5>1, Pair
          <6>2. QED
            BY <4>1, <5>2, <6>1
    <3>2. CASE ~kept[r]
      <4>1. front = <<<<r, 2>>>>
        BY <1>1, <3>2, Few DEF Resume
      <4>2. Range(Resume(r)) = {}
        BY <2>1, <3>2
      <4>3. {<<r, 2>>} \cup {} = {<<r, 2>>}
        OBVIOUS
      <4>4. QED
        BY <1>1, <4>1, <4>2, <4>3, Few, Zenon
    <3>3. QED
      BY <3>1, <3>2
  <2> HIDE DEF front
  <2>3. \A a \in Range(front) : a[1] = r
    BY <2>1, <2>2
  <2>4. /\ front \o queue \in Seq(Entries) /\ Ordered(front \o queue)
        /\ Range(front \o queue) = Range(front) \cup Range(queue)
    BY <1>2, <2>2, <2>3, Joined
  <2>5. Staged(r) = front \o queue
    BY <1>3, <1>5 DEF Staged, front
  <2>6. QED
    BY <1>5, <2>1, <2>2, <2>4, <2>5
<1>6. QED
  BY <1>4, <1>5

\* What a failed start makes of it.
LEMMA UndoneOK ==
  ASSUME NEW r \in Requests, queue \in Seq(Entries), Ordered(queue),
         <<r, 1>> \notin Range(queue)
  PROVE  /\ Undone(r) \in Seq(Entries) /\ Ordered(Undone(r))
         /\ Range(Undone(r)) = (Range(queue) \ {<<r, 3>>})
                               \cup (IF Returns(r) THEN {<<r, 1>>} ELSE {})
<1>1. /\ Dropped(r) \in Seq(Entries) /\ Ordered(Dropped(r))
      /\ Range(Dropped(r)) = Range(queue) \ {<<r, 3>>}
  <2>1. CASE Queued(<<r, 3>>)
    <3> DEFINE j == CHOOSE i \in DOMAIN queue : queue[i] = <<r, 3>>
    <3>1. j \in 1..Len(queue) /\ queue[j] = <<r, 3>>
      BY <2>1, InRange DEF Queued
    <3> HIDE DEF j
    <3>2. Dropped(r) = RemoveAt(queue, j)
      BY <2>1 DEF Dropped, j
    <3>3. QED
      BY <3>1, <3>2, Without
  <2>2. CASE ~Queued(<<r, 3>>)
    BY <2>2 DEF Dropped, Queued
  <2>3. QED
    BY <2>1, <2>2
<1>2. <<r, 1>> \in Entries
  BY DEF Entries
<1>3. /\ First(r) \in Seq(Entries) /\ Ordered(First(r))
      /\ Range(First(r)) = IF Returns(r) THEN {<<r, 1>>} ELSE {}
  BY <1>2, Few DEF First
<1>4. \A a \in Range(First(r)), b \in Range(Dropped(r)) : a[1] = b[1] => a[2] < b[2]
  <2>1. \A b \in Range(Dropped(r)) : b \in Entries /\ b # <<r, 1>>
    BY SMTT(30), <1>1, InRange
  <2>2. \A a \in Range(First(r)) : a = <<r, 1>>
    BY <1>3
  <2>3. QED
    BY <2>1, <2>2 DEF Entries
<1>5. QED
  BY <1>1, <1>3, <1>4, Joined DEF Undone

-----------------------------------------------------------------------------
(* The inductive invariant *)

LEMMA InitInv == Init => IInv
<1> SUFFICES ASSUME Init PROVE IInv
  OBVIOUS
<1> USE NameAssumption, BoundAssumption DEF Init
<1>1. FlagsOK
  BY Zenon DEF FlagsOK
<1>2. JobsOK /\ SharedOK
  BY DEF JobsOK, SharedOK, Busy
<1>3. LimitsOK /\ Finite
  <2>1. Workers = {} /\ Jobs = {}
    BY DEF Workers, Jobs
  <2>2. QED
    BY <2>1, FS_EmptySet DEF LimitsOK, Finite
<1>4. IntentsOK /\ ProgressOK /\ PromisedOK
  BY DEF IntentsOK, ProgressOK, PromisedOK, Before, After, Pending, Busy
<1>5. ClearedOK /\ EntriesOK /\ RetainedOK
  BY DEF ClearedOK, EntriesOK, RetainedOK, PlaylistOrder, Pending, Queued, Range
<1>6. QED
  BY <1>1, <1>2, <1>3, <1>4, <1>5 DEF IInv, TypeOK

\* The flags stay flags, whatever the rest of the state.
LEMMA FlagsInv == ASSUME FlagsOK, [Next]_vars PROVE FlagsOK'
<1> USE DEF FlagsOK, job, playback, pending, life, history
<1>1. CASE Command \/ Edit \/ Stop \/ Start \/ Clear
  BY <1>1, Zenon DEF Command, Edit, Stop, Start, Clear
<1>2. ASSUME NEW r \in Requests, Ask(r) PROVE FlagsOK'
  BY <1>2, Zenon DEF Ask, Submit, Accept, SubmitFails, Cancel
<1>3. ASSUME NEW r \in Requests, Work(r) PROVE FlagsOK'
  <2>1. CASE Capture(r)
    BY <2>1, Zenon DEF Capture
  <2>2. CASE ~Capture(r)
    BY <1>3, <2>2, Zenon DEF Work, Extract, Stage, BeginLoad, Load, Play, Undo, Report, Fail, Leave
  <2>3. QED
    BY <2>1, <2>2
<1>4. CASE UNCHANGED vars
  BY <1>4, Zenon DEF vars
<1>5. QED
  BY <1>1, <1>2, <1>3, <1>4 DEF Next

\* A job takes its slot when it is accepted, and its thread returns it.
LEMMA LimitsInv == ASSUME JobsOK, ProgressOK, LimitsOK, Finite, Next PROVE LimitsOK' /\ Finite'
<1> USE DEF job, playback, pending, life, history, JobsOK, Step, Give
<1>1. ASSUME NEW r \in Requests, Submit(r) PROVE LimitsOK' /\ Finite'
  <2>1. Workers' = Workers \cup {r} /\ Jobs' = Jobs \cup {r}
    BY <1>1 DEF Submit, Accept, Workers, Jobs
  <2>2. IsFiniteSet(Workers') /\ IsFiniteSet(Jobs')
        /\ Cardinality(Workers') <= Cardinality(Workers) + 1 /\ Cardinality(Workers) \in Nat
    <3>1. Cardinality(Workers) \in Nat
      BY FS_CardinalityType DEF Finite
    <3>2. /\ IsFiniteSet(Workers \cup {r}) /\ IsFiniteSet(Jobs \cup {r})
          /\ Cardinality(Workers \cup {r})
               = IF r \in Workers THEN Cardinality(Workers) ELSE Cardinality(Workers) + 1
      BY FS_AddElement DEF Finite
    <3>3. QED
      BY <2>1, <3>1, <3>2
  <2>3. Cardinality(Workers) < MaxWorkers /\ Cardinality(Jobs') <= MaxJobs
    BY <1>1, <2>1 DEF Submit, Accept
  <2>4. QED
    BY <2>2, <2>3, BoundAssumption, FS_CardinalityType DEF Finite, LimitsOK
<1>2. CASE ~\E r \in Requests : Submit(r)
  <2>1. \A r \in Requests : /\ status'[r] = "none" <=> status[r] = "none"
                            /\ worker[r] = "none" => worker'[r] = "none"
    <3>1. CASE Command \/ Edit \/ Start
      BY <3>1 DEF Command, Edit, Start
    <3>2. CASE Stop \/ Clear
      BY <3>2 DEF Stop, Clear, Active, Busy
    <3>3. ASSUME NEW r \in Requests, Ask(r) PROVE <2>1!:
      BY <1>2, <3>3 DEF Ask, SubmitFails, Cancel
    <3>4. ASSUME NEW r \in Requests, Work(r) PROVE <2>1!:
      <4>1. CASE Stage(r)
        BY <4>1 DEF Stage, Commit
      <4>2. CASE BeginLoad(r) \/ Load(r) \/ Play(r) \/ Undo(r)
        BY <4>2 DEF BeginLoad, Load, Play, Undo
      <4>3. CASE Extract(r) \/ Capture(r) \/ Leave(r)
        BY <4>3 DEF Extract, Capture, Leave
      <4>4. CASE Report(r) \/ Fail(r)
        BY <4>4 DEF Report, Fail, ProgressOK
      <4>5. QED
        BY <3>4, <4>1, <4>2, <4>3, <4>4 DEF Work
    <3>5. QED
      BY <3>1, <3>2, <3>3, <3>4 DEF Next
  <2>2. Jobs' = Jobs /\ Workers' \subseteq Workers
    BY <2>1 DEF Jobs, Workers
  <2>3. IsFiniteSet(Workers') /\ Cardinality(Workers') <= Cardinality(Workers)
    BY <2>2, FS_Subset DEF Finite
  <2>4. QED
    BY <2>2, <2>3, BoundAssumption, FS_CardinalityType DEF Finite, LimitsOK
<1>3. QED
  BY <1>1, <1>2

\* A step that leaves the queue alone.
LEMMA QueueKept ==
  ASSUME EntriesOK, UNCHANGED <<queue, imports>>, begun \subseteq begun',
         \A r \in Requests : worker'[r] \in Pending => worker[r] \in Pending,
         \A r \in Requests : kept[r] /\ worker[r] \in Pending =>
           r \in begun' \/ (kept'[r] /\ worker'[r] \in Pending)
  PROVE  EntriesOK'
<1>1. PlaylistOrder'
  BY DEF EntriesOK, PlaylistOrder
<1>2. QED
  BY <1>1 DEF EntriesOK, Queued

\* retire_playlist_action, and what it leaves of the intents.
LEMMA Retiring ==
  ASSUME JobsOK, SharedOK, IntentsOK, NEW doomed, doomed \subseteq Requests, NEW b, Retire(doomed, b),
         UNCHANGED <<intent, loading>>,
         \A r \in Requests : worker'[r] \in Before => worker[r] \in Before
  PROVE  /\ generation' \in Nat /\ generation <= generation'
         /\ live' \in Requests \cup {Other, Nobody} /\ loading' \in 0..generation'
         /\ IntentsOK'
<1>1. \/ UNCHANGED <<generation, live>>
      \/ generation' = generation + 1 /\ live' = Nobody
  BY DEF Retire, Claim
<1>2. QED
  BY <1>1 DEF JobsOK, SharedOK, IntentsOK

\* What other clients and the service do.
LEMMA OutsideInv ==
  ASSUME IInv, FlagsOK', LimitsOK', Finite', Command \/ Edit \/ Stop \/ Start \/ Clear
  PROVE  IInv'
<1> USE NameAssumption DEF IInv, TypeOK, job, playback, pending, life, history
<1>1. CASE Command
  <2>1. JobsOK' /\ SharedOK'
    BY <1>1 DEF Command, Claim, JobsOK, SharedOK
  <2>2. IntentsOK' /\ ProgressOK' /\ PromisedOK'
    BY <1>1 DEF Command, Claim, JobsOK, SharedOK, IntentsOK, ProgressOK, PromisedOK
  <2>3. ClearedOK' /\ RetainedOK' /\ EntriesOK'
    BY <1>1, QueueKept DEF Command, ClearedOK, RetainedOK, Queued
  <2>4. QED
    BY <2>1, <2>2, <2>3
<1>2. CASE Edit
  <2>1. /\ queue' \in Seq(Entries) /\ Ordered(queue')
        /\ \A e \in Range(queue') : e \in Range(queue) \/ e = <<Other, 1>>
    <3>1. queue \in Seq(Entries) /\ Ordered(queue)
      BY DEF SharedOK, EntriesOK, PlaylistOrder, Ordered, Entries
    <3>2. CASE queue # <<>> /\ queue' = Tail(queue)
      BY <3>1, <3>2, Shortened
    <3>3. CASE ~Queued(<<Other, 1>>) /\ queue' = Append(queue, <<Other, 1>>)
      <4>1. <<Other, 1>> \in Entries
        BY DEF Entries
      <4>2. queue' = queue \o <<<<Other, 1>>>>
        BY SMTT(30), <3>1, <3>3, <4>1
      <4>3. \A a \in Range(queue) : a[1] # Other
        <5>1. \A a \in Range(queue) : a[2] \in 1..3 /\ a = <<a[1], a[2]>>
          BY <3>1, InRange DEF Entries
        <5>2. \A k \in 1..3 : <<Other, k>> \notin Range(queue)
          <6>1. \A k \in 1..3 : k = 1 \/ k \in 2..3
            OBVIOUS
          <6>2. QED
            BY <3>3, <6>1 DEF EntriesOK, Queued
        <5>3. QED
          BY <5>1, <5>2
      <4>4. /\ <<<<Other, 1>>>> \in Seq(Entries) /\ Ordered(<<<<Other, 1>>>>)
            /\ Range(<<<<Other, 1>>>>) = {<<Other, 1>>}
        BY <4>1, Few, Zenon
      <4>5. /\ queue' \in Seq(Entries) /\ Ordered(queue')
            /\ Range(queue') = Range(queue) \cup Range(<<<<Other, 1>>>>)
        <5>1. \A a \in Range(queue), b \in Range(<<<<Other, 1>>>>) : a[1] # b[1]
          BY <4>3, <4>4
        <5>2. QED
          BY ZenonT(60), <3>1, <4>2, <4>4, <5>1, Joined
      <4>6. QED
        BY <4>4, <4>5
    <3>4. QED
      BY <1>2, <3>2, <3>3 DEF Edit, Rewrite
  <2>2. revision' = revision + 1 /\ edited' = edited \cup Requests
    BY <1>2 DEF Edit, Rewrite
  <2>3. UNCHANGED <<job, playback, life, history>>
    BY <1>2 DEF Edit
  <2>4. JobsOK' /\ SharedOK' /\ IntentsOK' /\ ProgressOK' /\ PromisedOK'
    BY <2>1, <2>2, <2>3 DEF JobsOK, SharedOK, IntentsOK, ProgressOK, PromisedOK, Entries
  <2>5. ClearedOK' /\ RetainedOK'
    BY <2>1, <2>2, <2>3 DEF JobsOK, SharedOK, ClearedOK, RetainedOK, Queued
  <2>6. EntriesOK'
    BY <2>1, <2>2, <2>3 DEF EntriesOK, PlaylistOrder, Ordered, Queued
  <2>7. QED
    BY <2>4, <2>5, <2>6
<1>3. CASE Stop
  <2>1. Active \subseteq Requests /\ \A r \in Requests : r \in Active <=> status[r] \in Busy
    BY DEF Active
  <2>2. /\ generation' \in Nat /\ generation <= generation' /\ loading' \in 0..generation'
        /\ live' \in Requests \cup {Other, Nobody} /\ IntentsOK'
    BY <1>3, <2>1, Retiring DEF Stop
  <2>3. JobsOK' /\ SharedOK'
    BY SMTT(30), <1>3, <2>1, <2>2 DEF Stop, JobsOK, SharedOK
  <2>4. ProgressOK' /\ PromisedOK'
    BY <1>3, <2>1 DEF Stop, JobsOK, ProgressOK, PromisedOK, Busy, After, Pending, Before
  <2>5. ClearedOK' /\ RetainedOK' /\ EntriesOK'
    BY <1>3, <2>1, QueueKept DEF Stop, JobsOK, ClearedOK, RetainedOK, Queued, Busy
  <2>6. QED
    BY <2>2, <2>3, <2>4, <2>5
<1>4. CASE Start
  <2>1. JobsOK' /\ SharedOK' /\ IntentsOK'
    BY <1>4 DEF Start, JobsOK, SharedOK, IntentsOK
  <2>2. ProgressOK' /\ PromisedOK'
    BY <1>4 DEF Start, ProgressOK, PromisedOK
  <2>3. ClearedOK' /\ RetainedOK' /\ EntriesOK'
    BY <1>4, QueueKept DEF Start, ClearedOK, RetainedOK, Queued
  <2>4. QED
    BY <2>1, <2>2, <2>3
<1>5. CASE Clear
  <2> DEFINE doomed == {r \in Active : ~(intent[r] # 0 /\ intent[r] = generation
                                         /\ loading = generation)}
  <2>1. /\ Active \subseteq Requests /\ \A r \in Requests : r \in Active <=> status[r] \in Busy
        /\ doomed \subseteq Active
    BY DEF Active
  <2>2. /\ Retire(doomed, TRUE)
        /\ status' = [r \in Requests |-> IF r \in doomed THEN "cancelled" ELSE status[r]]
    <3>1. doomed = Active \ {r \in Active : intent[r] # 0 /\ intent[r] = generation
                                            /\ loading = generation}
      OBVIOUS
    <3>2. QED
      BY <1>5, <3>1 DEF Clear
  <2>3. \A r \in Requests : status[r] = "loading" => r \in doomed
    BY <2>1 DEF IntentsOK, ProgressOK, Busy
  <2> HIDE DEF doomed
  <2>4. /\ queue' = <<>> /\ revision' = revision + 1 /\ cleared' = cleared \cup Active
        /\ edited' = edited \cup Requests
        /\ UNCHANGED <<worker, intent, era, kept, mark, outcome, loading, life, imports,
                       promised, begun>>
    BY <1>5 DEF Clear, Rewrite
  <2>5. /\ generation' \in Nat /\ generation <= generation' /\ loading' \in 0..generation'
        /\ live' \in Requests \cup {Other, Nobody} /\ IntentsOK'
    BY <2>1, <2>2, <2>4, Retiring
  <2>6. queue' \in Seq(Entries) /\ Ordered(queue') /\ Range(queue') = {}
    BY <2>4, Few
  <2>7. JobsOK' /\ SharedOK'
    BY <2>1, <2>2, <2>4, <2>5, <2>6 DEF JobsOK, SharedOK, Entries
  <2>8. ProgressOK' /\ PromisedOK'
    BY <2>1, <2>2, <2>4 DEF JobsOK, ProgressOK, PromisedOK, Busy, After, Pending, Before
  <2>9. ClearedOK'
    BY <2>1, <2>2, <2>3, <2>4, <2>6 DEF JobsOK, SharedOK, ClearedOK, Queued, Busy
  <2>10. EntriesOK' /\ RetainedOK'
    BY <2>4, <2>6 DEF EntriesOK, RetainedOK, PlaylistOrder, Ordered, Queued
  <2>11. QED
    BY <2>5, <2>7, <2>8, <2>9, <2>10
<1>6. QED
  BY <1>1, <1>2, <1>3, <1>4, <1>5

\* Requests about one job.
LEMMA AskInv ==
  ASSUME IInv, FlagsOK', LimitsOK', Finite', NEW r \in Requests, Ask(r)
  PROVE  IInv'
<1> USE NameAssumption DEF IInv, TypeOK, job, playback, pending, life, history
<1>1. CASE Submit(r)
  <2> USE <1>1 DEF Submit, Accept, Claim
  <2>a. SharedOK'
    BY DEF SharedOK
  <2>b. JobsOK'
    <3>1. /\ generation' \in Nat /\ generation <= generation'
          /\ intent' \in [Requests -> 0..generation']
      <4>1. generation \in Nat /\ intent \in [Requests -> 0..generation]
        BY DEF JobsOK, SharedOK
      <4>2. \/ generation' = generation /\ intent' = [intent EXCEPT ![r] = 0]
            \/ /\ generation' = generation + 1
               /\ intent' = [intent EXCEPT ![r] = generation + 1]
        OBVIOUS
      <4> HIDE <1>1 DEF IInv, Submit, Accept, Claim
      <4>3. QED
        BY <4>1, <4>2
    <3>2. /\ status' = [status EXCEPT ![r] = "loading"]
          /\ worker' = [worker EXCEPT ![r] = "extracting"]
          /\ era' = [era EXCEPT ![r] = service] /\ service \in 0..service
          /\ outcome' = [outcome EXCEPT ![r] = "none"]
          /\ UNCHANGED <<mark, service, revision>>
      BY DEF SharedOK
    <3>3. QED
      BY <3>1, <3>2 DEF JobsOK, Busy
  <2>1. JobsOK' /\ SharedOK'
    BY <2>a, <2>b
  <2>2. IntentsOK'
    BY DEF JobsOK, SharedOK, IntentsOK, ProgressOK, Before
  <2>3. ProgressOK' /\ PromisedOK'
    BY DEF JobsOK, ProgressOK, PromisedOK, Before, After, Pending, Busy
  <2>4. ClearedOK' /\ RetainedOK'
    BY DEF JobsOK, ProgressOK, ClearedOK, RetainedOK, Pending, Queued
  <2>5. EntriesOK'
    BY QueueKept DEF JobsOK, ProgressOK, Pending
  <2>6. QED
    BY <2>1, <2>2, <2>3, <2>4, <2>5
<1>2. CASE SubmitFails(r)
  <2>1. JobsOK' /\ SharedOK'
    BY <1>2 DEF SubmitFails, Claim, JobsOK, SharedOK
  <2>2. IntentsOK' /\ ProgressOK' /\ PromisedOK'
    BY <1>2 DEF SubmitFails, Claim, JobsOK, SharedOK, IntentsOK, ProgressOK, PromisedOK
  <2>3. ClearedOK' /\ RetainedOK' /\ EntriesOK'
    BY <1>2, QueueKept DEF SubmitFails, ClearedOK, RetainedOK, Queued
  <2>4. QED
    BY <2>1, <2>2, <2>3
<1>3. CASE Cancel(r)
  <2>1. /\ generation' \in Nat /\ generation <= generation' /\ loading' \in 0..generation'
        /\ live' \in Requests \cup {Other, Nobody} /\ IntentsOK'
    BY <1>3, Retiring DEF Cancel
  <2>2. JobsOK' /\ SharedOK'
    BY <1>3, <2>1 DEF Cancel, JobsOK, SharedOK
  <2>3. ProgressOK' /\ PromisedOK'
    BY <1>3 DEF Cancel, JobsOK, ProgressOK, PromisedOK, Before, After, Pending, Busy
  <2>4. ClearedOK' /\ RetainedOK' /\ EntriesOK'
    BY <1>3, QueueKept DEF Cancel, JobsOK, ClearedOK, RetainedOK, Queued
  <2>5. QED
    BY <2>1, <2>2, <2>3, <2>4
<1>4. QED
  BY <1>1, <1>2, <1>3 DEF Ask

\* The worker of one job.
LEMMA WorkInv ==
  ASSUME IInv, FlagsOK', LimitsOK', Finite', NEW r \in Requests, Work(r)
  PROVE  IInv'
<1> USE NameAssumption DEF IInv, TypeOK, job, playback, pending, life, history, Step, Give
<1>0. queue \in Seq(Entries) /\ Ordered(queue)
  BY DEF SharedOK, EntriesOK, PlaylistOrder, Ordered, Entries
<1>1. CASE Extract(r)
  <2>1. JobsOK' /\ SharedOK' /\ IntentsOK'
    BY <1>1 DEF Extract, JobsOK, SharedOK, IntentsOK, Before
  <2>2. ProgressOK' /\ PromisedOK' /\ ClearedOK' /\ RetainedOK'
    BY <1>1 DEF Extract, JobsOK, ProgressOK, PromisedOK, ClearedOK, RetainedOK, Queued, Before,
       After, Pending
  <2>3. EntriesOK'
    BY <1>1, QueueKept DEF Extract, JobsOK, Pending
  <2>4. QED
    BY <2>1, <2>2, <2>3
<1>2. CASE Capture(r)
  <2>1. JobsOK' /\ SharedOK' /\ IntentsOK'
    BY <1>2 DEF Capture, JobsOK, SharedOK, IntentsOK, Before
  <2>2. ProgressOK' /\ PromisedOK' /\ ClearedOK' /\ RetainedOK'
    BY <1>2 DEF Capture, JobsOK, ProgressOK, PromisedOK, ClearedOK, RetainedOK, Queued, Before,
       After, Pending
  <2>3. EntriesOK'
    <3>1. \A q \in Requests : q # r => kept'[q] = kept[q]
      BY <1>2 DEF Capture, FlagsOK
    <3>2. QED
      BY <1>2, <3>1, QueueKept DEF Capture, JobsOK, Pending
  <2>4. QED
    BY <2>1, <2>2, <2>3
<1>3. CASE Stage(r)
  <2>1. CASE status[r] = "loading" /\ Commit(r)
    <3> USE <1>3, <2>1 DEF Stage, Commit
    <3>1. /\ Staged(r) \in Seq(Entries) /\ Ordered(Staged(r))
          /\ Range(queue) \subseteq Range(Staged(r)) /\ <<r, 2>> \in Range(Staged(r))
          /\ \A e \in Range(Staged(r)) : \/ e \in Range(queue) \/ e = <<r, 2>>
                                         \/ e = <<r, 1>> /\ intent[r] = 0
                                         \/ e = <<r, 3>> /\ kept[r] /\ intent[r] # 0
          /\ intent[r] = 0 => <<r, 1>> \in Range(Staged(r))
      <4>1. \A k \in 1..3 : <<r, k>> \notin Range(queue)
        BY DEF ProgressOK, EntriesOK, Queued
      <4>2. QED
        BY <1>0, <4>1, StagedOK
    <3>2. /\ status[r] = "loading" /\ worker[r] = "staging" /\ r \notin promised \cup cleared
          /\ imports[r] = 0 /\ ~stopping /\ era[r] = service
      BY DEF ProgressOK, PromisedOK, ClearedOK, Before, Busy
    <3>3. JobsOK' /\ SharedOK' /\ IntentsOK'
      BY <3>1 DEF JobsOK, SharedOK, IntentsOK, Entries, Before, Busy
    <3>4. ProgressOK' /\ PromisedOK'
      BY <3>2 DEF JobsOK, ProgressOK, PromisedOK, Before, After, Pending, Busy
    <3>5. \A q \in Requests, k \in 1..3 : q # r => (<<q, k>> \in Range(queue') <=> <<q, k>> \in Range(queue))
      BY <3>1
    <3>6. ClearedOK'
      <4>1. ASSUME NEW q \in cleared
            PROVE  /\ mark'[q] < revision' /\ status'[q] \notin {"none", "loading"}
                   /\ \A k \in 1..3 : <<q, k>> \notin Range(queue')
        <5>1. q \in Requests /\ q # r /\ mark'[q] = mark[q] /\ status'[q] = status[q]
          BY <3>2 DEF ClearedOK, JobsOK
        <5>2. QED
          BY <3>5, <5>1 DEF ClearedOK, SharedOK, JobsOK, Queued
      <4>2. QED
        BY <4>1 DEF ClearedOK, Queued
    <3>7. RetainedOK'
      <4>1. ASSUME NEW q \in Requests, q # r PROVE RetainedOK!(q)'
        <5>1. /\ worker'[q] = worker[q] /\ status'[q] = status[q] /\ outcome'[q] = outcome[q]
              /\ q \in edited'
          BY <4>1 DEF JobsOK
        <5>2. QED
          BY <5>1 DEF RetainedOK
      <4>2. RetainedOK!(r)'
        BY <3>1 DEF JobsOK, SharedOK, Pending, Queued
      <4>3. QED
        BY <4>1, <4>2 DEF RetainedOK
    <3>8. EntriesOK'
      <4>1. PlaylistOrder'
        BY <3>1 DEF PlaylistOrder, Ordered
      <4>2. \A k \in 2..3 : <<Other, k>> \notin Range(queue')
        BY <3>1 DEF EntriesOK, Queued
      <4>3. ASSUME NEW q \in Requests, q # r PROVE EntriesOK!3!(q)'
        <5>1. worker'[q] = worker[q] /\ imports'[q] = imports[q]
          BY <4>3 DEF JobsOK
        <5>2. QED
          BY <3>5, <4>3, <5>1 DEF EntriesOK, Queued
      <4>4. EntriesOK!3!(r)'
        <5>1. imports'[r] # 0
          BY <3>2 DEF ProgressOK
        <5>2. worker'[r] \in Pending => intent[r] # 0
          BY DEF JobsOK, Pending
        <5>3. intent[r] # 0 => worker'[r] \in Pending
          BY DEF JobsOK, Pending
        <5>4. <<r, 1>> \notin Range(queue) /\ <<r, 3>> \notin Range(queue)
          <6>1. 1 \in 1..3 /\ 3 \in 1..3
            OBVIOUS
          <6>2. QED
            BY <3>2, <6>1 DEF EntriesOK, Queued
        <5>5. QED
          BY <3>1, <5>1, <5>2, <5>3, <5>4 DEF Queued
      <4>5. QED
        BY <4>1, <4>2, <4>3, <4>4 DEF EntriesOK, Queued
    <3>9. QED
      BY <3>3, <3>4, <3>6, <3>7, <3>8
  <2>2. CASE ~(status[r] = "loading" /\ Commit(r))
    <3> USE <1>3, <2>2 DEF Stage, Retired
    <3>1. /\ worker' = [worker EXCEPT ![r] = "leaving"] /\ worker[r] = "staging"
          /\ \/ status[r] # "loading" /\ UNCHANGED <<status, promised>>
             \/ /\ status[r] = "loading" /\ status' = [status EXCEPT ![r] = "cancelled"]
                /\ promised' = promised \cup {r}
          /\ UNCHANGED <<mark, outcome, pending, imports, intent, era, kept, playback, life, cleared,
                         begun>>
      BY DEF ProgressOK, Busy
    <3>2. JobsOK' /\ SharedOK' /\ IntentsOK'
      BY <3>1 DEF JobsOK, SharedOK, IntentsOK, Before
    <3>3. ProgressOK' /\ PromisedOK'
      BY <3>1 DEF JobsOK, ProgressOK, PromisedOK, Before, After, Pending, Busy
    <3>4. ClearedOK' /\ RetainedOK'
      BY <3>1 DEF JobsOK, ClearedOK, RetainedOK, Pending, Queued
    <3>5. EntriesOK'
      BY <3>1, QueueKept DEF JobsOK, Pending
    <3>6. QED
      BY <3>2, <3>3, <3>4, <3>5
  <2>3. QED
    BY <2>1, <2>2
<1>4. CASE BeginLoad(r)
  <2>1. JobsOK' /\ SharedOK'
    <3>1. loading' = intent[r] \/ UNCHANGED loading
      BY <1>4 DEF BeginLoad
    <3>2. loading' \in 0..generation
      BY <3>1 DEF JobsOK, SharedOK
    <3>3. JobsOK'
      BY <1>4 DEF BeginLoad, JobsOK
    <3>4. SharedOK'
      BY <1>4, <3>2 DEF BeginLoad, SharedOK
    <3>5. QED
      BY <3>3, <3>4
  <2>2. IntentsOK' /\ ProgressOK' /\ PromisedOK'
    BY <1>4 DEF BeginLoad, JobsOK, IntentsOK, ProgressOK, PromisedOK, Before, After, Pending
  <2>3. ClearedOK' /\ RetainedOK'
    BY <1>4 DEF BeginLoad, JobsOK, ClearedOK, RetainedOK, ProgressOK, After, Pending, Queued
  <2>4. EntriesOK'
    BY <1>4, QueueKept DEF BeginLoad, JobsOK, Pending
  <2>5. QED
    BY <2>1, <2>2, <2>3, <2>4
<1>5. CASE Load(r)
  <2>1. JobsOK' /\ SharedOK'
    BY <1>5 DEF Load, JobsOK, SharedOK
  <2>2. IntentsOK' /\ ProgressOK' /\ PromisedOK'
    BY <1>5 DEF Load, JobsOK, IntentsOK, ProgressOK, PromisedOK, Before, After, Pending
  <2>3. ClearedOK' /\ RetainedOK'
    BY <1>5 DEF Load, JobsOK, ClearedOK, RetainedOK, ProgressOK, After, Pending, Queued
  <2>4. EntriesOK'
    BY <1>5, QueueKept DEF Load, JobsOK, Pending
  <2>5. QED
    BY <2>1, <2>2, <2>3, <2>4
<1>6. CASE Play(r)
  <2>1. JobsOK' /\ SharedOK' /\ IntentsOK'
    BY <1>6 DEF Play, JobsOK, SharedOK, IntentsOK, Before
  <2>2. ProgressOK' /\ PromisedOK'
    BY <1>6 DEF Play, JobsOK, ProgressOK, PromisedOK, Before, After, Pending
  <2>3. ClearedOK' /\ RetainedOK'
    BY <1>6 DEF Play, JobsOK, ClearedOK, RetainedOK, Pending, Queued
  <2>4. EntriesOK'
    BY <1>6, QueueKept DEF Play, JobsOK, Pending
  <2>5. QED
    BY <2>1, <2>2, <2>3, <2>4
<1>7. CASE Undo(r)
  <2>1. /\ Undone(r) \in Seq(Entries) /\ Ordered(Undone(r))
        /\ Range(Undone(r)) = (Range(queue) \ {<<r, 3>>})
                              \cup (IF Returns(r) THEN {<<r, 1>>} ELSE {})
    <3>1. <<r, 1>> \notin Range(queue)
      BY <1>7 DEF Undo, EntriesOK, Pending, Queued
    <3>2. QED
      BY <1>0, <3>1, UndoneOK
  <2>2. /\ worker[r] = "undoing" /\ worker' = [worker EXCEPT ![r] = "reporting"]
        /\ UNCHANGED <<status, intent, era, kept, mark, outcome, playback, life, history>>
    BY <1>7 DEF Undo
  <2>3. /\ queue' \in Seq(Entries) /\ Ordered(queue')
        /\ \A e : e \in Range(queue) /\ e # <<r, 3>> => e \in Range(queue')
        /\ \A e \in Range(queue') : \/ e \in Range(queue) /\ (e = <<r, 3>> => ~kept[r])
                                    \/ e = <<r, 1>> /\ Returns(r)
        /\ Returns(r) => <<r, 1>> \in Range(queue')
    BY <1>0, <1>7, <2>1 DEF Undo, Rewrite
  <2>4. \/ UNCHANGED <<revision, edited>>
        \/ revision' = revision + 1 /\ edited' = edited \cup (Requests \ {r})
    BY <1>7 DEF Undo, Rewrite
  <2>5. JobsOK' /\ SharedOK' /\ IntentsOK'
    BY SMTT(30), <2>2, <2>3, <2>4 DEF JobsOK, SharedOK, IntentsOK, Before, Entries
  <2>6. ProgressOK' /\ PromisedOK'
    BY <2>2 DEF JobsOK, ProgressOK, PromisedOK, Before, After, Pending
  <2>7. ClearedOK'
    BY <2>2, <2>3, <2>4 DEF JobsOK, SharedOK, ClearedOK, Queued, Returns
  <2>8. RetainedOK'
    <3>1. r \notin edited' /\ status[r] = "adding" => Returns(r) /\ <<r, 2>> \in Range(queue)
      BY <2>2, <2>4 DEF RetainedOK, ProgressOK, Busy, Pending, Returns, Retired, Queued
    <3>2. ASSUME NEW q \in Requests, q # r PROVE RetainedOK!(q)'
      <4>1. worker'[q] = worker[q] /\ (q \notin edited' => UNCHANGED <<revision, edited>>)
        BY <2>2, <2>4, <3>2 DEF JobsOK
      <4>2. \A k \in 1..2 : <<q, k>> \in Range(queue) => <<q, k>> \in Range(queue')
        BY <2>3
      <4>3. QED
        BY <2>2, <2>4, <4>1, <4>2 DEF RetainedOK, Queued
    <3>3. RetainedOK!(r)'
      <4>1. worker'[r] = "reporting" /\ imports[r] # 0
        BY <2>2 DEF JobsOK, ProgressOK, After, Pending
      <4>2. status[r] # "completed"
        BY <2>2 DEF ProgressOK, After, Pending
      <4>3. <<r, 2>> \in Range(queue) => <<r, 2>> \in Range(queue')
        BY <2>3
      <4>4. QED
        BY <2>2, <2>3, <3>1, <4>1, <4>2, <4>3 DEF Pending, Queued
    <3>4. QED
      BY <3>2, <3>3 DEF RetainedOK
  <2>9. EntriesOK'
    <3>1. PlaylistOrder'
      BY <2>3 DEF PlaylistOrder, Ordered
    <3>2. \A k \in 2..3 : <<Other, k>> \notin Range(queue')
      BY <2>3 DEF EntriesOK, Queued
    <3>3. ASSUME NEW q \in Requests, q # r PROVE EntriesOK!3!(q)'
      <4>1. worker'[q] = worker[q]
        BY <2>2, <3>3 DEF JobsOK
      <4>2. \A k \in 1..3 : <<q, k>> \in Range(queue') => <<q, k>> \in Range(queue)
        BY <2>3, <3>3
      <4>3. QED
        BY <2>2, <4>1, <4>2 DEF EntriesOK, Queued
    <3>4. EntriesOK!3!(r)'
      <4>1. worker'[r] = "reporting" /\ imports[r] # 0
        BY <2>2 DEF JobsOK, ProgressOK, After, Pending
      <4>2. QED
        BY <2>2, <2>3, <4>1 DEF EntriesOK, Pending, Queued
    <3>5. QED
      BY <3>1, <3>2, <3>3, <3>4 DEF EntriesOK, Queued
  <2>10. QED
    BY <2>5, <2>6, <2>7, <2>8, <2>9
<1>8. CASE Report(r)
  <2>1. JobsOK' /\ SharedOK' /\ IntentsOK'
    BY <1>8 DEF Report, JobsOK, SharedOK, IntentsOK, Before
  <2>2. ProgressOK' /\ PromisedOK'
    BY <1>8 DEF Report, JobsOK, ProgressOK, PromisedOK, Before, After, Pending, Busy
  <2>3. ClearedOK' /\ RetainedOK'
    BY <1>8 DEF Report, JobsOK, ClearedOK, RetainedOK, ProgressOK, After, Pending, Queued
  <2>4. EntriesOK'
    BY <1>8, QueueKept DEF Report, JobsOK, Pending
  <2>5. QED
    BY <2>1, <2>2, <2>3, <2>4
<1>9. CASE Fail(r)
  <2>1. JobsOK' /\ SharedOK' /\ IntentsOK'
    BY <1>9 DEF Fail, JobsOK, SharedOK, IntentsOK, Before
  <2>2. ProgressOK' /\ PromisedOK'
    BY <1>9 DEF Fail, Retired, JobsOK, ProgressOK, PromisedOK, Before, After, Pending, Busy
  <2>3. ClearedOK' /\ RetainedOK'
    BY <1>9 DEF Fail, JobsOK, ClearedOK, RetainedOK, ProgressOK, Before, Pending, Queued
  <2>4. EntriesOK'
    BY <1>9, QueueKept DEF Fail, JobsOK, Pending
  <2>5. QED
    BY <2>1, <2>2, <2>3, <2>4
<1>10. CASE Leave(r)
  <2>1. JobsOK' /\ SharedOK' /\ IntentsOK'
    BY <1>10 DEF Leave, JobsOK, SharedOK, IntentsOK, Before
  <2>2. ProgressOK' /\ PromisedOK'
    BY <1>10 DEF Leave, JobsOK, ProgressOK, PromisedOK, Before, After, Pending
  <2>3. ClearedOK' /\ RetainedOK'
    BY <1>10 DEF Leave, JobsOK, ClearedOK, RetainedOK, Pending, Queued
  <2>4. EntriesOK'
    BY <1>10, QueueKept DEF Leave, JobsOK, Pending
  <2>5. QED
    BY <2>1, <2>2, <2>3, <2>4
<1>11. QED
  BY <1>1, <1>2, <1>3, <1>4, <1>5, <1>6, <1>7, <1>8, <1>9, <1>10 DEF Work

\* The inductive invariant.
THEOREM Invariance == Spec => []IInv
<1>1. IInv /\ UNCHANGED vars => IInv'
  BY DEF vars, job, playback, pending, life, history, IInv, TypeOK, FlagsOK, JobsOK, SharedOK,
     LimitsOK, Workers, Jobs, Finite, IntentsOK, ProgressOK, PromisedOK, ClearedOK, EntriesOK,
     PlaylistOrder, RetainedOK, Queued
<1>2. IInv /\ [Next]_vars => IInv'
  <2>1. SUFFICES ASSUME IInv, Next PROVE IInv'
    BY <1>1
  <2>2. FlagsOK' /\ LimitsOK' /\ Finite'
    BY <2>1, FlagsInv, LimitsInv DEF IInv, TypeOK
  <2>3. QED
    BY <2>1, <2>2, OutsideInv, AskInv, WorkInv DEF Next
<1>3. QED
  BY InitInv, <1>2, PTL DEF Spec

\* The state has its shape, and jobs and their threads stay within the limits of
\* the manager, also across restarts (submit, and the finally of _run).
THEOREM Types == Spec => []TypeOK
<1>1. IInv => TypeOK
  BY DEF IInv
<1>2. QED
  BY Invariance, <1>1, PTL

\* However often a request is repeated, cancelled or overtaken, stage_playlist
\* commits its playlist at most once.
THEOREM CommitsOnce == Spec => []OneImportPerRequest
<1>1. IInv => OneImportPerRequest
  BY DEF IInv, ProgressOK, OneImportPerRequest
<1>2. QED
  BY Invariance, <1>1, PTL

\* Nothing is added for a job that was cancelled while it loaded, and nothing of a
\* job comes back into a queue that was cleared (the commit boundary of _run, and
\* the revision check of its undo).
THEOREM CancellationIsFinal == Spec => []CancelledAddsNothing
<1>1. IInv => CancelledAddsNothing
  BY DEF IInv, PromisedOK, ClearedOK, CancelledAddsNothing
<1>2. QED
  BY Invariance, <1>1, PTL

\* What an ended import leaves in the queue: its order, both videos after a failed
\* start nobody edited, and a resume entry only of something it interrupted.
THEOREM FailureRetains == Spec => []FailedStartRetains
<1>1. IInv => FailedStartRetains
  <2> SUFFICES ASSUME IInv PROVE FailedStartRetains
    OBVIOUS
  <2>1. PlaylistOrder
    BY DEF IInv, EntriesOK
  <2>2. ASSUME NEW r \in Requests, status[r] = "completed", r \notin edited \cup begun,
               outcome[r] # "queued", NEW k \in 1..2
        PROVE  Queued(<<r, k>>)
    <3>1. Queued(<<r, 1>>) /\ Queued(<<r, 2>>)
      BY <2>2 DEF IInv, RetainedOK
    <3>2. k = 1 \/ k = 2
      OBVIOUS
    <3>3. QED
      BY <3>1, <3>2
  <2>3. ASSUME NEW r \in Requests, worker[r] = "none", Queued(<<r, 3>>) PROVE r \in begun
    BY <2>3 DEF IInv, EntriesOK, Pending
  <2>4. QED
    BY <2>1, <2>2, <2>3 DEF FailedStartRetains
<1>2. QED
  BY Invariance, <1>1, PTL

\* retire_playlist_action takes playback from the import that owns it and from
\* nobody else, and from a first video that is loading only at a shutdown.
THEOREM RetiresOnlyItsOwn == Spec => OnlyPendingStartsRetired
<1> DEFINE Pended == live # Nobody /\ live' = Nobody =>
                       live \in Requests /\ (loading # generation \/ stopping')
<1>1. ASSUME IInv, Next PROVE Pended
  <2> USE <1>1, NameAssumption DEF IInv, IntentsOK
  <2>1. CASE Stop
    BY <2>1 DEF Stop, Retire, Retirable, Active
  <2>2. CASE Clear
    <3>1. PICK doomed \in SUBSET Requests : Retire(doomed, TRUE)
      BY <2>2 DEF Clear, Active
    <3>2. QED
      BY <3>1 DEF Retire, Retirable
  <2>3. ASSUME NEW r \in Requests, Cancel(r) PROVE Pended
    <3>1. status[r] = "loading" /\ (live' # live => intent[r] # 0 /\ intent[r] = generation)
      BY <2>3 DEF Cancel, Retire, Retirable
    <3>2. QED
      BY <3>1 DEF ProgressOK
  <2>4. CASE Command \/ Edit \/ Start
    BY <2>4 DEF Command, Edit, Start, Claim, playback
  <2>5. ASSUME NEW r \in Requests, Submit(r) \/ SubmitFails(r) PROVE Pended
    BY <2>5 DEF Submit, Accept, SubmitFails, Claim
  <2>6. ASSUME NEW r \in Requests, Work(r) PROVE Pended
    BY <2>6 DEF Work, Extract, Capture, Stage, BeginLoad, Load, Play, Undo, Report, Fail, Leave,
       playback
  <2>7. QED
    BY <2>1, <2>2, <2>3, <2>4, <2>5, <2>6 DEF Next, Ask
<1>2. IInv /\ [Next]_vars => [Pended]_vars
  BY <1>1
<1>3. QED
  BY Invariance, <1>2, PTL DEF Spec, OnlyPendingStartsRetired
=============================================================================
