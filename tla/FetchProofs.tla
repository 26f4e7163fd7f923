---------------------------- MODULE FetchProofs ----------------------------
(***************************************************************************)
(* What is fetched from other servers, and what they are told: the         *)
(* transcodes and reports of PlexPlayback, the downloads of SharedFetches  *)
(* and the channels of IptvGuide.  They share no variable, and each has an *)
(* inductive invariant of its own, for any number of requests, streams,    *)
(* URLs, channels and refreshes.                                           *)
(***************************************************************************)
EXTENDS PlexPlayback, SharedFetches, IptvGuide, FiniteSetTheorems, TLAPS

-----------------------------------------------------------------------------
(* The media server is told *)

Steps == {"new", "opening", "open", "closed"}

\* A reader's stream stays marked as opened, which keeps the sweep away from it.
TranscodeInv ==
    /\ reading \in [Readers -> [step : Steps, of : Streams \cup {NoStream}]]
    /\ \A r \in Readers : reading[r].step \in {"opening", "open"} => reading[r].of \in begun
    /\ running \subseteq (entries \cap begun) \cup ending \cup late

\* The newest report is waiting, under way, received or lost; what waits is not yet
\* received, and what is under way is newer than what is.
TimelineInv ==
    /\ newest \in [seq : Nat, state : States] /\ received \in 0..newest.seq
    /\ pending \subseteq 1..newest.seq /\ sending \subseteq 1..newest.seq
    /\ \A m, n \in sending : m = n
    /\ \A n \in sending : received < n
    /\ sending \cap pending = {} /\ received \notin pending
    /\ newest.seq \in pending \cup sending \cup missed \cup {received}

LEMMA PlayInitOK == PlexPlayInit => TranscodeInv /\ TimelineInv
<1>1. PlexPlayInit => TranscodeInv
      BY DEF PlexPlayInit, TranscodeInv, Steps
<1>2. PlexPlayInit => TimelineInv
      BY DEF PlexPlayInit, TimelineInv, States
<1>3. QED BY <1>1, <1>2

LEMMA TranscodeStep == TranscodeInv /\ (TranscodeNext \/ UNCHANGED transcodes) => TranscodeInv'
<1> SUFFICES ASSUME TranscodeInv, TranscodeNext \/ UNCHANGED transcodes PROVE TranscodeInv'
    OBVIOUS
<1> USE DEF TranscodeInv, timeline, Steps
<1>1. ASSUME NEW s \in Streams, Mint(s) PROVE TranscodeInv'
      BY <1>1 DEF Mint, Swept
<1>2. ASSUME NEW s \in Streams, Age(s) PROVE TranscodeInv'
      BY <1>2 DEF Age
<1>3. ASSUME NEW s \in Streams, PlayEnds(s) PROVE TranscodeInv'
      BY <1>3 DEF PlayEnds, StopStream
<1>4. ASSUME NEW s \in Streams, StopArrives(s) PROVE TranscodeInv'
      BY <1>4 DEF StopArrives
<1>5. ASSUME NEW r \in Readers, NEW s \in Streams, Open(r, s) PROVE TranscodeInv'
      BY <1>5 DEF Open
<1>6. ASSUME NEW r \in Readers, Started(r) PROVE TranscodeInv'
  <2>1. reading[r].of \in begun /\ begun' = begun /\ entries' = entries /\ ending' = ending
        BY <1>6 DEF Started
  <2>2. running' \subseteq (entries' \cap begun') \cup ending' \cup late'
        BY <1>6, <2>1 DEF Started
  <2>3. /\ reading' \in [Readers -> [step : Steps, of : Streams \cup {NoStream}]]
        /\ \A q \in Readers : reading'[q].of = reading[q].of
        /\ \A q \in Readers \ {r} : reading'[q].step = reading[q].step
        BY <1>6 DEF Started, Reads
  <2>4. QED BY <2>1, <2>2, <2>3
<1>7. ASSUME NEW r \in Readers, Close(r) PROVE TranscodeInv'
  <2>1. /\ reading' \in [Readers -> [step : Steps, of : Streams \cup {NoStream}]]
        /\ \A q \in Readers : reading'[q].of = reading[q].of
        /\ \A q \in Readers \ {r} : reading'[q].step = reading[q].step
        BY <1>7 DEF Close, Reads
  <2>2. running' \subseteq (entries' \cap begun') \cup ending' \cup late'
        BY <1>7 DEF Close, StopStream
  <2>3. begun' = begun /\ reading'[r].step = "closed"
        BY <1>7 DEF Close, Reads
  <2>4. QED BY <2>1, <2>2, <2>3
<1>8. CASE StopAll
      BY <1>8 DEF StopAll
<1>9. CASE UNCHANGED transcodes
      BY <1>9 DEF transcodes
<1>10. QED BY <1>1, <1>2, <1>3, <1>4, <1>5, <1>6, <1>7, <1>8, <1>9 DEF TranscodeNext

\* The next number is new to everything that is numbered so far.
LEMMA NextNumber ==
    ASSUME NEW k \in Nat, NEW x \in 0..k, NEW P, NEW S, P \subseteq 1..k, S \subseteq 1..k
    PROVE  /\ x \in 0..(k + 1) /\ P \cup {k + 1} \subseteq 1..(k + 1)
           /\ S \subseteq 1..(k + 1) /\ k + 1 \notin S /\ x # k + 1
<1>1. 1..k \subseteq 1..(k + 1) /\ k + 1 \in 1..(k + 1) /\ k + 1 \notin 1..k
      OBVIOUS
<1>2. x \in 0..(k + 1) /\ x # k + 1
      OBVIOUS
<1>3. QED BY <1>1, <1>2

LEMMA TimelineStep == TimelineInv /\ (TimelineNext \/ UNCHANGED timeline) => TimelineInv'
<1> SUFFICES ASSUME TimelineInv, TimelineNext \/ UNCHANGED timeline PROVE TimelineInv'
    OBVIOUS
<1> USE DEF TimelineInv, transcodes
<1>1. ASSUME NEW state \in States, Report(state) PROVE TimelineInv'
  <2>1. newest.seq \in Nat /\ newest'.seq = newest.seq + 1
        BY <1>1 DEF Report
  <2>2. newest' \in [seq : Nat, state : States]
        BY <1>1, <2>1 DEF Report, States
  <2>3. /\ received' = received /\ sending' = sending /\ missed' = missed
        /\ pending' = pending \cup {newest'.seq}
        BY <1>1, <2>1 DEF Report
  <2>4. /\ received' \in 0..newest'.seq /\ pending' \subseteq 1..newest'.seq
        /\ sending' \subseteq 1..newest'.seq
        BY <2>1, <2>3, NextNumber
  <2>5. sending' \cap pending' = {} /\ received' \notin pending'
    <3>1. newest'.seq \notin sending /\ received # newest'.seq
          BY <2>1, NextNumber
    <3>2. sending \cap pending = {} /\ received \notin pending
          OBVIOUS
    <3>3. QED BY <2>3, <3>1, <3>2
  <2>6. newest'.seq \in pending'
        BY <2>3
  <2>7. QED BY <2>2, <2>3, <2>4, <2>5, <2>6
<1>2. ASSUME NEW n \in 1..MaxReports, Send(n) PROVE TimelineInv'
      BY <1>2 DEF Send
<1>3. ASSUME NEW n \in 1..MaxReports, Sent(n) PROVE TimelineInv'
      BY <1>3 DEF Sent
<1>4. CASE UNCHANGED timeline
      BY <1>4 DEF timeline
<1>5. QED BY <1>1, <1>2, <1>3, <1>4 DEF TimelineNext

\* Each half leaves the other alone.
LEMMA HalvesApart ==
    /\ TranscodeNext => UNCHANGED timeline
    /\ TimelineNext => UNCHANGED transcodes
BY DEF TranscodeNext, TimelineNext, Mint, Age, PlayEnds, StopArrives, Open, Started, Close,
       StopAll, Report, Send, Sent

LEMMA PlayStep ==
    TranscodeInv /\ TimelineInv /\ [PlexPlayNext]_pvars => TranscodeInv' /\ TimelineInv'
<1>1. UNCHANGED pvars => UNCHANGED transcodes /\ UNCHANGED timeline
      BY DEF pvars, transcodes, timeline
<1>2. QED BY <1>1, HalvesApart, TranscodeStep, TimelineStep DEF PlexPlayNext

\* A session the media server runs is registered as opened, or its stop is under way, and
\* reports reach it in order, for any number of streams, readers and reports.
THEOREM MediaServerIsTold == PlexPlaySpec => []PlexIsTold
<1>1. TranscodeInv /\ TimelineInv => PlexIsTold
      BY DEF TranscodeInv, TimelineInv, PlexIsTold
<1>2. QED BY PlayInitOK, PlayStep, <1>1, PTL DEF PlexPlaySpec

-----------------------------------------------------------------------------
(* Shared thumbnails and titles *)

Holding == {"claimed", "fetching", "stored"}

ThumbTypes ==
    /\ {disk, sources, inflight, backoff} \subseteq SUBSET Thumbs
    /\ waiting \in Seq(Thumbs)
    /\ worker \in [step : {"idle", "fetching", "stored"}, thumb : Thumbs \cup {NoThumb}]
    /\ caller \in [Callers -> [step : Holding \cup {"idle", "missing", "wanted", "waiting"},
                               thumb : Thumbs \cup {NoThumb}]]
    /\ worker.step = "idle" <=> worker.thumb = NoThumb
    /\ \A c \in Callers : caller[c].step = "idle" <=> caller[c].thumb = NoThumb

Queues(t) == \E i \in 1..Len(waiting) : waiting[i] = t
Holds(c, t) == caller[c].thumb = t /\ caller[c].step \in Holding

\* A claimed thumbnail has an owner: a place in the queue, the worker or a request;
\* and each of them is the only one.
ClaimedOK ==
    \A t \in Thumbs : t \in inflight =>
      t \notin backoff /\ (Queues(t) \/ worker.thumb = t \/ \E c \in Callers : Holds(c, t))

PlacesOK ==
    /\ \A t \in Thumbs : Queues(t) => t \in inflight /\ worker.thumb # t
    /\ \A i, j \in 1..Len(waiting) : waiting[i] = waiting[j] => i = j

WorkerOK == \A t \in Thumbs : worker.thumb = t => t \in inflight

CallersOK ==
    \A t \in Thumbs, c \in Callers : Holds(c, t) =>
      /\ t \in inflight /\ ~Queues(t) /\ worker.thumb # t
      /\ \A d \in Callers : Holds(d, t) => c = d

ThumbInv == ThumbTypes /\ ClaimedOK /\ PlacesOK /\ WorkerOK /\ CallersOK

LEMMA ThumbStart == ThumbInit => ThumbInv
BY NoThumbIsNone DEF ThumbInit, ThumbInv, ClaimedOK, PlacesOK, WorkerOK, CallersOK, ThumbTypes, Queues, Holds, Holding, Resting, Doing

LEMMA ThumbStep == ThumbInv /\ [ThumbNext]_hvars => ThumbInv'
<1> SUFFICES ASSUME ThumbInv, [ThumbNext]_hvars PROVE ThumbInv'
  OBVIOUS
<1> USE NoThumbIsNone DEF Resting, Doing, CallerDoes, CallerRests, Release, Claimable
<1> USE DEF ThumbInv, ClaimedOK, PlacesOK, WorkerOK, CallersOK
<1>1. ASSUME NEW c \in Callers, NEW t \in Thumbs, Show(c, t) \/ Serve(c, t) PROVE ThumbInv'
  <2>1. /\ caller[c].step = "idle"
        /\ UNCHANGED caller \/ \E step \in {"missing", "wanted"} : CallerDoes(c, step, t)
        /\ UNCHANGED <<disk, inflight, backoff, waiting, worker>>
        /\ sources' \subseteq Thumbs
    BY <1>1 DEF Show, Serve, ThumbTypes
  <2>2. ThumbTypes'
    BY <2>1 DEF ThumbTypes, Holding
  <2>3. \A d \in Callers, u \in Thumbs : Holds(d, u)' <=> Holds(d, u)
    BY <2>1 DEF ThumbTypes, Holds, Holding
  <2>4. QED
    BY <2>1, <2>2, <2>3 DEF Queues
<1>2. ASSUME NEW c \in Callers, ShowClaim(c) \/ ServeClaim(c) PROVE ThumbInv'
  BY SMTT(30), <1>2 DEF ShowClaim, ServeClaim, ThumbInv, ThumbTypes, Queues, Holds, Holding
<1>3. ASSUME NEW c \in Callers, Enqueue(c) PROVE ThumbInv'
  <2> DEFINE t == caller[c].thumb
  <2>1. t \in Thumbs /\ Holds(c, t)
    BY <1>3 DEF Enqueue, ThumbInv, ThumbTypes, Holds, Holding
  <2>2. CASE Len(waiting) < QueueMax
    <3>1. waiting' = Append(waiting, t) /\ UNCHANGED <<inflight, backoff, worker>>
      BY <1>3, <2>2 DEF Enqueue
    <3>2. \A u \in Thumbs : Queues(u)' <=> Queues(u) \/ u = t
      BY <2>1, <3>1 DEF Queues, ThumbInv, ThumbTypes
    <3>3. \A i, j \in 1..Len(waiting') : waiting'[i] = waiting'[j] => i = j
      BY <2>1, <3>1 DEF Queues, ThumbInv, ThumbTypes
    <3>4. \A d \in Callers, u \in Thumbs : Holds(d, u)' <=> Holds(d, u) /\ d # c
      BY <1>3, <2>1 DEF Enqueue, Holds, Holding, ThumbInv, ThumbTypes
    <3>5. ThumbTypes'
      BY <1>3, <2>1, <3>1 DEF Enqueue, ThumbInv, ThumbTypes
    <3> \A u \in Thumbs : Holds(c, u) => u = t
      BY DEF Holds
    <3> HIDE DEF t
    <3>6. ClaimedOK'
      BY <2>1, <3>1, <3>2, <3>4 DEF ClaimedOK
    <3>7. PlacesOK' /\ WorkerOK'
      BY <2>1, <3>1, <3>2, <3>3 DEF PlacesOK, WorkerOK, CallersOK
    <3>8. CallersOK'
      BY <2>1, <3>1, <3>2, <3>4 DEF CallersOK
    <3>9. QED
      BY <3>5, <3>6, <3>7, <3>8 DEF ThumbInv
  <2>3. CASE ~(Len(waiting) < QueueMax)
    BY <1>3, <2>1, <2>3 DEF Enqueue, ThumbInv, ThumbTypes, Queues, Holds, Holding
  <2>4. QED
    BY <2>2, <2>3
<1>4. ASSUME NEW c \in Callers, ServeEnds(c) \/ ServeFetched(c) \/ ServeRelease(c) PROVE ThumbInv'
  BY SMTT(30), <1>4 DEF ServeEnds, ServeFetched, ServeRelease, ThumbInv, ThumbTypes, Queues, Holds, Holding
<1>5. CASE WorkerTakes
  <2> DEFINE t == Head(waiting)
  <2>1. /\ t \in Thumbs /\ Len(waiting) \in Nat /\ waiting[1] = t /\ 1 \in 1..Len(waiting)
        /\ waiting' \in Seq(Thumbs) /\ Len(waiting') = Len(waiting) - 1
        /\ \A i \in 1..Len(waiting') : waiting'[i] = waiting[i + 1]
    BY <1>5 DEF WorkerTakes, ThumbInv, ThumbTypes
  <2>2. \A u \in Thumbs : Queues(u)' <=> Queues(u) /\ u # t
    <3>1. ASSUME NEW u \in Thumbs, Queues(u), u # t PROVE Queues(u)'
      <4>1. PICK i \in 1..Len(waiting) : waiting[i] = u
        BY <3>1 DEF Queues
      <4>2. i - 1 \in 1..Len(waiting') /\ waiting'[i - 1] = u
        BY <2>1, <3>1, <4>1
      <4>3. QED
        BY <4>2 DEF Queues
    <3>2. ASSUME NEW u \in Thumbs, Queues(u)' PROVE Queues(u) /\ u # t
      <4>1. PICK i \in 1..Len(waiting') : waiting'[i] = u
        BY <3>2 DEF Queues
      <4>2. i + 1 \in 1..Len(waiting) /\ waiting[i + 1] = u /\ i + 1 # 1
        BY <2>1, <4>1
      <4>3. QED
        BY <2>1, <4>2 DEF Queues, ThumbInv
    <3>3. QED
      BY <3>1, <3>2
  <2>3. \A i, j \in 1..Len(waiting') : waiting'[i] = waiting'[j] => i = j
    BY <2>1 DEF ThumbInv
  <2>4. /\ worker.thumb = NoThumb /\ worker'.thumb = t /\ Queues(t)
        /\ UNCHANGED <<disk, sources, inflight, backoff, caller>>
    BY <1>5, <2>1 DEF WorkerTakes, Queues
  <2>5. ThumbTypes'
    BY <1>5, <2>1 DEF WorkerTakes, ThumbInv, ThumbTypes
  <2>6. QED
    BY <2>1, <2>2, <2>3, <2>4, <2>5 DEF ThumbInv, Holds
<1>6. CASE WorkerFetched \/ WorkerRelease
  BY <1>6 DEF WorkerFetched, WorkerRelease, ThumbInv, ThumbTypes, Queues, Holds
<1>7. ASSUME NEW t \in Thumbs, Prune(t) \/ RetryAgain(t) \/ ForgetSource(t) PROVE ThumbInv'
  BY <1>7 DEF Prune, RetryAgain, ForgetSource, ThumbInv, ThumbTypes, Queues, Holds
<1>8. CASE UNCHANGED hvars
  BY <1>8 DEF hvars, ThumbInv, ThumbTypes, Queues, Holds
<1>9. QED
  BY <1>1, <1>2, <1>3, <1>4, <1>5, <1>6, <1>7, <1>8 DEF ThumbNext

\* A set of which all members are equal has none or one.
LEMMA AtMostOne ==
  ASSUME NEW S, \A x, y \in S : x = y
  PROVE  Cardinality(S) = IF S = {} THEN 0 ELSE 1
<1>1. CASE S = {}
  BY <1>1, FS_EmptySet
<1>2. CASE S # {}
  <2>1. PICK x : S = {x}
    BY <1>2
  <2>2. QED
    BY <1>2, <2>1, FS_Singleton
<1>3. QED
  BY <1>1, <1>2

LEMMA ThumbsAreOwned ==
  ASSUME ThumbInv, NEW t \in Thumbs
  PROVE  /\ Responsible(t) = IF t \in inflight THEN 1 ELSE 0
         /\ t \in inflight => t \notin backoff
<1>1. /\ \A x, y \in CallersOf(t) : x = y
      /\ CallersOf(t) # {} <=> \E c \in Callers : Holds(c, t)
  BY DEF ThumbInv, ClaimedOK, PlacesOK, WorkerOK, CallersOK, CallersOf, Holds, Holding
<1>2. /\ \A x, y \in PlacesOf(t) : x = y
      /\ PlacesOf(t) # {} <=> Queues(t)
  BY DEF ThumbInv, ClaimedOK, PlacesOK, WorkerOK, CallersOK, ThumbTypes, PlacesOf, Queues
<1>3. /\ \A x, y \in WorkersOf(t) : x = y
      /\ WorkersOf(t) # {} <=> worker.thumb = t
  BY DEF WorkersOf
<1>4. /\ Cardinality(CallersOf(t)) = IF CallersOf(t) = {} THEN 0 ELSE 1
      /\ Cardinality(PlacesOf(t)) = IF PlacesOf(t) = {} THEN 0 ELSE 1
      /\ Cardinality(WorkersOf(t)) = IF WorkersOf(t) = {} THEN 0 ELSE 1
  BY <1>1, <1>2, <1>3, AtMostOne
<1> HIDE DEF Holds, Queues
<1>5. CASE t \in inflight
  <2>1. \/ Queues(t) /\ worker.thumb # t /\ ~\E c \in Callers : Holds(c, t)
        \/ ~Queues(t) /\ worker.thumb = t /\ ~\E c \in Callers : Holds(c, t)
        \/ ~Queues(t) /\ worker.thumb # t /\ \E c \in Callers : Holds(c, t)
    BY <1>5 DEF ThumbInv, ClaimedOK, PlacesOK, WorkerOK, CallersOK
  <2>2. QED
    BY <1>1, <1>2, <1>3, <1>4, <1>5, <2>1 DEF Responsible, ThumbInv, ClaimedOK
<1>6. CASE t \notin inflight
  <2>1. ~Queues(t) /\ worker.thumb # t /\ ~\E c \in Callers : Holds(c, t)
    BY <1>6 DEF ThumbInv, ClaimedOK, PlacesOK, WorkerOK, CallersOK
  <2>2. QED
    BY <1>1, <1>2, <1>3, <1>4, <1>6, <2>1 DEF Responsible
<1>7. QED
  BY <1>5, <1>6

\* A URL is owned by the one lookup that runs or lands.
LookupInv ==
    /\ cache \subseteq Urls
    /\ lookup \in [Lookups -> [step : {"new", "missed", "waiting", "running", "landing", "over"},
                               url : Urls \cup {NoUrl}]]
    /\ \A l \in Lookups : lookup[l].step # "new" => lookup[l].url \in Urls
    /\ flight \in [Urls -> SUBSET Lookups]
    /\ \A u \in Urls :
         /\ \A l \in Lookups : l \in flight[u] <=>
              lookup[l].url = u /\ lookup[l].step \in {"running", "landing"}
         /\ \A l, m \in flight[u] : l = m
         /\ \A l \in flight[u] : u \in cache => lookup[l].step = "landing"

LEMMA LookupStart == LookupInit => LookupInv
BY NoUrlIsNone DEF LookupInit, LookupInv

LEMMA LookupStep == LookupInv /\ [LookupNext]_yvars => LookupInv'
<1> SUFFICES ASSUME LookupInv, [LookupNext]_yvars PROVE LookupInv'
  OBVIOUS
<1> USE NoUrlIsNone DEF LookupDoes
<1>1. ASSUME NEW l \in Lookups, NEW u \in Urls, Read(l, u) PROVE LookupInv'
  BY <1>1 DEF Read, LookupInv
<1>2. ASSUME NEW l \in Lookups, Join(l) PROVE LookupInv'
  BY <1>2 DEF Join, LookupInv
<1>3. ASSUME NEW l \in Lookups, WaitEnds(l) \/ LookupFails(l) PROVE LookupInv'
  BY <1>3 DEF WaitEnds, LookupFails, LookupInv
<1>4. ASSUME NEW l \in Lookups, AnswerLookup(l) PROVE LookupInv'
  BY <1>4 DEF AnswerLookup, LookupInv
<1>5. ASSUME NEW l \in Lookups, Land(l) PROVE LookupInv'
  BY <1>5 DEF Land, LookupInv
<1>6. ASSUME NEW u \in Urls, ExpireAnswer(u) PROVE LookupInv'
  BY <1>6 DEF ExpireAnswer, LookupInv
<1>7. CASE UNCHANGED yvars
  BY <1>7 DEF yvars, LookupInv
<1>8. QED
  BY <1>1, <1>2, <1>3, <1>4, <1>5, <1>6, <1>7 DEF LookupNext

\* yt-dlp never runs twice for a URL, nor while its answer is cached; and thumbnails
\* as above: FetchedOnce, for any number of requests, URLs and capacities.
THEOREM FetchesAreShared == ThumbSpec /\ LookupSpec => []FetchedOnce
<1>1. ThumbInv => \A t \in Thumbs : /\ Responsible(t) = IF t \in inflight THEN 1 ELSE 0
                                    /\ t \in inflight => t \notin backoff
  BY ThumbsAreOwned
<1>2. LookupInv => \A u \in Urls :
         /\ flight[u] = OwnersOf(u) /\ Cardinality(OwnersOf(u)) <= 1
         /\ u \in cache => RunsOf(u) = {}
  <2> SUFFICES ASSUME LookupInv, NEW u \in Urls
               PROVE  /\ flight[u] = OwnersOf(u) /\ Cardinality(OwnersOf(u)) <= 1
                      /\ u \in cache => RunsOf(u) = {}
    OBVIOUS
  <2>1. flight[u] = OwnersOf(u)
    BY DEF LookupInv, OwnersOf
  <2>2. \A x, y \in OwnersOf(u) : x = y
    BY <2>1 DEF LookupInv
  <2>3. Cardinality(OwnersOf(u)) <= 1
    BY <2>2, AtMostOne
  <2>4. u \in cache => RunsOf(u) = {}
    BY <2>1 DEF LookupInv, RunsOf
  <2>5. QED
    BY <2>1, <2>3, <2>4
<1>3. QED
  BY ThumbStart, ThumbStep, LookupStart, LookupStep, <1>1, <1>2, PTL
     DEF ThumbSpec, LookupSpec, FetchedOnce

-----------------------------------------------------------------------------
(* The channels of an IPTV source *)

Keys == [by : {"tvg", "name", "url"}, name : Names \cup {Shared}, copy : 1..2]

\* What channel identities may stand side by side: an identity is of one channel,
\* and a channel is known by its name or by the shared tvg-id, not by both.
Consistent(ids) ==
    /\ \A i \in ids : /\ i.of \in Names /\ i.key \in Keys
                      /\ i.key.by = "tvg" => i.key = TvgKey /\ i.of \in tagged
                      /\ i.key.by = "name" => i.key = NameKey(i.of)
                      /\ i.key.by = "url" => i.key.name = i.of
    /\ \A i, k \in ids : i.key = k.key => i.of = k.of
    /\ \A i, k \in ids : i.key.by = "tvg" /\ k.key.by = "name" => i.of # k.of

\* A refresh in the network or about to publish holds its source's lock; its
\* channels were matched with a catalogue that may only have lost channels since.
RefreshOK ==
    /\ DOMAIN at = Actors
    /\ \A a \in Actors : at[a].step = "read" =>
         at[a] = [step |-> "read", location |-> at[a].location, validator |-> at[a].validator]
    /\ \A a \in Actors : at[a].step \in {"asking", "named"} => lock = {a}
    /\ \A a \in Actors : at[a].step = "named" =>
         \E l \in Lists, ids \in SUBSET [key : Keys, of : Names] :
           /\ Known \subseteq ids /\ Consistent(ids)
           /\ at[a].channels = Assigned(l, ids) /\ at[a].once = Once(l)

\* The stored channels, and what people chose among them.
RowsOK ==
    /\ rows \subseteq [key : Keys, of : Names, active : BOOLEAN, favorite : BOOLEAN,
                       unavailable : BOOLEAN]
    /\ IsFiniteSet(rows)
    /\ Consistent(Known)
    /\ \A r, s \in rows : r.key = s.key => r = s
    /\ \A r, s \in Active : r.of = s.of /\ r.key.by # "url" => r = s

ChosenOK == \A n \in chosen : \E r \in Active : r.of = n /\ r.favorite /\ r.key.by # "url"

GuideInv == RefreshOK /\ RowsOK /\ ChosenOK /\ total = Cardinality(Active)

LEMMA GuideStart == GuideInit => GuideInv
<1> SUFFICES ASSUME GuideInit PROVE GuideInv
  OBVIOUS
<1>1. RefreshOK
  BY DEF GuideInit, RefreshOK, Idle
<1>2. RowsOK /\ ChosenOK
  BY FS_EmptySet DEF GuideInit, RowsOK, ChosenOK, Known, Active, Consistent
<1>3. total = Cardinality(Active)
  <2>1. Active = {}
    BY DEF GuideInit, Active
  <2>2. QED
    BY <2>1, FS_EmptySet DEF GuideInit
<1>4. QED
  BY <1>1, <1>2, <1>3 DEF GuideInv

\* A set keeps its size when none of its members are mapped together.
LEMMA SameSize ==
  ASSUME NEW S, IsFiniteSet(S), NEW f, DOMAIN f = S, f = [x \in S |-> f[x]],
         \A x, y \in S : f[x] = f[y] => x = y
  PROVE  /\ IsFiniteSet({f[x] : x \in S})
         /\ Cardinality({f[x] : x \in S}) = Cardinality(S)
<1> DEFINE T == {f[x] : x \in S}
<1>1. f \in [S -> T]
  OBVIOUS
<1>2. f \in Bijection(S, T)
  BY <1>1 DEF Bijection, Injection, Surjection, IsInjective
<1>3. ExistsBijection(S, T)
  BY <1>2 DEF ExistsBijection
<1>4. QED
  BY <1>3, FS_Bijection

LEMMA ListsAreFinite ==
  ASSUME NEW l, NEW ids
  PROVE  IsFiniteSet(Listing(l)) /\ IsFiniteSet(Assigned(l, ids))
<1>1. IsFiniteSet(1..2)
  <2>1. 1 \in Int /\ 2 \in Int
    OBVIOUS
  <2>2. QED
    BY <2>1, FS_Interval
<1>2. IsFiniteSet(Names \X (1..2))
  BY <1>1, NamesAssumption, FS_Product
<1>3. Listing(l) \subseteq Names \X (1..2)
  BY DEF Listing
<1>4. IsFiniteSet(Listing(l))
  BY <1>2, <1>3, FS_Subset
<1> DEFINE f == [e \in Listing(l) |-> [key |-> IdentityOf(e, l, ids), of |-> e[1]]]
<1>5. f \in Surjection(Listing(l), Assigned(l, ids))
  BY DEF Surjection, Assigned
<1>6. QED
  BY <1>4, <1>5, FS_Surjection

\* The identities of one list.
LEMMA Identities ==
  ASSUME NEW l \in Lists, NEW ids, NEW e \in Listing(l)
  PROVE  /\ e[1] \in Names /\ e[2] \in 1..2 /\ e = <<e[1], e[2]>> /\ l[e[1]] \in 1..2
         /\ l[e[1]] = 1 => e = <<e[1], 1>>
         /\ IdentityOf(e, l, ids) \in {TvgKey, Unnamed(e, l)}
         /\ Unnamed(e, l) = IF l[e[1]] = 1 THEN NameKey(e[1])
                            ELSE [by |-> "url", name |-> e[1], copy |-> e[2]]
         /\ IdentityOf(e, l, ids) = TvgKey =>
              /\ e[1] \in tagged
              /\ \/ [key |-> TvgKey, of |-> e[1]] \in ids
                 \/ /\ \A d \in Listing(l) : d[1] \in tagged => d = e
                    /\ l[e[1]] = 1 /\ \A i \in ids : i.key # NameKey(e[1])
         /\ IdentityOf(e, l, ids) # TvgKey /\ e[1] \in tagged =>
              \/ [key |-> TvgKey, of |-> e[1]] \notin ids
              \/ l[e[1]] = 1 /\ \E i \in ids : i.key = NameKey(e[1])
<1>1. /\ e[1] \in Names /\ e[2] \in 1..2 /\ e = <<e[1], e[2]>> /\ l[e[1]] \in 0..2 /\ e[2] <= l[e[1]]
  BY DEF Listing, Lists
<1>2. l[e[1]] \in 1..2 /\ (l[e[1]] = 1 => e[2] = 1)
  BY <1>1
<1>3. TvgKey # Unnamed(e, l)
  BY DEF TvgKey, Unnamed, NameKey
<1>4. Cardinality(Sharers(l)) = 1 /\ e[1] \in tagged =>
        l[e[1]] = 1 /\ \A d \in Listing(l) : d[1] \in tagged => d = e
  <2> SUFFICES ASSUME Cardinality(Sharers(l)) = 1, e[1] \in tagged
               PROVE  l[e[1]] = 1 /\ \A d \in Listing(l) : d[1] \in tagged => d = e
    OBVIOUS
  <2>1. IsFiniteSet(Sharers(l))
    <3>1. IsFiniteSet(Listing(l)) /\ Sharers(l) \subseteq Listing(l)
      BY ListsAreFinite DEF Sharers
    <3>2. QED
      BY <3>1, FS_Subset
  <2>2. PICK x : Sharers(l) = {x}
    BY <2>1, FS_Singleton
  <2>3. \A d \in Listing(l) : d[1] \in tagged => d = e
    BY <2>2 DEF Sharers
  <2>4. ASSUME l[e[1]] = 2 PROVE FALSE
    <3>1. <<e[1], 1>> \in Listing(l) /\ <<e[1], 2>> \in Listing(l)
      BY <1>1, <2>4 DEF Listing
    <3>2. QED
      BY <2>3, <3>1
  <2>5. QED
    BY <1>2, <2>3, <2>4
<1>5. QED
  BY <1>1, <1>2, <1>3, <1>4 DEF IdentityOf, Unnamed

\* The channels of a refresh stand beside those that are no longer listed, and a
\* channel that is listed once keeps its identity.
LEMMA Rematched ==
  ASSUME NEW l \in Lists, NEW ids \in SUBSET [key : Keys, of : Names], Consistent(ids),
         NEW gone \in SUBSET ids, \A i \in gone, c \in Assigned(l, ids) : i.key # c.key
  PROVE  /\ Assigned(l, ids) \subseteq [key : Keys, of : Names]
         /\ Consistent(gone \cup Assigned(l, ids))
         /\ \A c, d \in Assigned(l, ids) : c.key = d.key => c = d
         /\ \A c, d \in Assigned(l, ids) : c.of = d.of /\ c.key.by # "url" => c = d
         /\ \A i \in ids : l[i.of] = 1 /\ i.key.by # "url" => i \in Assigned(l, ids)
<1> DEFINE new == Assigned(l, ids)
           Own(e) == [key |-> IdentityOf(e, l, ids), of |-> e[1]]
<1>1. /\ \A c \in new : \E e \in Listing(l) : c = Own(e)
      /\ \A e \in Listing(l) : Own(e) \in new
  BY DEF Assigned
<1>own. \A e \in Listing(l) : /\ Own(e).key = IdentityOf(e, l, ids) /\ Own(e).of = e[1]
                               /\ Own(e) = [key |-> Own(e).key, of |-> e[1]]
  OBVIOUS
<1> HIDE DEF Own
<1>2. \A i \in ids : /\ i = [key |-> i.key, of |-> i.of] /\ i.of \in Names /\ i.key \in Keys
                     /\ i.key.by = "tvg" => i.key = TvgKey /\ i.of \in tagged
                     /\ i.key.by = "name" => i.key = NameKey(i.of)
                     /\ i.key.by = "url" => i.key.name = i.of
  BY DEF Consistent
<1>3. \A e \in Listing(l) :
        /\ Own(e).of = e[1] /\ e[1] \in Names /\ Own(e).key \in Keys
        /\ Own(e).key.by = "tvg" => Own(e).key = TvgKey /\ e[1] \in tagged
        /\ Own(e).key.by = "name" => Own(e).key = NameKey(e[1]) /\ l[e[1]] = 1
        /\ Own(e).key.by = "url" => Own(e).key = [by |-> "url", name |-> e[1], copy |-> e[2]]
        /\ Own(e).key.by = "url" => l[e[1]] # 1 /\ Own(e).key.name = e[1]
  <2> SUFFICES ASSUME NEW e \in Listing(l)
               PROVE <1>3!(e)
    OBVIOUS
  <2>1. /\ Own(e).key \in {TvgKey, Unnamed(e, l)} /\ Own(e).of = e[1]
        /\ e[1] \in Names /\ e[2] \in 1..2
        /\ Own(e).key = TvgKey => e[1] \in tagged
    <3>1. /\ IdentityOf(e, l, ids) \in {TvgKey, Unnamed(e, l)} /\ e[1] \in Names /\ e[2] \in 1..2
          /\ IdentityOf(e, l, ids) = TvgKey => e[1] \in tagged
      BY Identities
    <3>2. QED
      BY <1>own, <3>1
  <2>2. CASE Own(e).key = TvgKey
    <3>1. TvgKey \in Keys /\ TvgKey.by = "tvg"
      BY DEF TvgKey, Keys
    <3>2. QED
      BY <2>1, <2>2, <3>1
  <2>3. CASE Own(e).key = Unnamed(e, l)
    <3>1. Own(e).key = IF l[e[1]] = 1 THEN NameKey(e[1])
                       ELSE [by |-> "url", name |-> e[1], copy |-> e[2]]
      <4>1. Unnamed(e, l) = IF l[e[1]] = 1 THEN NameKey(e[1])
                            ELSE [by |-> "url", name |-> e[1], copy |-> e[2]]
        BY Identities
      <4>2. QED
        BY <2>3, <4>1
    <3>2. QED
      BY <2>1, <3>1 DEF NameKey, Keys
  <2>4. QED
    BY <2>1, <2>2, <2>3
<1>4. \A e \in Listing(l) : Own(e).key.by = "tvg" =>
        \/ [key |-> TvgKey, of |-> e[1]] \in ids
        \/ /\ \A d \in Listing(l) : d[1] \in tagged => d = e
           /\ l[e[1]] = 1 /\ \A i \in ids : i.key # NameKey(e[1])
  <2>1. \A e \in Listing(l) : Own(e).key.by = "tvg" => IdentityOf(e, l, ids) = TvgKey
    BY <1>own, <1>3
  <2>2. QED
    BY <2>1, Identities
<1>5. \A e \in Listing(l) : Own(e).key.by # "tvg" /\ e[1] \in tagged =>
        \/ [key |-> TvgKey, of |-> e[1]] \notin ids
        \/ l[e[1]] = 1 /\ \E i \in ids : i.key = NameKey(e[1])
  <2>1. \A e \in Listing(l) : Own(e).key.by # "tvg" => IdentityOf(e, l, ids) # TvgKey
    BY <1>own DEF TvgKey
  <2>2. QED
    BY <2>1, Identities
<1>6. \A e, d \in Listing(l) : l[e[1]] = 1 /\ d[1] = e[1] => d = e
  <2>1. \A e \in Listing(l) : l[e[1]] = 1 => e = <<e[1], 1>>
    BY Identities
  <2>2. QED
    BY <2>1
<1>7. TvgKey.by = "tvg" /\ \A n \in Names : NameKey(n).by = "name" /\ NameKey(n).name = n
  BY DEF TvgKey, NameKey
<1>8. \A i, k \in ids : /\ i.key = k.key => i.of = k.of
                        /\ i.key.by = "tvg" /\ k.key.by = "name" => i.of # k.of
  BY DEF Consistent
<1>9. \A e, d \in Listing(l) : Own(e).key = Own(d).key => Own(e).of = Own(d).of
  <2> SUFFICES ASSUME NEW e \in Listing(l), NEW d \in Listing(l), Own(e).key = Own(d).key
               PROVE  Own(e).of = Own(d).of
    OBVIOUS
  <2>1. Own(e).key.by \in {"tvg", "name", "url"}
    BY <1>3 DEF Keys
  <2>2. CASE Own(e).key.by = "tvg"
    <3>1. Own(d).key.by = "tvg" /\ e[1] \in tagged /\ d[1] \in tagged
      BY <1>3, <2>2
    <3>2. CASE [key |-> TvgKey, of |-> e[1]] \in ids /\ [key |-> TvgKey, of |-> d[1]] \in ids
      BY <1>own, <1>8, <3>2
    <3>3. CASE ~([key |-> TvgKey, of |-> e[1]] \in ids /\ [key |-> TvgKey, of |-> d[1]] \in ids)
      BY <1>4, <2>2, <3>1, <3>3
    <3>4. QED
      BY <3>2, <3>3
  <2>3. CASE Own(e).key.by = "name"
    <3>1. Own(e).key.name = e[1] /\ Own(d).key.name = d[1]
      BY <1>3, <1>7, <2>3
    <3>2. QED
      BY <1>own, <3>1
  <2>4. CASE Own(e).key.by = "url"
    <3>1. Own(e).key.name = e[1] /\ Own(d).key.name = d[1]
      <4>1. Own(d).key.by = "url"
        BY <2>4
      <4>2. QED
        BY <1>3, <2>4, <4>1
    <3>2. QED
      BY <1>own, <3>1
  <2>5. QED
    BY <2>1, <2>2, <2>3, <2>4
<1>10. \A e \in Listing(l), i \in ids : /\ Own(e).key.by = "tvg" /\ i.key.by = "name" => i.of # e[1]
                                        /\ Own(e).key.by = "name" /\ i.key.by = "tvg" => i.of # e[1]
  <2> SUFFICES ASSUME NEW e \in Listing(l), NEW i \in ids, i.of = e[1]
               PROVE  /\ ~(Own(e).key.by = "tvg" /\ i.key.by = "name")
                      /\ ~(Own(e).key.by = "name" /\ i.key.by = "tvg")
    OBVIOUS
  <2>1. ASSUME Own(e).key.by = "tvg", i.key.by = "name" PROVE FALSE
    <3>1. i.key = NameKey(e[1])
      BY <1>2, <2>1
    <3>2. PICK k \in ids : k = [key |-> TvgKey, of |-> e[1]]
      BY <1>4, <2>1, <3>1
    <3>3. k.key.by = "tvg" /\ k.of = e[1]
      BY <1>7, <3>2
    <3>4. QED
      BY <1>8, <2>1, <3>3
  <2>2. ASSUME Own(e).key.by = "name", i.key.by = "tvg" PROVE FALSE
    <3>1. i.key = TvgKey /\ e[1] \in tagged /\ i = [key |-> TvgKey, of |-> e[1]]
      BY <1>2, <2>2
    <3>2. PICK k \in ids : k.key = NameKey(e[1])
      BY <1>5, <2>2, <3>1
    <3>3. k.of = e[1] /\ k.key.by = "name"
      BY <1>2, <1>3, <1>7, <3>2
    <3>4. QED
      BY <1>8, <2>2, <3>3
  <2>3. QED
    BY <2>1, <2>2
<1>11. \A e, d \in Listing(l) : Own(e).of = Own(d).of /\ Own(e).key.by # "url" => Own(e) = Own(d)
  <2> SUFFICES ASSUME NEW e \in Listing(l), NEW d \in Listing(l), e[1] = d[1], Own(e).key.by # "url"
               PROVE  Own(e) = Own(d)
    BY <1>own
  <2>1. CASE l[e[1]] = 1
    BY <1>6, <2>1
  <2>2. CASE l[e[1]] # 1
    <3>1. Own(e).key.by = "tvg" /\ e[1] \in tagged
      BY <1>3, <2>2 DEF Keys
    <3>2. [key |-> TvgKey, of |-> e[1]] \in ids
      BY <1>4, <2>2, <3>1
    <3>3. Own(d).key.by = "tvg"
      BY <1>5, <2>2, <3>1, <3>2
    <3>4. QED
      BY <1>own, <1>3, <3>1, <3>3
  <2>3. QED
    BY <2>1, <2>2
<1>12. ASSUME NEW i \in ids, l[i.of] = 1, i.key.by # "url" PROVE i \in new
  <2> DEFINE e == <<i.of, 1>>
  <2>1. e \in Listing(l) /\ e[1] = i.of
    BY <1>2, <1>12 DEF Listing
  <2> HIDE DEF e
  <2>2. Own(e).key = i.key
    <3>1. l[e[1]] = 1 /\ Own(e).key.by \in {"tvg", "name"} /\ i.key.by \in {"tvg", "name"}
      BY <1>2, <1>3, <1>12, <2>1 DEF Keys
    <3>2. Own(e).key.by = i.key.by
      BY <1>10, <2>1, <3>1
    <3>3. QED
      <4>1. CASE i.key.by = "tvg"
        <5>1. i.key = TvgKey
          BY <1>2, <4>1
        <5>2. Own(e).key = TvgKey
          BY <1>3, <2>1, <3>2, <4>1
        <5>3. QED
          BY <5>1, <5>2
      <4>2. CASE i.key.by = "name"
        <5>1. i.key = NameKey(i.of)
          BY <1>2, <4>2
        <5>2. Own(e).key = NameKey(e[1])
          BY <1>3, <2>1, <3>2, <4>2
        <5>3. QED
          BY <2>1, <5>1, <5>2
      <4>3. QED
        BY <3>1, <4>1, <4>2
  <2>3. Own(e) = [key |-> i.key, of |-> i.of]
    BY <1>own, <2>1, <2>2
  <2>4. QED
    BY <1>1, <1>2, <2>1, <2>3
<1>13. new \subseteq [key : Keys, of : Names]
  <2> SUFFICES ASSUME NEW e \in Listing(l) PROVE Own(e) \in [key : Keys, of : Names]
    BY <1>1
  <2>1. Own(e).key \in Keys /\ e[1] \in Names
    BY <1>3
  <2>2. QED
    BY <1>own, <2>1
<1>14. Consistent(gone \cup new)
  <2>1. ASSUME NEW i \in gone \cup new PROVE Consistent(gone \cup new)!1!(i)
    <3>1. CASE i \in ids
      BY <1>2, <3>1
    <3>2. CASE \E e \in Listing(l) : i = Own(e)
      <4>1. PICK e \in Listing(l) : i = Own(e)
        BY <3>2
      <4>2. /\ i.of = e[1] /\ i.of \in Names /\ i.key \in Keys
            /\ i.key.by = "tvg" => i.key = TvgKey /\ i.of \in tagged
            /\ i.key.by = "name" => i.key = NameKey(i.of)
        BY <1>3, <4>1
      <4>3. i.key.by = "url" => i.key = [by |-> "url", name |-> e[1], copy |-> e[2]]
        BY <1>3, <4>1
      <4>4. i.key.by = "url" => i.key.name = i.of
        BY <4>2, <4>3
      <4>5. QED
        BY <4>2, <4>4
    <3>3. QED
      BY <1>1, <3>1, <3>2
  <2>2. ASSUME NEW i \in gone \cup new, NEW k \in gone \cup new, i.key = k.key PROVE i.of = k.of
    BY <1>1, <1>8, <1>9, <2>2
  <2>3. ASSUME NEW i \in gone \cup new, NEW k \in gone \cup new, i.key.by = "tvg", k.key.by = "name"
        PROVE  i.of # k.of
    <3>1. CASE i \in new /\ k \in new
      <4>1. PICK e \in Listing(l), d \in Listing(l) : i = Own(e) /\ k = Own(d)
        BY <1>1, <3>1
      <4>2. l[d[1]] = 1
        BY <1>3, <2>3, <4>1
      <4>3. QED
        BY <1>own, <1>6, <2>3, <4>1, <4>2
    <3>2. CASE i \in gone /\ k \in gone
      BY <1>8, <2>3, <3>2
    <3>3. CASE i \in new /\ k \in gone
      BY <1>own, <1>1, <1>10, <2>3, <3>3
    <3>4. CASE i \in gone /\ k \in new
      BY <1>own, <1>1, <1>10, <2>3, <3>4
    <3>5. QED
      BY <3>1, <3>2, <3>3, <3>4
  <2>4. QED
    BY <2>1, <2>2, <2>3 DEF Consistent
<1>15. \A c, d \in new : c.key = d.key => c = d
  <2>1. \A c \in new : c = [key |-> c.key, of |-> c.of]
    BY <1>13
  <2>2. QED
    BY <1>1, <1>9, <2>1
<1>16. QED
  BY <1>1, <1>11, <1>12, <1>13, <1>14, <1>15

\* Identities are read from the tags, which no step changes.
LEMMA SameTags ==
  ASSUME tagged' = tagged
  PROVE  /\ \A ids : Consistent(ids)' <=> Consistent(ids)
         /\ \A l, ids : Assigned(l, ids)' = Assigned(l, ids)
<1>1. \A e, l, ids : IdentityOf(e, l, ids)' = IdentityOf(e, l, ids)
  BY DEF IdentityOf, Sharers, Listing, Unnamed, NameKey, TvgKey
<1>2. \A l, ids : Assigned(l, ids)' = Assigned(l, ids)
  BY <1>1 DEF Assigned, Listing
<1>3. \A ids : Consistent(ids)' <=> Consistent(ids)
  BY DEF Consistent, NameKey, TvgKey, Keys
<1>4. QED
  BY <1>2, <1>3

\* An actor goes on, while the catalogue may only lose channels.
LEMMA RefreshMoves ==
  ASSUME RefreshOK, tagged' = tagged, Known' \subseteq Known,
         NEW a \in Actors, NEW what, at' = [at EXCEPT ![a] = what],
         what.step = "read" =>
           what = [step |-> "read", location |-> what.location, validator |-> what.validator],
         what.step \in {"asking", "named"} => lock' = {a},
         \A b \in Actors : b # a /\ lock = {b} => lock' = {b},
         what.step = "named" =>
           \E l \in Lists, ids \in SUBSET [key : Keys, of : Names] :
             /\ Known \subseteq ids /\ Consistent(ids)
             /\ what.channels = Assigned(l, ids) /\ what.once = Once(l)
  PROVE  RefreshOK'
<1>1. DOMAIN at' = Actors /\ at'[a] = what /\ \A b \in Actors : b # a => at'[b] = at[b]
  BY DEF RefreshOK
<1>2. \A b \in Actors : at'[b].step = "read" =>
         at'[b] = [step |-> "read", location |-> at'[b].location, validator |-> at'[b].validator]
  BY <1>1 DEF RefreshOK
<1>3. \A b \in Actors : at'[b].step \in {"asking", "named"} => lock' = {b}
  BY <1>1 DEF RefreshOK
<1>4. ASSUME NEW b \in Actors, at'[b].step = "named"
      PROVE  \E l \in Lists, ids \in SUBSET [key : Keys, of : Names] :
               /\ Known' \subseteq ids /\ Consistent(ids)'
               /\ at'[b].channels = Assigned(l, ids)' /\ at'[b].once = Once(l)
  <2>1. PICK l \in Lists, ids \in SUBSET [key : Keys, of : Names] :
          /\ Known \subseteq ids /\ Consistent(ids)
          /\ at'[b].channels = Assigned(l, ids) /\ at'[b].once = Once(l)
    BY <1>1, <1>4 DEF RefreshOK
  <2>2. Consistent(ids)' /\ at'[b].channels = Assigned(l, ids)' /\ Known' \subseteq ids
    BY <2>1, SameTags
  <2>3. QED
    BY <2>1, <2>2
<1>5. QED
  BY <1>1, <1>2, <1>3, <1>4 DEF RefreshOK, Once

LEMMA RefreshStays ==
  ASSUME RefreshOK, UNCHANGED <<tagged, at, lock>>, Known' \subseteq Known
  PROVE  RefreshOK'
<1>1. ASSUME NEW b \in Actors, at[b].step = "named"
      PROVE  \E l \in Lists, ids \in SUBSET [key : Keys, of : Names] :
               /\ Known' \subseteq ids /\ Consistent(ids)'
               /\ at[b].channels = Assigned(l, ids)' /\ at[b].once = Once(l)
  <2>1. PICK l \in Lists, ids \in SUBSET [key : Keys, of : Names] :
          /\ Known \subseteq ids /\ Consistent(ids)
          /\ at[b].channels = Assigned(l, ids) /\ at[b].once = Once(l)
    BY <1>1 DEF RefreshOK
  <2>2. Consistent(ids)' /\ at[b].channels = Assigned(l, ids)' /\ Known' \subseteq ids
    BY <2>1, SameTags
  <2>3. QED
    BY <2>1, <2>2
<1>2. QED
  BY <1>1 DEF RefreshOK, Once

\* Nothing is stored: the catalogue stays as it is.
LEMMA RowsStay ==
  ASSUME RowsOK, ChosenOK, total = Cardinality(Active), UNCHANGED <<tagged, rows, total, chosen>>
  PROVE  RowsOK' /\ ChosenOK' /\ (total = Cardinality(Active))' /\ Known' = Known
<1>1. Known' = Known /\ Active' = Active
  BY DEF Known, Active
<1>2. Consistent(Known)'
  BY <1>1, SameTags DEF RowsOK
<1>3. QED
  BY <1>1, <1>2 DEF RowsOK, ChosenOK

Row == [key : Keys, of : Names, active : BOOLEAN, favorite : BOOLEAN, unavailable : BOOLEAN]

\* Every row stays in its place, whatever is set on it.
LEMMA RowsMarked ==
  ASSUME RowsOK, tagged' = tagged, NEW g, g = [r \in rows |-> g[r]], rows' = {g[r] : r \in rows},
         \A r \in rows : /\ g[r] \in Row /\ g[r].key = r.key /\ g[r].of = r.of
                         /\ g[r].active = r.active
  PROVE  /\ RowsOK' /\ Known' = Known /\ Cardinality(Active') = Cardinality(Active)
         /\ \A r \in Active : g[r] \in Active'
<1> DEFINE h == [r \in Active |-> g[r]]
<1>1. Active \subseteq rows /\ IsFiniteSet(Active)
  <2>1. Active \subseteq rows
    BY DEF Active
  <2>2. QED
    BY <2>1, FS_Subset DEF RowsOK
<1>2. \A r, s \in rows : g[r] = g[s] => r = s
  BY DEF RowsOK
<1>3. IsFiniteSet(rows')
  BY <1>2, SameSize DEF RowsOK
<1>4. Active' = {h[r] : r \in Active}
  BY <1>1 DEF Active
<1>5. Cardinality(Active') = Cardinality(Active)
  <2>1. DOMAIN h = Active /\ \A r, s \in Active : h[r] = h[s] => r = s
    BY <1>1, <1>2
  <2>2. h = [r \in Active |-> h[r]]
    OBVIOUS
  <2> HIDE DEF h
  <2>3. QED
    BY <1>1, <1>4, <2>1, <2>2, SameSize
<1>6. Known' = Known
  BY DEF Known
<1>7. Consistent(Known)'
  BY <1>6, SameTags DEF RowsOK
<1>8. \A r, s \in rows' : r.key = s.key => r = s
  BY DEF RowsOK
<1>9. \A r, s \in Active' : r.of = s.of /\ r.key.by # "url" => r = s
  BY <1>1, <1>4 DEF RowsOK
<1>10. rows' \subseteq Row
  OBVIOUS
<1>11. QED
  BY <1>1, <1>3, <1>4, <1>5, <1>6, <1>7, <1>8, <1>9, <1>10 DEF RowsOK, Row

\* replace_catalog.
LEMMA Republished ==
  ASSUME GuideInv, NEW a \in Actors, PublishCatalog(a) PROVE GuideInv'
<1> DEFINE new == at[a].channels
           gone == {r \in rows : \A c \in new : c.key # r.key}
<1>1. /\ UNCHANGED tagged /\ at' = [at EXCEPT ![a] = Idle] /\ lock' = lock \ {a}
      /\ lock = {a} /\ at[a].step = "named"
  BY DEF PublishCatalog, Leave, Does, SameWorld, GuideInv, RefreshOK
<1>2. RefreshOK'
  <2>1. DOMAIN at' = Actors /\ lock' = {} /\ at'[a].step = "idle"
        /\ \A b \in Actors : b # a => at'[b] = at[b]
    BY <1>1 DEF GuideInv, RefreshOK, Idle
  <2>2. \A b \in Actors : at'[b].step \notin {"asking", "named"}
    BY <1>1, <2>1 DEF GuideInv, RefreshOK
  <2>3. QED
    BY <2>1, <2>2 DEF GuideInv, RefreshOK
<1>3. CASE SameGuide
  BY <1>1, <1>2, <1>3, RowsStay DEF SameGuide, GuideInv
<1>4. CASE /\ rows' = {[r EXCEPT !.active = FALSE] : r \in gone} \cup {Listed(c) : c \in new}
           /\ total' = Cardinality(new) /\ chosen' = chosen \cap at[a].once
  <2> DEFINE kept == {[key |-> r.key, of |-> r.of] : r \in gone}
  <2>1. PICK l \in Lists, ids \in SUBSET [key : Keys, of : Names] :
          /\ Known \subseteq ids /\ Consistent(ids)
          /\ new = Assigned(l, ids) /\ at[a].once = Once(l)
    BY <1>1 DEF GuideInv, RefreshOK
  <2>2. kept \in SUBSET ids /\ \A i \in kept, c \in new : i.key # c.key
    BY <2>1 DEF Known
  <2>3. /\ new \subseteq [key : Keys, of : Names] /\ Consistent(kept \cup new)
        /\ \A c, d \in new : c.key = d.key => c = d
        /\ \A c, d \in new : c.of = d.of /\ c.key.by # "url" => c = d
        /\ \A i \in ids : l[i.of] = 1 /\ i.key.by # "url" => i \in new
    <3>1. \A i \in kept, c \in Assigned(l, ids) : i.key # c.key
      BY <2>1, <2>2
    <3> HIDE DEF kept, new
    <3> DEFINE all == Assigned(l, ids)
    <3>2. /\ all \subseteq [key : Keys, of : Names] /\ Consistent(kept \cup all)
          /\ \A c, d \in all : c.key = d.key => c = d
          /\ \A c, d \in all : c.of = d.of /\ c.key.by # "url" => c = d
          /\ \A i \in ids : l[i.of] = 1 /\ i.key.by # "url" => i \in all
      BY ZenonT(60), <2>1, <2>2, <3>1, Rematched
    <3>3. new = all
      BY <2>1
    <3> HIDE DEF all
    <3>4. QED
      BY <3>2, <3>3
  <2>4. IsFiniteSet(new)
    BY <2>1, ListsAreFinite
  <2> HIDE DEF new
  <2>5. \A c \in new : /\ Listed(c) \in Row /\ Listed(c).key = c.key /\ Listed(c).of = c.of
                       /\ Listed(c).active
                       /\ Listed(c).favorite <=> \E r \in rows : r.key = c.key /\ r.favorite
    BY <2>3 DEF Listed, Row
  <2> DEFINE f == [c \in new |-> Listed(c)]
             off == [r \in gone |-> [r EXCEPT !.active = FALSE]]
  <2>6. \A r \in gone : off[r] \in Row /\ off[r].key = r.key /\ off[r].of = r.of /\ ~off[r].active
    BY DEF GuideInv, RowsOK, Row
  <2>7. /\ f = [c \in new |-> f[c]] /\ DOMAIN f = new /\ off = [r \in gone |-> off[r]] /\ DOMAIN off = gone
        /\ rows' = {off[r] : r \in gone} \cup {f[c] : c \in new}
        /\ \A c \in new : f[c] = Listed(c)
    BY <1>4
  <2> HIDE DEF f, off
  <2>8. /\ IsFiniteSet({f[c] : c \in new}) /\ Cardinality({f[c] : c \in new}) = Cardinality(new)
    <3>1. \A c, d \in new : f[c] = f[d] => c = d
      BY <2>3, <2>5, <2>7
    <3>2. QED
      BY <2>4, <2>7, <3>1, SameSize
  <2>9. IsFiniteSet({off[r] : r \in gone})
    <3>1. \A r, s \in gone : off[r] = off[s] => r = s
      BY <2>6 DEF GuideInv, RowsOK
    <3>2. IsFiniteSet(gone)
      <4>1. gone \subseteq rows
        OBVIOUS
      <4>2. QED
        BY <4>1, FS_Subset DEF GuideInv, RowsOK
    <3> HIDE DEF gone
    <3>3. QED
      BY <2>7, <3>1, <3>2, SameSize
  <2>10. Active' = {f[c] : c \in new}
    <3>1. Active' = {r \in rows' : r.active}
      BY DEF Active
    <3>2. \A c \in new : f[c] \in rows' /\ f[c].active
      BY <2>5, <2>7
    <3>3. \A r \in rows' : r.active => \E c \in new : r = f[c]
      <4>1. \A r \in rows' : (\E c \in new : r = f[c]) \/ (\E s \in gone : r = off[s])
        BY <2>7
      <4> HIDE DEF gone
      <4>2. QED
        BY <2>6, <4>1
    <3>4. QED
      BY <3>1, <3>2, <3>3
  <2>11. Known' = kept \cup new
    <3>1. \A c \in new : c = [key |-> Listed(c).key, of |-> Listed(c).of]
      BY <2>3, <2>5
    <3>2. Known' = {[key |-> r.key, of |-> r.of] : r \in rows'}
      BY DEF Known
    <3>3. QED
      <4>1. \A c \in new : f[c] \in rows' /\ c = [key |-> f[c].key, of |-> f[c].of]
        BY <2>7, <3>1
      <4>2. \A r \in gone : /\ off[r] \in rows'
                            /\ [key |-> off[r].key, of |-> off[r].of] = [key |-> r.key, of |-> r.of]
        BY <2>6, <2>7
      <4>3. \A r \in rows' : (\E c \in new : r = f[c]) \/ (\E s \in gone : r = off[s])
        BY <2>7
      <4>4. kept = {[key |-> r.key, of |-> r.of] : r \in gone}
        OBVIOUS
      <4> HIDE DEF kept, gone
      <4>5. Known' \subseteq kept \cup new
        <5> SUFFICES ASSUME NEW i \in Known' PROVE i \in kept \cup new
          OBVIOUS
        <5>1. PICK r \in rows' : i = [key |-> r.key, of |-> r.of]
          BY <3>2
        <5>2. CASE \E c \in new : r = f[c]
          BY <4>1, <5>1, <5>2
        <5>3. CASE \E s \in gone : r = off[s]
          BY <4>2, <4>4, <5>1, <5>3
        <5>4. QED
          BY <4>3, <5>2, <5>3
      <4>6. new \subseteq Known'
        BY <3>2, <4>1
      <4>7. kept \subseteq Known'
        BY <3>2, <4>2, <4>4
      <4>8. QED
        BY <4>5, <4>6, <4>7
  <2>12. RowsOK'
    <3>1. rows' \subseteq Row /\ IsFiniteSet(rows')
      <4>1. rows' \subseteq Row
        BY SMTT(30), <2>5, <2>6, <2>7
      <4>2. IsFiniteSet({off[r] : r \in gone} \cup {f[c] : c \in new})
        BY <2>8, <2>9, FS_Union
      <4>3. QED
        BY <2>7, <4>1, <4>2
    <3>2. Consistent(Known)'
      BY <1>1, <2>3, <2>11, SameTags
    <3>3. \A r, s \in rows' : r.key = s.key => r = s
      <4>1. \A r, s \in gone : r.key = s.key => r = s
        BY DEF GuideInv, RowsOK
      <4>2. \A r \in gone, c \in new : r.key # c.key
        OBVIOUS
      <4> HIDE DEF gone
      <4>3. QED
        BY <2>3, <2>5, <2>6, <2>7, <4>1, <4>2
    <3>4. \A r, s \in Active' : r.of = s.of /\ r.key.by # "url" => r = s
      BY <2>3, <2>5, <2>7, <2>10
    <3>5. QED
      BY <3>1, <3>2, <3>3, <3>4 DEF RowsOK, Row
  <2>13. ChosenOK'
    <3> SUFFICES ASSUME NEW n \in chosen \cap Once(l)
                 PROVE  \E r \in Active' : r.of = n /\ r.favorite /\ r.key.by # "url"
      BY <1>4, <2>1 DEF ChosenOK
    <3>1. PICK r \in Active : r.of = n /\ r.favorite /\ r.key.by # "url"
      BY DEF GuideInv, ChosenOK
    <3>2. [key |-> r.key, of |-> r.of] \in ids /\ r \in rows /\ l[n] = 1
      BY <2>1, <3>1 DEF Known, Active, Once
    <3>3. PICK c \in new : c = [key |-> r.key, of |-> r.of]
      BY <2>3, <3>1, <3>2
    <3>4. f[c].of = n /\ f[c].favorite /\ f[c].key.by # "url"
      BY <2>5, <2>7, <3>1, <3>2, <3>3
    <3>5. QED
      BY <2>10, <3>4
  <2>14. (total = Cardinality(Active))'
    BY <1>4, <2>8, <2>10
  <2>15. QED
    BY <1>2, <2>12, <2>13, <2>14 DEF GuideInv
<1>5. QED
  BY <1>3, <1>4 DEF PublishCatalog

LEMMA GuideStep == GuideInv /\ [GuideNext]_gvars => GuideInv'
<1> SUFFICES ASSUME GuideInv, [GuideNext]_gvars PROVE GuideInv'
  OBVIOUS
<1> USE DEF GuideInv, SameGuide, SameWorld, Does, Leave
<1>1. ASSUME NEW a \in Actors, Begin(a) \/ Enter(a) \/ NotModified(a) \/ Fails(a) PROVE GuideInv'
  <2>1. UNCHANGED <<tagged, rows, total, chosen>>
    BY <1>1 DEF Begin, Enter, NotModified, Fails
  <2>2. RowsOK' /\ ChosenOK' /\ (total = Cardinality(Active))' /\ Known' = Known
    BY <2>1, RowsStay
  <2>3. PICK what : /\ at' = [at EXCEPT ![a] = what] /\ what.step \in {"read", "asking", "idle"}
                    /\ what.step = "read" =>
                         what = [step |-> "read", location |-> what.location,
                                 validator |-> what.validator]
                    /\ what.step = "asking" => lock' = {a}
                    /\ \A b \in Actors : b # a /\ lock = {b} => lock' = {b}
    <3>1. CASE Begin(a)
      <4>1. at' = [at EXCEPT ![a] = [step |-> "read", location |-> source.location,
                                     validator |-> source.validator]] /\ lock' = lock
        BY <3>1 DEF Begin
      <4>2. QED
        BY <4>1
    <3>2. CASE Enter(a)
      <4>1. [at[a] EXCEPT !.step = "asking"].step = "asking"
        BY <3>2 DEF Enter, RefreshOK
      <4>2. CASE lock = {} /\ Owned(a)
        BY <3>2, <4>1, <4>2 DEF Enter
      <4>3. CASE ~(lock = {} /\ Owned(a))
        BY <3>2, <4>3 DEF Enter, Idle
      <4>4. QED
        BY <4>2, <4>3
    <3>3. CASE NotModified(a) \/ Fails(a)
      BY <3>3 DEF NotModified, Fails, Idle
    <3>4. QED
      BY <1>1, <3>1, <3>2, <3>3
  <2>4. RefreshOK'
    BY <2>1, <2>2, <2>3, RefreshMoves
  <2>5. QED
    BY <2>2, <2>4
<1>2. ASSUME NEW a \in Actors, NEW l \in Lists, Fetched(a, l) PROVE GuideInv'
  <2>1. UNCHANGED <<tagged, rows, total, chosen>>
    BY <1>2 DEF Fetched
  <2>2. RowsOK' /\ ChosenOK' /\ (total = Cardinality(Active))' /\ Known' = Known
    BY <2>1, RowsStay
  <2>3. Known \in SUBSET [key : Keys, of : Names] /\ Consistent(Known)
    BY DEF RowsOK, Known
  <2>4. CASE Owned(a)
    <3> DEFINE what == [step |-> "named", location |-> at[a].location,
                        date |-> version[at[a].location], once |-> Once(l),
                        channels |-> Assigned(l, Known)]
    <3>1. /\ at' = [at EXCEPT ![a] = what] /\ lock' = lock /\ lock = {a}
      BY <1>2, <2>4 DEF Fetched, RefreshOK
    <3>2. what.step = "named" /\ what.once = Once(l) /\ what.channels = Assigned(l, Known)
      OBVIOUS
    <3> HIDE DEF what
    <3>3. \E m \in Lists, ids \in SUBSET [key : Keys, of : Names] :
            /\ Known \subseteq ids /\ Consistent(ids)
            /\ what.channels = Assigned(m, ids) /\ what.once = Once(m)
      BY <2>3, <3>2
    <3>4. RefreshOK'
      BY <2>1, <2>2, <3>1, <3>2, <3>3, RefreshMoves
    <3>5. QED
      BY <2>2, <3>4
  <2>5. CASE ~Owned(a)
    <3>1. at' = [at EXCEPT ![a] = Idle] /\ lock' = lock \ {a} /\ Idle.step = "idle"
      BY <1>2, <2>5 DEF Fetched, Idle
    <3>2. RefreshOK'
      BY <2>1, <2>2, <3>1, RefreshMoves
    <3>3. QED
      BY <2>2, <3>2
  <2>6. QED
    BY <2>4, <2>5
<1>3. ASSUME NEW a \in Actors, PublishCatalog(a) PROVE GuideInv'
  BY <1>3, Republished
<1>4. ASSUME NEW a \in Actors, CheckEnd(a) PROVE GuideInv'
  <2>1. PICK bad \in BOOLEAN :
          rows' = {IF r.key = at[a].key /\ Owned(a) THEN [r EXCEPT !.unavailable = bad] ELSE r :
                     r \in rows}
    BY <1>4 DEF CheckEnd
  <2> DEFINE g == [r \in rows |-> IF r.key = at[a].key /\ Owned(a)
                                  THEN [r EXCEPT !.unavailable = bad] ELSE r]
  <2>2. /\ tagged' = tagged /\ total' = total /\ chosen' = chosen /\ lock' = lock
        /\ at' = [at EXCEPT ![a] = Idle] /\ Idle.step = "idle"
    BY <1>4 DEF CheckEnd, Idle
  <2>3. /\ g = [r \in rows |-> g[r]] /\ rows' = {g[r] : r \in rows}
        /\ \A r \in rows : /\ g[r] \in Row /\ g[r].key = r.key /\ g[r].of = r.of
                           /\ g[r].active = r.active /\ g[r].favorite = r.favorite
    BY <2>1 DEF RowsOK, Row
  <2> HIDE DEF g
  <2>4. /\ RowsOK' /\ Known' = Known /\ Cardinality(Active') = Cardinality(Active)
        /\ \A r \in Active : g[r] \in Active'
    BY <2>2, <2>3, RowsMarked
  <2>5. ChosenOK'
    BY <2>2, <2>3, <2>4 DEF ChosenOK, Active
  <2>6. RefreshOK'
    BY <2>2, <2>4, RefreshMoves
  <2>7. QED
    BY <2>2, <2>4, <2>5, <2>6
<1>5. ASSUME NEW a \in Actors, NEW r \in rows, CheckBegin(a, r) PROVE GuideInv'
  <2>1. /\ UNCHANGED <<tagged, rows, total, chosen, lock>>
        /\ at' = [at EXCEPT ![a] = [step |-> "checking", key |-> r.key]]
    BY <1>5 DEF CheckBegin
  <2>2. RowsOK' /\ ChosenOK' /\ (total = Cardinality(Active))' /\ Known' = Known
    BY <2>1, RowsStay
  <2>3. [step |-> "checking", key |-> r.key].step = "checking"
    OBVIOUS
  <2>4. RefreshOK'
    BY <2>1, <2>2, <2>3, RefreshMoves
  <2>5. QED
    BY <2>2, <2>4
<1>6. ASSUME NEW w \in Workers, StartWorker(w) PROVE GuideInv'
  <2>1. /\ UNCHANGED <<tagged, rows, total, chosen, lock>> /\ w \in Actors
        /\ at' = [at EXCEPT ![w] = Idle] /\ Idle.step = "idle"
    BY <1>6 DEF StartWorker, Actors, Idle
  <2>2. RowsOK' /\ ChosenOK' /\ (total = Cardinality(Active))' /\ Known' = Known
    BY <2>1, RowsStay
  <2>3. RefreshOK'
    BY <2>1, <2>2, RefreshMoves
  <2>4. QED
    BY <2>2, <2>3
<1>7. ASSUME \/ \E w \in Workers : StopWorker(w)
             \/ \E l \in Locations : Move(l) \/ Upstream(l)
             \/ Switch \/ UNCHANGED gvars
      PROVE GuideInv'
  <2>1. UNCHANGED <<tagged, rows, total, chosen, at, lock>>
    BY <1>7 DEF StopWorker, Move, Upstream, Switch, Edit, gvars
  <2>2. RowsOK' /\ ChosenOK' /\ (total = Cardinality(Active))' /\ Known' = Known
    BY <2>1, RowsStay
  <2>3. RefreshOK'
    BY <2>1, <2>2, RefreshStays
  <2>4. QED
    BY <2>2, <2>3
<1>8. ASSUME NEW r \in rows, NEW b \in BOOLEAN, SetFavorite(r, b) PROVE GuideInv'
  <2> DEFINE g == [s \in rows |-> IF s = r THEN [r EXCEPT !.favorite = b] ELSE s]
  <2>1. /\ UNCHANGED <<tagged, at, lock, total>>
        /\ rows' = (rows \ {r}) \cup {[r EXCEPT !.favorite = b]}
        /\ chosen' = IF b /\ r.active /\ r.key.by # "url" THEN chosen \cup {r.of}
                     ELSE chosen \ {r.of}
    BY <1>8 DEF SetFavorite, Edit
  <2>2. /\ g = [s \in rows |-> g[s]]
        /\ \A s \in rows : /\ g[s] \in Row /\ g[s].key = s.key /\ g[s].of = s.of
                           /\ g[s].active = s.active
        /\ \A s \in rows : s # r => g[s] = s
        /\ g[r] = [r EXCEPT !.favorite = b] /\ g[r].favorite = b
    BY DEF RowsOK, Row
  <2> HIDE DEF g
  <2>3. rows' = {g[s] : s \in rows}
    BY <2>1, <2>2
  <2>4. /\ RowsOK' /\ Known' = Known /\ Cardinality(Active') = Cardinality(Active)
        /\ \A s \in Active : g[s] \in Active'
    BY <2>1, <2>2, <2>3, RowsMarked
  <2>5. ChosenOK'
    <3>1. ASSUME NEW n \in chosen, n # r.of
          PROVE  \E s \in Active' : s.of = n /\ s.favorite /\ s.key.by # "url"
      BY <2>2, <2>4, <3>1 DEF ChosenOK, Active
    <3>2. ASSUME b, r.active, r.key.by # "url"
          PROVE  \E s \in Active' : s.of = r.of /\ s.favorite /\ s.key.by # "url"
      <4>1. b = TRUE
        BY <3>2
      <4>2. g[r].favorite = TRUE
        BY <2>2, <4>1
      <4>3. g[r] \in Active' /\ g[r].of = r.of /\ g[r].key = r.key
        BY <2>2, <2>4, <3>2 DEF Active
      <4>4. QED
        BY <3>2, <4>2, <4>3
    <3>3. QED
      BY <2>1, <3>1, <3>2 DEF ChosenOK
  <2>6. RefreshOK'
    BY <2>1, <2>4, RefreshStays
  <2>7. QED
    BY <2>1, <2>4, <2>5, <2>6
<1>9. CASE RemoveUnavailable
  <2>1. /\ UNCHANGED <<tagged, at, lock>>
        /\ rows' = {r \in Active : ~r.unavailable}
        /\ total' = IF rows' = rows THEN total ELSE Cardinality(rows')
        /\ chosen' = {n \in chosen : \E r \in rows' : r.of = n}
    BY <1>9 DEF RemoveUnavailable, Edit
  <2>2. rows' \subseteq rows /\ Active' = rows' /\ Known' \subseteq Known
    BY <2>1 DEF Active, Known
  <2>3. RowsOK'
    <3>1. IsFiniteSet(rows')
      BY <2>2, FS_Subset DEF RowsOK
    <3>2. Consistent(Known')
      BY <2>2 DEF RowsOK, Consistent
    <3>3. Consistent(Known)'
      BY <2>1, <3>2, SameTags
    <3>4. QED
      BY <2>1, <2>2, <3>1, <3>3 DEF RowsOK
  <2>4. ChosenOK'
    BY <2>1, <2>2 DEF ChosenOK, RowsOK
  <2>5. RefreshOK'
    BY <2>1, <2>2, RefreshStays
  <2>6. (total = Cardinality(Active))'
    <3>1. CASE rows' = rows
      <4>1. Active = rows
        BY <2>1, <2>2, <3>1 DEF Active
      <4>2. QED
        BY <2>1, <2>2, <3>1, <4>1
    <3>2. CASE rows' # rows
      BY <2>1, <2>2, <3>2
    <3>3. QED
      BY <3>1, <3>2
  <2>7. QED
    BY <2>3, <2>4, <2>5, <2>6
<1>10. CASE DeleteSource
  <2>1. UNCHANGED <<tagged, at, lock>> /\ rows' = {} /\ total' = 0 /\ chosen' = {}
    BY <1>10 DEF DeleteSource, Edit
  <2>2. Active' = {} /\ Known' = {}
    BY <2>1 DEF Active, Known
  <2>3. RowsOK' /\ ChosenOK' /\ (total = Cardinality(Active))'
    BY <2>1, <2>2, FS_EmptySet DEF RowsOK, ChosenOK, Consistent
  <2>4. RefreshOK'
    BY <2>1, <2>2, RefreshStays
  <2>5. QED
    BY <2>3, <2>4
<1>11. QED
  BY <1>1, <1>2, <1>3, <1>4, <1>5, <1>6, <1>7, <1>8, <1>9, <1>10 DEF GuideNext

\* A favorite stays one as long as every list names its channel, and names it once,
\* whatever channels share its tvg-id in between, however refreshes of old and new
\* workers, checks, removals and moves overlap; and channel_count is right.
THEOREM FavoritesStay == GuideSpec => []FavoritesFollow
<1>1. GuideInv => FavoritesFollow
  BY DEF GuideInv, ChosenOK, FavoritesFollow
<1>2. QED
  BY GuideStart, GuideStep, <1>1, PTL DEF GuideSpec
=============================================================================
