---------------------------- MODULE SharedFetches ----------------------------
(***************************************************************************)
(* Fetches that callers share: thumbnails, by a claim, a bounded queue and *)
(* one worker (thumb_cache.py), and titles, by the first caller running    *)
(* yt-dlp while the others wait for it (ytdlp_info in resolver.py).        *)
(***************************************************************************)
EXTENDS Integers, FiniteSets, Sequences

CONSTANTS Thumbs,    \* thumbnail ids, each of one source URL
          Callers,   \* requests that show, or serve, a thumbnail
          QueueMax,  \* THUMB_QUEUE_MAX
          Urls,      \* URLs whose title is asked
          Lookups,   \* calls of ytdlp_info
          CacheMax   \* _YTDLP_INFO_CACHE_MAX

ASSUME FetchBounds == QueueMax \in Nat /\ CacheMax \in Nat \ {0}

NoThumb == "none"
ASSUME NoThumbIsNone == NoThumb \notin Thumbs
NoUrl == "none"
ASSUME NoUrlIsNone == NoUrl \notin Urls

VARIABLES
    disk,      \* thumbnails on disk
    sources,   \* _SRC_BY_ID: thumbnails whose URL is remembered
    inflight,  \* _INFLIGHT
    backoff,   \* _FAILED_AT, those that failed recently
    waiting,   \* _Q
    worker,    \* what the worker is doing, and with which thumbnail
    caller,    \* what each request is doing, and with which thumbnail
    cache,     \* _YTDLP_INFO_CACHE: URLs with a live answer
    flight,    \* _YTDLP_INFO_INFLIGHT: the lookup that owns each URL, a set of at most one
    lookup     \* what each call of ytdlp_info is doing, and about which URL

hvars == <<disk, sources, inflight, backoff, waiting, worker, caller>>
yvars == <<cache, flight, lookup>>

Doing(step, t) == [step |-> step, thumb |-> t]
Resting == Doing("idle", NoThumb)

ThumbInit ==
    /\ disk = {} /\ sources = {} /\ inflight = {} /\ backoff = {} /\ waiting = <<>>
    /\ worker = Resting /\ caller = [c \in Callers |-> Resting]

-----------------------------------------------------------------------------
(* Claims *)

\* _claim_thumb, in one hold of _INFLIGHT_LOCK.
Claimable(t) == t \notin inflight \cup backoff

\* _release_thumb; a failure is left alone for a while.
Release(t, failed) ==
    /\ inflight' = inflight \ {t}
    /\ backoff' = IF failed THEN backoff \cup {t} ELSE backoff \ {t}

CallerDoes(c, step, t) == caller' = [caller EXCEPT ![c] = Doing(step, t)]
CallerRests(c) == caller' = [caller EXCEPT ![c] = Resting]

-----------------------------------------------------------------------------
(* attach_local_thumbnail: an item is shown *)

Show(c, t) ==
    /\ caller[c] = Resting
    /\ sources' = sources \cup {t}
    /\ IF t \in disk THEN UNCHANGED caller ELSE CallerDoes(c, "missing", t)
    /\ UNCHANGED <<disk, inflight, backoff, waiting, worker>>

ShowClaim(c) ==
    /\ caller[c].step = "missing"
    /\ IF Claimable(caller[c].thumb)
       THEN /\ inflight' = inflight \cup {caller[c].thumb}
            /\ CallerDoes(c, "claimed", caller[c].thumb)
       ELSE CallerRests(c) /\ UNCHANGED inflight
    /\ UNCHANGED <<disk, sources, backoff, waiting, worker>>

\* A bug: what does not fit into the queue stays claimed.
EnqueueOrForget(c) ==
    /\ caller[c].step = "claimed"
    /\ waiting' = IF Len(waiting) < QueueMax THEN Append(waiting, caller[c].thumb) ELSE waiting
    /\ CallerRests(c)
    /\ UNCHANGED <<disk, sources, inflight, backoff, worker>>

\* What does not fit into the queue is offered again by a later poll.
Enqueue(c) ==
    /\ caller[c].step = "claimed"
    /\ IF Len(waiting) < QueueMax
       THEN waiting' = Append(waiting, caller[c].thumb) /\ UNCHANGED <<inflight, backoff>>
       ELSE Release(caller[c].thumb, FALSE) /\ UNCHANGED waiting
    /\ CallerRests(c)
    /\ UNCHANGED <<disk, sources, worker>>

-----------------------------------------------------------------------------
(* ensure_cached_sync: /thumbs serves a thumbnail *)

Serve(c, t) ==
    /\ caller[c] = Resting
    /\ t \notin disk /\ t \in sources
    /\ CallerDoes(c, "wanted", t)
    /\ UNCHANGED <<disk, sources, inflight, backoff, waiting, worker>>

ServeClaim(c) ==
    /\ caller[c].step = "wanted"
    /\ IF Claimable(caller[c].thumb)
       THEN /\ inflight' = inflight \cup {caller[c].thumb}
            /\ CallerDoes(c, "fetching", caller[c].thumb)
       ELSE CallerDoes(c, "waiting", caller[c].thumb) /\ UNCHANGED inflight
    /\ UNCHANGED <<disk, sources, backoff, waiting, worker>>

\* The thumbnail has come, its owner has given up, or three seconds are over.
ServeEnds(c) ==
    /\ caller[c].step = "waiting" /\ CallerRests(c)
    /\ UNCHANGED <<disk, sources, inflight, backoff, waiting, worker>>

\* A download that succeeds is on disk before it is released, unless a pruning
\* takes it away at once; then it has failed.
ServeFetched(c) ==
    /\ caller[c].step = "fetching"
    /\ disk' = disk \cup {caller[c].thumb}
    /\ CallerDoes(c, "stored", caller[c].thumb)
    /\ UNCHANGED <<sources, inflight, backoff, waiting, worker>>

ServeRelease(c) ==
    /\ caller[c].step \in {"fetching", "stored"}
    /\ Release(caller[c].thumb, caller[c].step = "fetching" \/ caller[c].thumb \notin disk)
    /\ CallerRests(c)
    /\ UNCHANGED <<disk, sources, waiting, worker>>

-----------------------------------------------------------------------------
(* The worker, and pruning *)

WorkerTakes ==
    /\ worker = Resting /\ waiting # <<>>
    /\ waiting' = Tail(waiting)
    /\ worker' = Doing(IF Head(waiting) \in disk THEN "stored" ELSE "fetching", Head(waiting))
    /\ UNCHANGED <<disk, sources, inflight, backoff, caller>>

WorkerFetched ==
    /\ worker.step = "fetching"
    /\ disk' = disk \cup {worker.thumb}
    /\ worker' = Doing("stored", worker.thumb)
    /\ UNCHANGED <<sources, inflight, backoff, waiting, caller>>

\* The download or the commit of the file may fail at any point.
WorkerRelease ==
    /\ worker.step \in {"fetching", "stored"}
    /\ Release(worker.thumb, worker.step = "fetching")
    /\ worker' = Resting
    /\ UNCHANGED <<disk, sources, waiting, caller>>

\* _prune_thumb_dir: age, number or size.
Prune(t) ==
    /\ t \in disk /\ disk' = disk \ {t}
    /\ UNCHANGED <<sources, inflight, backoff, waiting, worker, caller>>

\* The backoff is over, or its record made room for newer failures.
RetryAgain(t) ==
    /\ t \in backoff /\ backoff' = backoff \ {t}
    /\ UNCHANGED <<disk, sources, inflight, waiting, worker, caller>>

\* _remember_src forgets the oldest.
ForgetSource(t) ==
    /\ t \in sources /\ sources' = sources \ {t}
    /\ UNCHANGED <<disk, inflight, backoff, waiting, worker, caller>>

ThumbNext ==
    \/ \E c \in Callers :
           \/ \E t \in Thumbs : Show(c, t) \/ Serve(c, t)
           \/ ShowClaim(c) \/ Enqueue(c)
           \/ ServeClaim(c) \/ ServeEnds(c) \/ ServeFetched(c) \/ ServeRelease(c)
    \/ WorkerTakes \/ WorkerFetched \/ WorkerRelease
    \/ \E t \in Thumbs : Prune(t) \/ RetryAgain(t) \/ ForgetSource(t)

ThumbSpec == ThumbInit /\ [][ThumbNext]_hvars

-----------------------------------------------------------------------------
(* ytdlp_info *)

LookupInit ==
    /\ cache = {} /\ flight = [u \in Urls |-> {}]
    /\ lookup = [l \in Lookups |-> [step |-> "new", url |-> NoUrl]]

LookupDoes(l, step) == lookup' = [lookup EXCEPT ![l].step = step]

\* The first look at the cache, in a hold of the lock of its own ...
Read(l, u) ==
    /\ lookup[l].step = "new"
    /\ lookup' = [lookup EXCEPT ![l] = [step |-> IF u \in cache THEN "over" ELSE "missed",
                                       url |-> u]]
    /\ UNCHANGED <<cache, flight>>

\* A bug: the cache is not read again in the hold of the lock that claims.
JoinWithoutLooking(l) ==
    /\ lookup[l].step = "missed"
    /\ IF flight[lookup[l].url] = {}
       THEN flight' = [flight EXCEPT ![lookup[l].url] = {l}] /\ LookupDoes(l, "running")
       ELSE LookupDoes(l, "waiting") /\ UNCHANGED flight
    /\ UNCHANGED cache

\* ... and the second, with the claim: whoever comes first runs yt-dlp.
Join(l) ==
    /\ lookup[l].step = "missed"
    /\ IF lookup[l].url \in cache
       THEN LookupDoes(l, "over") /\ UNCHANGED flight
       ELSE IF flight[lookup[l].url] = {}
       THEN flight' = [flight EXCEPT ![lookup[l].url] = {l}] /\ LookupDoes(l, "running")
       ELSE LookupDoes(l, "waiting") /\ UNCHANGED flight
    /\ UNCHANGED cache

\* The owner has set its event, or 25 seconds are over; the answer may be evicted.
WaitEnds(l) ==
    /\ lookup[l].step = "waiting" /\ LookupDoes(l, "over")
    /\ UNCHANGED <<cache, flight>>

\* _ytdlp_info_store makes room for the answer.
AnswerLookup(l) ==
    /\ lookup[l].step = "running" /\ LookupDoes(l, "landing")
    /\ IF Cardinality(cache) < CacheMax
       THEN cache' = cache \cup {lookup[l].url}
       ELSE \E u \in cache : cache' = (cache \ {u}) \cup {lookup[l].url}
    /\ UNCHANGED flight

LookupFails(l) ==
    /\ lookup[l].step = "running" /\ LookupDoes(l, "landing")
    /\ UNCHANGED <<cache, flight>>

Land(l) ==
    /\ lookup[l].step = "landing" /\ LookupDoes(l, "over")
    /\ flight' = [flight EXCEPT ![lookup[l].url] = {}]
    /\ UNCHANGED cache

\* An answer is six hours old.
ExpireAnswer(u) ==
    /\ u \in cache /\ cache' = cache \ {u}
    /\ UNCHANGED <<flight, lookup>>

LookupNext ==
    \/ \E l \in Lookups :
           \/ \E u \in Urls : Read(l, u)
           \/ Join(l) \/ WaitEnds(l) \/ AnswerLookup(l) \/ LookupFails(l) \/ Land(l)
    \/ \E u \in Urls : ExpireAnswer(u)

LookupSpec == LookupInit /\ [][LookupNext]_yvars

-----------------------------------------------------------------------------
(* Properties *)

\* Everybody who answers for a thumbnail: callers, places of the queue, the worker.
CallersOf(t) == {c \in Callers : caller[c].thumb = t /\
                                 caller[c].step \in {"claimed", "fetching", "stored"}}
PlacesOf(t) == {i \in DOMAIN waiting : waiting[i] = t}
WorkersOf(t) == {w \in {worker} : w.thumb = t}
Responsible(t) ==
    Cardinality(CallersOf(t)) + Cardinality(PlacesOf(t)) + Cardinality(WorkersOf(t))

OwnersOf(u) == {l \in Lookups : lookup[l].url = u /\ lookup[l].step \in {"running", "landing"}}
RunsOf(u) == {l \in OwnersOf(u) : lookup[l].step = "running"}

(***************************************************************************)
(* "Never start a duplicate download and never bypass the failure budget": *)
(* a claimed thumbnail has exactly one owner, who will release it, an      *)
(* unclaimed one has none, and one that failed recently is not fetched.    *)
(* And yt-dlp never runs twice for a URL, nor while its answer is cached:  *)
(* the URL belongs to the lookup that runs, and to nobody after it.        *)
(***************************************************************************)
FetchedOnce ==
    /\ \A t \in Thumbs :
         /\ Responsible(t) = IF t \in inflight THEN 1 ELSE 0
         /\ t \in inflight => t \notin backoff
    /\ \A u \in Urls :
         /\ flight[u] = OwnersOf(u) /\ Cardinality(OwnersOf(u)) <= 1
         /\ u \in cache => RunsOf(u) = {}
=============================================================================
