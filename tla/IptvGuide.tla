------------------------------ MODULE IptvGuide ------------------------------
(***************************************************************************)
(* An IPTV source and its channels (integrations/iptv_service.py,          *)
(* iptv_store.py): refreshes asked by people and by worker generations     *)
(* that outlive their stop, availability checks, and the edits beside      *)
(* them.  Every store operation is one transaction under the store's lock; *)
(* a refresh holds its source's lock and is in the network between them.   *)
(* Of what people may set on a channel, and a refresh must keep, favorite  *)
(* stands for all; a failed check may be the third in a row or not.        *)
(***************************************************************************)
EXTENDS Integers, FiniteSets

CONSTANTS Locations,    \* playlist URLs the source may have
          Names,        \* names of channels
          Askers,       \* requests, each for one refresh or one check
          Workers,      \* generations of the worker
          MaxVersion,   \* bound on the versions of a playlist
          MaxRefreshes, \* bound on refreshes
          MaxEdits      \* bound on edits, checks and changes of playlists

ASSUME NamesAssumption == IsFiniteSet(Names)
ASSUME GuideBounds == MaxVersion \in Nat /\ MaxRefreshes \in Nat /\ MaxEdits \in Nat

Actors == Askers \cup Workers
NoDate == 0             \* no conditional validators
Shared == "tvg"         \* the tvg-id that some channels share

\* A playlist: how often it lists each name (again with another stream).
Lists == {l \in [Names -> 0..2] : \E n \in Names : l[n] > 0}
Once(l) == {n \in Names : l[n] = 1}

\* identity_key: by tvg-id, by name, or by name and stream.
TvgKey == [by |-> "tvg", name |-> Shared, copy |-> 1]
NameKey(n) == [by |-> "name", name |-> n, copy |-> 1]

VARIABLES
    tagged,     \* names whose entries carry the shared tvg-id
    version,    \* date of the playlist at each location (external)
    source,     \* the source's row: stored, enabled, location, validator
    rows,       \* its iptv_channels
    total,      \* its channel_count
    lock,       \* who is inside its refresh lock
    at,         \* what each actor is doing
    retired,    \* worker generations whose stop flag is set
    refreshes, edits,  \* bounds
    origin,     \* history: the location the catalogue came from
    chosen      \* history: names made a favorite and listed once in every list since

gvars == <<tagged, version, source, rows, total, lock, at, retired, refreshes, edits, origin,
           chosen>>

Nowhere == "nowhere"
Idle == [step |-> "idle"]

GuideInit ==
    /\ tagged \in SUBSET Names /\ version = [l \in Locations |-> 1]
    /\ \E l \in Locations :
           source = [stored |-> TRUE, enabled |-> TRUE, location |-> l, validator |-> NoDate]
    /\ rows = {} /\ total = 0 /\ lock = {} /\ retired = {}
    /\ at = [a \in Actors |-> IF a \in Workers THEN [step |-> "unborn"] ELSE Idle]
    /\ refreshes = 0 /\ edits = 0 /\ origin = Nowhere /\ chosen = {}

-----------------------------------------------------------------------------
(* Channel identities *)

Active == {r \in rows : r.active}
Known == {[key |-> r.key, of |-> r.of] : r \in rows}
Listing(l) == {e \in Names \X (1..2) : e[2] <= l[e[1]]}
Sharers(l) == {e \in Listing(l) : e[1] \in tagged}
Unnamed(e, l) ==
    IF l[e[1]] = 1 THEN NameKey(e[1]) ELSE [by |-> "url", name |-> e[1], copy |-> e[2]]

\* _assign_channel_ids for one entry.  The channel that already owns the shared
\* tvg-id keeps it, and one that is known by its name stays known by it.
IdentityOf(e, l, ids) ==
    LET unique == Cardinality(Sharers(l)) = 1
        byName == l[e[1]] = 1 /\ \E i \in ids : i.key = NameKey(e[1])
        owner == [key |-> TvgKey, of |-> e[1]] \in ids
    IN IF e[1] \in tagged /\ (IF unique THEN ~byName ELSE owner)
       THEN TvgKey ELSE Unnamed(e, l)

\* The channels of a refresh; entries with one identity are one channel.
Assigned(l, ids) == {[key |-> IdentityOf(e, l, ids), of |-> e[1]] : e \in Listing(l)}

-----------------------------------------------------------------------------
(* Refreshes *)

Owned(a) == a \notin retired  \* publish_guard
Does(a, what) == at' = [at EXCEPT ![a] = what]
Leave(a) == Does(a, Idle) /\ lock' = lock \ {a}
SameGuide == UNCHANGED <<source, rows, total, origin, chosen>>
SameWorld == UNCHANGED <<tagged, version, retired, edits>>

\* refresh_source reads the row, by a request or by the worker's round ...
Begin(a) ==
    /\ at[a] = Idle /\ Owned(a)
    /\ source.stored /\ source.enabled
    /\ refreshes < MaxRefreshes /\ refreshes' = refreshes + 1
    /\ Does(a, [step |-> "read", location |-> source.location, validator |-> source.validator])
    /\ SameGuide /\ SameWorld /\ UNCHANGED lock

\* A bug: a refresh does not ask whether another one is under way.
EnterTogether(a) ==
    /\ at[a].step = "read"
    /\ lock' = lock \cup {a} /\ Does(a, [at[a] EXCEPT !.step = "asking"])
    /\ SameGuide /\ SameWorld /\ UNCHANGED refreshes

\* ... and then tries the source's lock; it does not wait for it.
Enter(a) ==
    /\ at[a].step = "read"
    /\ IF lock = {} /\ Owned(a)
       THEN lock' = {a} /\ Does(a, [at[a] EXCEPT !.step = "asking"])
       ELSE Does(a, Idle) /\ UNCHANGED lock
    /\ SameGuide /\ SameWorld /\ UNCHANGED refreshes

\* The server answers 304: it has nothing newer than the validators it was sent.
NotModified(a) ==
    /\ at[a].step = "asking"
    /\ at[a].validator # NoDate /\ version[at[a].location] <= at[a].validator
    /\ Leave(a) /\ SameGuide /\ SameWorld /\ UNCHANGED refreshes

\* The download fails, or is no playlist.
Fails(a) ==
    /\ at[a].step = "asking"
    /\ Leave(a) /\ SameGuide /\ SameWorld /\ UNCHANGED refreshes

\* A playlist arrives and its channels are matched with the stored ones.
Fetched(a, l) ==
    /\ at[a].step = "asking"
    /\ IF Owned(a)
       THEN /\ Does(a, [step |-> "named", location |-> at[a].location,
                        date |-> version[at[a].location], once |-> Once(l),
                        channels |-> Assigned(l, Known)])
            /\ UNCHANGED lock
       ELSE Leave(a)
    /\ SameGuide /\ SameWorld /\ UNCHANGED refreshes

\* The row of a listed channel: what people and checks have set on it stays.
Listed(c) ==
    LET before == {r \in rows : r.key = c.key}
    IN [key |-> c.key, of |-> c.of, active |-> TRUE,
        favorite |-> \E r \in before : r.favorite, unavailable |-> \E r \in before : r.unavailable]

\* replace_catalog.
PublishCatalog(a) ==
    /\ at[a].step = "named"
    /\ IF Owned(a) /\ source.stored
       THEN LET new == at[a].channels
                gone == {r \in rows : \A c \in new : c.key # r.key}
            IN /\ rows' = {[r EXCEPT !.active = FALSE] : r \in gone}
                          \cup {Listed(c) : c \in new}
               /\ total' = Cardinality(new)
               /\ source' = [source EXCEPT !.validator = at[a].date]
               /\ origin' = at[a].location /\ chosen' = chosen \cap at[a].once
       ELSE SameGuide
    /\ Leave(a) /\ SameWorld /\ UNCHANGED refreshes

-----------------------------------------------------------------------------
(* Availability checks *)

\* check_channel: of any channel by a request, of active favorites by the worker.
CheckBegin(a, r) ==
    /\ at[a] = Idle /\ Owned(a)
    /\ a \in Workers => r.active /\ r.favorite /\ source.enabled
    /\ edits < MaxEdits /\ edits' = edits + 1
    /\ Does(a, [step |-> "checking", key |-> r.key])
    /\ SameGuide /\ UNCHANGED <<tagged, version, retired, lock, refreshes>>

\* mark_channel_check; the channel may be gone by now.
CheckEnd(a) ==
    /\ at[a].step = "checking"
    /\ \E bad \in BOOLEAN :
           rows' = {IF r.key = at[a].key /\ Owned(a) THEN [r EXCEPT !.unavailable = bad] ELSE r :
                       r \in rows}
    /\ Does(a, Idle)
    /\ SameWorld /\ UNCHANGED <<source, total, lock, refreshes, origin, chosen>>

-----------------------------------------------------------------------------
(* The worker, the edits and the playlists *)

\* A new generation starts unless one that was not told to stop is there.
StartWorker(w) ==
    /\ at[w].step = "unborn" /\ \A v \in Workers : at[v].step = "unborn" \/ v \in retired
    /\ Does(w, Idle)
    /\ SameGuide /\ UNCHANGED <<tagged, version, lock, retired, refreshes, edits>>

\* stop_worker waits two seconds; a refresh in the network goes on.
StopWorker(w) ==
    /\ at[w].step # "unborn" /\ w \notin retired
    /\ retired' = retired \cup {w}
    /\ SameGuide /\ UNCHANGED <<tagged, version, lock, at, refreshes, edits>>

Edit ==
    /\ source.stored /\ edits < MaxEdits /\ edits' = edits + 1
    /\ UNCHANGED <<tagged, version, lock, at, retired, refreshes>>

\* update_channel.
SetFavorite(r, f) ==
    /\ Edit
    /\ rows' = (rows \ {r}) \cup {[r EXCEPT !.favorite = f]}
    /\ chosen' = IF f /\ r.active /\ r.key.by # "url" THEN chosen \cup {r.of}
                 ELSE chosen \ {r.of}
    /\ UNCHANGED <<source, total, origin>>

\* remove_unavailable removes what is not listed or did not answer.
RemoveUnavailable ==
    /\ Edit
    /\ rows' = {r \in Active : ~r.unavailable}
    /\ total' = IF rows' = rows THEN total ELSE Cardinality(rows')
    /\ chosen' = {n \in chosen : \E r \in rows' : r.of = n}
    /\ UNCHANGED <<source, origin>>

\* update_source with a location forgets the validators of the old one.
Move(l) ==
    /\ Edit /\ source' = [source EXCEPT !.location = l, !.validator = NoDate]
    /\ UNCHANGED <<rows, total, origin, chosen>>

Switch ==
    /\ Edit /\ source' = [source EXCEPT !.enabled = ~source.enabled]
    /\ UNCHANGED <<rows, total, origin, chosen>>

DeleteSource ==
    /\ Edit /\ source' = [source EXCEPT !.stored = FALSE]
    /\ rows' = {} /\ total' = 0 /\ chosen' = {} /\ UNCHANGED origin

\* Whoever keeps the playlist changes it.
Upstream(l) ==
    /\ version[l] < MaxVersion /\ version' = [version EXCEPT ![l] = version[l] + 1]
    /\ edits < MaxEdits /\ edits' = edits + 1
    /\ SameGuide /\ UNCHANGED <<tagged, lock, at, retired, refreshes>>

GuideNext ==
    \/ \E a \in Actors :
           \/ Begin(a) \/ Enter(a) \/ NotModified(a) \/ Fails(a) \/ PublishCatalog(a) \/ CheckEnd(a)
           \/ \E l \in Lists : Fetched(a, l)
           \/ \E r \in rows : CheckBegin(a, r)
    \/ \E w \in Workers : StartWorker(w) \/ StopWorker(w)
    \/ \E r \in rows, f \in BOOLEAN : SetFavorite(r, f)
    \/ \E l \in Locations : Move(l) \/ Upstream(l)
    \/ RemoveUnavailable \/ Switch \/ DeleteSource

GuideSpec == GuideInit /\ [][GuideNext]_gvars

-----------------------------------------------------------------------------
(* Properties *)

(***************************************************************************)
(* "A tvg-id duplicate appearing or disappearing across refreshes does not *)
(* detach a channel's user state": a channel made a favorite stays one as  *)
(* long as every list names it, and names it once, whatever channels share *)
(* its tvg-id in between, however refreshes, removals and moves of the     *)
(* source overlap; and channel_count is the number of listed channels.     *)
(***************************************************************************)
FavoritesFollow ==
    /\ \A n \in chosen : \E r \in Active : r.of = n /\ r.favorite
    /\ total = Cardinality(Active)

\* "The new URL is fully fetched instead of 304-skipped": when a refresh is told
\* that its playlist has not changed, the channels stored came from that playlist.
NewUrlIsFetched == [][\A a \in Actors : NotModified(a) => origin = at[a].location]_gvars
=============================================================================
