------------------------------ MODULE Discovery ------------------------------
(***************************************************************************)
(* mDNS (discovery_mdns.py): advertising this device, and browsing for     *)
(* others.  Registration, resolution and teardown talk to the network      *)
(* without a lock; generations and browse sessions keep what they bring    *)
(* home late from a service that was stopped or started again meanwhile.   *)
(***************************************************************************)
EXTENDS Integers, FiniteSets

CONSTANTS Starts,       \* calls of start()
          Peers,        \* devices on the network
          MaxSessions,  \* bound on browse sessions
          MaxOff        \* bound on calls of stop()

ASSUME DiscoveryBounds == MaxSessions \in Nat /\ MaxOff \in Nat

Nobody == "none"
ASSUME NobodyStarts == Nobody \notin Starts
Sessions == 1..MaxSessions

VARIABLES
    starting,   \* step and generation of each start
    generation, \* _GENERATION
    registered, \* starts whose Zeroconf announces the service
    advertised, \* the start whose Zeroconf is _ZEROCONF, or Nobody
    torn,       \* what a stop has taken and is taking down, or Nobody
    offs,       \* bound: stops so far
    browsing,   \* the session that is _BROWSE_SESSION, or 0
    opened,     \* browse sessions so far
    onAir,      \* peers that announce themselves
    told,       \* each session: peers its browser has reported
    asked,      \* each session: its queue, a set of peers to resolve
    resolving,  \* each session: the peer its worker asks for and what it was told
    found       \* _DISCOVERED: each peer's record, by the session that made it, or 0

dvars == <<starting, generation, registered, advertised, torn, offs, browsing, opened, onAir,
           told, asked, resolving, found>>
advertising == <<starting, generation, registered, advertised, torn, offs>>
browser == <<browsing, opened, onAir, told, asked, resolving, found>>

NoAnswer == [peer |-> Nobody, there |-> FALSE]

DiscoveryInit ==
    /\ starting = [t \in Starts |-> [step |-> "new", gen |-> 0]]
    /\ generation = 0 /\ registered = {} /\ advertised = Nobody /\ torn = Nobody /\ offs = 0
    /\ browsing = 0 /\ opened = 0 /\ onAir = {}
    /\ told = [s \in Sessions |-> {}] /\ asked = [s \in Sessions |-> {}]
    /\ resolving = [s \in Sessions |-> NoAnswer]
    /\ found = [p \in Peers |-> 0]

-----------------------------------------------------------------------------
(* Advertising *)

\* start claims the slot unless something is advertised already.
ClaimSlot(t) ==
    /\ starting[t].step = "new" /\ advertised = Nobody
    /\ generation' = generation + 1
    /\ starting' = [starting EXCEPT ![t] = [step |-> "claimed", gen |-> generation + 1]]
    /\ UNCHANGED <<registered, advertised, torn, offs, browser>>

\* register_service, which may fail.
Register(t) ==
    /\ starting[t].step = "claimed"
    /\ \/ registered' = registered \cup {t} /\ starting' = [starting EXCEPT ![t].step = "registered"]
       \/ registered' = registered /\ starting' = [starting EXCEPT ![t].step = "done"]
    /\ UNCHANGED <<generation, advertised, torn, offs, browser>>

\* A bug: what has been registered is published, whoever owns the slot now.
PublishAnyway(t) ==
    /\ starting[t].step = "registered"
    /\ advertised' = t /\ starting' = [starting EXCEPT ![t].step = "done"]
    /\ UNCHANGED <<generation, registered, torn, offs, browser>>

PublishService(t) ==
    /\ starting[t].step = "registered"
    /\ IF starting[t].gen = generation
       THEN advertised' = t /\ starting' = [starting EXCEPT ![t].step = "done"]
       ELSE starting' = [starting EXCEPT ![t].step = "retired"] /\ UNCHANGED advertised
    /\ UNCHANGED <<generation, registered, torn, offs, browser>>

\* A retired start takes down what it has built.
Teardown(t) ==
    /\ starting[t].step = "retired"
    /\ registered' = registered \ {t} /\ starting' = [starting EXCEPT ![t].step = "done"]
    /\ UNCHANGED <<generation, advertised, torn, offs, browser>>

\* stop retires starts under way and takes the service, ...
StopAdvertising ==
    /\ torn = Nobody /\ offs < MaxOff /\ offs' = offs + 1
    /\ generation' = generation + 1
    /\ torn' = advertised /\ advertised' = Nobody
    /\ UNCHANGED <<starting, registered, browser>>

\* ... which it takes down without the lock.
TeardownTaken ==
    /\ torn # Nobody
    /\ registered' = registered \ {torn} /\ torn' = Nobody
    /\ UNCHANGED <<starting, generation, advertised, offs, browser>>

-----------------------------------------------------------------------------
(* Browsing *)

StartBrowse ==
    /\ browsing = 0 /\ opened < MaxSessions
    /\ opened' = opened + 1 /\ browsing' = opened + 1
    /\ UNCHANGED <<onAir, told, asked, resolving, found, advertising>>

\* The session is retired and the records go; its browser and its worker end later.
StopBrowse ==
    /\ browsing # 0 /\ browsing' = 0
    /\ found' = [p \in Peers |-> 0]
    /\ UNCHANGED <<opened, onAir, told, asked, resolving, advertising>>

Appear(p) ==
    /\ p \notin onAir /\ onAir' = onAir \cup {p}
    /\ UNCHANGED <<browsing, opened, told, asked, resolving, found, advertising>>

Disappear(p) ==
    /\ p \in onAir /\ onAir' = onAir \ {p}
    /\ UNCHANGED <<browsing, opened, told, asked, resolving, found, advertising>>

\* Added: the peer is queued, unless the session is over.
Added(s, p) ==
    /\ s <= opened /\ p \in onAir \ told[s]
    /\ told' = [told EXCEPT ![s] = @ \cup {p}]
    /\ asked' = IF s = browsing THEN [asked EXCEPT ![s] = @ \cup {p}] ELSE asked
    /\ UNCHANGED <<browsing, opened, onAir, resolving, found, advertising>>

\* Removed, which a browser may report after it was cancelled.
Removed(s, p) ==
    /\ p \in told[s] /\ (s = browsing => p \notin onAir)
    /\ told' = [told EXCEPT ![s] = @ \ {p}]
    /\ found' = IF s = browsing THEN [found EXCEPT ![p] = 0] ELSE found
    /\ UNCHANGED <<browsing, opened, onAir, asked, resolving, advertising>>

\* _resolve_worker asks for a queued peer, or _refresh_known_services for a known one.
\* It may have seen the session alive before the session was retired.
ResolveBegin(s, p) ==
    /\ s = browsing /\ resolving[s] = NoAnswer
    /\ p \in asked[s] \/ found[p] # 0
    /\ asked' = [asked EXCEPT ![s] = @ \ {p}]
    /\ resolving' = [resolving EXCEPT ![s] = [peer |-> p, there |-> p \in onAir]]
    /\ UNCHANGED <<browsing, opened, onAir, told, found, advertising>>

Learn(s) == [found EXCEPT ![resolving[s].peer] = IF resolving[s].there THEN s ELSE 0]

\* A bug: the worker records what it has learned without asking for its session.
RecordAnyway(s) ==
    /\ resolving[s] # NoAnswer
    /\ resolving' = [resolving EXCEPT ![s] = NoAnswer]
    /\ found' = Learn(s)
    /\ UNCHANGED <<browsing, opened, onAir, told, asked, advertising>>

\* The answer is recorded if the session is still the one that browses.
RecordAnswer(s) ==
    /\ resolving[s] # NoAnswer
    /\ resolving' = [resolving EXCEPT ![s] = NoAnswer]
    /\ found' = IF s = browsing THEN Learn(s) ELSE found
    /\ UNCHANGED <<browsing, opened, onAir, told, asked, advertising>>

\* No answer in time, or the record's age.
Forget(p) ==
    /\ found[p] # 0 /\ found' = [found EXCEPT ![p] = 0]
    /\ UNCHANGED <<browsing, opened, onAir, told, asked, resolving, advertising>>

AdvertiseNext ==
    \/ \E t \in Starts : ClaimSlot(t) \/ Register(t) \/ PublishService(t) \/ Teardown(t)
    \/ StopAdvertising \/ TeardownTaken

BrowseNext ==
    \/ StartBrowse \/ StopBrowse
    \/ \E p \in Peers : Appear(p) \/ Disappear(p) \/ Forget(p)
    \/ \E s \in Sessions, p \in Peers : Added(s, p) \/ Removed(s, p) \/ ResolveBegin(s, p)
    \/ \E s \in Sessions : RecordAnswer(s)

\* The two share nothing.
DiscoveryNext == AdvertiseNext \/ BrowseNext

DiscoverySpec == DiscoveryInit /\ [][DiscoveryNext]_dvars

-----------------------------------------------------------------------------
(* Properties *)

\* "nothing would ever unregister it": every registration that is announced belongs to
\* the service that stop would take, or somebody is about to publish or to retire it.
NoOrphanedService ==
    \A t \in registered :
        t \in {advertised, torn} \/ starting[t].step \in {"registered", "retired"}

\* "Owning these per generation is what keeps a retired worker from consuming its
\* replacement's queue or writing its replacement's globals": whatever is found was
\* found by the session that browses now; after a stop nothing is.
FoundByTheLiveSession == \A p \in Peers : found[p] \in {0, browsing}
=============================================================================
