---------------------------- MODULE PostliveRelay ----------------------------
(***************************************************************************)
(* The relay of post-live replays (postlive_relay.py): a play creates a    *)
(* session with a pipeline that writes a spool file, one reader follows    *)
(* the file, and a finished spool outlives its session.  Sessions are      *)
(* closed by their reader, the reaper, an overtaken play, the next         *)
(* creation and shutdown; closing pops the session first and then ends     *)
(* processes without a lock.                                               *)
(***************************************************************************)
EXTENDS Integers, FiniteSets

CONSTANTS Tokens,     \* sessions, each created by a play of its own
          MaxCloses   \* bound on shutdowns

ASSUME RelayBounds == MaxCloses \in Nat

Free == "free"
Shutdown == "shutdown"
ASSUME NamesOfNobody == Free \notin Tokens /\ Shutdown \notin Tokens

VARIABLES
    creating,    \* who holds _CREATE_LOCK: a token, Shutdown or Free
    creation,    \* step of each creation
    live,        \* _SESSIONS
    pipeline,    \* each session's processes: "none", "running", "done" or "dead"
    reader,      \* each session's reader: "none", "attached" or "gone"
    closing,     \* sessions that somebody has popped and is ending
    awaited,     \* those of them that the holder of the lock is ending itself
    spools,      \* spool files on disk
    completed,   \* _COMPLETED_SPOOLS
    closes       \* bound: shutdowns so far

rvars == <<creating, creation, live, pipeline, reader, closing, awaited, spools, completed,
           closes>>

RelayInit ==
    /\ creating = Free /\ creation = [t \in Tokens |-> "new"]
    /\ live = {} /\ pipeline = [t \in Tokens |-> "none"] /\ reader = [t \in Tokens |-> "none"]
    /\ closing = {} /\ awaited = {} /\ spools = {} /\ completed = {} /\ closes = 0

-----------------------------------------------------------------------------
(* Creation, under _CREATE_LOCK *)

\* A bug: two creations go on at a time.
SpawnUnlocked(t) ==
    /\ creation[t] = "new"
    /\ creating' = t
    /\ creation' = [creation EXCEPT ![t] = "spawned"]
    /\ pipeline' = [pipeline EXCEPT ![t] = "running"]
    /\ spools' = spools \cup {t}
    /\ UNCHANGED <<live, reader, closing, awaited, completed, closes>>

\* The new pipeline is started first; a failure leaves everything as it is.
Spawn(t) ==
    /\ creation[t] = "new"
    /\ creating = Free /\ creating' = t
    /\ creation' = [creation EXCEPT ![t] = "spawned"]
    /\ pipeline' = [pipeline EXCEPT ![t] = "running"]
    /\ spools' = spools \cup {t}
    /\ UNCHANGED <<live, reader, closing, awaited, completed, closes>>

SpawnFails(t) ==
    /\ creation[t] = "new" /\ creating = Free
    /\ creation' = [creation EXCEPT ![t] = "failed"]
    /\ UNCHANGED <<creating, live, pipeline, reader, closing, awaited, spools, completed, closes>>

Pop(t) == live' = live \ {t} /\ closing' = closing \cup {t}

\* The sessions it finds are superseded: it closes them before it goes on.
Supersede(t) ==
    /\ creation[t] = "spawned"
    /\ creation' = [creation EXCEPT ![t] = "superseding"]
    /\ live' = {} /\ closing' = closing \cup live /\ awaited' = live
    /\ UNCHANGED <<creating, pipeline, reader, spools, completed, closes>>

PruneAll == completed' = {} /\ spools' = spools \ completed

\* Only its own closes are behind it: a session that somebody else has popped
\* may still be ending, and may leave its spool after this pruning.
Publish(t) ==
    /\ creation[t] = "superseding" /\ awaited \cap closing = {} /\ awaited' = {}
    /\ PruneAll
    /\ live' = live \cup {t}
    /\ creation' = [creation EXCEPT ![t] = "published"] /\ creating' = Free
    /\ UNCHANGED <<pipeline, reader, closing, closes>>

-----------------------------------------------------------------------------
(* Pipelines, readers and closing *)

PipelineEnds(t) ==
    /\ pipeline[t] = "running"
    /\ \E result \in {"done", "dead"} : pipeline' = [pipeline EXCEPT ![t] = result]
    /\ UNCHANGED <<creating, creation, live, reader, closing, awaited, spools, completed, closes>>

\* iter_stream serves one reader per session.
Attach(t) ==
    /\ t \in live /\ reader[t] = "none"
    /\ reader' = [reader EXCEPT ![t] = "attached"]
    /\ UNCHANGED <<creating, creation, live, pipeline, closing, awaited, spools, completed, closes>>

\* The reader has all of it, or leaves; its generator closes the session.
Detach(t) ==
    /\ reader[t] = "attached"
    /\ reader' = [reader EXCEPT ![t] = "gone"]
    /\ IF t \in live THEN Pop(t) ELSE UNCHANGED <<live, closing>>
    /\ UNCHANGED <<creating, creation, pipeline, awaited, spools, completed, closes>>

\* The reaper, which decides from an earlier look at the reader, or a play that
\* was overtaken before it could load the stream.
Abandon(t) ==
    /\ t \in live
    /\ Pop(t)
    /\ UNCHANGED <<creating, creation, pipeline, reader, awaited, spools, completed, closes>>

Terminate(t) ==
    /\ t \in closing /\ pipeline[t] = "running"
    /\ pipeline' = [pipeline EXCEPT ![t] = "dead"]
    /\ UNCHANGED <<creating, creation, live, reader, closing, awaited, spools, completed, closes>>

\* A finished spool is kept, the newest only; any other is removed.
Finalize(t) ==
    /\ t \in closing /\ pipeline[t] # "running"
    /\ closing' = closing \ {t}
    /\ IF pipeline[t] = "done"
       THEN completed' = {t} /\ spools' = spools \ completed
       ELSE completed' = completed /\ spools' = spools \ {t}
    /\ UNCHANGED <<creating, creation, live, pipeline, reader, awaited, closes>>

\* The reaper removes a finished spool after six hours.
ExpireSpool ==
    /\ completed # {} /\ PruneAll
    /\ UNCHANGED <<creating, creation, live, pipeline, reader, closing, awaited, closes>>

\* close_all shares the creation lock, closes what is there and prunes.
CloseAll ==
    /\ creating = Free /\ closes < MaxCloses
    /\ creating' = Shutdown /\ closes' = closes + 1
    /\ live' = {} /\ closing' = closing \cup live /\ awaited' = live
    /\ UNCHANGED <<creation, pipeline, reader, spools, completed>>

CloseAllEnds ==
    /\ creating = Shutdown /\ creating' = Free
    /\ awaited \cap closing = {} /\ awaited' = {}
    /\ PruneAll
    /\ UNCHANGED <<creation, live, pipeline, reader, closing, closes>>

RelayNext ==
    \/ \E t \in Tokens :
           \/ Spawn(t) \/ SpawnFails(t) \/ Supersede(t) \/ Publish(t)
           \/ PipelineEnds(t) \/ Attach(t) \/ Detach(t) \/ Abandon(t)
           \/ Terminate(t) \/ Finalize(t)
    \/ ExpireSpool \/ CloseAll \/ CloseAllEnds

RelaySpec == RelayInit /\ [][RelayNext]_rvars

-----------------------------------------------------------------------------
UnderCreation == {t \in Tokens : creation[t] \in {"spawned", "superseding"}}

(***************************************************************************)
(* "At most one", as create_session promises, and nothing left behind: two *)
(* sessions are never published together, at most one finished spool is    *)
(* kept, and every pipeline that runs and every spool on disk belongs to   *)
(* the published session, the creation under way, a session somebody is    *)
(* ending or the kept spool, so somebody will still end or remove it,      *)
(* whatever the order in which the reader, the reaper, overtaken plays and *)
(* shutdown close what others are creating.                                *)
(***************************************************************************)
OnePipeline ==
    /\ Cardinality(live) <= 1 /\ Cardinality(completed) <= 1
    /\ Cardinality(UnderCreation) <= 1
    /\ {t \in Tokens : pipeline[t] = "running"} \subseteq live \cup closing \cup UnderCreation
    /\ spools \subseteq live \cup closing \cup UnderCreation \cup completed
=============================================================================
