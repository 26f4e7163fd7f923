---------------------------- MODULE UploadStore -----------------------------
(***************************************************************************)
(* Uploaded media (upload_store.py, routes/uploads.py): requests that      *)
(* receive a file, and the cleanup that removes what is missing, too old   *)
(* or too much and prunes the queue.  A request that plays what it         *)
(* receives writes its metadata first and is protected meanwhile; one that *)
(* only stores writes it last.                                             *)
(***************************************************************************)
EXTENDS Integers, FiniteSets

CONSTANTS Stored,      \* uploads of /ingest/media and /ingest/media/enqueue
          Played,      \* uploads of /ingest/media/play
          MaxCrashes   \* bound on restarts of the server

ASSUME UploadBounds == Stored \cap Played = {} /\ MaxCrashes \in Nat

Uploads == Stored \cup Played

VARIABLES
    upload,     \* step of each request
    meta, file, \* the uploads whose meta.json, whose media file, are on disk
    active,     \* _ACTIVE_UPLOADS
    old,        \* uploads past the retention period
    inQueue,    \* uploads that state.QUEUE refers to
    sweep,      \* the cleanup that holds _UPLOAD_LOCK: its step
    listed,     \* directories it has looked at
    metas,      \* uploads whose metadata it has read and not yet judged
    missing,    \* those of them whose file it did not find
    kept,       \* valid_metas
    crashes,    \* bound: restarts so far
    removedFor  \* history: why each upload was last removed

uvars == <<upload, meta, file, active, old, inQueue, sweep, listed, metas, missing, kept,
           crashes, removedFor>>

UploadInit ==
    /\ upload = [u \in Uploads |-> "new"]
    /\ meta = {} /\ file = {} /\ active = {} /\ old = {} /\ inQueue = {}
    /\ sweep = "idle" /\ listed = {} /\ metas = {} /\ missing = {} /\ kept = {}
    /\ crashes = 0 /\ removedFor = [u \in Uploads |-> "nothing"]

Unswept == UNCHANGED <<sweep, listed, metas, missing, kept, crashes>>

-----------------------------------------------------------------------------
(* Requests *)

\* /ingest/media/play registers the upload and writes its metadata, of a file to come.
Announce(u) ==
    /\ u \in Played /\ upload[u] = "new"
    /\ upload' = [upload EXCEPT ![u] = "announced"]
    /\ active' = active \cup {u} /\ meta' = meta \cup {u}
    /\ UNCHANGED <<file, old, inQueue, removedFor>> /\ Unswept

\* It opens the file and receives into it; /ingest/media publishes a whole file.
Receive(u) ==
    /\ upload[u] = (IF u \in Played THEN "announced" ELSE "new")
    /\ upload' = [upload EXCEPT ![u] = "received"]
    /\ file' = file \cup {u}
    /\ UNCHANGED <<meta, active, old, inQueue, removedFor>> /\ Unswept

\* The metadata are complete: the upload is a finished one.
Finish(u) ==
    /\ upload[u] = "received"
    /\ upload' = [upload EXCEPT ![u] = "finished"]
    /\ meta' = meta \cup {u}
    /\ UNCHANGED <<file, active, old, inQueue, removedFor>> /\ Unswept

\* A bug: the protection ends without waiting for a cleanup under way.
AnswerAtOnce(u) ==
    /\ upload[u] = "finished"
    /\ upload' = [upload EXCEPT ![u] = "answered"]
    /\ active' = active \ {u}
    /\ UNCHANGED <<meta, file, old, inQueue, removedFor>> /\ Unswept

\* The request runs a cleanup of its own, so it waits for one under way, and answers;
\* the cleanup itself is SweepBegin ... SweepEnd.
Answer(u) ==
    /\ upload[u] = "finished" /\ sweep = "idle"
    /\ upload' = [upload EXCEPT ![u] = "answered"]
    /\ active' = active \ {u}
    /\ UNCHANGED <<meta, file, old, inQueue, removedFor>> /\ Unswept

\* /ingest/media/enqueue, or anyone who has the URL, of a file that is there.
EnqueueUpload(u) ==
    /\ upload[u] = "answered" /\ u \in file /\ u \notin inQueue
    /\ inQueue' = inQueue \cup {u}
    /\ UNCHANGED <<upload, meta, file, active, old, removedFor>> /\ Unswept

\* A failed request of /ingest/media/play removes everything, unless it was cancelled
\* before it could receive; the other leaves what it has published.
Fail(u) ==
    /\ upload[u] \in {"announced", "received", "finished"}
    /\ upload' = [upload EXCEPT ![u] = "failed"]
    /\ active' = active \ {u}
    /\ \/ /\ u \in Played
          /\ meta' = meta \ {u} /\ file' = file \ {u}
          /\ removedFor' = [removedFor EXCEPT ![u] = "failure"]
       \/ /\ u \in Stored \/ upload[u] = "announced"
          /\ UNCHANGED <<meta, file, removedFor>>
    /\ UNCHANGED <<old, inQueue>> /\ Unswept

GrowOld(u) ==
    /\ u \in meta \ old /\ upload[u] \in {"answered", "failed", "lost"}
    /\ old' = old \cup {u}
    /\ UNCHANGED <<upload, meta, file, active, inQueue, removedFor>> /\ Unswept

\* The server restarts; nothing is protected any more.
CrashUploads ==
    /\ crashes < MaxCrashes /\ crashes' = crashes + 1
    /\ upload' = [u \in Uploads |->
           IF upload[u] \in {"announced", "received", "finished"} THEN "lost" ELSE upload[u]]
    /\ active' = {}
    /\ sweep' = "idle" /\ listed' = {} /\ metas' = {} /\ missing' = {} /\ kept' = {}
    /\ UNCHANGED <<meta, file, old, inQueue, removedFor>>

-----------------------------------------------------------------------------
(* cleanup_uploads: by the worker, and before and after each upload *)

SweepBegin ==
    /\ sweep = "idle" /\ sweep' = "listing"
    /\ UNCHANGED <<upload, meta, file, active, old, inQueue, listed, metas, missing, kept, crashes,
                   removedFor>>

\* list_upload_metadata looks at one directory after the other.
SweepList(u) ==
    /\ sweep = "listing" /\ u \notin listed
    /\ listed' = listed \cup {u}
    /\ metas' = metas \cup ({u} \cap meta)
    /\ missing' = missing \cup (({u} \cap meta) \ file)
    /\ sweep' = IF listed' = Uploads THEN "removing" ELSE "listing"
    /\ UNCHANGED <<upload, meta, file, active, old, inQueue, kept, crashes, removedFor>>

Delete(u, why) ==
    /\ meta' = meta \ {u} /\ file' = file \ {u}
    /\ removedFor' = [removedFor EXCEPT ![u] = why]

\* Missing or expired uploads go, unless they are protected now.
SweepRemove(u) ==
    /\ sweep = "removing" /\ u \in metas /\ metas' = metas \ {u}
    /\ IF u \notin active /\ u \in missing \cup old
       THEN Delete(u, IF u \in missing THEN "missing" ELSE "age") /\ kept' = kept
       ELSE kept' = kept \cup {u} /\ UNCHANGED <<meta, file, removedFor>>
    /\ UNCHANGED <<upload, active, old, inQueue, sweep, listed, missing, crashes>>

\* While the total is above the quota, the oldest of those that are left go.
SweepQuota(u) ==
    /\ sweep = "removing" /\ metas = {}
    /\ u \in kept \ active
    /\ kept' = kept \ {u} /\ Delete(u, "quota")
    /\ UNCHANGED <<upload, active, old, inQueue, sweep, listed, metas, missing, crashes>>

\* _prune_missing_upload_refs, still under the lock.
SweepEnd ==
    /\ sweep = "removing" /\ metas = {}
    /\ sweep' = "idle" /\ inQueue' = inQueue \cap file
    /\ listed' = {} /\ missing' = {} /\ kept' = {}
    /\ UNCHANGED <<upload, meta, file, active, old, metas, crashes, removedFor>>

UploadNext ==
    \/ \E u \in Uploads :
           \/ Announce(u) \/ Receive(u) \/ Finish(u) \/ Answer(u) \/ EnqueueUpload(u) \/ Fail(u)
           \/ GrowOld(u) \/ SweepList(u) \/ SweepRemove(u) \/ SweepQuota(u)
    \/ SweepBegin \/ SweepEnd \/ CrashUploads

UploadSpec == UploadInit /\ [][UploadNext]_uvars

-----------------------------------------------------------------------------
(* Properties *)

\* An upload that is being received is never removed by a cleanup; one that has been
\* answered is removed for its age or the quota alone, never because a cleanup that
\* looked before its file was there removes it as missing.
FinishedIsKept ==
    \A u \in Uploads :
        /\ u \in Played /\ upload[u] \in {"received", "finished"} => u \in file
        /\ upload[u] = "answered" /\ u \notin file => removedFor[u] \in {"age", "quota"}
=============================================================================
