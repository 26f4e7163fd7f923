-------------------------- MODULE PlaylistImports --------------------------
(***************************************************************************)
(* Background imports of YouTube playlists (youtube_playlist.py and the    *)
(* playlist half of playback_service.py).  A worker reads the playlist for *)
(* up to two minutes, commits it to the queue under the manager's lock and *)
(* may start its first video; in the meantime the request is cancelled or  *)
(* repeated, the queue edited or cleared, something else played, and the   *)
(* service stopped and started.                                            *)
(*                                                                         *)
(* Every playlist has two videos.  An import either appends them or starts *)
(* the first and puts the second at the front of the queue, followed by a  *)
(* resume entry for what it interrupted.                                   *)
(***************************************************************************)
EXTENDS Naturals, Sequences, FiniteSets, SequencesExt

CONSTANTS Requests,    \* request identifiers, one job each
          Other,       \* any other owner of playback or of a queue entry
          Nobody,      \* the newest intent was retired
          MaxJobs, MaxWorkers,
          MaxOutside   \* bound on what other people do

ASSUME NameAssumption == Other \notin Requests /\ Nobody \notin Requests \cup {Other}
ASSUME BoundAssumption == {MaxJobs, MaxWorkers} \subseteq Nat \ {0} /\ MaxOutside \in Nat

VARIABLES
    status,     \* per job: its public status; "none": unknown or expired
    worker,     \* per job: what its thread does next; "none": no thread
    intent,     \* per job: the playback intent it reserved, 0 to append
    era,        \* per job: the service generation it was accepted in
    kept,       \* per job: the resume entry it captured
    mark,       \* per job: the queue revision it staged
    outcome,    \* per job
    queue,      \* state.QUEUE
    revision,   \* state._QUEUE_REVISION
    generation, \* _PLAYBACK_INTENT
    loading,    \* _PLAYBACK_LOAD_STARTED_INTENT
    service,    \* the generation of the manager: every start makes a new one
    stopping,   \* its _stop event is set
    outside,    \* bound: what other people did so far
    live,       \* history: who claimed the newest intent, Nobody once retired
    imports,    \* history, per job: how often it was committed to the queue
    promised,   \* history: jobs cancelled, or superseded, before they were committed
    cleared,    \* history: jobs under way at a Clear
    edited,     \* history: jobs whose queue somebody else changed since they staged
    begun       \* history: jobs whose first video became the current item

job == <<status, worker, intent, era, kept, mark, outcome>>
playback == <<generation, loading, live>>
pending == <<queue, revision, edited>>
life == <<service, stopping>>
history == <<imports, promised, cleared, begun>>
vars == <<job, playback, pending, life, outside, history>>

Busy == {"loading", "adding"}
Active == {r \in Requests : status[r] \in Busy}
Jobs == {r \in Requests : status[r] # "none"}
Workers == {r \in Requests : worker[r] # "none"}
Retired(r) == stopping \/ era[r] # service
Videos(r) == <<<<r, 1>>, <<r, 2>>>>
Resume(r) == IF kept[r] THEN <<<<r, 3>>>> ELSE <<>>
Queued(entry) == entry \in Range(queue)

Init ==
    /\ status = [r \in Requests |-> "none"]
    /\ worker = [r \in Requests |-> "none"]
    /\ intent = [r \in Requests |-> 0]
    /\ era = [r \in Requests |-> 0]
    /\ kept = [r \in Requests |-> FALSE]
    /\ mark = [r \in Requests |-> 0]
    /\ outcome = [r \in Requests |-> "none"]
    /\ queue = <<>> /\ revision = 0
    /\ generation = 0 /\ loading = 0
    /\ service = 0 /\ stopping = FALSE
    /\ outside = 0
    /\ live = Nobody
    /\ imports = [r \in Requests |-> 0]
    /\ promised = {} /\ cleared = {} /\ edited = {} /\ begun = {}

\* A newer intent retires every older one.
Claim(owner) == generation' = generation + 1 /\ live' = owner

\* A queue change advances the revision; jobs that staged before it are overtaken.
Rewrite(entries, author) ==
    /\ queue' = entries
    /\ revision' = revision + 1
    /\ edited' = edited \cup (Requests \ {author})

-----------------------------------------------------------------------------
(* Requests of other clients and of the service itself *)

Outside == outside < MaxOutside /\ outside' = outside + 1

\* A Play, Stop or Close.
Command ==
    /\ Outside
    /\ Claim(Other)
    /\ UNCHANGED <<job, loading, pending, life, history>>

\* Somebody queues a video, or the head of the queue is taken.
Edit ==
    /\ Outside
    /\ \/ ~Queued(<<Other, 1>>) /\ Rewrite(Append(queue, <<Other, 1>>), Other)
       \/ queue # <<>> /\ Rewrite(Tail(queue), Other)
    /\ UNCHANGED <<job, playback, life, history>>

\* retire_playlist_action: cancel an owner, never a newer play.
Retirable(r, beforeLoadOnly) ==
    intent[r] # 0 /\ intent[r] = generation /\ ~(beforeLoadOnly /\ loading = intent[r])

Retire(doomed, beforeLoadOnly) ==
    IF \E r \in doomed : Retirable(r, beforeLoadOnly)
      THEN Claim(Nobody)
      ELSE UNCHANGED <<generation, live>>

\* stop_imports: every job under way is cancelled.
Stop ==
    /\ Outside /\ ~stopping
    /\ stopping' = TRUE
    /\ Retire(Active, FALSE)
    /\ status' = [r \in Requests |-> IF r \in Active THEN "cancelled" ELSE status[r]]
    /\ promised' = promised \cup {r \in Active : status[r] = "loading"}
    /\ UNCHANGED <<worker, intent, era, kept, mark, outcome, loading, pending, service,
                   imports, cleared, begun>>

\* start: a new event, which older workers do not see.
Start ==
    /\ stopping
    /\ service' = service + 1 /\ stopping' = FALSE
    /\ UNCHANGED <<job, playback, pending, outside, history>>

\* A bug: Clear also retires a start that is loading.
ClearRetiringLoads ==
    /\ Outside
    /\ Retire(Active, FALSE)
    /\ status' = [r \in Requests |-> IF r \in Active THEN "cancelled" ELSE status[r]]
    /\ Rewrite(<<>>, Other)
    /\ cleared' = cleared \cup Active
    /\ UNCHANGED <<worker, intent, era, kept, mark, outcome, loading, life, imports,
                   promised, begun>>

\* clear_queue: a job whose first video is loading finishes that; every other
\* job is cancelled.  The queue is emptied under the same lock.
Clear ==
    /\ Outside
    /\ LET spared == {r \in Active : intent[r] # 0 /\ intent[r] = generation
                                     /\ loading = generation}
           doomed == Active \ spared
       IN  /\ Retire(doomed, TRUE)
           /\ status' = [r \in Requests |-> IF r \in doomed THEN "cancelled" ELSE status[r]]
    /\ Rewrite(<<>>, Other)
    /\ cleared' = cleared \cup Active
    /\ UNCHANGED <<worker, intent, era, kept, mark, outcome, loading, life, imports,
                   promised, begun>>

\* cancel: refused once the import is being added.
Cancel(r) ==
    /\ status[r] = "loading"
    /\ Retire({r}, FALSE)
    /\ status' = [status EXCEPT ![r] = "cancelled"]
    /\ promised' = promised \cup {r}
    /\ UNCHANGED <<worker, intent, era, kept, mark, outcome, loading, pending, life, outside,
                   imports, cleared, begun>>

-----------------------------------------------------------------------------
(* Submission *)

\* A new job and its worker; "smart" has become "append" or "play_now".
Accept(r) ==
    /\ ~stopping
    /\ Cardinality(Jobs \cup {r}) <= MaxJobs
    /\ Cardinality(Workers) < MaxWorkers
    /\ \/ intent' = [intent EXCEPT ![r] = 0] /\ UNCHANGED <<generation, live>>
       \/ intent' = [intent EXCEPT ![r] = generation + 1] /\ Claim(r)
    /\ status' = [status EXCEPT ![r] = "loading"]
    /\ worker' = [worker EXCEPT ![r] = "extracting"]
    /\ era' = [era EXCEPT ![r] = service]
    /\ kept' = [kept EXCEPT ![r] = FALSE]
    /\ outcome' = [outcome EXCEPT ![r] = "none"]
    /\ UNCHANGED <<mark, loading, pending, life, outside, history>>

\* A bug: a repeated request whose import has ended adds its playlist again.
SubmitAgain(r) ==
    \/ status[r] = "none" /\ Accept(r)
    \/ /\ status[r] = "completed" /\ worker[r] = "none"
       /\ Rewrite(queue \o Videos(r), r)
       /\ imports' = [imports EXCEPT ![r] = @ + 1]
       /\ UNCHANGED <<job, playback, life, outside, promised, cleared, begun>>

\* submit: a known request is answered with its job, nothing changes.
Submit(r) == status[r] = "none" /\ Accept(r)

\* The thread does not start: the job is withdrawn, but not the intent it claimed.
SubmitFails(r) ==
    /\ status[r] = "none" /\ ~stopping
    /\ Cardinality(Jobs) < MaxJobs /\ Cardinality(Workers) < MaxWorkers
    /\ Outside
    /\ Claim(Other)
    /\ UNCHANGED <<job, loading, pending, life, history>>

-----------------------------------------------------------------------------
(* _run: the worker of one job *)

Step(r, next) == worker' = [worker EXCEPT ![r] = next]

\* extract_playlist, without any lock: the playlist, or an error.
Extract(r) ==
    /\ worker[r] = "extracting"
    /\ Step(r, "capturing") \/ Step(r, "failing")
    /\ UNCHANGED <<status, intent, era, kept, mark, outcome, playback, pending, life,
                   outside, history>>

\* What is interrupted is captured before the lock is taken.
Capture(r) ==
    /\ worker[r] = "capturing"
    /\ Step(r, "staging")
    /\ kept' \in {kept} \cup
         (IF intent[r] # 0 /\ intent[r] = generation /\ ~Retired(r) /\ status[r] = "loading"
            THEN {[kept EXCEPT ![r] = TRUE]} ELSE {})
    /\ UNCHANGED <<status, intent, era, mark, outcome, playback, pending, life, outside,
                   history>>

\* stage_playlist's queue edit.
Staged(r) ==
    IF intent[r] = 0 THEN queue \o Videos(r) ELSE Tail(Videos(r)) \o Resume(r) \o queue

Commit(r) ==
    /\ queue' = Staged(r)
    /\ revision' = revision + 1
    /\ edited' = (edited \cup Requests) \ {r}
    /\ mark' = [mark EXCEPT ![r] = revision + 1]
    /\ status' = [status EXCEPT ![r] = "adding"]
    /\ imports' = [imports EXCEPT ![r] = @ + 1]
    /\ Step(r, IF intent[r] = 0 THEN "reporting" ELSE "starting")
    /\ outcome' = [outcome EXCEPT ![r] = IF intent[r] = 0 THEN "queued" ELSE "none"]
    /\ UNCHANGED promised

\* A bug: cancellation is not looked at again after the playlist was read.
StageUnchecked(r) ==
    /\ worker[r] = "staging"
    /\ IF intent[r] = 0 \/ intent[r] = generation
         THEN Commit(r)
         ELSE /\ Step(r, "leaving")
              /\ UNCHANGED <<status, mark, outcome, pending, imports, promised>>
    /\ UNCHANGED <<intent, era, kept, playback, life, outside, cleared, begun>>

\* The commit boundary, under the manager's lock: nothing is added for a job that
\* was cancelled or whose start was superseded.
Stage(r) ==
    /\ worker[r] = "staging"
    /\ \/ /\ Retired(r) \/ status[r] # "loading"
          /\ Step(r, "leaving")
          /\ UNCHANGED <<status, mark, outcome, pending, imports, promised>>
       \/ /\ ~Retired(r) /\ status[r] = "loading"
          /\ IF intent[r] = 0 \/ intent[r] = generation
               THEN Commit(r)
               ELSE /\ status' = [status EXCEPT ![r] = "cancelled"]
                    /\ promised' = promised \cup {r}
                    /\ Step(r, "leaving")
                    /\ UNCHANGED <<mark, outcome, pending, imports>>
    /\ UNCHANGED <<intent, era, kept, playback, life, outside, cleared, begun>>

Give(r, result, next) == outcome' = [outcome EXCEPT ![r] = result] /\ Step(r, next)

\* play_now resolves the first video and begins to load it, unless a newer intent
\* was claimed or the video cannot be resolved.
BeginLoad(r) ==
    /\ worker[r] = "starting"
    /\ \/ intent[r] = generation /\ loading' = intent[r] /\ Step(r, "loading")
          /\ UNCHANGED outcome
       \/ intent[r] # generation /\ Give(r, "superseded", "undoing") /\ UNCHANGED loading
       \/ Give(r, "playback_failed", "undoing") /\ UNCHANGED loading
    /\ UNCHANGED <<status, intent, era, kept, mark, generation, live, pending, life,
                   outside, history>>

\* It is published as the current item, or superseded, or the runtime fails.
Load(r) ==
    /\ worker[r] = "loading"
    /\ \/ /\ intent[r] = generation
          /\ begun' = begun \cup {r}
          /\ Step(r, "playing") /\ UNCHANGED outcome
       \/ intent[r] # generation /\ Give(r, "superseded", "undoing") /\ UNCHANGED begun
       \/ Give(r, "playback_failed", "undoing") /\ UNCHANGED begun
    /\ UNCHANGED <<status, intent, era, kept, mark, playback, pending, life, outside,
                   imports, promised, cleared>>

\* play_now has returned: does the import still own playback?
Play(r) ==
    /\ worker[r] = "playing"
    /\ Give(r, IF intent[r] = generation THEN "playing" ELSE "superseded", "reporting")
    /\ UNCHANGED <<status, intent, era, kept, mark, playback, pending, life, outside, history>>

\* A bug: a failed start drops its first video.
ReturnsNever(r) == FALSE

\* Nobody has changed the queue since the job staged, or ended the job.
Returns(r) == revision = mark[r] /\ ~Retired(r) /\ status[r] = "adding"

Dropped(r) ==
    IF Queued(<<r, 3>>)
      THEN RemoveAt(queue, CHOOSE i \in DOMAIN queue : queue[i] = <<r, 3>>)
      ELSE queue
First(r) == IF Returns(r) THEN <<<<r, 1>>>> ELSE <<>>

Undone(r) == First(r) \o Dropped(r)

\* The start failed: drop the resume entry, and put the first video back where
\* that contradicts nobody.
Undo(r) ==
    /\ worker[r] = "undoing"
    /\ IF kept[r] \/ Returns(r)
         THEN Rewrite(Undone(r), r)
         ELSE UNCHANGED pending
    /\ Step(r, "reporting")
    /\ UNCHANGED <<status, intent, era, kept, mark, outcome, playback, life, outside, history>>

\* The result is published, unless the job was cancelled meanwhile.
Report(r) ==
    /\ worker[r] = "reporting"
    /\ status' = [status EXCEPT ![r] = IF @ = "cancelled" THEN @ ELSE "completed"]
    /\ Step(r, "leaving")
    /\ UNCHANGED <<intent, era, kept, mark, outcome, playback, pending, life, outside, history>>

\* The playlist could not be read.
Fail(r) ==
    /\ worker[r] = "failing"
    /\ status' = [status EXCEPT ![r] = IF @ = "cancelled" \/ Retired(r) THEN @ ELSE "failed"]
    /\ Step(r, "leaving")
    /\ UNCHANGED <<intent, era, kept, mark, outcome, playback, pending, life, outside, history>>

\* A bug: a worker that found its job cancelled keeps its slot.
LeaveUnlessCancelled(r) ==
    /\ worker[r] = "leaving" /\ status[r] # "cancelled"
    /\ Step(r, "none")
    /\ UNCHANGED <<status, intent, era, kept, mark, outcome, playback, pending, life, outside,
                   history>>

\* finally: the slot is given back.
Leave(r) ==
    /\ worker[r] = "leaving"
    /\ Step(r, "none")
    /\ UNCHANGED <<status, intent, era, kept, mark, outcome, playback, pending, life, outside,
                   history>>

-----------------------------------------------------------------------------
Work(r) ==
    \/ Extract(r) \/ Capture(r) \/ Stage(r) \/ BeginLoad(r) \/ Load(r) \/ Play(r)
    \/ Undo(r) \/ Report(r) \/ Fail(r) \/ Leave(r)

Ask(r) == Submit(r) \/ SubmitFails(r) \/ Cancel(r)

Next ==
    \/ Command \/ Edit \/ Stop \/ Start \/ Clear
    \/ \E r \in Requests : Ask(r) \/ Work(r)

\* Jobs and idempotency records live for an hour; nothing here lasts as long.
\* Reading a playlist has a deadline, resolving and loading time out: a worker's
\* thread always goes on.  Nobody is obliged to ask for anything.
Fairness == \A r \in Requests : WF_vars(Work(r))

Spec == Init /\ [][Next]_vars
FairSpec == Spec /\ Fairness

-----------------------------------------------------------------------------
(* Properties *)

FlagsOK == kept \in [Requests -> BOOLEAN] /\ stopping \in BOOLEAN

JobsOK ==
    /\ status \in [Requests -> Busy \cup {"none", "completed", "failed", "cancelled"}]
    /\ worker \in [Requests -> {"none", "extracting", "capturing", "staging", "starting",
                                "loading", "playing", "undoing", "reporting", "failing",
                                "leaving"}]
    /\ intent \in [Requests -> 0..generation] /\ era \in [Requests -> 0..service]
    /\ mark \in [Requests -> 0..revision]
    /\ outcome \in [Requests -> {"none", "queued", "playing", "playback_failed", "superseded"}]

SharedOK ==
    /\ {generation, revision, service} \subseteq Nat /\ loading \in 0..generation
    /\ queue \in Seq((Requests \cup {Other}) \X (1..3))
    /\ live \in Requests \cup {Other, Nobody}

\* Jobs that were cancelled keep their slot until their thread has ended.
LimitsOK == Cardinality(Workers) <= MaxWorkers /\ Cardinality(Jobs) <= MaxJobs

\* The shape of the state; jobs and threads stay within their limits.
TypeOK == FlagsOK /\ JobsOK /\ SharedOK /\ LimitsOK

\* A job that was cancelled, or superseded, while it was loading adds nothing,
\* however late its worker comes back ("cancels a loading import before it appends
\* anything", and "old work cannot publish into a restarted service"); and Clear is
\* final: no import that was under way puts a video, or a resume entry, back into
\* the queue it emptied.
CancelledAddsNothing ==
    /\ \A r \in promised : imports[r] = 0
    /\ \A r \in cleared : \A k \in 1..3 : ~Queued(<<r, k>>)

\* A repeated request never imports its playlist a second time.
OneImportPerRequest == TypeOK /\ \A r \in Requests : imports[r] <= 1

\* A playlist stays in its order, with no entry twice, whoever else edits the queue.
PlaylistOrder ==
    \A i, k \in 1..Len(queue) :
      i < k /\ queue[i][1] = queue[k][1] => queue[i][2] < queue[k][2]

\* What an import leaves in the queue once it has ended.  "A failed first-video
\* start retains all imported videos if no newer queue edit intervened"; and the
\* resume entry of what was playing stays only if the import has interrupted it.
FailedStartRetains ==
    /\ PlaylistOrder
    /\ \A r \in Requests :
         status[r] = "completed" /\ r \notin edited \cup begun /\ outcome[r] # "queued" =>
           \A k \in 1..2 : Queued(<<r, k>>)
    /\ \A r \in Requests : worker[r] = "none" /\ Queued(<<r, 3>>) => r \in begun

\* An import that is cancelled, cleared or shut down takes playback from nobody
\* else, and a Clear lets a first video that is loading finish.
OnlyPendingStartsRetired ==
    [][live # Nobody /\ live' = Nobody =>
         live \in Requests /\ (loading # generation \/ stopping')]_vars

\* Every slot is given back, whatever became of the job.
SlotsAreReturned == \A r \in Requests : []<>(worker[r] = "none")
=============================================================================
