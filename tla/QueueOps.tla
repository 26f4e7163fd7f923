------------------------------ MODULE QueueOps ------------------------------
(***************************************************************************)
(* What the queue gives and takes back (player.advance_queue_playback,     *)
(* /queue/play and /play_now).  An item leaves the queue before it is      *)
(* resolved, which takes seconds and may fail or be overtaken; what it     *)
(* interrupts is put at the front of the queue as a resume entry.  In the  *)
(* meantime others edit the queue, advance it, interrupt again or stop.    *)
(*                                                                         *)
(* Media are numbered in the order in which they were asked for.  An entry *)
(* is a medium and, for a resume entry, the number of the interruption.    *)
(***************************************************************************)
EXTENDS Naturals, Sequences, FiniteSets, SequencesExt

CONSTANTS Threads,     \* threads that answer requests, or watch for the end of the media
          NoThread,    \* the owner of a free lock; whoever edits the queue by hand
          Backlog,     \* the length of the queue at the start
          MaxStarts,   \* bound on operations
          MaxEdits     \* bound on edits

ASSUME ThreadAssumption == NoThread \notin Threads /\ IsFiniteSet(Threads)
ASSUME BoundAssumption == {Backlog, MaxStarts, MaxEdits} \subseteq Nat

VARIABLES
    queue,      \* state.QUEUE
    clean,      \* the threads for which state._QUEUE_REVISION is the one they dequeued
                \* at, up to the mutations of their own scope
    claims,     \* _PRESERVE_CLAIMS, per interruption
    committed,  \* _PRESERVE_COMMITTED
    newest,     \* _PLAYBACK_INTENT: the thread that owns the newest intent
    now,        \* state.NOW_PLAYING, 0 for None
    playing,    \* the player has media
    sess,       \* state.SESSION_STATE
    advLock,    \* the holder of ADVANCE_LOCK
    pc,         \* per thread: the next step
    op,         \* per thread: what it was asked for
    item,       \* per thread: the entry that queue_play or play_now starts
    spot,       \* per thread: where that entry was, 0 for one that was not queued
    held,       \* per thread: the entry an advance has dequeued
    prior,      \* per thread: what was playing when it looked
    kept,       \* per thread: the interruption it has a claim on
    asked, interruptions, starts, edits,   \* numbers given out so far
    before,     \* history, per thread: the entries, resume entries apart, of the queue
                \* that it dequeued from
    touched,    \* history: the threads since whose dequeuing others have changed the queue
    cleared,    \* history: entries that a Clear was meant for
    accepted,   \* history: interruptions that have come about
    gone        \* history: resume entries that were played, removed or cleared

waiting == <<queue, clean, touched>>
resume == <<claims, committed, interruptions>>
playback == <<newest, now, playing, sess>>
local == <<op, item, spot, held, prior, kept, before>>
bounds == <<asked, starts, edits>>
history == <<cleared, accepted, gone>>
vars == <<waiting, resume, playback, advLock, pc, local, bounds, history>>

Nothing == [media |-> 0, nth |-> 0]
Entry(media) == [media |-> media, nth |-> 0]
IsResume(entry) == entry.nth # 0
Ordinary(entries) == {e \in entries : ~IsResume(e)}

At(t, step) == pc[t] = step
Goto(t, step) == pc' = [pc EXCEPT ![t] = step]
Set(f, t, value) == [f EXCEPT ![t] = value]
Owned(t) == newest = t
Requests == {"idle", "auto_next", "next", "follow", "play_next", "queue_play", "play_now", "close"}
Interruptions == 1..(MaxStarts + 1)

Init ==
    /\ queue = [i \in 1..Backlog |-> Entry(i + 1)]
    /\ clean = {} /\ touched = {}
    /\ claims = [n \in Interruptions |-> 0] /\ committed = {} /\ interruptions = 0
    /\ newest = NoThread /\ now = 1 /\ playing = TRUE /\ sess = "playing"
    /\ advLock = NoThread
    /\ pc = [t \in Threads |-> "idle"] /\ op = [t \in Threads |-> "idle"]
    /\ spot = [t \in Threads |-> 0]
    /\ item = [t \in Threads |-> Nothing] /\ held = [t \in Threads |-> Nothing]
    /\ prior = [t \in Threads |-> 0] /\ kept = [t \in Threads |-> 0]
    /\ before = [t \in Threads |-> {}]
    /\ asked = Backlog + 1 /\ starts = 0 /\ edits = 0
    /\ cleared = {} /\ accepted = {} /\ gone = {}

-----------------------------------------------------------------------------
(* Steps shared by the operations. *)

\* _advance_queue_revision: every mutation counts, but for the thread that owns
\* the scope it happens in.
Mutated(t) ==
    /\ clean' = clean \cap {t}
    /\ touched' = touched \cup ({u \in Threads : spot[u] # 0} \ {t})

Dequeue(t, i) == queue' = RemoveAt(queue, i) /\ Mutated(t)
Enqueue(t, i, entry) == queue' = InsertAt(queue, i, entry) /\ Mutated(t)
Lost(entries) == gone' = gone \cup {e.nth : e \in {x \in entries : IsResume(x)}}
Regained(entry) == gone' = gone \ {entry.nth}

Begin(t, request, step) ==
    /\ At(t, "idle") /\ starts < MaxStarts
    /\ starts' = starts + 1
    /\ op' = Set(op, t, request)
    /\ Goto(t, step)

\* The thread forgets what it worked with.
Finish(t) ==
    /\ Goto(t, "idle")
    /\ op' = Set(op, t, "idle")
    /\ spot' = Set(spot, t, 0)
    /\ item' = Set(item, t, Nothing) /\ held' = Set(held, t, Nothing)
    /\ prior' = Set(prior, t, 0) /\ kept' = Set(kept, t, 0)
    /\ before' = Set(before, t, {})

\* play_item: the claim retires every older play ...
Claim(t, step) ==
    /\ newest' = t
    /\ Goto(t, step)
    /\ UNCHANGED <<waiting, resume, now, playing, sess, advLock, op, item, spot, held,
                   prior, kept, before, bounds, history>>

\* ... and the publication is made by the newest.
Publish(t, media) ==
    /\ Owned(t)
    /\ now' = media /\ playing' = TRUE /\ sess' = "playing"
    /\ UNCHANGED newest

-----------------------------------------------------------------------------
(* advance_queue_playback *)

\* The autoplay worker, one thread, has seen the media end.
AutoNext(t) ==
    /\ ~playing /\ sess # "closed" /\ queue # <<>>
    /\ \A u \in Threads : op[u] # "auto_next"
    /\ Begin(t, "auto_next", "advance")
    /\ UNCHANGED <<waiting, resume, playback, advLock, item, spot, held, prior, kept,
                   before, asked, edits, history>>

SkipToNext(t) ==
    /\ Begin(t, "next", "advance")
    /\ UNCHANGED <<waiting, resume, playback, advLock, item, spot, held, prior, kept,
                   before, asked, edits, history>>

AdvanceEnter(t) ==
    /\ At(t, "advance") /\ advLock = NoThread
    /\ IF op[t] = "auto_next" /\ sess = "closed"
         THEN Finish(t) /\ UNCHANGED advLock
         ELSE /\ advLock' = t
              /\ Goto(t, IF op[t] = "play_next" THEN "pop" ELSE "prefer")
              /\ UNCHANGED local
    /\ UNCHANGED <<waiting, resume, playback, bounds, history>>

\* _consume_mpv_queued_next_if_started: mpv has an entry armed, which was the head
\* of the queue when it was armed, and moves on to it by itself, unless it should
\* resume at a position (which entries do is not told apart).
Consume(t, i) ==
    /\ sess # "closed"
    /\ held' = Set(held, t, queue[i])
    /\ Dequeue(t, i) /\ Lost({queue[i]})

\* _attempt_playlist_next_handoff: the advance asks mpv to move on ...
SeamlessPop(t, i) ==
    /\ At(t, "prefer")
    /\ Consume(t, i)
    /\ playing' = TRUE
    /\ Goto(t, "handover")
    /\ UNCHANGED <<resume, newest, now, sess, advLock, op, item, spot, prior, kept, before,
                   bounds, cleared, accepted>>

\* ... or the session tracker notices that it did.
TrackerPop(t, i) ==
    /\ Begin(t, "follow", "handover")
    /\ playing /\ advLock = NoThread /\ advLock' = t
    /\ Consume(t, i)
    /\ UNCHANGED <<resume, playback, item, spot, prior, kept, before, asked, edits,
                   cleared, accepted>>

SeamlessPublish(t) ==
    /\ At(t, "handover")
    /\ now' = held[t].media /\ sess' = "playing"
    /\ advLock' = NoThread
    /\ Finish(t)
    /\ UNCHANGED <<waiting, resume, newest, playing, bounds, history>>

\* _handle_playback_idle_no_queue
GoIdle ==
    IF sess = "closed" THEN UNCHANGED <<now, sess>> ELSE now' = 0 /\ sess' = "idle"

AdvanceEmpty(t) ==
    /\ pc[t] \in {"prefer", "pop"} /\ queue = <<>>
    /\ IF op[t] = "next" THEN UNCHANGED <<now, sess>> ELSE GoIdle
    /\ advLock' = NoThread
    /\ Finish(t)
    /\ UNCHANGED <<waiting, resume, newest, playing, bounds, history>>

\* An interrupted item is not resumed because the player went quiet too early.
AdvanceSuppressed(t) ==
    /\ pc[t] \in {"prefer", "pop"} /\ op[t] = "auto_next"
    /\ queue # <<>> /\ IsResume(Head(queue))
    /\ advLock' = NoThread
    /\ Finish(t)
    /\ UNCHANGED <<waiting, resume, playback, bounds, history>>

AdvancePop(t) ==
    /\ pc[t] \in {"prefer", "pop"} /\ queue # <<>>
    /\ held' = Set(held, t, Head(queue))
    /\ Dequeue(t, 1) /\ Lost({Head(queue)})
    /\ Goto(t, "popped")
    /\ UNCHANGED <<resume, playback, advLock, op, item, spot, prior, kept, before,
                   bounds, cleared, accepted>>

\* The dequeued entry goes back to the front, whatever has become of the queue;
\* a play_next that was part of queue_play fails with it.
PutBack(t) ==
    /\ Enqueue(t, 1, held[t]) /\ Regained(held[t])
    /\ advLock' = NoThread
    /\ IF spot[t] = 0
         THEN Finish(t)
         ELSE /\ Goto(t, "restore")
              /\ held' = Set(held, t, Nothing)
              /\ UNCHANGED <<op, item, spot, prior, kept, before>>

AdvanceClosed(t) ==
    /\ At(t, "popped") /\ op[t] = "auto_next" /\ sess = "closed"
    /\ PutBack(t)
    /\ UNCHANGED <<resume, playback, bounds, cleared, accepted>>

\* The session was open when it was looked at; then history is written and the
\* media servers are told.
AdvanceOpen(t) ==
    /\ At(t, "popped")
    /\ op[t] = "auto_next" => sess # "closed"
    /\ Goto(t, "claim")
    /\ UNCHANGED <<waiting, resume, playback, advLock, local, bounds, history>>

AdvanceClaim(t) == At(t, "claim") /\ Claim(t, "resolve")

\* play_item returns: the entry plays, or a newer play or a Stop took over and
\* the entry is spent all the same.
AdvanceDone(t) ==
    /\ At(t, "resolve")
    /\ \/ Publish(t, held[t].media)
       \/ ~Owned(t) /\ UNCHANGED playback
    /\ advLock' = NoThread
    /\ Finish(t)
    /\ UNCHANGED <<waiting, resume, bounds, history>>

\* It can never be played (a bot check, a deleted video): on to the next.
AdvanceSkip(t) ==
    /\ At(t, "resolve")
    /\ held' = Set(held, t, Nothing)
    /\ Goto(t, "pop")
    /\ UNCHANGED <<waiting, resume, playback, advLock, op, item, spot, prior, kept,
                   before, bounds, history>>

AdvanceFail(t) ==
    /\ At(t, "resolve")
    /\ PutBack(t)
    /\ UNCHANGED <<resume, playback, bounds, cleared, accepted>>

-----------------------------------------------------------------------------
(* /queue/play and /play_now *)

\* A bug: the entry is looked up under the lock and removed once it plays.
QueuePlayPeek(t, i) ==
    /\ i \in DOMAIN queue
    /\ Begin(t, "queue_play", "interrupt")
    /\ item' = Set(item, t, queue[i]) /\ spot' = Set(spot, t, i)
    /\ before' = Set(before, t, Ordinary(ToSet(queue)))
    /\ clean' = clean \cup {t} /\ touched' = touched \ {t}
    /\ UNCHANGED <<queue, resume, playback, advLock, held, prior, kept, asked, edits,
                   history>>

QueuePlay(t, i) ==
    /\ i \in DOMAIN queue
    /\ Begin(t, "queue_play", "interrupt")
    /\ item' = Set(item, t, queue[i]) /\ spot' = Set(spot, t, i)
    /\ before' = Set(before, t, Ordinary(ToSet(queue)))
    /\ queue' = RemoveAt(queue, i) /\ Lost({queue[i]})
    /\ clean' = {t}
    /\ touched' = (touched \cup {u \in Threads : spot[u] # 0}) \ {t}
    /\ UNCHANGED <<resume, playback, advLock, held, prior, kept, asked, edits,
                   cleared, accepted>>

PlayNow(t) ==
    /\ Begin(t, "play_now", "interrupt")
    /\ item' = Set(item, t, Entry(asked + 1)) /\ asked' = asked + 1
    /\ UNCHANGED <<waiting, resume, playback, advLock, spot, held, prior, kept, before,
                   edits, history>>

\* preserve_current_to_queue_front, each time it has the queue lock: a resume
\* entry at the head is shared while the play that put it there is still going;
\* otherwise it stays the only one.
Shared(media) ==
    LET n == Head(queue).nth
    IN claims[n] > 0 /\ n \notin committed /\ Head(queue).media = media

Share(t, media) ==
    LET n == Head(queue).nth
    IN IF Shared(media)
         THEN claims' = [claims EXCEPT ![n] = @ + 1] /\ kept' = Set(kept, t, n)
         ELSE UNCHANGED <<claims, kept>>

HeadIsResume == queue # <<>> /\ IsResume(Head(queue))

\* Nothing to interrupt, or no claim on what is interrupted.
PreserveNothing(t) ==
    /\ At(t, "interrupt")
    /\ \/ ~playing \/ now \in {0, item[t].media}
       \/ HeadIsResume /\ ~Shared(now)
    /\ Goto(t, "ready")
    /\ UNCHANGED <<waiting, resume, playback, advLock, local, bounds, history>>

PreserveShared(t) ==
    /\ At(t, "interrupt") /\ playing /\ now \notin {0, item[t].media}
    /\ HeadIsResume /\ Shared(now)
    /\ Share(t, now)
    /\ Goto(t, "ready")
    /\ UNCHANGED <<waiting, committed, interruptions, playback, advLock, op, item, spot,
                   held, prior, before, bounds, history>>

\* Reading the position takes MPV_LOCK and lets go of the queue.
PreserveCapture(t) ==
    /\ At(t, "interrupt") /\ playing /\ now \notin {0, item[t].media}
    /\ ~HeadIsResume
    /\ prior' = Set(prior, t, now)
    /\ Goto(t, "preserve")
    /\ UNCHANGED <<waiting, resume, playback, advLock, op, item, spot, held, kept,
                   before, bounds, history>>

\* A bug: what a play-now puts into the queue counts as somebody else's edit.
PreserveForeign(t) ==
    /\ At(t, "preserve") /\ ~HeadIsResume
    /\ LET n == interruptions + 1
       IN /\ queue' = InsertAt(queue, 1, [media |-> prior[t], nth |-> n])
          /\ claims' = [claims EXCEPT ![n] = 1]
          /\ kept' = Set(kept, t, n)
          /\ interruptions' = n
    /\ clean' = {}
    /\ touched' = touched \cup ({u \in Threads : spot[u] # 0} \ {t})
    /\ Goto(t, "ready")
    /\ UNCHANGED <<committed, playback, advLock, op, item, spot, held, prior, before,
                   bounds, history>>

Preserve(t) ==
    /\ At(t, "preserve")
    /\ IF HeadIsResume
         THEN Share(t, prior[t]) /\ UNCHANGED <<waiting, interruptions>>
         ELSE LET n == interruptions + 1
              IN /\ Enqueue(t, 1, [media |-> prior[t], nth |-> n])
                 /\ claims' = [claims EXCEPT ![n] = 1]
                 /\ kept' = Set(kept, t, n)
                 /\ interruptions' = n
    /\ Goto(t, "ready")
    /\ UNCHANGED <<committed, playback, advLock, op, item, spot, held, prior, before,
                   bounds, history>>

PlayClaim(t) == At(t, "ready") /\ Claim(t, "start")

PlayStarts(t) ==
    /\ At(t, "start")
    /\ Publish(t, item[t].media)
    /\ Goto(t, "settle")
    /\ UNCHANGED <<waiting, resume, advLock, local, bounds, history>>

\* The resolution fails, or a newer play or a Stop took over.
PlayFails(t) ==
    /\ At(t, "start")
    /\ Goto(t, "rollback")
    /\ UNCHANGED <<waiting, resume, playback, advLock, local, bounds, history>>

\* It has been overtaken right after its publication, before it was watched.
PlayOvertaken(t) ==
    /\ At(t, "settle") /\ op[t] # "play_next" /\ ~Owned(t)
    /\ Goto(t, "rollback")
    /\ UNCHANGED <<waiting, resume, playback, advLock, local, bounds, history>>

\* A replay that is not ready yet: the queue is advanced instead.
PlayPostLive(t) ==
    /\ At(t, "start")
    /\ op' = Set(op, t, "play_next")
    /\ Goto(t, "settle")
    /\ UNCHANGED <<waiting, resume, playback, advLock, item, spot, held, prior, kept,
                   before, bounds, history>>

\* settle_play_now_preserve: the interruption has come about; and a resume entry
\* for what is playing now is of no use.
Redundant(t) ==
    op[t] # "play_next" /\ HeadIsResume /\ Head(queue).media = item[t].media

Settle(t) ==
    LET n == kept[t]
        last == claims[n] <= 1
        head == Head(queue).nth
        over == (IF n # 0 /\ last THEN {n} ELSE {}) \cup (IF Redundant(t) THEN {head} ELSE {})
    IN /\ At(t, "settle")
       /\ claims' = [m \in Interruptions |->
                       IF m \in over THEN 0 ELSE IF m = n THEN claims[m] - 1 ELSE claims[m]]
       /\ committed' = (IF n # 0 THEN committed \cup {n} ELSE committed) \ over
       /\ accepted' = IF n # 0 THEN accepted \cup {n} ELSE accepted
       /\ IF Redundant(t)
            THEN Dequeue(t, 1) /\ Lost({Head(queue)})
            ELSE UNCHANGED <<waiting, gone>>
       /\ IF op[t] = "play_next" THEN Goto(t, "advance") /\ UNCHANGED local ELSE Finish(t)
       /\ UNCHANGED <<interruptions, playback, advLock, bounds, cleared>>

\* A bug: the last claimant takes the entry away although another play used it.
RollbackAnyway(t) ==
    LET n == kept[t]
        removes == n # 0 /\ claims[n] <= 1 /\ HeadIsResume /\ Head(queue).nth = n
    IN /\ At(t, "rollback")
       /\ claims' = [m \in Interruptions |->
                       IF m = n /\ claims[m] > 0 THEN claims[m] - 1 ELSE claims[m]]
       /\ committed' = IF n # 0 /\ claims[n] <= 1 THEN committed \ {n} ELSE committed
       /\ IF removes THEN Dequeue(t, 1) ELSE UNCHANGED waiting
       /\ IF spot[t] = 0 THEN Finish(t) ELSE Goto(t, "restore") /\ UNCHANGED local
       /\ UNCHANGED <<interruptions, playback, advLock, bounds, history>>

\* rollback_play_now_preserve: the last claimant of an interruption that never
\* came about takes its entry away, if it is still at the front.
Rollback(t) ==
    LET n == kept[t]
        last == n # 0 /\ claims[n] <= 1
    IN /\ At(t, "rollback")
       /\ claims' = [m \in Interruptions |->
                       IF m = n /\ claims[m] > 0 THEN claims[m] - 1 ELSE claims[m]]
       /\ committed' = IF last THEN committed \ {n} ELSE committed
       /\ IF last /\ n \notin committed /\ HeadIsResume /\ Head(queue).nth = n
            THEN Dequeue(t, 1)
            ELSE UNCHANGED waiting
       /\ IF spot[t] = 0 THEN Finish(t) ELSE Goto(t, "restore") /\ UNCHANGED local
       /\ UNCHANGED <<interruptions, playback, advLock, bounds, history>>

\* queue_play._restore: back to its place, unless somebody has changed the queue.
Restore(t) ==
    /\ At(t, "restore")
    /\ IF t \in clean
         THEN /\ Enqueue(t, IF spot[t] <= Len(queue) THEN spot[t] ELSE Len(queue) + 1, item[t])
              /\ Regained(item[t])
         ELSE UNCHANGED <<waiting, gone>>
    /\ Finish(t)
    /\ UNCHANGED <<resume, playback, advLock, bounds, cleared, accepted>>

-----------------------------------------------------------------------------
(* Everybody else *)

\* A bug: a Clear of an empty queue is not a decision.
ClearIfAny ==
    /\ edits < MaxEdits /\ edits' = edits + 1
    /\ queue' = <<>> /\ Lost(ToSet(queue))
    /\ cleared' = cleared \cup ToSet(queue)
                  \cup {item[t] : t \in {u \in Threads : spot[u] # 0}}
    /\ IF queue = <<>> THEN UNCHANGED <<clean, touched>> ELSE Mutated(NoThread)
    /\ UNCHANGED <<resume, playback, advLock, pc, local, asked, starts, accepted>>

\* clear_queue: a decision about the entries that are being started, too.
Clear ==
    /\ edits < MaxEdits /\ edits' = edits + 1
    /\ queue' = <<>> /\ Lost(ToSet(queue))
    /\ cleared' = cleared \cup ToSet(queue)
                  \cup {item[t] : t \in {u \in Threads : spot[u] # 0}}
    /\ Mutated(NoThread)
    /\ UNCHANGED <<resume, playback, advLock, pc, local, asked, starts, accepted>>

\* /enqueue at the end, or queue_item_next at the front.
AddAt(i) ==
    /\ edits < MaxEdits /\ edits' = edits + 1
    /\ asked' = asked + 1
    /\ Enqueue(NoThread, i, Entry(asked + 1))
    /\ UNCHANGED <<resume, playback, advLock, pc, local, starts, history>>

\* /queue/remove
RemoveOne(i) ==
    /\ edits < MaxEdits /\ edits' = edits + 1
    /\ Dequeue(NoThread, i) /\ Lost({queue[i]})
    /\ UNCHANGED <<resume, playback, advLock, pc, local, asked, starts, cleared, accepted>>

\* close_current: every play is retired, the session written and the runtime
\* torn down.
CloseRetire(t) ==
    /\ Begin(t, "close", "closing")
    /\ newest' = NoThread
    /\ UNCHANGED <<waiting, resume, now, playing, sess, advLock, item, spot, held, prior,
                   kept, before, asked, edits, history>>

CloseWrite(t) ==
    /\ At(t, "closing")
    /\ sess' = IF now # 0 THEN "closed" ELSE "idle"
    /\ Goto(t, "teardown")
    /\ UNCHANGED <<waiting, resume, newest, now, playing, advLock, local, bounds, history>>

CloseTeardown(t) ==
    /\ At(t, "teardown")
    /\ newest' = NoThread /\ playing' = FALSE
    /\ Finish(t)
    /\ UNCHANGED <<waiting, resume, now, sess, advLock, bounds, history>>

MediaEnds ==
    /\ playing /\ playing' = FALSE
    /\ UNCHANGED <<waiting, resume, newest, now, sess, advLock, pc, local, bounds, history>>

\* The autoplay worker has seen the media end, and nothing is queued.
NaturalEnd ==
    /\ ~playing /\ queue = <<>> /\ sess # "closed"
    /\ GoIdle
    /\ UNCHANGED <<waiting, resume, newest, playing, advLock, pc, local, bounds, history>>

Advance(t) ==
    \/ AutoNext(t) \/ SkipToNext(t) \/ AdvanceEnter(t)
    \/ (\E i \in DOMAIN queue : SeamlessPop(t, i) \/ TrackerPop(t, i)) \/ SeamlessPublish(t)
    \/ AdvanceEmpty(t) \/ AdvanceSuppressed(t) \/ AdvancePop(t) \/ AdvanceClosed(t)
    \/ AdvanceOpen(t) \/ AdvanceClaim(t) \/ AdvanceDone(t) \/ AdvanceSkip(t) \/ AdvanceFail(t)

Play(t) ==
    \/ \E i \in DOMAIN queue : QueuePlay(t, i)
    \/ PlayNow(t)
    \/ PreserveNothing(t) \/ PreserveShared(t) \/ PreserveCapture(t) \/ Preserve(t)
    \/ PlayClaim(t) \/ PlayStarts(t) \/ PlayFails(t) \/ PlayOvertaken(t) \/ PlayPostLive(t)
    \/ Settle(t) \/ Rollback(t) \/ Restore(t)

Close(t) == CloseRetire(t) \/ CloseWrite(t) \/ CloseTeardown(t)

Edit ==
    \/ Clear
    \/ \E i \in {1, Len(queue) + 1} : AddAt(i)
    \/ \E i \in DOMAIN queue : RemoveOne(i)

Next ==
    \/ \E t \in Threads : Advance(t) \/ Play(t) \/ Close(t)
    \/ Edit \/ MediaEnds \/ NaturalEnd

Spec == Init /\ [][Next]_vars

-----------------------------------------------------------------------------
(* Properties *)

Steps == {"idle", "advance", "prefer", "pop", "handover", "popped", "claim", "resolve",
          "interrupt", "preserve", "ready", "start", "settle", "rollback", "restore",
          "closing", "teardown"}
AllEntries == [media : 1..asked, nth : 0..interruptions]

\* The shape of the state: claims are counted by those who hold them, and only a
\* counted interruption is committed.
TypeOK ==
    /\ queue \in Seq(AllEntries)
    /\ clean \subseteq Threads /\ touched \subseteq Threads
    /\ claims \in [Interruptions -> Nat] /\ committed \subseteq {n \in Interruptions : claims[n] > 0}
    /\ \A n \in Interruptions : claims[n] <= Cardinality({t \in Threads : kept[t] = n})
    /\ newest \in Threads \cup {NoThread} /\ now \in 0..asked /\ playing \in BOOLEAN
    /\ sess \in {"idle", "playing", "closed"}
    /\ advLock \in Threads \cup {NoThread}
    /\ pc \in [Threads -> Steps] /\ op \in [Threads -> Requests]
    /\ spot \in [Threads -> Nat] /\ prior \in [Threads -> 0..asked]
    /\ item \in [Threads -> AllEntries \cup {Nothing}]
    /\ held \in [Threads -> AllEntries \cup {Nothing}]
    /\ kept \in [Threads -> 0..interruptions]

\* The entries that an operation has taken out of the queue.
Out(t) ==
    (IF spot[t] # 0 THEN {item[t]} ELSE {}) \cup (IF held[t] # Nothing THEN {held[t]} ELSE {})

\* An entry is in one place: once in the queue, or with the one operation that is
\* starting it.
OnePlace ==
    /\ TypeOK
    /\ IsInjective(queue)
    /\ \A t \in Threads : Out(t) \cap ToSet(queue) = {}
    /\ \A t, u \in Threads : t # u => Out(t) \cap Out(u) = {}

\* "A concurrent queue Clear still wins": an entry that was being started from the
\* queue when the queue was cleared never comes back, however its play ends.
ClearWins == cleared \cap ToSet(queue) = {}

\* What a play-now has interrupted stays in the queue until it is played again or
\* taken away on purpose, whoever else failed to interrupt it.
InterruptedIsKept == \A n \in accepted \ gone : \E e \in ToSet(queue) : e.nth = n

\* "A failed play is restored ... unless a newer queue mutation occurred": unless
\* somebody else has changed the queue, an item that could not be played is back
\* in the queue, with all the entries that it was with; but for those that its
\* own post-live advance has spent, and those that resume.
FailedPlayRestores ==
    [][\A t \in Threads :
         At(t, "restore") /\ pc'[t] = "idle" /\ t \notin touched =>
           /\ item[t] \in ToSet(queue')
           /\ op[t] # "play_next" => Ordinary(ToSet(queue')) = before[t]]_vars
=============================================================================
