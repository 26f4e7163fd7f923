--------------------------- MODULE PlaybackIntent ---------------------------
(***************************************************************************)
(* Who owns the screen.  Resolving a link takes seconds and runs outside   *)
(* every lock, so plays, stops, playlist cancellations and peer handoffs   *)
(* overlap.  player.py hands each play a generation (its intent) and       *)
(* rechecks it before every irreversible effect; terminal transitions      *)
(* retire the generation.                                                  *)
(*                                                                         *)
(* A thread runs one operation at a time and starts again when it is done. *)
(* A media item is named by the intent of the play that asked for it, so   *)
(* runtime, now and the history fields all hold intents.                   *)
(***************************************************************************)
EXTENDS Naturals

CONSTANTS Players,     \* threads that call playback_service.play_now
          Stoppers,    \* threads that call stop_current, close_current or clear_session
          Senders,     \* threads that hand playback over to a peer
          NoThread,    \* the owner of a free lock
          MaxIntent    \* no operation starts once this many intents are claimed

Threads == Players \cup Stoppers \cup Senders

ASSUME ThreadAssumption ==
    /\ Players \cap Stoppers = {}
    /\ Players \cap Senders = {}
    /\ Stoppers \cap Senders = {}
    /\ NoThread \notin Threads

ASSUME MaxIntentAssumption == MaxIntent \in Nat

NoMedia == 0

VARIABLES
    gen,          \* _PLAYBACK_INTENT
    loadStarted,  \* _PLAYBACK_LOAD_STARTED_INTENT, 0 for None
    mpvLock,      \* the holder of MPV_LOCK
    intentLock,   \* the holder of _INTENT_LOCK across a two-step effect
    runtime,      \* what mpv has loaded
    now,          \* state.NOW_PLAYING
    sess,         \* state.SESSION_STATE
    pc, my,       \* per thread: the next step, and the intent it holds
    plan,         \* per stopper: the session update it has computed
    seen,         \* per sender: the item in its handoff snapshot
    lastLoad, lastPub, lastClear,  \* newest effects: mpv load, history head, queue clear
    lastClaim,    \* history: the newest intent claimed by a play
    ended, settled   \* history: newest terminal retirement whose session write
                     \* (ended) or runtime stop (settled) has happened

globals == <<gen, loadStarted, mpvLock, intentLock, runtime, now, sess>>
effects == <<lastLoad, lastPub, lastClear>>
history == <<lastClaim, ended, settled>>
vars == <<globals, pc, my, plan, seen, effects, history>>

SessionStates == {"idle", "playing", "closed"}
Plans == [sess : {"idle", "closed"}, writesNow : BOOLEAN, now : Nat]
Target(state) == [sess |-> state, writesNow |-> FALSE, now |-> NoMedia]

\* The ownership checks of _play_item_owned and the step that follows each.
NextStage == [start    |-> "prepare", \* pre_history_update
              prepare  |-> "clear",   \* post_item_prepare
              resolve  |-> "wait",    \* post_resolve
              wait     |-> "lock",    \* post_availability_wait
              loaded   |-> "publish"] \* post_load
CheckStages == DOMAIN NextStage

\* Where an operation waits for MPV_LOCK, and where it then waits for _INTENT_LOCK.
Locked == [lock      |-> "begin",    \* _play_item_owned: the load
           tracks    |-> "applying", \* apply_playback_intent
           keepShell |-> "keeping",  \* close_current
           teardown  |-> "tearing",  \* stop_current, close_current
           finish    |-> "ending"]   \* complete_peer_handoff
WaitingSteps == DOMAIN Locked

PlayerSteps == CheckStages \cup {"idle", "clear", "lock", "begin", "loading", "publish",
                                 "tracks", "applying"}
StopperSteps == {"idle", "capture", "position", "plan", "write", "keepShell", "keeping",
                 "teardown", "tearing", "stopping", "clearing"}
SenderSteps == {"idle", "probe", "read", "confirm", "compare", "sending", "finish",
                "ending", "finishing"}

Init ==
    /\ gen = 0 /\ loadStarted = 0 /\ mpvLock = NoThread /\ intentLock = NoThread
    /\ runtime = NoMedia /\ now = NoMedia /\ sess = "idle"
    /\ pc = [t \in Threads |-> "idle"]
    /\ my = [t \in Threads |-> 0]
    /\ plan = [s \in Stoppers |-> Target("idle")]
    /\ seen = [h \in Senders |-> NoMedia]
    /\ lastLoad = 0 /\ lastPub = 0 /\ lastClear = 0
    /\ lastClaim = 0 /\ ended = 0 /\ settled = 0

-----------------------------------------------------------------------------
(* Steps shared by the operations. *)

\* An operation that is over holds no intent.
Goto(t, step) ==
    /\ pc' = [pc EXCEPT ![t] = step]
    /\ my' = [my EXCEPT ![t] = IF step = "idle" THEN 0 ELSE @]
At(t, step) == pc[t] = step
IntentFree == intentLock = NoThread
MpvFree == mpvLock = NoThread
Owned(t) == my[t] = gen

Enter(t, step, intent) ==
    /\ pc' = [pc EXCEPT ![t] = step]
    /\ my' = [my EXCEPT ![t] = intent]

\* claim_playback_intent: the new generation retires every older one.
ClaimIntent(t, step) ==
    /\ IntentFree
    /\ gen' = gen + 1
    /\ Enter(t, step, gen + 1)

\* A bug: complete_peer_handoff takes the two locks in the other order.
TakeMpvInverted(t) ==
    /\ pc[t] \in WaitingSteps
    /\ \/ /\ At(t, "finish") /\ IntentFree
          /\ intentLock' = t
          /\ UNCHANGED <<mpvLock, pc, my>>
       \/ /\ MpvFree /\ (At(t, "finish") => intentLock = t)
          /\ mpvLock' = t
          /\ intentLock' = IF At(t, "finish") THEN NoThread ELSE intentLock
          /\ Goto(t, Locked[pc[t]])
    /\ UNCHANGED <<gen, loadStarted, runtime, now, sess, plan, seen, effects, history>>

\* MPV_LOCK comes first: it is held while its owner waits for _INTENT_LOCK.
TakeMpv(t) ==
    /\ pc[t] \in WaitingSteps /\ MpvFree
    /\ mpvLock' = t
    /\ Goto(t, Locked[pc[t]])
    /\ UNCHANGED <<gen, loadStarted, intentLock, runtime, now, sess, plan, seen, effects, history>>

Later(a, b) == IF a > b THEN a ELSE b

-----------------------------------------------------------------------------
(* play_item *)

PlayClaim(p) ==
    /\ At(p, "idle") /\ gen < MaxIntent
    /\ ClaimIntent(p, "start")
    /\ lastClaim' = gen + 1
    /\ UNCHANGED <<loadStarted, mpvLock, intentLock, runtime, now, sess,
                   plan, seen, effects, ended, settled>>

\* _require_owned: a superseded play gives up where it stands.
PlayCheck(p) ==
    /\ pc[p] \in CheckStages /\ IntentFree
    /\ Goto(p, IF Owned(p) THEN NextStage[pc[p]] ELSE "idle")
    /\ UNCHANGED <<globals, plan, seen, effects, history>>

\* Item preparation, URL validation, a rejected queue commit and stream
\* resolution may raise; the play is over.
PlayFail(p) ==
    /\ pc[p] \in {"prepare", "clear", "resolve"}
    /\ Goto(p, "idle")
    /\ UNCHANGED <<globals, plan, seen, effects, history>>

PlayKeepQueue(p) ==
    /\ At(p, "clear")
    /\ Goto(p, "resolve")
    /\ UNCHANGED <<globals, plan, seen, effects, history>>

\* clear_queue=True: the clear runs under the intent lock, or not at all.
PlayClearQueue(p) ==
    /\ At(p, "clear") /\ IntentFree
    /\ lastClear' = IF Owned(p) THEN my[p] ELSE lastClear
    /\ Goto(p, IF Owned(p) THEN "resolve" ELSE "idle")
    /\ UNCHANGED <<globals, plan, seen, lastLoad, lastPub, history>>

\* A bug: no check once MPV_LOCK is held.
PlayBeginLoadUnchecked(p) ==
    /\ At(p, "begin")
    /\ loadStarted' = my[p]
    /\ Goto(p, "loading")
    /\ UNCHANGED <<gen, mpvLock, intentLock, runtime, now, sess, plan, seen, effects, history>>

\* The last check and _begin_playback_load, once MPV_LOCK is held.
PlayBeginLoad(p) ==
    /\ At(p, "begin") /\ IntentFree
    /\ IF Owned(p)
         THEN /\ loadStarted' = my[p]
              /\ Goto(p, "loading")
              /\ UNCHANGED mpvLock
         ELSE /\ mpvLock' = NoThread
              /\ Goto(p, "idle")
              /\ UNCHANGED loadStarted
    /\ UNCHANGED <<gen, intentLock, runtime, now, sess, plan, seen, effects, history>>

PlayLoad(p) ==
    /\ At(p, "loading")
    /\ runtime' = my[p]
    /\ lastLoad' = my[p]
    /\ mpvLock' = NoThread
    /\ Goto(p, "loaded")
    /\ UNCHANGED <<gen, loadStarted, intentLock, now, sess, plan, seen,
                   lastPub, lastClear, history>>

\* A bug: a failed load is reported as a load.
PlayLoadFailSilently(p) ==
    /\ At(p, "loading")
    /\ runtime' \in {runtime, NoMedia}
    /\ mpvLock' = NoThread
    /\ Goto(p, "loaded")
    /\ UNCHANGED <<gen, loadStarted, intentLock, now, sess, plan, seen, effects, history>>

\* start_mpv raises, before or after it tore down the previous process.
PlayLoadFail(p) ==
    /\ At(p, "loading")
    /\ runtime' \in {runtime, NoMedia}
    /\ mpvLock' = NoThread
    /\ Goto(p, "idle")
    /\ UNCHANGED <<gen, loadStarted, intentLock, now, sess, plan, seen, effects, history>>

\* A bug: the check at post_load is trusted when the publication lands.
PlayPublishUnowned(p) ==
    /\ At(p, "publish")
    /\ now' = my[p]
    /\ sess' = "playing"
    /\ lastPub' = my[p]
    /\ Goto(p, "tracks")
    /\ UNCHANGED <<gen, loadStarted, mpvLock, intentLock, runtime, plan, seen,
                   lastLoad, lastClear, history>>

\* _run_owned("publish"): history and session in one owned effect.
PlayPublish(p) ==
    /\ At(p, "publish") /\ IntentFree
    /\ IF Owned(p)
         THEN /\ now' = my[p]
              /\ sess' = "playing"
              /\ lastPub' = my[p]
              /\ Goto(p, "tracks")
         ELSE /\ Goto(p, "idle")
              /\ UNCHANGED <<now, sess, lastPub>>
    /\ UNCHANGED <<gen, loadStarted, mpvLock, intentLock, runtime, plan, seen,
                   lastLoad, lastClear, history>>

\* What is left of the play (the check at pre_watchdog too) changes nothing here,
\* but for an item whose startup tracks are applied.
PlayNoTracks(p) ==
    /\ At(p, "tracks")
    /\ Goto(p, "idle")
    /\ UNCHANGED <<globals, plan, seen, effects, history>>

\* apply_playback_intent: the tracks of the item that still plays, or nothing.
ApplyTracks(p) ==
    /\ At(p, "applying") /\ IntentFree
    /\ mpvLock' = NoThread
    /\ Goto(p, "idle")
    /\ UNCHANGED <<gen, loadStarted, intentLock, runtime, now, sess, plan, seen, effects, history>>

\* retire_playback_intent_if_current: a cancelled playlist import retires the
\* play it reserved; Clear Queue does so only before the load has begun.
CancelPlay(p, beforeLoadOnly) ==
    /\ ~At(p, "idle") /\ gen < MaxIntent /\ IntentFree
    /\ Owned(p)
    /\ ~(beforeLoadOnly /\ loadStarted = my[p])
    /\ gen' = gen + 1
    /\ UNCHANGED <<loadStarted, mpvLock, intentLock, runtime, now, sess,
                   pc, my, plan, seen, effects, history>>

-----------------------------------------------------------------------------
(* stop_current, close_current and clear_session *)

StopRetire(s) ==
    /\ At(s, "idle") /\ gen < MaxIntent
    /\ ClaimIntent(s, "capture")
    /\ UNCHANGED <<loadStarted, mpvLock, intentLock, runtime, now, sess,
                   plan, seen, effects, history>>

\* can_preserve_closed_session: a best-effort probe of the runtime, so it may
\* answer either way, and never true without a current item.
StopCapture(s, preserve) ==
    /\ At(s, "capture")
    /\ preserve => now # NoMedia
    /\ plan' = [plan EXCEPT ![s] = Target(IF preserve THEN "closed" ELSE "idle")]
    /\ Goto(s, IF preserve THEN "position" ELSE "plan")
    /\ UNCHANGED <<globals, seen, effects, history>>

\* Reading the position waits for MPV_LOCK.
StopPosition(s) ==
    /\ At(s, "position") /\ MpvFree
    /\ Goto(s, "plan")
    /\ UNCHANGED <<globals, plan, seen, effects, history>>

\* The update is computed from NOW_PLAYING and SESSION_STATE as they are here.
\* A close without a position keeps now_playing out of its update; without a
\* session to preserve, an already closed session keeps its item.
SessionUpdate(target, keepNow) ==
    IF target = "closed"
      THEN [sess |-> "closed", writesNow |-> now # NoMedia /\ ~keepNow, now |-> now]
      ELSE [sess |-> "idle", writesNow |-> sess # "closed", now |-> NoMedia]

StopPlan(s, keepNow) ==
    /\ At(s, "plan")
    /\ plan' = [plan EXCEPT ![s] = SessionUpdate(@.sess, keepNow)]
    /\ Goto(s, "write")
    /\ UNCHANGED <<globals, seen, effects, history>>

\* update_session, then the teardown; only close_current tries to keep the Qt
\* shell, and only for a session it preserves.
StopWrite(s) ==
    /\ At(s, "write")
    /\ sess' = plan[s].sess
    /\ now' = IF plan[s].writesNow THEN plan[s].now ELSE now
    /\ ended' = Later(my[s], ended)
    /\ plan' = [plan EXCEPT ![s] = Target("idle")]
    /\ \/ Goto(s, "teardown")
       \/ plan[s].sess = "closed" /\ Goto(s, "keepShell")
    /\ UNCHANGED <<gen, loadStarted, mpvLock, intentLock, runtime, seen,
                   effects, lastClaim, settled>>

\* stop_keep_shell retires and then fails to stop in place.
StopKeepShellFail(s) ==
    /\ At(s, "keeping") /\ IntentFree
    /\ gen' = gen + 1
    /\ mpvLock' = NoThread
    /\ Goto(s, "teardown")
    /\ UNCHANGED <<loadStarted, intentLock, runtime, now, sess,
                   plan, seen, effects, history>>

\* stop_all (or stop_keep_shell) under MPV_LOCK retires again ...
StopTeardown(s) ==
    /\ pc[s] \in {"keeping", "tearing"} /\ IntentFree
    /\ gen' = gen + 1
    /\ Goto(s, "stopping")
    /\ UNCHANGED <<loadStarted, mpvLock, intentLock, runtime, now, sess,
                   plan, seen, effects, history>>

\* ... and then stops the runtime.
StopRuntime(s) ==
    /\ At(s, "stopping")
    /\ runtime' = NoMedia
    /\ mpvLock' = NoThread
    /\ settled' = Later(my[s], settled)
    /\ Goto(s, "idle")
    /\ UNCHANGED <<gen, loadStarted, intentLock, now, sess, plan, seen,
                   effects, lastClaim, ended>>

ClearRetire(s) ==
    /\ At(s, "idle") /\ gen < MaxIntent
    /\ ClaimIntent(s, "clearing")
    /\ UNCHANGED <<loadStarted, mpvLock, intentLock, runtime, now, sess,
                   plan, seen, effects, history>>

ClearWrite(s) ==
    /\ At(s, "clearing")
    /\ now' = NoMedia
    /\ sess' = "idle"
    /\ ended' = Later(my[s], ended)
    /\ Goto(s, "idle")
    /\ UNCHANGED <<gen, loadStarted, mpvLock, intentLock, runtime, plan, seen,
                   effects, lastClaim, settled>>

-----------------------------------------------------------------------------
(* handoff_snapshot, the transfer, and complete_peer_handoff *)

\* A sender goes on with what it captured, or is done and forgets it.
Proceed(h, goesOn, step) ==
    /\ Goto(h, IF goesOn THEN step ELSE "idle")
    /\ seen' = IF goesOn THEN seen ELSE [seen EXCEPT ![h] = NoMedia]

HandoffIntent(h) ==
    /\ At(h, "idle") /\ gen < MaxIntent /\ IntentFree
    /\ Enter(h, "probe", gen)
    /\ UNCHANGED <<globals, plan, seen, effects, history>>

\* is_playing() is best effort: either answer is possible.
HandoffProbe(h, playing) ==
    /\ At(h, "probe")
    /\ Goto(h, IF playing THEN "read" ELSE "idle")
    /\ UNCHANGED <<globals, plan, seen, effects, history>>

HandoffRead(h) ==
    /\ At(h, "read")
    /\ seen' = [seen EXCEPT ![h] = now]
    /\ Goto(h, IF now = NoMedia THEN "idle" ELSE "confirm")
    /\ UNCHANGED <<globals, plan, effects, history>>

\* Position and duration are read under MPV_LOCK, which is given up ...
HandoffPosition(h) ==
    /\ At(h, "confirm") /\ MpvFree
    /\ Proceed(h, TRUE, "compare")
    /\ UNCHANGED <<globals, plan, effects, history>>

\* ... before the generation is compared.
HandoffConfirm(h) ==
    /\ At(h, "compare") /\ IntentFree
    /\ Proceed(h, Owned(h), "sending")
    /\ UNCHANGED <<globals, plan, effects, history>>

\* The peer confirms, or the transfer fails or was a copy that keeps playing here.
HandoffSent(h, accepted) ==
    /\ At(h, "sending")
    /\ Proceed(h, accepted, "finish")
    /\ UNCHANGED <<globals, plan, effects, history>>

\* A bug: the teardown after a transfer does not compare generations.
HandoffStopAnything(h) ==
    /\ At(h, "ending") /\ IntentFree
    /\ gen' = gen + 1
    /\ intentLock' = h
    /\ runtime' = NoMedia
    /\ Proceed(h, TRUE, "finishing")
    /\ UNCHANGED <<loadStarted, mpvLock, now, sess, plan, effects, history>>

\* finish_playback_intent under MPV_LOCK: retire and stop only this generation.
HandoffStop(h) ==
    /\ At(h, "ending") /\ IntentFree
    /\ IF Owned(h)
         THEN /\ gen' = gen + 1
              /\ intentLock' = h
              /\ runtime' = NoMedia
              /\ UNCHANGED mpvLock
         ELSE /\ mpvLock' = NoThread
              /\ UNCHANGED <<gen, intentLock, runtime>>
    /\ Proceed(h, Owned(h), "finishing")
    /\ UNCHANGED <<loadStarted, now, sess, plan, effects, history>>

HandoffIdle(h) ==
    /\ At(h, "finishing")
    /\ now' = NoMedia
    /\ sess' = "idle"
    /\ mpvLock' = NoThread /\ intentLock' = NoThread
    /\ ended' = gen /\ settled' = gen
    /\ Proceed(h, FALSE, "idle")
    /\ UNCHANGED <<gen, loadStarted, runtime, plan, effects, lastClaim>>

-----------------------------------------------------------------------------
(* The media ends, or the player process dies. *)
RuntimeEnds ==
    /\ runtime # NoMedia
    /\ runtime' = NoMedia
    /\ UNCHANGED <<gen, loadStarted, mpvLock, intentLock, now, sess,
                   pc, my, plan, seen, effects, history>>

PlayerStep(p) ==
    \/ PlayCheck(p) \/ PlayFail(p)
    \/ PlayKeepQueue(p) \/ PlayClearQueue(p)
    \/ TakeMpv(p) \/ PlayBeginLoad(p) \/ PlayLoad(p) \/ PlayLoadFail(p) \/ PlayPublish(p)
    \/ PlayNoTracks(p) \/ ApplyTracks(p)

StopperStep(s) ==
    \/ \E preserve \in BOOLEAN : StopCapture(s, preserve)
    \/ StopPosition(s)
    \/ \E keepNow \in BOOLEAN : StopPlan(s, keepNow)
    \/ StopWrite(s) \/ TakeMpv(s) \/ StopKeepShellFail(s) \/ StopTeardown(s) \/ StopRuntime(s)
    \/ ClearWrite(s)

SenderStep(h) ==
    \/ \E playing \in BOOLEAN : HandoffProbe(h, playing)
    \/ HandoffRead(h) \/ HandoffPosition(h) \/ HandoffConfirm(h)
    \/ \E accepted \in BOOLEAN : HandoffSent(h, accepted)
    \/ TakeMpv(h) \/ HandoffStop(h) \/ HandoffIdle(h)

\* Every request has been answered: the process waits for the next one.
Quiet == \A t \in Threads : At(t, "idle")
Resting == Quiet /\ UNCHANGED vars

Next ==
    \/ \E p \in Players : PlayClaim(p) \/ PlayerStep(p)
    \/ \E p \in Players, beforeLoadOnly \in BOOLEAN : CancelPlay(p, beforeLoadOnly)
    \/ \E s \in Stoppers : StopRetire(s) \/ ClearRetire(s) \/ StopperStep(s)
    \/ \E h \in Senders : HandoffIntent(h) \/ SenderStep(h)
    \/ RuntimeEnds
    \/ Resting

\* An operation that has begun keeps running: resolvers, peers and mpv answer or
\* time out.  Nothing obliges anybody to ask for another one.
Fairness ==
    /\ \A p \in Players : WF_vars(PlayerStep(p))
    /\ \A s \in Stoppers : WF_vars(StopperStep(s))
    /\ \A h \in Senders : WF_vars(SenderStep(h))

Spec == Init /\ [][Next]_vars
FairSpec == Spec /\ Fairness

-----------------------------------------------------------------------------
(* Properties *)

\* The shape of the state: who may hold which lock, and every stored intent
\* is one that _PLAYBACK_INTENT has reached.
TypeOK ==
    /\ gen \in Nat
    /\ loadStarted \in 0..gen
    /\ mpvLock \in Threads \cup {NoThread}
    /\ intentLock \in Senders \cup {NoThread}
    /\ runtime \in 0..gen
    /\ now \in 0..gen
    /\ sess \in SessionStates
    /\ pc \in [Threads -> PlayerSteps \cup StopperSteps \cup SenderSteps]
    /\ my \in [Threads -> 0..gen]
    /\ plan \in [Stoppers -> Plans] /\ \A s \in Stoppers : plan[s].now <= gen
    /\ seen \in [Senders -> Nat]
    /\ lastLoad \in 0..gen /\ lastPub \in 0..gen /\ lastClear \in 0..gen
    /\ lastClaim \in 0..gen /\ ended \in 0..gen /\ settled \in 0..gen

\* A terminal transition is final for the session: once Stop, Close, Clear or a
\* handoff has written its session update, the session is not "playing" unless
\* some play was asked for after that transition began.  (A play that was still
\* resolving at the Stop must not bring playback back.)
SessionFinal == lastClaim < ended => sess # "playing"

\* The same for the runtime: once the teardown is done nothing is loaded in mpv
\* unless some play was asked for after the transition began.
RuntimeFinal == lastClaim < settled => runtime = NoMedia

\* A Stop, Close, Clear or handoff has the last word over every older play.
TerminalIsFinal == SessionFinal /\ RuntimeFinal

\* Media reaches mpv in the order in which the plays were asked for, however
\* long each resolve took.
LoadsInOrder == [][lastLoad' # lastLoad => lastLoad' > lastLoad]_vars

\* History and session are published in the order the plays were asked for,
\* and never by a play that a terminal transition retired.
PublishesInOrder ==
    [][lastPub' # lastPub => lastPub' > lastPub /\ lastPub' > ended]_vars

\* A superseded clear_queue play never empties the queue its replacement built:
\* the clear is newer than everything another play has cleared, loaded or published.
ClearsInOrder ==
    [][lastClear' # lastClear =>
         lastClear' > lastClear /\ lastClear' > lastLoad /\ lastClear' > lastPub]_vars

\* What plays do to the queue, to mpv and to the session happens in the order in
\* which they were asked for, never in the order in which they were resolved.
EffectsInOrder == LoadsInOrder /\ PublishesInOrder /\ ClearsInOrder

\* When a play publishes itself as now playing, mpv holds that play's media, or
\* nothing any more: the screen never shows one item under another's name.
PublishMatchesRuntime ==
    [][lastPub' # lastPub => runtime \in {lastPub', NoMedia}]_vars

\* "A delayed handoff cannot stop a newer local session": a handoff that stops
\* the runtime does so before any play was asked for after its snapshot.
HandoffSparesLaterPlays ==
    \A h \in Senders : At(h, "finishing") => lastClaim <= my[h]

\* "Stop only the session we sent; leave a replacement entirely alone": a
\* handoff never stops a session that is playing another item than the one
\* it captured in its snapshot.
HandoffStopsOnlySentSession ==
    \A h \in Senders : At(h, "finishing") /\ sess = "playing" => now = seen[h]

\* Every operation that starts is answered.  Loads, teardowns, handoffs and the
\* application of tracks hold MPV_LOCK while they wait for _INTENT_LOCK, a handoff
\* holds both through its effect, and claims, checks and publications take the
\* second alone: in this order nobody waits for somebody who waits for him.
OperationsReturn == \A t \in Threads : []<>At(t, "idle")
=============================================================================
