---------------------------- MODULE RuntimeCare ----------------------------
(***************************************************************************)
(* The background loops of player.py that look after playback: the session *)
(* tracker with its repair of orphans, the autoplay monitor that notices   *)
(* the end of an item, and the supervisor of the native Qt shell.  They    *)
(* run beside plays, stops and resumptions and act on what they saw some   *)
(* time ago.  PlaybackIntent models the plays and stops in detail; here    *)
(* they are cut down to the steps that the loops can come between.         *)
(*                                                                         *)
(* An item is named by the intent of the play that published it.  The      *)
(* queue is empty: an end with a queue is an advance (module QueueOps).    *)
(***************************************************************************)
EXTENDS Naturals

CONSTANTS MaxIntent,  \* bound on the intents at which a play or a stop begins
          MaxFaults   \* bound on stalls, ends and deaths of the runtime

ASSUME CareBounds == MaxIntent \in Nat /\ MaxFaults \in Nat

VARIABLES
    gen,        \* _PLAYBACK_INTENT
    cur,        \* the item of state.NOW_PLAYING, 0: none
    sess,       \* state.SESSION_STATE
    media,      \* the item loaded in mpv, 0: none
    health,     \* of the loaded item: "ok", "stalled" or "ended"
    shell,      \* the Qt shell process runs
    window,     \* playback_transitioning()
    held,       \* AUTO_NEXT_SUPPRESS_UNTIL is more than a minute away
    settling,   \* natural_idle_reset_holding()
    cooling,    \* the supervisor restarted something less than 20 s ago
    faults,     \* bound: faults so far
    play, mine,         \* the play: its next step, and the intent it claimed last
    stop, retired,      \* the stop under way: its next step and what it retired
    resume, kept,       \* the resumption under way, and the item it reloads
    tracker, sampled,   \* the tracker's next step, and the item it looked at
    sighted,            \* the tracker's sample of mpv: something is being played
    monitor,            \* the autoplay monitor's next step
    candidate,          \* _PLAYBACK_IDLE_CANDIDATE_SINCE is set
    warden, intent, lost,  \* the supervisor's next step, its intent and item
    ended,              \* history: the intent at which a stop last wrote the session
    owner,              \* history: the intent that has made the session live, 0: none
    crossed,            \* history: the last load began before the publication of another
    overwritten         \* history: the tracker has written an older item over the
                        \* last publication

session == <<cur, sess, owner>>
runtime == <<media, health, shell>>
player == <<play, mine>>
stopper == <<stop, retired>>
resumer == <<resume, kept>>
watcher == <<tracker, sampled, sighted>>
autoplay == <<monitor, candidate>>
supervisor == <<warden, intent, lost, cooling>>
timers == <<window, held, settling>>
history == <<crossed, overwritten>>
vars == <<gen, session, runtime, timers, faults, player, stopper, resumer, watcher, autoplay,
          supervisor, ended, history>>

Init ==
    /\ gen = 0 /\ cur = 0 /\ sess = "idle" /\ owner = 0
    /\ media = 0 /\ health = "ok" /\ shell = TRUE
    /\ window = FALSE /\ held = FALSE /\ settling = FALSE
    /\ cooling = FALSE /\ faults = 0
    /\ play = "idle" /\ mine = 0 /\ stop = "idle" /\ retired = 0
    /\ resume = "idle" /\ kept = 0
    /\ tracker = "idle" /\ sampled = 0 /\ sighted = FALSE
    /\ monitor = "idle" /\ candidate = FALSE
    /\ warden = "idle" /\ intent = 0 /\ lost = 0
    /\ ended = 0 /\ crossed = FALSE /\ overwritten = FALSE

Live == sess = "playing"
MpvFree == warden # "loaded"

\* _is_playing: the core runs, or a launch is under way in a running shell.
IsPlaying == shell /\ (window \/ (media # 0 /\ health # "ended"))

\* Something is loaded and has not come to its end.
Playing == media # 0 /\ health # "ended"

\* A load whose play may still publish.
PlayPending == play = "loaded" /\ mine = gen

Publish(item, state, by) == cur' = item /\ sess' = state /\ owner' = by
Load(item) == media' = item /\ health' = "ok" /\ shell' = TRUE
Unload == media' = 0 /\ health' = "ok"

-----------------------------------------------------------------------------
(* Plays, stops and resumptions *)

PlayClaim ==
    /\ play = "idle" /\ gen < MaxIntent
    /\ gen' = gen + 1 /\ mine' = gen + 1
    /\ play' = "resolving" /\ window' = TRUE
    /\ UNCHANGED <<session, runtime, held, settling, faults, stopper, resumer, watcher, autoplay,
                   supervisor, ended, history>>

\* The resolver failed, or the play was superseded.
PlayFail ==
    /\ play \in {"resolving", "loaded"}
    /\ play = "loaded" => mine # gen
    /\ play' = "idle"
    /\ UNCHANGED <<gen, session, runtime, timers, faults, mine, stopper, resumer, watcher, autoplay,
                   supervisor, ended, history>>

\* Under MPV_LOCK; the window is renewed, and lasts until the publication.
PlayLoad ==
    /\ play = "resolving" /\ MpvFree /\ mine = gen
    /\ Load(mine)
    /\ window' = TRUE
    /\ play' = "loaded"
    /\ crossed' = (resume = "loaded")
    /\ UNCHANGED <<gen, session, held, settling, faults, mine, stopper, resumer, watcher, autoplay,
                   supervisor, ended, overwritten>>

PlayPublish ==
    /\ PlayPending
    /\ Publish(mine, "playing", mine) /\ overwritten' = FALSE
    /\ play' = "idle"
    /\ UNCHANGED <<gen, runtime, timers, faults, mine, stopper, resumer, watcher, autoplay,
                   supervisor, ended, crossed>>

\* stop_current, close_current: retire first, without MPV_LOCK ...
StopRetire ==
    /\ stop = "idle" /\ gen < MaxIntent
    /\ gen' = gen + 1 /\ retired' = gen + 1
    /\ stop' = "hold"
    /\ UNCHANGED <<session, runtime, timers, faults, player, resumer, watcher, autoplay,
                   supervisor, ended, history>>

\* ... then hold the monitor and the repair of orphans for a day, and see whether
\* there is a session to keep: Stop wants it playing, Close only not ended ...
StopHold ==
    /\ stop = "hold"
    /\ held' = TRUE
    /\ LET closable == cur # 0 /\ health # "ended"
       IN  \E keep \in {closable, closable /\ IsPlaying} :
             stop' = IF keep THEN "capture" ELSE "drop"
    /\ UNCHANGED <<gen, retired, session, runtime, window, settling, faults, player, resumer,
                   watcher, autoplay, supervisor, ended, history>>

\* ... then read the position under the lock ...
StopCapture ==
    /\ stop = "capture" /\ MpvFree
    /\ stop' = "write"
    /\ UNCHANGED <<gen, retired, session, runtime, timers, faults, player, resumer, watcher,
                   autoplay, supervisor, ended, history>>

\* ... then write the session, kept closed for a resumption ...
StopWrite ==
    /\ stop = "write"
    /\ Publish(cur, "closed", 0)
    /\ stop' = "teardown" /\ ended' = retired
    /\ UNCHANGED <<gen, retired, runtime, timers, faults, player, resumer, watcher, autoplay,
                   supervisor, history>>

\* ... or idle, without its item unless it was closed before ...
StopDrop ==
    /\ stop = "drop"
    /\ Publish(IF sess = "closed" THEN cur ELSE 0, "idle", 0)
    /\ overwritten' = (overwritten /\ sess = "closed")
    /\ stop' = "teardown" /\ ended' = retired
    /\ UNCHANGED <<gen, retired, runtime, timers, faults, player, resumer, watcher, autoplay,
                   supervisor, crossed>>

\* ... then end the runtime; stop_all and stop_keep_shell retire once more.
StopTeardown ==
    /\ stop \in {"teardown", "clear"} /\ MpvFree
    /\ gen' = gen + 1
    /\ retired' = 0
    /\ Unload /\ shell' \in {shell, TRUE}
    /\ stop' = IF stop = "clear" THEN "cleared" ELSE "idle"
    /\ UNCHANGED <<session, timers, faults, player, resumer, watcher, autoplay,
                   supervisor, ended, history>>

\* clear_now_playing, clear_resumable_session: hold, end the runtime (StopTeardown) ...
ClearHold ==
    /\ stop = "idle" /\ gen < MaxIntent
    /\ held' = TRUE
    /\ stop' = "clear"
    /\ UNCHANGED <<gen, retired, session, runtime, window, settling, faults, player, resumer,
                   watcher, autoplay, supervisor, ended, history>>

\* ... and clear_session: it retires, and leaves alone what runs by now.
ClearRetire ==
    /\ stop = "cleared"
    /\ gen' = gen + 1 /\ retired' = gen + 1
    /\ stop' = "forget"
    /\ UNCHANGED <<session, runtime, timers, faults, player, resumer, watcher, autoplay,
                   supervisor, ended, history>>

ClearWrite ==
    /\ stop = "forget"
    /\ Publish(0, "idle", 0) /\ overwritten' = FALSE
    /\ stop' = "idle" /\ ended' = retired /\ retired' = 0
    /\ UNCHANGED <<gen, runtime, timers, faults, player, resumer, watcher, autoplay,
                   supervisor, crossed>>

\* resume_session of an item with a reusable stream claims no intent.
ResumeAsk ==
    /\ resume = "idle" /\ sess = "closed" /\ cur # 0
    /\ held' = FALSE
    /\ resume' = "load" /\ kept' = cur
    /\ UNCHANGED <<gen, session, runtime, window, settling, faults, player, stopper, watcher,
                   autoplay, supervisor, ended, history>>

\* A runtime that has to be started marks a transition, one that runs does not.
ResumeLoad ==
    /\ resume = "load" /\ MpvFree
    /\ Load(kept)
    /\ window' \in {window, TRUE}
    /\ resume' = "loaded"
    /\ crossed' = PlayPending
    /\ UNCHANGED <<gen, session, held, settling, faults, player, stopper, kept, watcher, autoplay,
                   supervisor, ended, overwritten>>

ResumeWrite ==
    /\ resume = "loaded"
    /\ Publish(kept, "playing", 0) /\ overwritten' = FALSE
    /\ resume' = "idle" /\ kept' = 0
    /\ UNCHANGED <<gen, runtime, timers, faults, player, stopper, watcher, autoplay,
                   supervisor, ended, crossed>>

-----------------------------------------------------------------------------
(* _session_tracker_tick *)


TrackerLook ==
    /\ tracker = "idle" /\ IsPlaying /\ sess # "closed"
    /\ tracker' = "look" /\ sampled' = cur /\ sighted' = FALSE
    /\ UNCHANGED <<gen, session, runtime, timers, faults, player, stopper, resumer, autoplay,
                   supervisor, ended, history>>

\* The current item is read first, mpv after it.
TrackerSample ==
    /\ tracker = "look"
    /\ tracker' = "sampled" /\ sighted' = Playing
    /\ UNCHANGED <<gen, session, runtime, timers, faults, player, stopper, resumer, sampled,
                   autoplay, supervisor, ended, history>>

\* The guards of _repair_orphan_runtime_playback that are not of the sample; the
\* hold of a Stop or a Clear keeps orphans for a day.
RepairAllowed == ~window /\ ~settling /\ sess # "closed" /\ ~held

\* A sample of another item is retired; without an item the runtime may be repaired.
TrackerMatch ==
    /\ tracker = "sampled"
    /\ tracker' = IF cur # sampled THEN "idle"
                  ELSE IF cur # 0 THEN "matched"
                  ELSE IF RepairAllowed /\ sighted THEN "repair" ELSE "idle"
    /\ sampled' = (IF cur = sampled THEN sampled ELSE 0) /\ sighted' = FALSE
    /\ UNCHANGED <<gen, session, runtime, timers, faults, player, stopper, resumer, autoplay,
                   supervisor, ended, history>>

\* update_session, without the intent, or (no position yet) nothing.
TrackerWrite ==
    /\ tracker = "matched"
    /\ tracker' = "idle" /\ sampled' = 0
    /\ \/ /\ Publish(sampled, "playing", 0)
          /\ overwritten' = (overwritten \/ cur # sampled)
       \/ UNCHANGED <<session, overwritten>>
    /\ UNCHANGED <<gen, runtime, timers, faults, player, stopper, resumer, sighted,
                   autoplay, supervisor, ended, crossed>>

\* The repair takes no lock that plays and stops take: stop_mpv ends what runs by
\* now and leaves an idle shell ...
RepairStop ==
    /\ tracker = "repair"
    /\ Unload /\ shell' = TRUE
    /\ tracker' = "repaired"
    /\ UNCHANGED <<gen, session, timers, faults, player, stopper, resumer, sampled, sighted,
                   autoplay, supervisor, ended, history>>

\* ... and the session becomes idle, with whatever item it has by now.
RepairIdle ==
    /\ tracker = "repaired"
    /\ Publish(cur, "idle", 0)
    /\ tracker' = "idle"
    /\ UNCHANGED <<gen, runtime, timers, faults, player, stopper, resumer, sampled, sighted,
                   autoplay, supervisor, ended, history>>

-----------------------------------------------------------------------------
(* _autoplay_next_worker with _playback_runtime_idle_or_ended and, for an   *)
(* empty queue, natural_end.                                                *)

\* The runtime has stopped and the item had come to its end; an item whose
\* shell died halfway is not given up.
Finished == ~window /\ ~IsPlaying /\ (cur = 0 \/ health = "ended" \/ ~Live)

\* Nothing is looked at during a hold.  The first sample of an idle runtime only
\* makes it a candidate.
MonitorLook ==
    /\ monitor = "idle" /\ sess # "closed" /\ ~held
    /\ IF ~Finished THEN candidate' = FALSE /\ monitor' = "idle"
       ELSE IF cur # 0 /\ Live /\ ~candidate THEN candidate' = TRUE /\ monitor' = "idle"
       ELSE candidate' = FALSE /\ monitor' = "end"
    /\ <<candidate', monitor'>> # <<candidate, monitor>>
    /\ UNCHANGED <<gen, session, runtime, timers, faults, player, stopper, resumer, watcher,
                   supervisor, ended, history>>

\* natural_end: nothing during a launch or when idle already, else go idle whatever
\* is current by now, unless it is closed, and keep the repair away for a while.
MonitorEnd ==
    /\ monitor = "end"
    /\ monitor' = "idle"
    /\ IF window \/ (sess = "idle" /\ cur = 0)
         THEN UNCHANGED <<session, settling, overwritten>>
         ELSE /\ settling' = TRUE
              /\ IF sess = "closed" THEN UNCHANGED <<session, overwritten>>
                 ELSE Publish(0, "idle", 0) /\ overwritten' = FALSE
    /\ UNCHANGED <<gen, runtime, window, held, faults, player, stopper, resumer, watcher, candidate,
                   supervisor, ended, crossed>>

-----------------------------------------------------------------------------
(* _qt_shell_supervisor_tick *)

\* The intent is taken before the telemetry that the decision rests on.
WardenLook ==
    /\ warden = "idle" /\ ~window /\ ~cooling
    /\ \/ /\ cur # 0 /\ Live /\ IsPlaying /\ health = "stalled"
          /\ warden' = "restart" /\ lost' = cur /\ intent' = gen
       \/ /\ ~IsPlaying /\ ~shell
          /\ warden' = "idleStop" /\ UNCHANGED <<lost, intent>>
    /\ UNCHANGED <<gen, session, runtime, timers, faults, player, stopper, resumer, watcher,
                   autoplay, cooling, ended, history>>

\* A bug: only the session is checked again, not whose item it plays.
StillLive == Live

StillCurrent == intent = gen /\ Live /\ cur = lost

\* Some other play, a stop or a change of item: the restart is off.
WardenGiveUp ==
    /\ warden = "restart" /\ ~StillCurrent
    /\ warden' = "idle" /\ lost' = 0 /\ intent' = 0
    /\ UNCHANGED <<gen, session, runtime, timers, faults, player, stopper, resumer, watcher,
                   autoplay, cooling, ended, history>>

\* Under MPV_LOCK: checked again, then the captured item is loaded anew.
WardenLoad ==
    /\ warden = "restart" /\ StillCurrent
    /\ Load(lost)
    /\ window' = TRUE
    /\ warden' = "loaded"
    /\ crossed' = (PlayPending \/ resume = "loaded")
    /\ UNCHANGED <<gen, session, held, settling, faults, player, stopper, resumer, watcher, autoplay,
                   intent, lost, cooling, ended, overwritten>>

\* A bug: the restarted item is published whoever took over during the load.
WardenPublishAnyway ==
    /\ warden = "loaded"
    /\ Publish(lost, "playing", intent) /\ overwritten' = FALSE
    /\ warden' = "idle" /\ lost' = 0 /\ intent' = 0 /\ cooling' = TRUE
    /\ UNCHANGED <<gen, runtime, timers, faults, player, stopper, resumer, watcher, autoplay,
                   ended, crossed>>

\* Still under MPV_LOCK, and under the intent lock: "Never publish the captured
\* item over that terminal transition."
WardenPublish ==
    /\ warden = "loaded"
    /\ warden' = "idle" /\ lost' = 0 /\ intent' = 0
    /\ IF intent = gen
         THEN Publish(lost, "playing", intent) /\ overwritten' = FALSE /\ cooling' = TRUE
         ELSE UNCHANGED <<session, overwritten, cooling>>
    /\ UNCHANGED <<gen, runtime, timers, faults, player, stopper, resumer, watcher, autoplay,
                   ended, crossed>>

\* _repair_idle_qt_shell: no lock; whatever shell runs by now is stopped ...
WardenIdleStop ==
    /\ warden = "idleStop"
    /\ Unload /\ shell' = FALSE
    /\ warden' = "idleStart"
    /\ UNCHANGED <<gen, session, timers, faults, player, stopper, resumer, watcher, autoplay, intent,
                   lost, cooling, ended, history>>

\* ... and an idle one is started, even during a launch (force).
WardenIdleStart ==
    /\ warden = "idleStart"
    /\ shell' = TRUE
    /\ warden' = "idle" /\ cooling' = TRUE
    /\ UNCHANGED <<gen, session, media, health, timers, faults, player, stopper, resumer, watcher,
                   autoplay, intent, lost, ended, history>>

-----------------------------------------------------------------------------
(* Time and faults *)

\* The window of a launch is renewed when it loads and outlasts its publication.
WindowEnds ==
    /\ window /\ play # "loaded" /\ warden # "loaded"
    /\ window' = FALSE
    /\ UNCHANGED <<gen, session, runtime, held, settling, faults, player, stopper, resumer, watcher,
                   autoplay, supervisor, ended, history>>

\* A request to play, to go on or to resume shortens the hold to seconds; otherwise
\* it lasts the day.  Plays of Plex, IPTV and browsed items leave it as it is.
HoldEnds ==
    /\ held /\ held' = FALSE
    /\ UNCHANGED <<gen, session, runtime, window, settling, faults, player, stopper, resumer,
                   watcher, autoplay, supervisor, ended, history>>

SettleEnds ==
    /\ settling /\ settling' = FALSE
    /\ UNCHANGED <<gen, session, runtime, window, held, faults, player, stopper, resumer, watcher,
                   autoplay, supervisor, ended, history>>

CooldownEnds ==
    /\ cooling /\ cooling' = FALSE
    /\ UNCHANGED <<gen, session, runtime, timers, faults, player, stopper, resumer, watcher,
                   autoplay, warden, intent, lost, ended, history>>

\* The item freezes, comes to its end, or loses its process.
Fault ==
    /\ faults < MaxFaults /\ faults' = faults + 1
    /\ \/ media # 0 /\ health = "ok" /\ health' \in {"stalled", "ended"}
          /\ UNCHANGED <<media, shell>>
       \/ shell /\ shell' = FALSE /\ Unload
    /\ UNCHANGED <<gen, session, timers, player, stopper, resumer, watcher, autoplay, supervisor,
                   ended, history>>

Plays == PlayClaim \/ PlayFail \/ PlayLoad \/ PlayPublish
Stops ==
    \/ StopRetire \/ StopHold \/ StopCapture \/ StopWrite \/ StopDrop \/ StopTeardown
    \/ ClearHold \/ ClearRetire \/ ClearWrite
Resumes == ResumeAsk \/ ResumeLoad \/ ResumeWrite

Repair == RepairStop \/ RepairIdle
Tracker == TrackerLook \/ TrackerSample \/ TrackerMatch \/ TrackerWrite \/ Repair
Monitor == MonitorLook \/ MonitorEnd
Warden ==
    \/ WardenLook \/ WardenGiveUp \/ WardenLoad \/ WardenPublish
    \/ WardenIdleStop \/ WardenIdleStart
Time == WindowEnds \/ HoldEnds \/ SettleEnds \/ CooldownEnds

Next == Plays \/ Stops \/ Resumes \/ Tracker \/ Monitor \/ Warden \/ Time \/ Fault

\* Each loop is a thread of its own that ticks for ever, operations under way go
\* on, windows and cooldowns are of time.  Nothing has to end a hold.
Fairness ==
    /\ WF_vars(PlayFail \/ PlayLoad \/ PlayPublish)
    /\ WF_vars(StopHold \/ StopCapture \/ StopWrite \/ StopDrop \/ StopTeardown)
    /\ WF_vars(ClearRetire \/ ClearWrite)
    /\ WF_vars(ResumeLoad \/ ResumeWrite)
    /\ WF_vars(Tracker) /\ WF_vars(Warden) /\ WF_vars(Monitor)
    /\ WF_vars(WindowEnds) /\ WF_vars(SettleEnds) /\ WF_vars(CooldownEnds)

Spec == Init /\ [][Next]_vars
FairSpec == Spec /\ Fairness

-----------------------------------------------------------------------------
(* Properties *)

FlagsOK ==
    /\ shell \in BOOLEAN /\ window \in BOOLEAN /\ held \in BOOLEAN /\ settling \in BOOLEAN
    /\ cooling \in BOOLEAN /\ candidate \in BOOLEAN /\ sighted \in BOOLEAN
    /\ crossed \in BOOLEAN /\ overwritten \in BOOLEAN

\* The shape of the state.
TypeOK ==
    /\ {cur, media, mine, retired, kept, sampled, intent, lost, ended, owner} \subseteq 0..gen
    /\ sess \in {"idle", "playing", "closed"}
    /\ health \in {"ok", "stalled", "ended"}
    /\ FlagsOK

\* After a stop, and until something is played again, no play that was under way
\* and no restart that the supervisor had decided on makes the session live.  Those
\* that act without an intent still can, the tracker's late sample and a resumption,
\* and so can a restart decided on between the retirement and the write of the stop.
OnlyUnownedReopen ==
    /\ TypeOK
    /\ Live /\ mine < ended => owner = 0 \/ owner >= ended

AtRest ==
    /\ play = "idle" /\ stop = "idle" /\ resume = "idle"
    /\ tracker = "idle" /\ warden = "idle"

\* When nothing is under way the television shows what the session says, with two
\* exceptions.  The last load, of a play, a resumption or a restart, began while
\* another one had yet to be published (crossed): they are published in either order.
\* Or the tracker, which compares its sample with the current item and then writes it
\* without a lock, has put the older item back over a publication that came between,
\* and nothing has been published since (overwritten).
ShownIsLoaded == AtRest /\ cur # 0 /\ media # 0 => cur = media \/ crossed \/ overwritten

\* Media that plays without a current item: nothing can control it.
Orphan == ~window /\ sess # "closed" /\ cur = 0 /\ Playing

=============================================================================
