------------------------- MODULE RuntimeCareProofs -------------------------
(***************************************************************************)
(* The safety properties of RuntimeCare, for any number of plays, stops    *)
(* and faults.                                                             *)
(***************************************************************************)
EXTENDS RuntimeCare, TLAPS

\* Nothing is newer than the newest intent.
IntentsOK == gen \in Nat /\ TypeOK

\* What a load that is still to be published has loaded is on the screen, or
\* nothing is; and the loads exclude each other, or else they have crossed.
LoadsOK ==
    \/ crossed
    \/ /\ PlayPending => media \in {0, mine} /\ resume # "loaded" /\ warden # "loaded"
       /\ resume = "loaded" => media \in {0, kept} /\ warden # "loaded"
       /\ warden = "loaded" => media \in {0, lost}

\* The screen differs from the session only before the publication of what was
\* loaded, before the teardown of a stop, or where the tracker has overwritten it.
ScreenOK ==
    crossed \/ overwritten \/ stop # "idle" \/ cur = 0 \/ media \in {0, cur}
            \/ (PlayPending /\ media = mine)
            \/ (resume = "loaded" /\ media = kept)

IInv == IntentsOK /\ OnlyUnownedReopen /\ LoadsOK /\ ScreenOK

-----------------------------------------------------------------------------
\* The flags stay flags, whatever the rest of the state.
LEMMA FlagsInv == ASSUME FlagsOK, [Next]_vars PROVE FlagsOK'
<1> USE DEF FlagsOK, session, runtime, timers, player, stopper, resumer, watcher, autoplay,
            supervisor, history
<1>1. CASE Plays
  BY <1>1, ZenonT(60) DEF Plays, PlayClaim, PlayFail, PlayLoad, PlayPublish, Load, Publish
<1>2. CASE Stops
  <2>1. CASE StopRetire \/ StopCapture \/ StopWrite \/ ClearRetire
    BY <2>1, ZenonT(60) DEF StopRetire, StopCapture, StopWrite, ClearRetire
  <2>2. CASE StopHold
    BY <2>2, ZenonT(60) DEF StopHold
  <2>3. CASE StopDrop
    BY <2>3, ZenonT(60) DEF StopDrop
  <2>4. CASE StopTeardown
    BY <2>4, ZenonT(60) DEF StopTeardown, Unload
  <2>5. CASE ClearHold \/ ClearWrite
    BY <2>5, ZenonT(60) DEF ClearHold, ClearWrite
  <2>6. QED
    BY <1>2, <2>1, <2>2, <2>3, <2>4, <2>5 DEF Stops
<1>3. CASE Resumes
  BY <1>3, ZenonT(60) DEF Resumes, ResumeAsk, ResumeLoad, ResumeWrite, PlayPending, Load, Publish
<1>4. CASE Tracker
  <2>1. CASE TrackerLook \/ TrackerMatch \/ RepairIdle
    BY <2>1, ZenonT(60) DEF TrackerLook, TrackerMatch, RepairIdle
  <2>2. CASE TrackerSample
    BY <2>2, ZenonT(60) DEF TrackerSample, Playing
  <2>3. CASE TrackerWrite
    BY <2>3, ZenonT(60) DEF TrackerWrite
  <2>4. CASE RepairStop
    BY <2>4, ZenonT(60) DEF RepairStop, Unload
  <2>5. QED
    BY <1>4, <2>1, <2>2, <2>3, <2>4 DEF Tracker, Repair
<1>5. CASE Monitor
  BY <1>5, ZenonT(60) DEF Monitor, MonitorLook, MonitorEnd, Publish
<1>6. CASE Warden
  BY <1>6, ZenonT(60) DEF Warden, WardenLook, WardenGiveUp, WardenLoad, WardenPublish, WardenIdleStop,
     WardenIdleStart, PlayPending, Load, Publish, Unload
<1>7. CASE Time
  BY <1>7, ZenonT(60) DEF Time, WindowEnds, HoldEnds, SettleEnds, CooldownEnds
<1>8. CASE Fault \/ UNCHANGED vars
  BY <1>8, ZenonT(60) DEF Fault, Unload, vars
<1>9. QED
  BY <1>1, <1>2, <1>3, <1>4, <1>5, <1>6, <1>7, <1>8 DEF Next

LEMMA InitInv == Init => IInv
<1>1. Init => FlagsOK
  BY DEF Init, FlagsOK
<1>2. QED
  BY <1>1 DEF Init, IInv, IntentsOK, OnlyUnownedReopen, LoadsOK, ScreenOK, TypeOK, Live, PlayPending

\* Plays.
LEMMA PlaysInv == ASSUME IInv, FlagsOK', Plays PROVE IInv'
<1> USE DEF IInv, IntentsOK, OnlyUnownedReopen, LoadsOK, ScreenOK, TypeOK, Live, PlayPending,
            Publish, Load, session, runtime, timers, player, stopper, resumer, watcher, autoplay,
            supervisor, history
<1>1. CASE PlayClaim
  BY <1>1 DEF PlayClaim
<1>2. CASE PlayFail
  BY <1>2 DEF PlayFail
<1>3. CASE PlayLoad
  <2>1. IntentsOK' /\ OnlyUnownedReopen'
    BY <1>3 DEF PlayLoad, MpvFree
  <2>2. CASE resume = "loaded"
    <3>1. LoadsOK'
      BY <1>3, <2>2 DEF PlayLoad, MpvFree
    <3>2. ScreenOK'
      BY <1>3, <2>2 DEF PlayLoad, MpvFree
    <3>3. QED BY <2>1, <3>1, <3>2
  <2>3. CASE resume # "loaded"
    <3>1. LoadsOK'
      BY <1>3, <2>3 DEF PlayLoad, MpvFree
    <3>2. ScreenOK'
      BY <1>3, <2>3 DEF PlayLoad, MpvFree
    <3>3. QED BY <2>1, <3>1, <3>2
  <2>4. QED
    BY <2>2, <2>3
<1>4. CASE PlayPublish
  BY <1>4 DEF PlayPublish
<1>5. QED
  BY <1>1, <1>2, <1>3, <1>4 DEF Plays

\* Stops and clears.
LEMMA StopsInv == ASSUME IInv, FlagsOK', Stops PROVE IInv'
<1> USE DEF IInv, IntentsOK, OnlyUnownedReopen, LoadsOK, ScreenOK, TypeOK, Live, PlayPending,
            Publish, Unload, session, runtime, timers, player, stopper, resumer, watcher, autoplay,
            supervisor, history
<1>1. CASE StopRetire
  BY <1>1 DEF StopRetire
<1>2. CASE StopHold
  BY <1>2 DEF StopHold
<1>3. CASE StopCapture
  BY <1>3 DEF StopCapture
<1>4. CASE StopWrite
  BY <1>4 DEF StopWrite
<1>5. CASE StopDrop
  BY <1>5 DEF StopDrop
<1>6. CASE StopTeardown
  BY <1>6 DEF StopTeardown
<1>7. CASE ClearHold
  BY <1>7 DEF ClearHold
<1>8. CASE ClearRetire
  BY <1>8 DEF ClearRetire
<1>9. CASE ClearWrite
  BY <1>9 DEF ClearWrite
<1>10. QED
  BY <1>1, <1>2, <1>3, <1>4, <1>5, <1>6, <1>7, <1>8, <1>9 DEF Stops

\* Resumptions.
LEMMA ResumesInv == ASSUME IInv, FlagsOK', Resumes PROVE IInv'
<1> USE DEF IInv, IntentsOK, OnlyUnownedReopen, LoadsOK, ScreenOK, TypeOK, Live, PlayPending,
            Publish, Load, session, runtime, timers, player, stopper, resumer, watcher, autoplay,
            supervisor, history
<1>1. CASE ResumeAsk
  BY <1>1 DEF ResumeAsk
<1>2. CASE ResumeLoad
  BY <1>2 DEF ResumeLoad, MpvFree
<1>3. CASE ResumeWrite
  BY <1>3 DEF ResumeWrite
<1>4. QED
  BY <1>1, <1>2, <1>3 DEF Resumes

\* The tracker and the monitor.
LEMMA WatchersInv == ASSUME IInv, FlagsOK', Tracker \/ Monitor PROVE IInv'
<1> USE DEF IInv, IntentsOK, OnlyUnownedReopen, LoadsOK, ScreenOK, TypeOK, Live, PlayPending,
            Publish, session, runtime, timers, player, stopper, resumer, watcher, autoplay,
            supervisor, history
<1>1. CASE TrackerLook
  BY <1>1 DEF TrackerLook
<1>2. CASE TrackerSample
  BY <1>2 DEF TrackerSample
<1>3. CASE TrackerMatch
  BY <1>3 DEF TrackerMatch
<1>4. CASE TrackerWrite
  <2>1. CASE UNCHANGED <<session, overwritten>>
    BY <1>4, <2>1 DEF TrackerWrite
  <2>2. CASE Publish(sampled, "playing", 0) /\ overwritten' = (overwritten \/ cur # sampled)
    <3>1. IntentsOK' /\ OnlyUnownedReopen' /\ LoadsOK'
      BY <1>4, <2>2 DEF TrackerWrite
    <3>2. ScreenOK'
      <4>1. CASE cur = sampled
        BY <1>4, <2>2, <4>1 DEF TrackerWrite
      <4>2. CASE cur # sampled
        BY <1>4, <2>2, <4>2 DEF TrackerWrite
      <4>3. QED BY <4>1, <4>2
    <3>3. QED BY <3>1, <3>2
  <2>3. QED
    BY <1>4, <2>1, <2>2 DEF TrackerWrite
<1>5. CASE RepairStop
  BY <1>5 DEF RepairStop, Unload
<1>6. CASE RepairIdle
  BY <1>6 DEF RepairIdle
<1>7. CASE MonitorLook
  BY <1>7 DEF MonitorLook
<1>8. CASE MonitorEnd
  BY <1>8 DEF MonitorEnd
<1>9. QED
  BY <1>1, <1>2, <1>3, <1>4, <1>5, <1>6, <1>7, <1>8 DEF Tracker, Repair, Monitor

\* The supervisor.
LEMMA WardenInv == ASSUME IInv, FlagsOK', Warden PROVE IInv'
<1> USE DEF IInv, IntentsOK, OnlyUnownedReopen, LoadsOK, ScreenOK, TypeOK, Live, PlayPending,
            Publish, Load, session, runtime, timers, player, stopper, resumer, watcher, autoplay,
            supervisor, history
<1>1. CASE WardenLook
  BY <1>1 DEF WardenLook
<1>2. CASE WardenGiveUp
  BY <1>2 DEF WardenGiveUp
<1>3. CASE WardenLoad
  <2>1. IntentsOK' /\ OnlyUnownedReopen'
    BY <1>3 DEF WardenLoad, StillCurrent
  <2>2. CASE PlayPending \/ resume = "loaded"
    <3>1. LoadsOK'
      BY <1>3, <2>2 DEF WardenLoad, StillCurrent
    <3>2. ScreenOK'
      BY <1>3, <2>2 DEF WardenLoad, StillCurrent
    <3>3. QED BY <2>1, <3>1, <3>2
  <2>3. CASE ~PlayPending /\ resume # "loaded"
    <3>1. LoadsOK'
      BY <1>3, <2>3 DEF WardenLoad, StillCurrent
    <3>2. ScreenOK'
      BY <1>3, <2>3 DEF WardenLoad, StillCurrent
    <3>3. QED BY <2>1, <3>1, <3>2
  <2>4. QED
    BY <2>2, <2>3
<1>4. CASE WardenPublish
  BY <1>4 DEF WardenPublish
<1>5. CASE WardenIdleStop
  BY <1>5 DEF WardenIdleStop, Unload
<1>6. CASE WardenIdleStart
  BY <1>6 DEF WardenIdleStart
<1>7. QED
  BY <1>1, <1>2, <1>3, <1>4, <1>5, <1>6 DEF Warden

\* Time and faults.
LEMMA FaultsInv == ASSUME IInv, FlagsOK', Time \/ Fault \/ UNCHANGED vars PROVE IInv'
<1> USE DEF IInv, IntentsOK, OnlyUnownedReopen, LoadsOK, ScreenOK, TypeOK, Live, PlayPending,
            session, runtime, timers, player, stopper, resumer, watcher, autoplay, supervisor, history
<1>1. CASE Time
  BY <1>1 DEF Time, WindowEnds, HoldEnds, SettleEnds, CooldownEnds
<1>2. CASE Fault
  BY <1>2 DEF Fault, Unload
<1>3. CASE UNCHANGED vars
  BY <1>3 DEF vars
<1>4. QED
  BY <1>1, <1>2, <1>3

THEOREM Invariance == Spec => []IInv
<1>1. IInv /\ [Next]_vars => IInv'
  BY FlagsInv, PlaysInv, StopsInv, ResumesInv, WatchersInv, WardenInv, FaultsInv
     DEF Next, IInv, IntentsOK, TypeOK
<1>2. QED
  BY InitInv, <1>1, PTL DEF Spec

\* After a stop, and before something is played again, only those that act without an
\* intent, or a restart decided on after the retirement, make the session live.
THEOREM StopsStayFinal == Spec => []OnlyUnownedReopen
<1>1. IInv => OnlyUnownedReopen
  BY DEF IInv
<1>2. QED
  BY Invariance, <1>1, PTL

\* At rest the television shows what the session says, unless the last load began
\* before the publication of another one, or the tracker has put an older item over
\* the last publication.
THEOREM ScreenFollowsSession == Spec => []ShownIsLoaded
<1>1. IInv => ShownIsLoaded
  BY DEF IInv, ScreenOK, ShownIsLoaded, AtRest, PlayPending
<1>2. QED
  BY Invariance, <1>1, PTL
=============================================================================
