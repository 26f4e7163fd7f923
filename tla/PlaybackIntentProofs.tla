------------------------ MODULE PlaybackIntentProofs ------------------------
(***************************************************************************)
(* The safety properties of PlaybackIntent, for any number of threads and  *)
(* any bound.  The inductive invariant has one part per idea.              *)
(***************************************************************************)
EXTENDS PlaybackIntent, TLAPS

BeforeLoad == {"start", "prepare", "clear", "resolve", "wait", "lock", "begin"}
BeforePublish == BeforeLoad \cup {"loading", "loaded", "publish"}
Loaded == {"loaded", "publish"}

\* A thread only takes the steps of its own kind of operation.
StepsOK ==
    /\ \A p \in Players : pc[p] \in PlayerSteps
    /\ \A s \in Stoppers : pc[s] \in StopperSteps
    /\ \A h \in Senders : pc[h] \in SenderSteps

\* MPV_LOCK is held while its owner waits for _INTENT_LOCK and through the effect,
\* _INTENT_LOCK through the effect of a handoff.
HoldsMpv == {"begin", "loading", "applying", "keeping", "tearing", "stopping",
             "ending", "finishing"}
LocksOK ==
    /\ \A t \in Threads : mpvLock = t <=> pc[t] \in HoldsMpv
    /\ \A h \in Senders : intentLock = h <=> pc[h] = "finishing"

\* Every intent in use was claimed once, by one play or one terminal transition.
IntentsOK ==
    /\ \A p \in Players : pc[p] # "idle" => my[p] \in 1..lastClaim
    /\ \A p, q \in Players :
         p # q /\ pc[p] # "idle" /\ pc[q] # "idle" => my[p] # my[q]
    /\ \A p \in Players, s \in Stoppers :
         pc[p] # "idle" /\ pc[s] # "idle" => my[p] # my[s]
    /\ \A p \in Players : pc[p] # "idle" => my[p] # ended
    /\ lastLoad <= loadStarted /\ loadStarted <= lastClaim
    /\ lastPub <= lastClaim /\ lastClear <= lastClaim

\* What a play has not done yet has not been done in its name.
EffectsOK ==
    \A p \in Players :
      /\ pc[p] \in BeforeLoad => my[p] # loadStarted /\ my[p] # lastLoad
      /\ pc[p] \in BeforePublish => my[p] # lastPub
      /\ pc[p] \in {"start", "prepare", "clear"} => my[p] # lastClear
      /\ pc[p] = "loading" => my[p] = loadStarted /\ lastLoad < loadStarted
      /\ pc[p] \in Loaded => my[p] <= loadStarted
      /\ pc[p] \in Loaded /\ my[p] = gen => runtime \in {my[p], NoMedia}

\* Nothing is loaded, or being loaded, after a settled transition; and a handoff
\* that is finishing owns the newest intent.
FinalOK ==
    /\ SessionFinal
    /\ lastClaim < settled => runtime = NoMedia /\ \A p \in Players : pc[p] # "loading"
    /\ \A h \in Senders : pc[h] = "finishing" =>
         runtime = NoMedia /\ lastClaim < gen /\ lastClaim <= my[h]

IInv == TypeOK /\ StepsOK /\ LocksOK /\ IntentsOK /\ EffectsOK /\ FinalOK

-----------------------------------------------------------------------------
\* NextStage, entry by entry: the provers cannot apply a record on their own.
LEMMA Stages ==
    /\ CheckStages = {"start", "prepare", "resolve", "wait", "loaded"}
    /\ NextStage["start"] = "prepare" /\ NextStage["prepare"] = "clear"
    /\ NextStage["resolve"] = "wait" /\ NextStage["wait"] = "lock"
    /\ NextStage["loaded"] = "publish"
    /\ WaitingSteps = {"lock", "tracks", "keepShell", "teardown", "finish"}
    /\ Locked["lock"] = "begin" /\ Locked["tracks"] = "applying"
    /\ Locked["keepShell"] = "keeping" /\ Locked["teardown"] = "tearing"
    /\ Locked["finish"] = "ending"
BY DEF CheckStages, NextStage, WaitingSteps, Locked

\* The process starts with nothing loaded, held or claimed.
LEMMA InitInv == Init => IInv
BY ThreadAssumption, Stages
   DEF Init, IInv, TypeOK, StepsOK, LocksOK, IntentsOK, EffectsOK, FinalOK,
   SessionFinal, Threads, SessionStates, Plans, Target, NoMedia, HoldsMpv, BeforeLoad,
   BeforePublish, Loaded, PlayerSteps, StopperSteps, SenderSteps

\* Whoever takes MPV_LOCK goes on to wait for the other lock.
LEMMA TakeMpvInv ==
    ASSUME IInv, NEW t \in Threads, TakeMpv(t)
    PROVE  IInv'
<1> USE ThreadAssumption, Stages
    DEF IInv, TakeMpv, MpvFree, Goto, At, effects, history, NoMedia, Threads,
        PlayerSteps, StopperSteps, SenderSteps
<1>1. /\ pc[t] \in {"lock", "tracks", "keepShell", "teardown", "finish"}
      /\ pc' = [pc EXCEPT ![t] = Locked[pc[t]]] /\ Locked[pc[t]] # "idle"
      /\ my' = my /\ mpvLock' = t /\ mpvLock = NoThread
      /\ UNCHANGED <<gen, loadStarted, intentLock, runtime, now, sess, plan, seen,
                     lastLoad, lastPub, lastClear, lastClaim, ended, settled>>
  BY DEF TypeOK
<1>2. TypeOK' /\ StepsOK'
  BY <1>1 DEF TypeOK, StepsOK
<1>3. LocksOK'
  BY <1>1 DEF TypeOK, StepsOK, LocksOK, HoldsMpv
<1>4. IntentsOK'
  BY <1>1 DEF TypeOK, IntentsOK
<1>5. EffectsOK'
  BY <1>1 DEF TypeOK, StepsOK, EffectsOK, BeforeLoad, BeforePublish, Loaded
<1>6. FinalOK'
  BY <1>1 DEF TypeOK, FinalOK, SessionFinal
<1> QED BY <1>2, <1>3, <1>4, <1>5, <1>6

\* A play, from its claim to its last check.
LEMMA PlayerInv ==
    ASSUME IInv, NEW p \in Players, PlayClaim(p) \/ PlayerStep(p)
    PROVE  IInv'
<1> USE ThreadAssumption, Stages
    DEF IInv, Goto, Enter, Proceed, At, Owned, IntentFree, MpvFree, globals, effects,
        history, NoMedia, Threads, HoldsMpv, PlayerSteps, StopperSteps, SenderSteps
<1>1. CASE PlayClaim(p)
  <2>1. TypeOK' /\ StepsOK' /\ LocksOK'
    BY <1>1 DEF PlayClaim, ClaimIntent, TypeOK, StepsOK, LocksOK, Plans
  <2>2. IntentsOK'
    BY <1>1 DEF PlayClaim, ClaimIntent, TypeOK, IntentsOK
  <2>3. EffectsOK'
    BY <1>1 DEF PlayClaim, ClaimIntent, TypeOK, EffectsOK, Loaded
  <2>4. FinalOK'
    BY <1>1 DEF PlayClaim, ClaimIntent, TypeOK, LocksOK, FinalOK, SessionFinal
  <2> QED BY <2>1, <2>2, <2>3, <2>4
<1>2. CASE PlayCheck(p)
  BY <1>2 DEF PlayCheck, TypeOK, StepsOK, LocksOK, IntentsOK, EffectsOK, FinalOK,
         SessionFinal, BeforeLoad, BeforePublish, Loaded, Later, Plans, SessionStates
<1>3. CASE PlayFail(p)
  BY <1>3 DEF PlayFail, TypeOK, StepsOK, LocksOK, IntentsOK, EffectsOK, FinalOK,
         SessionFinal, BeforeLoad, BeforePublish, Loaded, Later
<1>4. CASE PlayKeepQueue(p)
  BY <1>4 DEF PlayKeepQueue, TypeOK, StepsOK, LocksOK, IntentsOK, EffectsOK, FinalOK,
         SessionFinal, BeforeLoad, BeforePublish, Loaded, Later
<1>5. CASE PlayClearQueue(p)
  <2>1. TypeOK' /\ StepsOK' /\ LocksOK'
    BY <1>5 DEF PlayClearQueue, TypeOK, StepsOK, LocksOK
  <2>2. IntentsOK'
    BY <1>5 DEF PlayClearQueue, TypeOK, IntentsOK
  <2>3. EffectsOK'
    BY <1>5 DEF PlayClearQueue, TypeOK, IntentsOK, EffectsOK, BeforeLoad,
           BeforePublish, Loaded
  <2>4. FinalOK'
    BY <1>5 DEF PlayClearQueue, FinalOK, SessionFinal
  <2> QED BY <2>1, <2>2, <2>3, <2>4
<1>6. CASE PlayBeginLoad(p)
  <2>1. TypeOK' /\ StepsOK' /\ LocksOK'
    BY <1>6 DEF PlayBeginLoad, TypeOK, StepsOK, LocksOK, Plans, SessionStates, Later
  <2>2. IntentsOK'
    BY <1>6 DEF PlayBeginLoad, TypeOK, IntentsOK
  <2>3. EffectsOK'
    BY <1>6 DEF PlayBeginLoad, TypeOK, LocksOK, IntentsOK, EffectsOK, BeforeLoad,
           BeforePublish, Loaded
  <2>4. FinalOK'
    BY <1>6 DEF PlayBeginLoad, TypeOK, IntentsOK, FinalOK, SessionFinal
  <2> QED BY <2>1, <2>2, <2>3, <2>4
<1>7. CASE PlayLoad(p)
  <2>1. TypeOK' /\ StepsOK' /\ LocksOK'
    BY <1>7 DEF PlayLoad, TypeOK, StepsOK, LocksOK, Plans, SessionStates, Later
  <2>2. IntentsOK'
    BY <1>7 DEF PlayLoad, IntentsOK, EffectsOK
  <2>3. EffectsOK'
    BY <1>7 DEF PlayLoad, TypeOK, IntentsOK, EffectsOK, BeforeLoad, BeforePublish
  <2>4. FinalOK'
    BY <1>7 DEF PlayLoad, LocksOK, FinalOK, SessionFinal
  <2> QED BY <2>1, <2>2, <2>3, <2>4
<1>8. CASE PlayLoadFail(p)
  BY <1>8 DEF PlayLoadFail, TypeOK, StepsOK, LocksOK, IntentsOK, EffectsOK, FinalOK,
         SessionFinal, BeforeLoad, BeforePublish, Loaded, Later, Plans, SessionStates
<1>9. CASE PlayPublish(p)
  <2>1. TypeOK' /\ StepsOK' /\ LocksOK'
    BY <1>9 DEF PlayPublish, TypeOK, StepsOK, LocksOK, SessionStates
  <2>2. IntentsOK'
    BY <1>9 DEF PlayPublish, TypeOK, IntentsOK
  <2>3. EffectsOK'
    BY <1>9 DEF PlayPublish, TypeOK, IntentsOK, EffectsOK, BeforeLoad, BeforePublish,
           Loaded
  <2>4. FinalOK'
    BY <1>9 DEF PlayPublish, TypeOK, IntentsOK, FinalOK, SessionFinal
  <2> QED BY <2>1, <2>2, <2>3, <2>4
<1>10. CASE TakeMpv(p)
  BY <1>10, TakeMpvInv
<1>11. CASE PlayNoTracks(p)
  BY <1>11 DEF PlayNoTracks, TypeOK, StepsOK, LocksOK, IntentsOK, EffectsOK, FinalOK,
         SessionFinal, BeforeLoad, BeforePublish, Loaded
<1>12. CASE ApplyTracks(p)
  <2>1. TypeOK' /\ StepsOK' /\ LocksOK'
    BY <1>12 DEF ApplyTracks, TypeOK, StepsOK, LocksOK
  <2>2. IntentsOK' /\ EffectsOK'
    BY <1>12 DEF ApplyTracks, TypeOK, IntentsOK, EffectsOK, BeforeLoad, BeforePublish, Loaded
  <2>3. FinalOK'
    BY <1>12 DEF ApplyTracks, FinalOK, SessionFinal
  <2> QED BY <2>1, <2>2, <2>3
<1> QED BY <1>1, <1>2, <1>3, <1>4, <1>5, <1>6, <1>7, <1>8, <1>9, <1>10, <1>11, <1>12
        DEF PlayerStep

\* A terminal transition, from its retirement to its teardown.
LEMMA StopperInv ==
    ASSUME IInv, NEW s \in Stoppers, StopRetire(s) \/ ClearRetire(s) \/ StopperStep(s)
    PROVE  IInv'
<1> USE ThreadAssumption, Stages
    DEF IInv, Goto, Enter, Proceed, At, Owned, IntentFree, MpvFree, globals, effects,
        history, NoMedia, Threads, HoldsMpv, PlayerSteps, StopperSteps, SenderSteps
<1>1. CASE StopRetire(s)
  <2>1. TypeOK' /\ StepsOK' /\ LocksOK'
    BY <1>1 DEF StopRetire, ClaimIntent, TypeOK, StepsOK, LocksOK, Plans,
           SessionStates, Later
  <2>2. IntentsOK'
    BY <1>1 DEF StopRetire, ClaimIntent, TypeOK, IntentsOK
  <2>3. EffectsOK'
    BY <1>1 DEF StopRetire, ClaimIntent, TypeOK, EffectsOK
  <2>4. FinalOK'
    BY <1>1 DEF StopRetire, ClaimIntent, LocksOK, FinalOK, SessionFinal
  <2> QED BY <2>1, <2>2, <2>3, <2>4
<1>2. CASE \E preserve \in BOOLEAN : StopCapture(s, preserve)
  <2>1. plan' \in [Stoppers -> Plans] /\ \A x \in Stoppers : plan'[x].now <= gen
    BY <1>2 DEF StopCapture, TypeOK, Plans, Target, SessionUpdate
  <2> QED
    BY <1>2, <2>1 DEF StopCapture, TypeOK, StepsOK, LocksOK, IntentsOK, EffectsOK,
           FinalOK, SessionFinal
<1>3. CASE StopPosition(s)
  BY <1>3 DEF StopPosition, TypeOK, StepsOK, LocksOK, IntentsOK, EffectsOK, FinalOK,
         SessionFinal
<1>4. CASE \E keepNow \in BOOLEAN : StopPlan(s, keepNow)
  <2>1. plan' \in [Stoppers -> Plans] /\ \A x \in Stoppers : plan'[x].now <= gen
    BY <1>4 DEF StopPlan, TypeOK, Plans, Target, SessionUpdate
  <2> QED
    BY <1>4, <2>1 DEF StopPlan, TypeOK, StepsOK, LocksOK, IntentsOK, EffectsOK,
           FinalOK, SessionFinal
<1>5. CASE StopWrite(s)
  <2>1. plan' \in [Stoppers -> Plans] /\ \A x \in Stoppers : plan'[x].now <= gen
    BY <1>5 DEF StopWrite, TypeOK, Plans, Target
  <2>2. sess' \in SessionStates /\ now' \in 0..gen /\ ended' \in 0..gen
    BY <1>5 DEF StopWrite, TypeOK, Plans, SessionStates, Later
  <2>3. /\ pc[s] \notin HoldsMpv \cup {"idle"}
        /\ pc'[s] \in {"teardown", "keepShell"} /\ my' = my
        /\ \A t \in Threads \ {s} : pc'[t] = pc[t]
    BY <1>5 DEF StopWrite, TypeOK
  <2>4. TypeOK' /\ StepsOK' /\ LocksOK'
    BY <1>5, <2>1, <2>2, <2>3 DEF StopWrite, TypeOK, StepsOK, LocksOK
  <2>5. IntentsOK' /\ EffectsOK'
    BY <1>5, <2>3 DEF StopWrite, IntentsOK, EffectsOK, Later
  <2>6. FinalOK'
    BY <1>5 DEF StopWrite, TypeOK, FinalOK, SessionFinal, Plans
  <2> QED BY <2>4, <2>5, <2>6
<1>6. CASE StopKeepShellFail(s)
  BY <1>6 DEF StopKeepShellFail, TypeOK, StepsOK, LocksOK, IntentsOK, EffectsOK,
         FinalOK, SessionFinal, BeforeLoad, BeforePublish, Loaded, Later, Plans,
         SessionStates
<1>7. CASE StopTeardown(s)
  <2>1. TypeOK' /\ StepsOK' /\ LocksOK'
    BY <1>7 DEF StopTeardown, TypeOK, StepsOK, LocksOK, Plans
  <2>2. IntentsOK'
    BY <1>7 DEF StopTeardown, IntentsOK
  <2>3. EffectsOK'
    BY <1>7 DEF StopTeardown, TypeOK, EffectsOK
  <2>4. FinalOK'
    BY <1>7 DEF StopTeardown, LocksOK, FinalOK, SessionFinal
  <2> QED BY <2>1, <2>2, <2>3, <2>4
<1>8. CASE StopRuntime(s)
  <2>1. TypeOK' /\ StepsOK' /\ LocksOK'
    BY <1>8 DEF StopRuntime, TypeOK, StepsOK, LocksOK, Plans, SessionStates, Later
  <2>2. IntentsOK'
    BY <1>8 DEF StopRuntime, IntentsOK
  <2>3. EffectsOK'
    BY <1>8 DEF StopRuntime, EffectsOK
  <2>4. FinalOK'
    BY <1>8 DEF StopRuntime, LocksOK, FinalOK, SessionFinal
  <2> QED BY <2>1, <2>2, <2>3, <2>4
<1>9. CASE ClearRetire(s)
  BY <1>9 DEF ClearRetire, ClaimIntent, TypeOK, StepsOK, LocksOK, IntentsOK, EffectsOK,
         FinalOK, SessionFinal, BeforeLoad, BeforePublish, Loaded, Later, Plans,
         SessionStates
<1>10. CASE ClearWrite(s)
  <2>1. TypeOK' /\ StepsOK' /\ LocksOK'
    BY <1>10 DEF ClearWrite, TypeOK, StepsOK, LocksOK, SessionStates, Later
  <2>2. IntentsOK'
    BY <1>10 DEF ClearWrite, IntentsOK, Later
  <2>3. EffectsOK'
    BY <1>10 DEF ClearWrite, EffectsOK
  <2>4. FinalOK'
    BY <1>10 DEF ClearWrite, FinalOK, SessionFinal
  <2> QED BY <2>1, <2>2, <2>3, <2>4
<1>11. CASE TakeMpv(s)
  BY <1>11, TakeMpvInv
<1> QED BY <1>1, <1>2, <1>3, <1>4, <1>5, <1>6, <1>7, <1>8, <1>9, <1>10, <1>11
        DEF StopperStep

\* A peer handoff, from its snapshot to its teardown.
LEMMA SenderInv ==
    ASSUME IInv, NEW h \in Senders, HandoffIntent(h) \/ SenderStep(h)
    PROVE  IInv'
<1> USE ThreadAssumption, Stages
    DEF IInv, Goto, Enter, Proceed, At, Owned, IntentFree, MpvFree, globals, effects,
        history, NoMedia, Threads, HoldsMpv, PlayerSteps, StopperSteps, SenderSteps
<1>1. CASE HandoffIntent(h)
  BY <1>1 DEF HandoffIntent, TypeOK, StepsOK, LocksOK, IntentsOK, EffectsOK, FinalOK,
         SessionFinal, BeforeLoad, BeforePublish, Loaded, Later, Plans, SessionStates
<1>2. CASE \E playing \in BOOLEAN : HandoffProbe(h, playing)
  BY <1>2 DEF HandoffProbe, TypeOK, StepsOK, LocksOK, IntentsOK, EffectsOK, FinalOK,
         SessionFinal
<1>3. CASE HandoffRead(h)
  BY <1>3 DEF HandoffRead, TypeOK, StepsOK, LocksOK, IntentsOK, EffectsOK, FinalOK,
         SessionFinal
<1>4. CASE HandoffConfirm(h)
  BY <1>4 DEF HandoffConfirm, TypeOK, StepsOK, LocksOK, IntentsOK, EffectsOK, FinalOK,
         SessionFinal
<1>5. CASE \E accepted \in BOOLEAN : HandoffSent(h, accepted)
  BY <1>5 DEF HandoffSent, TypeOK, StepsOK, LocksOK, IntentsOK, EffectsOK, FinalOK,
         SessionFinal
<1>6. CASE HandoffStop(h)
  <2>1. TypeOK' /\ StepsOK' /\ LocksOK'
    BY <1>6 DEF HandoffStop, TypeOK, StepsOK, LocksOK, Plans
  <2>2. IntentsOK'
    BY <1>6 DEF HandoffStop, TypeOK, IntentsOK
  <2>3. EffectsOK'
    BY <1>6 DEF HandoffStop, TypeOK, EffectsOK
  <2>4. FinalOK'
    BY <1>6 DEF HandoffStop, TypeOK, FinalOK, SessionFinal
  <2> QED BY <2>1, <2>2, <2>3, <2>4
<1>7. CASE HandoffIdle(h)
  <2>1. TypeOK' /\ StepsOK' /\ LocksOK'
    BY <1>7 DEF HandoffIdle, TypeOK, StepsOK, LocksOK, Plans, SessionStates, Later
  <2>2. IntentsOK'
    BY <1>7 DEF HandoffIdle, TypeOK, IntentsOK, FinalOK
  <2>3. EffectsOK'
    BY <1>7 DEF HandoffIdle, EffectsOK
  <2>4. FinalOK'
    BY <1>7 DEF HandoffIdle, TypeOK, LocksOK, FinalOK, SessionFinal
  <2> QED BY <2>1, <2>2, <2>3, <2>4
<1>8. CASE HandoffPosition(h)
  BY <1>8 DEF HandoffPosition, TypeOK, StepsOK, LocksOK, IntentsOK, EffectsOK, FinalOK,
         SessionFinal
<1>9. CASE TakeMpv(h)
  BY <1>9, TakeMpvInv
<1> QED BY <1>1, <1>2, <1>3, <1>4, <1>5, <1>6, <1>7, <1>8, <1>9 DEF SenderStep

\* A cancelled playlist import retires its play.
LEMMA CancelInv ==
    ASSUME IInv, NEW p \in Players, NEW beforeLoadOnly \in BOOLEAN, CancelPlay(p, beforeLoadOnly)
    PROVE  IInv'
<1> USE DEF IInv, CancelPlay, At, Owned, IntentFree, effects, history
<1>0. gen' = gen + 1 /\ UNCHANGED <<loadStarted, mpvLock, intentLock, runtime, now, sess,
                                   pc, my, plan, seen, effects, history>>
  OBVIOUS
<1>1. TypeOK' /\ StepsOK' /\ LocksOK'
  BY <1>0 DEF TypeOK, StepsOK, LocksOK, Plans
<1>2. IntentsOK' /\ EffectsOK'
  BY DEF TypeOK, IntentsOK, EffectsOK
<1>3. FinalOK'
  BY ThreadAssumption DEF FinalOK, SessionFinal, LocksOK, Threads
<1> QED BY <1>1, <1>2, <1>3

\* mpv ending by itself, and the steps that change nothing.
LEMMA EnvironmentInv ==
    ASSUME IInv, RuntimeEnds \/ UNCHANGED vars
    PROVE  IInv'
BY DEF IInv, RuntimeEnds, vars, globals, effects, history, TypeOK, StepsOK, LocksOK, IntentsOK,
       EffectsOK, FinalOK, SessionFinal, NoMedia

\* Every step, and every stutter, keeps the invariant.
LEMMA StepInv == IInv /\ [Next]_vars => IInv'
BY PlayerInv, StopperInv, SenderInv, CancelInv, EnvironmentInv DEF Next, Resting

\* The invariant of every behaviour, for any set of threads and any MaxIntent.
THEOREM Invariance == Spec => []IInv
BY InitInv, StepInv, PTL DEF Spec

\* The stored intents and the locks keep their shape.
THEOREM TypeCorrect == Spec => []TypeOK
<1>1. IInv => TypeOK
  BY DEF IInv
<1> QED BY <1>1, Invariance, PTL

\* A play that was resolving when a terminal transition began never brings the
\* session back to "playing".
THEOREM SessionStaysFinal == Spec => []SessionFinal
<1>1. IInv => SessionFinal
  BY DEF IInv, FinalOK
<1> QED BY <1>1, Invariance, PTL

\* ... nor does it load mpv once the teardown is done.
THEOREM RuntimeStaysFinal == Spec => []RuntimeFinal
<1>1. IInv => RuntimeFinal
  BY DEF IInv, FinalOK, RuntimeFinal
<1> QED BY <1>1, Invariance, PTL

\* A terminal transition has the last word over every older play.
THEOREM TerminalStaysFinal == Spec => []TerminalIsFinal
BY SessionStaysFinal, RuntimeStaysFinal, PTL DEF TerminalIsFinal

\* A delayed handoff stops nothing that was asked for after its snapshot.
THEOREM HandoffSparing == Spec => []HandoffSparesLaterPlays
<1>1. IInv => HandoffSparesLaterPlays
  BY DEF IInv, FinalOK, HandoffSparesLaterPlays, At
<1> QED BY <1>1, Invariance, PTL

-----------------------------------------------------------------------------
(* The action properties: which steps touch the effects, and in which state. *)

\* Only a player thread loads, publishes or clears; everybody else leaves the
\* newest effects alone.
LEMMA EffectsByPlayers ==
    ASSUME Next, effects' # effects
    PROVE  \E p \in Players : PlayClearQueue(p) \/ PlayLoad(p) \/ PlayPublish(p)
BY DEF Next, PlayerStep, StopperStep, SenderStep, effects, vars, globals, history,
       PlayClaim, PlayCheck, PlayFail, PlayKeepQueue, PlayBeginLoad, PlayLoadFail,
       CancelPlay, StopRetire, StopCapture, StopPosition, StopPlan, StopWrite,
       StopKeepShellFail, StopTeardown, StopRuntime, ClearRetire, ClearWrite,
       TakeMpv, PlayNoTracks, ApplyTracks, HandoffIntent, HandoffProbe, HandoffRead,
       HandoffPosition, HandoffConfirm, HandoffSent, HandoffStop, HandoffIdle, RuntimeEnds, Resting

\* Media reaches mpv in the order in which the plays were asked for.
THEOREM OrderedLoads == Spec => LoadsInOrder
<1>1. IInv /\ [Next]_vars => [lastLoad' # lastLoad => lastLoad' > lastLoad]_vars
  <2> SUFFICES ASSUME IInv, Next, lastLoad' # lastLoad PROVE lastLoad' > lastLoad
    OBVIOUS
  <2>1. PICK p \in Players : PlayClearQueue(p) \/ PlayLoad(p) \/ PlayPublish(p)
    BY EffectsByPlayers DEF effects
  <2>2. PlayLoad(p)
    BY <2>1 DEF PlayClearQueue, PlayPublish
  <2> QED BY <2>2 DEF PlayLoad, At, IInv, TypeOK, EffectsOK
<1> QED BY <1>1, Invariance, PTL DEF Spec, LoadsInOrder

\* Publications come in the order of the plays, and never from a retired play.
THEOREM OrderedPublications == Spec => PublishesInOrder
<1>1. IInv /\ [Next]_vars
        => [lastPub' # lastPub => lastPub' > lastPub /\ lastPub' > ended]_vars
  <2> SUFFICES ASSUME IInv, Next, lastPub' # lastPub
               PROVE  lastPub' > lastPub /\ lastPub' > ended
    OBVIOUS
  <2>1. PICK p \in Players : PlayClearQueue(p) \/ PlayLoad(p) \/ PlayPublish(p)
    BY EffectsByPlayers DEF effects
  <2>2. PlayPublish(p) /\ Owned(p) /\ lastPub' = my[p]
    BY <2>1 DEF PlayClearQueue, PlayLoad, PlayPublish
  <2>3. my[p] # lastPub /\ my[p] # ended
    BY <2>2 DEF PlayPublish, At, IInv, IntentsOK, EffectsOK, BeforePublish
  <2> QED BY <2>2, <2>3 DEF Owned, IInv, TypeOK
<1> QED BY <1>1, Invariance, PTL DEF Spec, PublishesInOrder

\* A queue is never emptied by a play older than anything another play has done.
THEOREM OrderedClears == Spec => ClearsInOrder
<1>1. IInv /\ [Next]_vars
        => [lastClear' # lastClear =>
              lastClear' > lastClear /\ lastClear' > lastLoad /\ lastClear' > lastPub]_vars
  <2> SUFFICES ASSUME IInv, Next, lastClear' # lastClear
               PROVE  lastClear' > lastClear /\ lastClear' > lastLoad /\ lastClear' > lastPub
    OBVIOUS
  <2>1. PICK p \in Players : PlayClearQueue(p) \/ PlayLoad(p) \/ PlayPublish(p)
    BY EffectsByPlayers DEF effects
  <2>2. PlayClearQueue(p) /\ Owned(p) /\ lastClear' = my[p]
    BY <2>1 DEF PlayClearQueue, PlayLoad, PlayPublish
  <2>3. my[p] # lastClear /\ my[p] # lastLoad /\ my[p] # lastPub
    BY <2>2 DEF PlayClearQueue, At, IInv, EffectsOK, BeforeLoad, BeforePublish
  <2> QED BY <2>2, <2>3 DEF Owned, IInv, TypeOK
<1> QED BY <1>1, Invariance, PTL DEF Spec, ClearsInOrder

\* Whatever the plays do comes in the order in which they were asked for.
THEOREM OrderedEffects == Spec => EffectsInOrder
BY OrderedLoads, OrderedPublications, OrderedClears DEF EffectsInOrder

\* The item published as now playing is the one mpv holds, if it holds any.
THEOREM PublicationsMatch == Spec => PublishMatchesRuntime
<1>1. IInv /\ [Next]_vars => [lastPub' # lastPub => runtime \in {lastPub', NoMedia}]_vars
  <2> SUFFICES ASSUME IInv, Next, lastPub' # lastPub PROVE runtime \in {lastPub', NoMedia}
    OBVIOUS
  <2>1. PICK p \in Players : PlayClearQueue(p) \/ PlayLoad(p) \/ PlayPublish(p)
    BY EffectsByPlayers DEF effects
  <2>2. PlayPublish(p) /\ Owned(p) /\ lastPub' = my[p]
    BY <2>1 DEF PlayClearQueue, PlayLoad, PlayPublish
  <2> QED BY <2>2 DEF PlayPublish, At, Owned, IInv, EffectsOK, Loaded
<1> QED BY <1>1, Invariance, PTL DEF Spec, PublishMatchesRuntime
=============================================================================
