---------------------------- MODULE TempPlayback ----------------------------
(***************************************************************************)
(* Temporary playback: POST /play_temporary interrupts what plays and      *)
(* keeps a frame on a stack from which it is restored later, by the        *)
(* watchdog of the frame, by its timeout or by POST /play_temporary/cancel.*)
(* routes/playback.py holds the request, playback_service.py the rest.     *)
(*                                                                         *)
(* Frames are numbered in the order of their requests; what plays is named *)
(* by the frame it belongs to, or is one of the films.                     *)
(***************************************************************************)
EXTENDS Integers, Sequences, SequencesExt

CONSTANTS MaxFrames,  \* bound on requests for temporary playback
          MaxFilms,   \* films to watch and to queue
          MaxStops    \* bound on stops

ASSUME TempBounds == MaxFrames \in Nat /\ MaxFilms \in Nat \ {0} /\ MaxStops \in Nat

Frames == 1..MaxFrames
Films == MaxFrames + 1..MaxFrames + MaxFilms
Nothing == 0
NoSnapshot == [item |-> Nothing, queue |-> <<>>]

VARIABLES
    stack,      \* _TEMP_PLAYBACK_STACK: frames, the newest last
    snapshot,   \* what each frame interrupted, and the queue of that moment
    request,    \* step of each request
    watchdog,   \* step of each frame's watchdog thread
    restorer,   \* step of the restoration of each frame
    owner,      \* who has claimed the newest intent: n the request of frame n, -n its
                \* restoration, 0 anyone else; it matters while that play is under way
    cancelling, \* the frame a cancellation has chosen, or Nothing
    stopping,   \* a stop has retired the plays and not yet ended the runtime
    stops,      \* bound: stops so far
    shown,      \* what the runtime plays, or Nothing
    queue,      \* state.QUEUE
    queued,     \* bound: films that have been queued or watched
    restored,   \* history: how often each frame was restored
    dropped,    \* history: frames that a stop has discarded
    under       \* history: the frames over which each frame was pushed

tvars == <<stack, snapshot, request, watchdog, restorer, owner, cancelling, stopping, stops,
           shown, queue, queued, restored, dropped, under>>

Top == IF stack = <<>> THEN Nothing ELSE Last(stack)
Playing == shown # Nothing

Init ==
    /\ stack = <<>> /\ snapshot = [n \in Frames |-> NoSnapshot]
    /\ request = [n \in Frames |-> "none"]
    /\ watchdog = [n \in Frames |-> "none"]
    /\ restorer = [n \in Frames |-> "none"]
    /\ owner = 0
    /\ cancelling = Nothing /\ stopping = FALSE /\ stops = 0
    /\ shown = MaxFrames + 1 /\ queue = <<>> /\ queued = {MaxFrames + 1}
    /\ restored = [n \in Frames |-> 0] /\ dropped = {} /\ under = [n \in Frames |-> {}]

-----------------------------------------------------------------------------
(* The request *)

\* capture_current_playback_state: position, item and queue; nothing if idle.
Capture(n) ==
    /\ request[n] = "none"
    /\ \A m \in Frames : m < n => request[m] # "none"
    /\ snapshot' = [snapshot EXCEPT ![n] =
           IF Playing THEN [item |-> shown, queue |-> queue] ELSE NoSnapshot]
    /\ request' = [request EXCEPT ![n] = "captured"]
    /\ UNCHANGED <<stack, watchdog, restorer, owner, cancelling, stopping, stops, shown, queue,
                   queued, restored, dropped, under>>

Push(n) ==
    /\ request[n] = "captured"
    /\ stack' = Append(stack, n)
    /\ under' = [under EXCEPT ![n] = ToSet(stack)]
    /\ request' = [request EXCEPT ![n] = "pushed"]
    /\ UNCHANGED <<snapshot, watchdog, restorer, owner, cancelling, stopping, stops, shown,
                   queue, queued, restored, dropped>>

\* play_now claims an intent, and then resolves and loads.
PlayClaim(n) ==
    /\ request[n] = "pushed"
    /\ request' = [request EXCEPT ![n] = "playing"]
    /\ owner' = n
    /\ UNCHANGED <<stack, snapshot, watchdog, restorer, cancelling, stopping, stops, shown, queue,
                   queued, restored, dropped, under>>

\* A superseded play reports what plays instead; the watchdog starts all the same.
PlayDone(n) ==
    /\ request[n] = "playing"
    /\ request' = [request EXCEPT ![n] = "done"]
    /\ watchdog' = [watchdog EXCEPT ![n] = "asleep"]
    /\ shown' = IF owner = n THEN n ELSE shown
    /\ UNCHANGED <<stack, snapshot, restorer, owner, cancelling, stopping, stops, queue, queued,
                   restored, dropped, under>>

\* The frame is taken back only while it is on top; no watchdog is started.
PlayFailed(n) ==
    /\ request[n] = "playing"
    /\ request' = [request EXCEPT ![n] = "failed"]
    /\ stack' = IF Top = n THEN Front(stack) ELSE stack
    /\ UNCHANGED <<snapshot, watchdog, restorer, owner, cancelling, stopping, stops, shown,
                   queue, queued, restored, dropped, under>>

-----------------------------------------------------------------------------
(* Completion *)

\* A bug: the frame is completed wherever it is in the stack.
CompleteAnywhere(n) ==
    IF n \notin ToSet(stack) THEN UNCHANGED <<stack, restorer, restored>>
    ELSE /\ stack' = SelectSeq(stack, LAMBDA m : m # n)
         /\ restored' = [restored EXCEPT ![n] = @ + 1]
         /\ restorer' = [restorer EXCEPT ![n] = IF snapshot[n] # NoSnapshot THEN "queue" ELSE @]

\* complete_temporary_playback: only the frame on top, which is popped; without a
\* snapshot nothing is restored, and the request may have asked for none.
Complete(n) ==
    IF Top # n THEN UNCHANGED <<stack, restorer, restored>>
    ELSE /\ stack' = Front(stack)
         /\ restored' = [restored EXCEPT ![n] = @ + 1]
         /\ restorer' \in {restorer, [restorer EXCEPT ![n] =
                              IF snapshot[n] # NoSnapshot THEN "queue" ELSE @]}

\* temporary_watchdog: every 0.25 s, until the frame is not on top any more.
WatchdogPoll(n) ==
    /\ watchdog[n] = "asleep"
    /\ \/ Top # n /\ watchdog' = [watchdog EXCEPT ![n] = "gone"]
       \/ Top = n /\ ~Playing /\ watchdog' = [watchdog EXCEPT ![n] = "completing"]
    /\ UNCHANGED <<stack, snapshot, request, restorer, owner, cancelling, stopping, stops,
                   shown, queue, queued, restored, dropped, under>>

\* The request may have set a timeout.
WatchdogTimeout(n) ==
    /\ watchdog[n] = "asleep" /\ Top = n
    /\ watchdog' = [watchdog EXCEPT ![n] = "completing"]
    /\ UNCHANGED <<stack, snapshot, request, restorer, owner, cancelling, stopping, stops,
                   shown, queue, queued, restored, dropped, under>>

WatchdogComplete(n) ==
    /\ watchdog[n] = "completing"
    /\ watchdog' = [watchdog EXCEPT ![n] = "gone"]
    /\ Complete(n)
    /\ UNCHANGED <<snapshot, request, owner, cancelling, stopping, stops, shown, queue, queued,
                   dropped, under>>

\* play_temporary_cancel reads the top, releases the lock and completes it.
CancelAsk ==
    /\ cancelling = Nothing /\ stack # <<>>
    /\ cancelling' = Top
    /\ UNCHANGED <<stack, snapshot, request, watchdog, restorer, owner, stopping, stops, shown,
                   queue, queued, restored, dropped, under>>

CancelComplete ==
    /\ cancelling # Nothing
    /\ Complete(cancelling)
    /\ cancelling' = Nothing
    /\ UNCHANGED <<snapshot, request, watchdog, owner, stopping, stops, shown, queue, queued,
                   dropped, under>>

\* restore_playback_state: the queue goes back to the snapshot, edits since are lost,
\* and the interrupted item is played under an intent of its own.
RestoreBegin(n) ==
    /\ restorer[n] = "queue"
    /\ queue' = snapshot[n].queue
    /\ owner' = -n
    /\ restorer' = [restorer EXCEPT ![n] = "playing"]
    /\ UNCHANGED <<stack, snapshot, request, watchdog, cancelling, stopping, stops, shown, queued,
                   restored, dropped, under>>

\* Superseded or failed, or played.
RestoreDone(n) ==
    /\ restorer[n] = "playing"
    /\ restorer' = [restorer EXCEPT ![n] = "done"]
    /\ shown' \in {shown, IF owner = -n THEN snapshot[n].item ELSE shown}
    /\ UNCHANGED <<stack, snapshot, request, watchdog, owner, cancelling, stopping, stops,
                   queue, queued, restored, dropped, under>>

-----------------------------------------------------------------------------
(* Everything else that plays, stops and queues *)

\* stop_current, close_current: plays are retired and the frames discarded ...
StopDiscard ==
    /\ ~stopping /\ stops < MaxStops
    /\ stopping' = TRUE /\ stops' = stops + 1 /\ owner' = 0
    /\ dropped' = dropped \cup ToSet(stack) /\ stack' = <<>>
    /\ UNCHANGED <<snapshot, request, watchdog, restorer, cancelling, shown, queue, queued,
                   restored, under>>

\* ... then the runtime ends.
StopEnd ==
    /\ stopping
    /\ stopping' = FALSE /\ shown' = Nothing
    /\ UNCHANGED <<stack, snapshot, request, watchdog, restorer, owner, cancelling, stops, queue,
                   queued, restored, dropped, under>>

\* What plays comes to its end; the autoplay monitor may play on from the queue
\* before any watchdog looks, for automatic advances are held back 2 s only.
NaturalEnd ==
    /\ Playing
    /\ \/ shown' = Nothing /\ UNCHANGED <<owner, queue>>
       \/ queue # <<>> /\ shown' = Head(queue) /\ queue' = Tail(queue) /\ owner' = 0
    /\ UNCHANGED <<stack, snapshot, request, watchdog, restorer, cancelling, stopping, stops,
                   queued, restored, dropped, under>>

\* Somebody queues a film, or plays it at once.
Watch(f) ==
    /\ f \notin queued /\ queued' = queued \cup {f}
    /\ \/ queue' = Append(queue, f) /\ UNCHANGED <<owner, shown>>
       \/ shown' = f /\ owner' = 0 /\ UNCHANGED queue
    /\ UNCHANGED <<stack, snapshot, request, watchdog, restorer, cancelling, stopping, stops,
                   restored, dropped, under>>

Request(n) == Capture(n) \/ Push(n) \/ PlayClaim(n) \/ PlayDone(n) \/ PlayFailed(n)
Watchdog(n) == WatchdogPoll(n) \/ WatchdogComplete(n)
Restore(n) == RestoreBegin(n) \/ RestoreDone(n)

Next ==
    \/ \E n \in Frames : Request(n) \/ Watchdog(n) \/ WatchdogTimeout(n) \/ Restore(n)
    \/ \E f \in Films : Watch(f)
    \/ CancelAsk \/ CancelComplete \/ StopDiscard \/ StopEnd \/ NaturalEnd

\* Requests, cancellations and stops that are under way go on, watchdogs poll for
\* ever and restorations return; nobody has to ask for anything.
Fairness ==
    /\ \A n \in Frames :
          /\ WF_tvars(Push(n) \/ PlayClaim(n) \/ PlayDone(n))
          /\ WF_tvars(Watchdog(n)) /\ WF_tvars(Restore(n))
    /\ WF_tvars(CancelComplete) /\ WF_tvars(StopEnd)

Spec == Init /\ [][Next]_tvars
FairSpec == Spec /\ Fairness

-----------------------------------------------------------------------------
(* Properties *)

\* However the watchdog, its timeout, a cancellation and a stop overlap, a frame is
\* restored at most once, never after a stop has discarded it, and never while a
\* frame that was pushed later is still on the stack.
RestoredOnce ==
    /\ \A n \in Frames : restored[n] <= 1 /\ (n \in dropped => restored[n] = 0)
    /\ IsInjective(stack)
    /\ \A n \in Frames : restored[n] > 0 =>
         n \notin ToSet(stack) /\ \A m \in ToSet(stack) : n \notin under[m]

\* "completing (or timing out / ending) the top frame restores the captured session":
\* when what a frame on top has played is over, the frame is completed, or something
\* else plays.
EndedTopIsCompleted ==
    \A n \in Frames :
        (Top = n /\ request[n] = "done" /\ ~Playing) ~> (Top # n \/ Playing)
=============================================================================
