--------------------------- MODULE ServiceProofs ---------------------------
(***************************************************************************)
(* The properties of the services around playback, each for any values of  *)
(* its constants: TempPlayback, ShellMailbox, UploadStore, PlexLink,       *)
(* SeerrSessions, Discovery and PostliveRelay.  Every one follows from an  *)
(* inductive invariant of its own.                                         *)
(***************************************************************************)
EXTENDS TempPlayback, ShellMailbox, UploadStore, PlexLink, SeerrSessions, Discovery,
        PostliveRelay, TLAPS, FiniteSetTheorems, SequenceTheorems

-----------------------------------------------------------------------------
(* Temporary playback *)

\* The stack of frames holds every frame once.
LEMMA PushDistinct ==
    ASSUME NEW S, NEW s \in Seq(S), NEW n \in S, IsInjective(s), n \notin ToSet(s)
    PROVE  /\ Append(s, n) \in Seq(S) /\ IsInjective(Append(s, n))
           /\ ToSet(Append(s, n)) = ToSet(s) \cup {n}
<1>1. /\ Append(s, n) \in Seq(S) /\ Len(s) \in Nat /\ DOMAIN s = 1..Len(s)
      /\ DOMAIN Append(s, n) = 1..(Len(s) + 1)
      /\ Append(s, n)[Len(s) + 1] = n
      /\ \A i \in 1..Len(s) : Append(s, n)[i] = s[i]
      BY AppendProperties, LenProperties
<1>2. \A i \in 1..(Len(s) + 1) : i \in 1..Len(s) \/ i = Len(s) + 1
      BY <1>1
<1>3. IsInjective(Append(s, n))
      BY <1>1, <1>2 DEF IsInjective, ToSet
<1>4. ToSet(Append(s, n)) = ToSet(s) \cup {n}
  <2>1. ToSet(Append(s, n)) \subseteq ToSet(s) \cup {n}
        BY <1>1, <1>2 DEF ToSet
  <2>2. n \in ToSet(Append(s, n))
        BY <1>1 DEF ToSet
  <2>3. ASSUME NEW i \in 1..Len(s) PROVE s[i] \in ToSet(Append(s, n))
    <3>1. i \in 1..(Len(s) + 1)
          BY <1>1
    <3>2. QED BY <1>1, <3>1 DEF ToSet
  <2>4. QED BY <1>1, <2>1, <2>2, <2>3 DEF ToSet
<1>5. QED BY <1>1, <1>3, <1>4

\* A pop leaves the rest in its place.
LEMMA PopKeeps ==
    ASSUME NEW S, NEW s \in Seq(S), s # <<>>
    PROVE  /\ Len(s) \in Nat \ {0} /\ Len(Front(s)) = Len(s) - 1
           /\ \A i \in 1..(Len(s) - 1) : Front(s)[i] = s[i]
<1>1. Len(s) \in Nat \ {0} /\ \A i \in 1..Len(s) : s[i] \in S
      BY EmptySeq, LenProperties, ElementOfSeq
<1>2. Len(s) \in Nat /\ Len(s) > 0
      BY <1>1
<1>3. Len(s) - 1 \in Int /\ 1 \in Int /\ Front(s) = SubSeq(s, 1, Len(s) - 1)
      BY <1>2 DEF Front
<1>4. \A i \in 1..(Len(s) - 1) : s[i] \in S
      BY <1>1
<1>5. /\ Front(s) \in Seq(S)
      /\ Len(Front(s)) = IF 1 <= Len(s) - 1 THEN Len(s) - 1 - 1 + 1 ELSE 0
      /\ \A i \in 1..(Len(s) - 1 - 1 + 1) : Front(s)[i] = s[1 + i - 1]
      BY <1>3, <1>4, SubSeqProperties
<1>6. \A m \in Nat : m > 0 => (IF 1 <= m - 1 THEN m - 1 - 1 + 1 ELSE 0) = m - 1
      OBVIOUS
<1>7. Len(Front(s)) = Len(s) - 1
      BY <1>2, <1>5, <1>6
<1>8. ASSUME NEW i \in 1..(Len(s) - 1) PROVE Front(s)[i] = s[i]
  <2>1. i \in 1..(Len(s) - 1 - 1 + 1) /\ 1 + i - 1 = i
        BY <1>2
  <2>2. QED BY <1>5, <2>1
<1>9. QED BY <1>1, <1>7, <1>8

LEMMA PopDistinct ==
    ASSUME NEW S, NEW s \in Seq(S), s # <<>>, IsInjective(s)
    PROVE  /\ Front(s) \in Seq(S) /\ IsInjective(Front(s))
           /\ Last(s) \in S /\ Last(s) \in ToSet(s)
           /\ ToSet(Front(s)) = ToSet(s) \ {Last(s)}
<1>1. Len(s) \in Nat \ {0} /\ DOMAIN s = 1..Len(s) /\ \A i \in 1..Len(s) : s[i] \in S
      BY EmptySeq, LenProperties, ElementOfSeq
<1>0. Len(s) \in Nat /\ Len(s) > 0
      BY <1>1
<1>2. /\ Front(s) \in Seq(S) /\ DOMAIN Front(s) = 1..(Len(s) - 1)
      /\ \A i \in 1..(Len(s) - 1) : Front(s)[i] = s[i]
  <2>1. Front(s) = SubSeq(s, 1, Len(s) - 1) /\ \A i \in 1..(Len(s) - 1) : s[i] \in S
        BY <1>1 DEF Front
  <2>2. Front(s) \in Seq(S)
        BY <1>0, <2>1, SubSeqProperties
  <2>3. Len(Front(s)) = Len(s) - 1 /\ \A i \in 1..(Len(s) - 1) : Front(s)[i] = s[i]
        BY PopKeeps
  <2>4. DOMAIN Front(s) = 1..Len(Front(s))
        BY <2>2, LenProperties
  <2>5. QED BY <2>2, <2>3, <2>4
<1>3. \A i \in 1..Len(s) : i \in 1..(Len(s) - 1) \/ i = Len(s)
      BY <1>0
<1>4. /\ Len(s) \in 1..Len(s) /\ Len(s) \notin 1..(Len(s) - 1)
      /\ 1..(Len(s) - 1) \subseteq 1..Len(s)
      BY <1>0
<1>5. IsInjective(Front(s))
      BY <1>1, <1>2, <1>4 DEF IsInjective
<1>6. Last(s) \in S /\ Last(s) \in ToSet(s)
      BY <1>1, <1>4 DEF Last, ToSet
<1>7. ToSet(Front(s)) = ToSet(s) \ {Last(s)}
  <2>1. ASSUME NEW i \in 1..(Len(s) - 1) PROVE Front(s)[i] \in ToSet(s) \ {Last(s)}
        BY <1>1, <1>2, <1>4, <2>1 DEF IsInjective, ToSet, Last
  <2>2. ASSUME NEW i \in 1..Len(s), s[i] # Last(s) PROVE s[i] \in ToSet(Front(s))
    <3>1. i \in 1..(Len(s) - 1)
          BY <1>3, <2>2 DEF Last
    <3>2. QED BY <1>2, <3>1 DEF ToSet
  <2>3. QED BY <1>1, <1>2, <2>1, <2>2 DEF ToSet
<1>8. QED BY <1>2, <1>5, <1>6, <1>7

Requested == {"none", "captured", "pushed", "playing", "done", "failed"}

\* Every frame on the stack still lies over the frames over which it was pushed.
StackOrder ==
    \A i \in 1..Len(stack) : \A n \in under[stack[i]] : \E j \in 1..(i - 1) : stack[j] = n

\* A frame is on the stack only after its request has pushed it, and before anybody has
\* restored or discarded it.
StackInv ==
    /\ StackOrder /\ DOMAIN under = Frames
    /\ stack \in Seq(Frames) /\ IsInjective(stack)
    /\ request \in [Frames -> Requested] /\ restored \in [Frames -> Nat]
    /\ \A n \in Frames :
         /\ restored[n] <= 1 /\ (n \in dropped => restored[n] = 0)
         /\ n \in ToSet(stack) => restored[n] = 0 /\ n \notin dropped
         /\ request[n] \in {"none", "captured"} =>
              restored[n] = 0 /\ n \notin dropped /\ n \notin ToSet(stack)

LEMMA TempInitOK == Init => StackInv
<1> SUFFICES ASSUME Init PROVE StackInv
    OBVIOUS
<1>1. stack = <<>> /\ stack \in Seq(Frames) /\ DOMAIN stack = {}
      BY EmptySeq DEF Init
<1>2. IsInjective(stack) /\ ToSet(stack) = {}
      BY <1>1 DEF IsInjective, ToSet
<1>3. StackOrder
      BY <1>1 DEF StackOrder
<1>4. QED BY <1>1, <1>2, <1>3 DEF Init, StackInv, Requested

\* The order survives a pop, and a push of a frame that was not there.
LEMMA OrderPopped ==
    ASSUME StackInv, stack # <<>>, stack' = Front(stack), UNCHANGED under
    PROVE  StackOrder'
<1>1. /\ Len(stack) \in Nat /\ Len(stack') = Len(stack) - 1
      /\ \A i \in 1..(Len(stack) - 1) : stack'[i] = stack[i]
      BY PopKeeps DEF StackInv
<1>2. ASSUME NEW i \in 1..Len(stack'), NEW n \in under'[stack'[i]]
      PROVE  \E j \in 1..(i - 1) : stack'[j] = n
  <2>1. i \in 1..Len(stack) /\ n \in under[stack[i]]
        BY <1>1, <1>2
  <2>2. PICK j \in 1..(i - 1) : stack[j] = n
        BY <2>1 DEF StackInv, StackOrder
  <2>3. j \in 1..(Len(stack) - 1)
        BY <1>1, <1>2, <2>2
  <2>4. QED BY <1>1, <2>2, <2>3
<1>3. QED BY <1>2 DEF StackOrder

LEMMA OrderPushed ==
    ASSUME StackInv, NEW n \in Frames, n \notin ToSet(stack), stack' = Append(stack, n),
           under' = [under EXCEPT ![n] = ToSet(stack)]
    PROVE  StackOrder'
<1>1. /\ Len(stack) \in Nat /\ Len(stack') = Len(stack) + 1 /\ DOMAIN stack = 1..Len(stack)
      /\ stack'[Len(stack) + 1] = n /\ \A i \in 1..Len(stack) : stack'[i] = stack[i]
      BY AppendProperties, LenProperties DEF StackInv
<1>2. ASSUME NEW i \in 1..Len(stack'), NEW m \in under'[stack'[i]]
      PROVE  \E j \in 1..(i - 1) : stack'[j] = m
  <2>1. CASE i = Len(stack) + 1
    <3>1. m \in ToSet(stack)
          BY <1>1, <1>2, <2>1 DEF StackInv
    <3>2. PICK j \in 1..Len(stack) : stack[j] = m
          BY <1>1, <3>1 DEF ToSet
    <3>3. j \in 1..(i - 1) /\ stack'[j] = m
          BY <1>1, <2>1, <3>2
    <3>4. QED BY <3>3
  <2>2. CASE i \in 1..Len(stack)
    <3>1. stack[i] # n /\ stack'[i] = stack[i]
          BY <1>1, <2>2 DEF ToSet
    <3>2. m \in under[stack[i]]
          BY <1>2, <3>1 DEF StackInv
    <3>3. PICK j \in 1..(i - 1) : stack[j] = m
          BY <2>2, <3>2 DEF StackInv, StackOrder
    <3>4. j \in 1..Len(stack)
          BY <1>1, <2>2, <3>3
    <3>5. QED BY <1>1, <3>3, <3>4
  <2>3. QED BY <1>1, <1>2, <2>1, <2>2
<1>3. QED BY <1>2 DEF StackOrder

\* What is popped is on top, so it is neither restored nor discarded.
LEMMA Popped ==
    ASSUME StackInv, NEW n, Top = n, n # Nothing
    PROVE  /\ n \in Frames /\ n \in ToSet(stack) /\ stack # <<>>
           /\ Front(stack) \in Seq(Frames) /\ IsInjective(Front(stack))
           /\ ToSet(Front(stack)) = ToSet(stack) \ {n}
<1>1. stack # <<>> /\ n = Last(stack)
      BY DEF Top
<1>2. QED BY <1>1, PopDistinct DEF StackInv

LEMMA Completed ==
    ASSUME StackInv, NEW n, n # Nothing, Complete(n),
           UNCHANGED <<request, dropped, under>>
    PROVE  StackInv'
<1>1. CASE Top # n
      BY <1>1 DEF Complete, StackInv, StackOrder
<1>2. CASE Top = n
  <2>1. stack' = Front(stack) /\ restored' = [restored EXCEPT ![n] = @ + 1]
        BY <1>2 DEF Complete
  <2>2. restored[n] = 0 /\ n \notin dropped /\ restored' \in [Frames -> Nat]
        /\ request[n] \notin {"none", "captured"}
        BY <1>2, <2>1, Popped DEF StackInv
  <2>3. stack' \in Seq(Frames) /\ IsInjective(stack') /\ ToSet(stack') = ToSet(stack) \ {n}
        BY <1>2, <2>1, Popped
  <2>4. StackOrder'
        BY <1>2, <2>1, Popped, OrderPopped
  <2>5. QED BY <1>2, <2>1, <2>2, <2>3, <2>4, Popped DEF StackInv
<1>3. QED BY <1>1, <1>2

LEMMA TempStep == StackInv /\ [Next]_tvars => StackInv'
<1> SUFFICES ASSUME StackInv, [Next]_tvars PROVE StackInv'
    OBVIOUS
<1>1. ASSUME NEW n \in Frames, Capture(n) PROVE StackInv'
      BY <1>1 DEF Capture, StackInv, StackOrder, Requested
<1>2. ASSUME NEW n \in Frames, Push(n) PROVE StackInv'
  <2>1. stack' = Append(stack, n) /\ n \notin ToSet(stack)
        /\ request' = [request EXCEPT ![n] = "pushed"] /\ restored[n] = 0
        /\ n \notin dropped /\ UNCHANGED <<restored, dropped>>
        /\ under' = [under EXCEPT ![n] = ToSet(stack)]
        BY <1>2 DEF Push, StackInv
  <2>2. stack' \in Seq(Frames) /\ IsInjective(stack') /\ ToSet(stack') = ToSet(stack) \cup {n}
        BY <2>1, PushDistinct DEF StackInv
  <2>3. StackOrder'
        BY <2>1, OrderPushed
  <2>4. QED BY <2>1, <2>2, <2>3 DEF StackInv, Requested
<1>3. ASSUME NEW n \in Frames, PlayClaim(n) \/ PlayDone(n) PROVE StackInv'
      BY <1>3 DEF PlayClaim, PlayDone, StackInv, StackOrder, Requested
<1>4. ASSUME NEW n \in Frames, PlayFailed(n) PROVE StackInv'
  <2>1. request' = [request EXCEPT ![n] = "failed"]
        /\ UNCHANGED <<restored, dropped, under>>
        /\ stack' = IF Top = n THEN Front(stack) ELSE stack
        BY <1>4 DEF PlayFailed
  <2>2. n # Nothing
        BY TempBounds DEF Frames, Nothing
  <2>3. stack' \in Seq(Frames) /\ IsInjective(stack') /\ ToSet(stack') \subseteq ToSet(stack)
        /\ StackOrder'
    <3>1. CASE Top = n
          BY <2>1, <2>2, <3>1, Popped, OrderPopped
    <3>2. CASE Top # n
          BY <2>1, <3>2 DEF StackInv, StackOrder
    <3>3. QED BY <3>1, <3>2
  <2>4. QED BY <2>1, <2>3 DEF StackInv, Requested
<1>5. ASSUME NEW n \in Frames, WatchdogComplete(n) PROVE StackInv'
  <2>1. n # Nothing
        BY TempBounds DEF Frames, Nothing
  <2>2. QED BY <1>5, <2>1, Completed DEF WatchdogComplete
<1>6. CASE CancelComplete
      BY <1>6, Completed DEF CancelComplete
<1>7. CASE StopDiscard
  <2>1. stack' = <<>> /\ dropped' = dropped \cup ToSet(stack) 
        /\ UNCHANGED <<request, restored, under>>
        BY <1>7 DEF StopDiscard
  <2>2. stack' \in Seq(Frames) /\ IsInjective(stack') /\ ToSet(stack') = {}
    <3>1. stack' \in Seq(Frames) /\ DOMAIN stack' = {}
          BY <2>1, EmptySeq
    <3>2. QED BY <3>1 DEF IsInjective, ToSet
  <2>3. StackOrder'
        BY <2>1, EmptySeq DEF StackOrder
  <2>4. QED BY <2>1, <2>2, <2>3 DEF StackInv
<1>8. ASSUME UNCHANGED <<stack, request, restored, dropped, under>> PROVE StackInv'
      BY <1>8 DEF StackInv, StackOrder
<1>9. QED
      BY <1>1, <1>2, <1>3, <1>4, <1>5, <1>6, <1>7, <1>8
      DEF Next, tvars, Request, Watchdog, Restore, WatchdogPoll, WatchdogTimeout, RestoreBegin,
          RestoreDone, Watch, CancelAsk, StopEnd, NaturalEnd

\* However often requests nest, and whoever completes them first, a frame is restored at
\* most once, never after a stop, and never from under a frame pushed over it.
THEOREM FramesRestoredOnce == Spec => []RestoredOnce
<1>1. ASSUME StackInv PROVE RestoredOnce
  <2>1. ASSUME NEW m \in ToSet(stack), NEW n \in under[m] PROVE n \in ToSet(stack)
    <3>1. Len(stack) \in Nat /\ DOMAIN stack = 1..Len(stack)
          BY <1>1, LenProperties DEF StackInv
    <3>2. PICK i \in 1..Len(stack) : stack[i] = m
          BY <2>1, <3>1 DEF ToSet
    <3>3. PICK j \in 1..(i - 1) : stack[j] = n
          BY <1>1, <2>1, <3>2 DEF StackInv, StackOrder
    <3>4. j \in 1..Len(stack)
          BY <3>1, <3>3
    <3>5. QED BY <3>1, <3>3, <3>4 DEF ToSet
  <2>2. QED BY <1>1, <2>1 DEF StackInv, RestoredOnce
<1>2. QED BY TempInitOK, TempStep, <1>1, PTL DEF Spec

-----------------------------------------------------------------------------
(* The control mailbox of the Qt shell *)

Calls == {"idle", "prepared", "waiting", "ok", "error", "timeout"}

\* Who waits holds the lock; a request is executed only while it is newer than what the
\* shell remembers; and what an answer names has been executed.
MailboxInv ==
    /\ call \in [Requests -> Calls]
    /\ stamp \in [Requests -> Nat] /\ now \in Nat /\ control.last \in Nat
    /\ executed \in [Requests -> Nat]
    /\ slot \in Requests \cup {NoRequest}
    /\ \A r \in Requests :
         /\ call[r] = "waiting" => locked = r /\ slot \in {r, NoRequest}
         /\ call[r] \in {"idle", "prepared"} => executed[r] = 0 /\ slot # r
         /\ executed[r] <= 1
         /\ slot = r /\ executed[r] # 0 => stamp[r] <= control.last
         /\ control.request = r => executed[r] # 0
         /\ status.request = r => executed[r] # 0
         /\ call[r] = "ok" => executed[r] # 0

LEMMA MailboxInitOK == MailboxInit => MailboxInv
  BY NoRequestIsNone DEF MailboxInit, MailboxInv, Calls, Fresh, NoStatus

LEMMA MailboxStep == MailboxInv /\ [MailboxNext]_mvars => MailboxInv'
<1> SUFFICES ASSUME MailboxInv, [MailboxNext]_mvars PROVE MailboxInv'
    OBVIOUS
<1> USE NoRequestIsNone DEF MailboxInv, Calls
<1>1. ASSUME NEW r \in Requests, Prepare(r) PROVE MailboxInv'
      BY <1>1 DEF Prepare, StampNow
<1>2. ASSUME NEW r \in Requests, Submit(r) PROVE MailboxInv'
  <2>1. call[r] \in {"idle", "prepared"}
        BY <1>2 DEF Submit
  <2>2. \A q \in Requests : call[q] # "waiting"
        BY <1>2 DEF Submit
  <2>3. stamp' \in [Requests -> Nat] /\ now' \in Nat
        BY <1>2 DEF Submit, StampNow
  <2>4. QED BY <1>2, <2>1, <2>2, <2>3 DEF Submit
<1>3. ASSUME NEW r \in Requests, Answered(r) PROVE MailboxInv'
      BY <1>3 DEF Answered, Return
<1>4. ASSUME NEW r \in Requests, TimedOut(r) PROVE MailboxInv'
      BY <1>4 DEF TimedOut, Return
<1>5. CASE HandleControl
  <2>1. PICK ok \in BOOLEAN : control' = [request |-> slot, last |-> stamp[slot], ok |-> ok]
        BY <1>5 DEF HandleControl
  <2>2. slot \in Requests /\ executed[slot] = 0
        BY <1>5 DEF HandleControl
  <2>3. control'.request = slot /\ control'.last = stamp[slot]
        BY <2>1
  <2>4. QED BY <1>5, <2>2, <2>3 DEF HandleControl
<1>6. CASE WriteStatus
  <2>1. status'.request = control.request
        BY <1>6 DEF WriteStatus
  <2>2. QED BY <1>6, <2>1 DEF WriteStatus
<1>7. CASE ShellEnds
  <2>1. status' = status \/ status'.request = NoRequest
        BY <1>7 DEF ShellEnds, NoStatus
  <2>2. QED BY <1>7, <2>1 DEF ShellEnds
<1>8. CASE ShellStarts
      BY <1>8 DEF ShellStarts, Fresh, NoStatus
<1>9. CASE UNCHANGED mvars
      BY <1>9 DEF mvars
<1>10. QED
       BY <1>1, <1>2, <1>3, <1>4, <1>5, <1>6, <1>7, <1>8, <1>9 DEF MailboxNext

\* A single slot, replaced and polled without any handshake, is enough: every request is
\* executed at most once, and exactly once if it is reported done, across restarts.
THEOREM MailboxRunsOnce == MailboxSpec => []RunsOnce
<1>1. ASSUME MailboxInv, NEW r \in Requests
      PROVE  /\ call[r] = "waiting" => slot \in {r, NoRequest}
             /\ executed[r] <= 1
             /\ call[r] = "ok" => executed[r] = 1
  <2>1. executed[r] \in Nat /\ executed[r] <= 1
        BY <1>1 DEF MailboxInv
  <2>2. call[r] = "ok" => executed[r] # 0
        BY <1>1 DEF MailboxInv
  <2>3. QED BY <1>1, <2>1, <2>2 DEF MailboxInv
<1>2. MailboxInv => RunsOnce
      BY <1>1 DEF RunsOnce
<1>3. QED BY MailboxInitOK, MailboxStep, <1>2, PTL DEF MailboxSpec

-----------------------------------------------------------------------------
(* The upload store *)

UploadSteps == {"new", "announced", "received", "finished", "answered", "failed", "lost"}
Removals == {"nothing", "failure", "missing", "age", "quota"}
Reasons == {"age", "quota"}

\* Only an upload to be played can be without its file while its metadata are there, and
\* then it is protected, failed or lost; so no cleanup ever takes an answered one for
\* missing.
StoreInv ==
    /\ upload \in [Uploads -> UploadSteps]
    /\ removedFor \in [Uploads -> Removals]
    /\ sweep = "idle" => missing = {}
    /\ \A u \in Uploads :
         /\ u \in old => upload[u] \in {"answered", "failed", "lost"}
         /\ upload[u] = "new" => u \notin meta /\ u \notin metas /\ u \notin kept
         /\ upload[u] = "answered" => u \notin missing /\ (u \in meta => u \in file)
         /\ upload[u] = "answered" /\ u \notin file => removedFor[u] \in Reasons
         /\ u \in Played /\ upload[u] \in {"announced", "received", "finished"} => u \in active
         /\ u \in Played /\ upload[u] \in {"received", "finished"} => u \in file
         /\ u \in Stored =>
              /\ u \notin missing /\ (u \in meta => u \in file)
              /\ upload[u] = "received" => u \notin meta /\ u \notin metas /\ u \notin kept
                                           /\ u \in file
              /\ upload[u] = "finished" /\ u \notin file => removedFor[u] \in Reasons

LEMMA UploadInitOK == UploadInit => StoreInv
  BY DEF UploadInit, StoreInv, UploadSteps, Removals

LEMMA UploadStep == StoreInv /\ [UploadNext]_uvars => StoreInv'
<1> SUFFICES ASSUME StoreInv, [UploadNext]_uvars PROVE StoreInv'
    OBVIOUS
<1> USE UploadBounds DEF StoreInv, Uploads, UploadSteps, Removals, Reasons, Unswept
<1>1. ASSUME NEW u \in Uploads, Announce(u) PROVE StoreInv'
      BY <1>1 DEF Announce
<1>2. ASSUME NEW u \in Uploads, Receive(u) PROVE StoreInv'
      BY <1>2 DEF Receive
<1>3. ASSUME NEW u \in Uploads, Finish(u) PROVE StoreInv'
      BY <1>3 DEF Finish
<1>4. ASSUME NEW u \in Uploads, Answer(u) PROVE StoreInv'
      BY <1>4 DEF Answer
<1>5. ASSUME NEW u \in Uploads, EnqueueUpload(u) PROVE StoreInv'
      BY <1>5 DEF EnqueueUpload
<1>6. ASSUME NEW u \in Uploads, Fail(u) PROVE StoreInv'
  <2>1. upload' = [upload EXCEPT ![u] = "failed"] /\ active' = active \ {u}
        /\ UNCHANGED <<old, inQueue, sweep, listed, metas, missing, kept>>
        BY <1>6 DEF Fail
  <2>2. CASE /\ meta' = meta \ {u} /\ file' = file \ {u}
             /\ removedFor' = [removedFor EXCEPT ![u] = "failure"]
        BY <2>1, <2>2
  <2>3. CASE UNCHANGED <<meta, file, removedFor>>
        BY <2>1, <2>3
  <2>4. QED BY <1>6, <2>2, <2>3 DEF Fail
<1>7. ASSUME NEW u \in Uploads, GrowOld(u) PROVE StoreInv'
      BY <1>7 DEF GrowOld
<1>8. ASSUME NEW u \in Uploads, SweepList(u) PROVE StoreInv'
      BY <1>8 DEF SweepList
<1>9. ASSUME NEW u \in Uploads, SweepRemove(u) PROVE StoreInv'
      BY <1>9 DEF SweepRemove, Delete
<1>10. ASSUME NEW u \in Uploads, SweepQuota(u) PROVE StoreInv'
       BY <1>10 DEF SweepQuota, Delete
<1>11. CASE SweepBegin
       BY <1>11 DEF SweepBegin
<1>12. CASE SweepEnd
       BY <1>12 DEF SweepEnd
<1>13. CASE CrashUploads
       BY <1>13 DEF CrashUploads
<1>14. CASE UNCHANGED uvars
       BY <1>14 DEF uvars
<1>15. QED
       BY <1>1, <1>2, <1>3, <1>4, <1>5, <1>6, <1>7, <1>8, <1>9, <1>10, <1>11, <1>12, <1>13,
          <1>14
       DEF UploadNext

\* Whatever cleanups, failures and restarts come between, what is being received stays,
\* and what has been answered goes for its age or the quota only.
THEOREM UploadsAreKept == UploadSpec => []FinishedIsKept
<1>1. StoreInv => FinishedIsKept
      BY DEF StoreInv, FinishedIsKept, Reasons
<1>2. QED BY UploadInitOK, UploadStep, <1>1, PTL DEF UploadSpec

-----------------------------------------------------------------------------
(* The Plex account and server *)

Asks ==
    [gen : Int, account : Accounts \cup {None}, machine : Machines \cup {None}, jwt : BOOLEAN]

LinkSteps == {"new", "asked", "live", "approved", "linked", "refused"}

LinkTypes ==
    /\ link \in [Flows -> [step : LinkSteps, gen : Nat, account : Accounts \cup {None}]]
    /\ \A f \in Flows : link[f].step = "approved" => link[f].account \in Accounts

LinkOK ==
    /\ gen \in Nat /\ LinkTypes
    /\ account \in Accounts \cup {None}
    /\ server \in Servers \cup {NoServer}

\* What a request has seen is not newer than what there is now, and if it is as new, it
\* is the same account.
SeenOK ==
    /\ selecting \in Asks /\ refresh \in Asks
    /\ selecting.gen <= gen /\ refresh.gen <= gen
    /\ selecting # NoAsk => selecting.account \in Accounts /\ selecting.machine \in Machines
    /\ selecting.gen = gen => selecting.account = account
    /\ refresh # NoAsk => refresh.account \in Accounts
    /\ refresh.gen = gen => refresh.account = account

PlexInv == LinkOK /\ SeenOK /\ ServerBelongsToAccount

LEMMA PlexInitOK == PlexInit => PlexInv
  BY DEF PlexInit, PlexInv, LinkOK, LinkTypes, LinkSteps, SeenOK,
         ServerBelongsToAccount, NoAsk, Asks

LEMMA NoAskIsAsk == NoAsk \in Asks
  BY DEF NoAsk, Asks

LEMMA JwtIsBoolean == \A s \in Servers \cup {NoServer} : s.jwt \in BOOLEAN
<1>1. NoServer.jwt \in BOOLEAN
      BY DEF NoServer
<1>2. \A s \in Servers : s.jwt \in BOOLEAN
      BY DEF Servers
<1>3. QED BY <1>1, <1>2

LEMMA UpgradedNoServer ==
    [machine |-> NoServer.machine, of |-> NoServer.of, jwt |-> FALSE] = NoServer
  BY DEF NoServer

LEMMA PlexStep == PlexInv /\ [PlexNext]_xvars => PlexInv'
<1> SUFFICES ASSUME PlexInv, [PlexNext]_xvars PROVE PlexInv'
    OBVIOUS
<1> USE DEF PlexInv
<1>a. ASSUME UNCHANGED <<account, server, gen, selecting, refresh>>, LinkTypes' PROVE PlexInv'
      BY <1>a DEF LinkOK, SeenOK, ServerBelongsToAccount
<1>b. ASSUME UNCHANGED <<account, server, gen, link, selecting, refresh>> PROVE PlexInv'
      BY <1>b DEF LinkOK, LinkTypes, SeenOK, ServerBelongsToAccount
<1>c. ASSUME gen' = gen + 1, gen \in Nat, SeenOK, selecting' \in {selecting, NoAsk},
             refresh' = refresh
      PROVE SeenOK'
  <2>1. selecting'.gen <= gen /\ selecting'.gen \in Int
        BY <1>c DEF SeenOK, Asks, NoAsk
  <2>2. selecting' \in Asks
        BY <1>c, NoAskIsAsk DEF SeenOK
  <2>3. selecting'.gen # gen' /\ refresh.gen # gen' /\ refresh.gen <= gen'
        BY <1>c, <2>1 DEF SeenOK, Asks
  <2>4. QED BY <1>c, <2>1, <2>2, <2>3 DEF SeenOK
<1>1. ASSUME NEW f \in Flows, StartLink(f) PROVE PlexInv'
  <2>1. LinkTypes'
        BY <1>1 DEF StartLink, LinkOK, LinkTypes, LinkSteps
  <2>2. QED BY <1>1, <1>a, <2>1 DEF StartLink
<1>2. ASSUME NEW f \in Flows, RegisterFlow(f) PROVE PlexInv'
  <2>1. LinkTypes'
        BY <1>2 DEF RegisterFlow, LinkOK, LinkTypes, LinkSteps
  <2>2. QED BY <1>2, <1>a, <2>1 DEF RegisterFlow
<1>3. ASSUME NEW f \in Flows, PollLink(f) PROVE PlexInv'
  <2>1. LinkTypes'
        BY <1>3 DEF PollLink, LinkOK, LinkTypes, LinkSteps
  <2>2. CASE f \in flows /\ link[f].gen = gen
    <3>1. LinkOK' /\ gen' = gen + 1 /\ UNCHANGED <<selecting, refresh>>
          BY <1>3, <2>1, <2>2 DEF PollLink, LinkOK, LinkTypes
    <3>2. ServerBelongsToAccount'
          BY <1>3, <2>2 DEF PollLink, ServerBelongsToAccount
    <3>3. QED BY <1>c, <3>1, <3>2 DEF LinkOK
  <2>3. CASE ~(f \in flows /\ link[f].gen = gen)
        BY <1>3, <1>a, <2>1, <2>3 DEF PollLink
  <2>4. QED BY <2>2, <2>3
<1>4. ASSUME NEW f \in Flows, NEW a \in Accounts, Approved(f, a) PROVE PlexInv'
  <2>1. LinkTypes'
        BY <1>4 DEF Approved, LinkOK, LinkTypes, LinkSteps
  <2>2. QED BY <1>4, <1>a, <2>1 DEF Approved
<1>5. ASSUME NEW f \in Flows, CancelLink(f) PROVE PlexInv'
      BY <1>5, <1>b DEF CancelLink
<1>6. CASE Disconnect
  <2>1. LinkOK' /\ ServerBelongsToAccount'
        BY <1>6 DEF Disconnect, LinkOK, LinkTypes, ServerBelongsToAccount
  <2>2. QED BY <1>6, <1>c, <2>1 DEF Disconnect, LinkOK
<1>7. CASE RefreshBegin
  <2>1. LinkOK' /\ ServerBelongsToAccount'
        BY <1>7 DEF RefreshBegin, LinkOK, LinkTypes, ServerBelongsToAccount
  <2>2. server.jwt \in BOOLEAN
        BY JwtIsBoolean DEF LinkOK
  <2>3. refresh' = [gen |-> gen, account |-> account, machine |-> None, jwt |-> server.jwt]
        BY <1>7 DEF RefreshBegin, Seen
  <2>4. refresh' \in Asks /\ refresh'.gen = gen /\ refresh'.account = account
        BY <2>2, <2>3 DEF Asks, LinkOK
  <2>5. SeenOK'
        BY <1>7, <2>4 DEF RefreshBegin, SeenOK, LinkOK
  <2>6. QED BY <2>1, <2>5
<1>8. CASE RefreshEnd
  <2>1. account' = account
        BY <1>8 DEF RefreshEnd, SeenOK
  <2>2. LinkOK' /\ ServerBelongsToAccount'
        BY <1>8, <2>1 DEF RefreshEnd, LinkOK, LinkTypes, ServerBelongsToAccount
  <2>3. SeenOK'
        BY <1>8, <2>1 DEF RefreshEnd, SeenOK, LinkOK, Asks, NoAsk
  <2>4. QED BY <2>2, <2>3
<1>9. ASSUME NEW m \in Machines, SelectBegin(m) PROVE PlexInv'
  <2>1. LinkOK' /\ ServerBelongsToAccount'
        BY <1>9 DEF SelectBegin, LinkOK, LinkTypes, ServerBelongsToAccount
  <2>2. server.jwt \in BOOLEAN
        BY JwtIsBoolean DEF LinkOK
  <2>3. selecting' = [gen |-> gen, account |-> account, machine |-> m, jwt |-> server.jwt]
        BY <1>9 DEF SelectBegin, Seen
  <2>4. selecting' \in Asks /\ selecting'.gen = gen /\ selecting'.account = account
        /\ selecting'.machine = m
        BY <2>2, <2>3 DEF Asks, LinkOK
  <2>5. SeenOK'
        BY <1>9, <2>4 DEF SelectBegin, SeenOK, LinkOK
  <2>6. QED BY <2>1, <2>5
<1>10. CASE SelectEnd
  <2>1. CASE UNCHANGED <<server, gen>>
    <3>1. LinkOK' /\ ServerBelongsToAccount'
          BY <1>10, <2>1 DEF SelectEnd, LinkOK, LinkTypes, ServerBelongsToAccount
    <3>2. SeenOK'
          BY <1>10, <2>1 DEF SelectEnd, SeenOK, LinkOK, Asks, NoAsk
    <3>3. QED BY <3>1, <3>2
  <2>2. CASE ~UNCHANGED <<server, gen>>
    <3>1. PICK jwt \in BOOLEAN :
            /\ selecting.gen = gen /\ gen' = gen + 1
            /\ server' = [machine |-> selecting.machine, of |-> selecting.account, jwt |-> jwt]
          BY <1>10, <2>2 DEF SelectEnd
    <3>2. server' \in Servers /\ server'.of = account
          BY <1>10, <3>1 DEF SelectEnd, SeenOK, Servers
    <3>3. LinkOK' /\ ServerBelongsToAccount'
          BY <1>10, <3>1, <3>2 DEF SelectEnd, LinkOK, LinkTypes, ServerBelongsToAccount
    <3>4. QED BY <1>10, <1>c, <3>1, <3>3 DEF SelectEnd, LinkOK
  <2>3. QED BY <2>1, <2>2
<1>11. CASE Upgrade
  <2>1. CASE UNCHANGED <<server, gen>>
        BY <1>11, <1>b, <2>1 DEF Upgrade
  <2>2. CASE ~UNCHANGED <<server, gen>>
    <3>1. gen' = gen + 1 
          /\ server' = [machine |-> server.machine, of |-> server.of, jwt |-> FALSE]
          /\ UNCHANGED <<account, link, selecting, refresh>>
          BY <1>11, <2>2 DEF Upgrade
    <3>2. server \in Servers => server' \in Servers /\ server'.of = server.of
          BY <3>1 DEF Servers
    <3>3. server = NoServer => server' = NoServer
          BY <3>1, UpgradedNoServer
    <3>4. LinkOK' /\ ServerBelongsToAccount'
          BY <3>1, <3>2, <3>3 DEF LinkOK, LinkTypes, ServerBelongsToAccount
    <3>5. QED BY <1>c, <3>1, <3>4 DEF LinkOK
  <2>3. QED BY <2>1, <2>2
<1>12. CASE SessionBegin \/ SessionEnd \/ PlayBegin \/ Resolve \/ PlayEnd \/ StopTitle
       BY <1>12, <1>b DEF SessionBegin, SessionEnd, PlayBegin, Resolve, PlayEnd, StopTitle
<1>13. CASE UNCHANGED xvars
       BY <1>13, <1>b DEF xvars
<1>14. QED
       BY <1>1, <1>2, <1>3, <1>4, <1>5, <1>6, <1>7, <1>8, <1>9, <1>10, <1>11, <1>12, <1>13
       DEF PlexNext

\* However late the answers of plex.tv come, the stored server is one that was found
\* with the stored account.
THEOREM ServerIsOfAccount == PlexSpec => []ServerBelongsToAccount
<1>1. PlexInv => ServerBelongsToAccount
      BY DEF PlexInv
<1>2. QED BY PlexInitOK, PlexStep, <1>1, PTL DEF PlexSpec

Stores == [machine : Machines \cup {None}, of : Accounts \cup {None}, jwt : BOOLEAN]

LEMMA UpgradedIsStore ==
    ASSUME NEW m \in Machines \cup {None}, NEW o \in Accounts \cup {None}
    PROVE  [machine |-> m, of |-> o, jwt |-> FALSE] \in Stores
  BY DEF Stores

LEMMA NoServerIsStore == NoServer \in Stores
  BY UpgradedIsStore DEF NoServer

\* Selections and plays exclude each other by the lifecycle lock.
TitleInv ==
    /\ title # None => lifecycle = "play"
    /\ selecting # NoAsk => lifecycle = "select" /\ playing = None
    /\ server \in Stores
    /\ TitleKeepsServer

LEMMA TitleStep == PlexInv /\ TitleInv /\ [PlexNext]_xvars => TitleInv'
<1> SUFFICES ASSUME PlexInv, TitleInv, [PlexNext]_xvars PROVE TitleInv'
    OBVIOUS
<1> USE DEF TitleInv, TitleKeepsServer
<1>1. ASSUME NEW f \in Flows, StartLink(f) \/ RegisterFlow(f) \/ CancelLink(f) PROVE TitleInv'
      BY <1>1 DEF StartLink, RegisterFlow, CancelLink
<1>2. ASSUME NEW f \in Flows, NEW a \in Accounts, Approved(f, a) PROVE TitleInv'
      BY <1>2 DEF Approved
<1>3. ASSUME NEW f \in Flows, PollLink(f) PROVE TitleInv'
  <2>1. CASE f \in flows /\ link[f].gen = gen
    <3>1. server' = NoServer /\ relinked' /\ UNCHANGED <<title, playing, lifecycle, selecting>>
          BY <1>3, <2>1 DEF PollLink
    <3>2. QED BY <3>1, NoServerIsStore
  <2>2. CASE ~(f \in flows /\ link[f].gen = gen)
        BY <1>3, <2>2 DEF PollLink
  <2>3. QED BY <2>1, <2>2
<1>4. CASE Disconnect
  <2>1. title = None /\ playing = None
        BY <1>4 DEF Disconnect, None
  <2>2. QED BY <1>4, <2>1, NoServerIsStore DEF Disconnect
<1>5. CASE RefreshBegin \/ RefreshEnd \/ SessionBegin \/ SessionEnd
      BY <1>5 DEF RefreshBegin, RefreshEnd, SessionBegin, SessionEnd
<1>6. ASSUME NEW m \in Machines, SelectBegin(m) PROVE TitleInv'
      BY <1>6 DEF SelectBegin, None
<1>7. CASE SelectEnd
  <2>1. title = None /\ playing = None
        BY <1>7 DEF SelectEnd, None
  <2>2. server' \in Stores
        BY <1>7 DEF SelectEnd, PlexInv, SeenOK, Stores
  <2>3. QED BY <1>7, <2>1, <2>2 DEF SelectEnd
<1>8. CASE Upgrade
  <2>1. UNCHANGED <<title, playing, lifecycle, selecting, relinked>>
        BY <1>8 DEF Upgrade
  <2>2. server' = server
        \/ server' = [machine |-> server.machine, of |-> server.of, jwt |-> FALSE]
        BY <1>8 DEF Upgrade
  <2>3. server.machine \in Machines \cup {None} /\ server.of \in Accounts \cup {None}
        BY DEF Stores
  <2>4. server' \in Stores
        BY <2>2, <2>3, UpgradedIsStore
  <2>5. server'.machine = server.machine
        BY <2>2
  <2>6. QED BY <2>1, <2>4, <2>5
<1>9. CASE PlayBegin
      BY <1>9 DEF PlayBegin, None
<1>10. CASE Resolve
       BY <1>10 DEF Resolve, Current
<1>11. CASE PlayEnd
  <2>1. selecting = NoAsk
        BY <1>11 DEF PlayEnd
  <2>2. QED BY <1>11, <2>1 DEF PlayEnd
<1>12. CASE StopTitle
       BY <1>12 DEF StopTitle
<1>13. CASE UNCHANGED xvars
       BY <1>13 DEF xvars
<1>14. QED
       BY <1>1, <1>2, <1>3, <1>4, <1>5, <1>6, <1>7, <1>8, <1>9, <1>10, <1>11, <1>12, <1>13
       DEF PlexNext

\* Unless a link is completed meanwhile, the server of a title that plays, or is about
\* to, stays selected, whatever selections and unlinkings are asked for.
THEOREM TitleStays == PlexSpec => []TitleKeepsServer
<1>1. PlexInit => TitleInv
      BY DEF PlexInit, TitleInv, TitleKeepsServer, NoServer, Stores
<1>2. TitleInv => TitleKeepsServer
      BY DEF TitleInv
<1>3. QED BY PlexInitOK, PlexStep, TitleStep, <1>1, <1>2, PTL DEF PlexSpec

-----------------------------------------------------------------------------
(* Caller sessions of Seerr *)

FlowSteps == {"new", "asked", "open", "shut"}
Claimed(p) == poll[p].step = "claimed"

SeerrTypes ==
    /\ flow \in [SeerrFlows -> FlowSteps]
    /\ made \in [SeerrFlows -> Nat]
    /\ DOMAIN home = SeerrFlows /\ DOMAIN poll = Polls
    /\ \A p \in Polls : poll[p].step \in {"checking", "claimed"} =>
         /\ poll[p].flow \in SeerrFlows
         /\ flow[poll[p].flow] # "new" /\ poll[p].server = home[poll[p].flow]
    /\ \A s \in sessions :
         s.flow \in SeerrFlows /\ flow[s.flow] # "new" /\ s.server = home[s.flow]

\* A request that no change has crossed is resolved for the server that it has read.
UseInv ==
    /\ DOMAIN poll = Polls
    /\ \A p \in Polls : p \in crossed \/
         /\ poll[p].step = "configured" => poll[p].server = serverUrl
         /\ poll[p].step = "resolving" => poll[p].server = poll[p].seen
    /\ lastUse.session = lastUse.server \/ lastUse.crossed

\* A flow is claimed by one poll at most, of those that look at it, and only claimed
\* ones have made sessions.
ClaimInv ==
    /\ \A f \in SeerrFlows : made[f] <= 1
    /\ \A f \in SeerrFlows : flow[f] # "shut" => made[f] = 0
    /\ \A p \in Polls : Claimed(p) => flow[poll[p].flow] = "shut" /\ made[poll[p].flow] = 0
    /\ \A p, q \in Polls : Claimed(p) /\ Claimed(q) /\ poll[p].flow = poll[q].flow => p = q

RoomInv ==
    /\ IsFiniteSet(sessions) /\ Cardinality(sessions) <= Capacity
    /\ Cardinality(OpenFlows) <= Capacity

SeerrInv == SeerrTypes /\ UseInv /\ ClaimInv /\ RoomInv

LEMMA SeerrInitOK == SeerrInit => SeerrInv
<1> SUFFICES ASSUME SeerrInit PROVE SeerrInv
    OBVIOUS
<1>1. SeerrTypes /\ UseInv /\ ClaimInv
      BY DEF SeerrInit, SeerrTypes, UseInv, ClaimInv, Claimed, IdlePoll, NoUse, FlowSteps
<1>2. OpenFlows = {}
      BY DEF SeerrInit, OpenFlows
<1>3. RoomInv
      BY <1>2, FS_EmptySet, SeerrBounds DEF SeerrInit, RoomInv
<1>4. QED BY <1>1, <1>3 DEF SeerrInv

LEMMA TypesAndClaims == SeerrTypes /\ ClaimInv /\ [SeerrNext]_svars => SeerrTypes' /\ ClaimInv'
<1> SUFFICES ASSUME SeerrTypes, ClaimInv, [SeerrNext]_svars PROVE SeerrTypes' /\ ClaimInv'
    OBVIOUS
<1> USE DEF SeerrTypes, ClaimInv, Claimed, FlowSteps, IdlePoll
<1>1. ASSUME NEW f \in SeerrFlows, Initiate(f) \/ Keep(f) \/ Expire(f)
      PROVE SeerrTypes' /\ ClaimInv'
  <2>1. CASE Initiate(f)
        BY <2>1 DEF Initiate
  <2>2. CASE Keep(f)
        BY <2>2 DEF Keep
  <2>3. CASE Expire(f)
        BY <2>3 DEF Expire
  <2>4. QED BY <1>1, <2>1, <2>2, <2>3
<1>2. ASSUME NEW p \in Polls, NEW f \in SeerrFlows, PollBegin(p, f)
      PROVE SeerrTypes' /\ ClaimInv'
      BY <1>2 DEF PollBegin
<1>3. ASSUME NEW p \in Polls, Pending(p) \/ InsertFails(p) PROVE SeerrTypes' /\ ClaimInv'
      BY <1>3 DEF Pending, InsertFails
<1>4. ASSUME NEW p \in Polls, Claim(p) PROVE SeerrTypes' /\ ClaimInv'
  <2>1. CASE flow[poll[p].flow] = "open"
    <3>1. /\ flow' = [flow EXCEPT ![poll[p].flow] = "shut"]
          /\ poll' = [poll EXCEPT ![p] = [poll[p] EXCEPT !.step = "claimed"]]
          /\ poll[p].step = "checking" /\ UNCHANGED <<home, sessions, made>>
          BY <1>4, <2>1 DEF Claim
    <3>2. /\ poll'[p].step = "claimed" /\ poll'[p].flow = poll[p].flow
          /\ poll'[p].server = poll[p].server
          /\ \A q \in Polls : q # p => poll'[q] = poll[q]
          /\ DOMAIN poll' = Polls
          BY <3>1
    <3>3. SeerrTypes'
          BY <3>1, <3>2
    <3>4. ClaimInv'
          BY <2>1, <3>1, <3>2
    <3>5. QED BY <3>3, <3>4
  <2>2. CASE flow[poll[p].flow] # "open"
        BY <1>4, <2>2 DEF Claim
  <2>3. QED BY <2>1, <2>2
<1>5. ASSUME NEW p \in Polls, Insert(p) PROVE SeerrTypes' /\ ClaimInv'
  <2>1. /\ made' = [made EXCEPT ![poll[p].flow] = @ + 1]
        /\ poll' = [poll EXCEPT ![p] = IdlePoll]
        /\ sessions' = sessions \cup {[flow |-> poll[p].flow, server |-> poll[p].server]}
        /\ Claimed(p) /\ UNCHANGED <<flow, home>>
        BY <1>5 DEF Insert
  <2>2. SeerrTypes'
        BY <2>1
  <2>3. ClaimInv'
        BY <2>1
  <2>4. QED BY <2>2, <2>3
<1>6. ASSUME NEW s \in sessions, Retire(s) PROVE SeerrTypes' /\ ClaimInv'
      BY <1>6 DEF Retire
<1>u. ASSUME NEW p \in Polls, NEW f \in SeerrFlows, UseBegin(p, f)
      PROVE SeerrTypes' /\ ClaimInv'
      BY <1>u DEF UseBegin
<1>v. ASSUME NEW p \in Polls, UseResolve(p) PROVE SeerrTypes' /\ ClaimInv'
      BY <1>v DEF UseResolve
<1>w. ASSUME NEW p \in Polls, UseLookUp(p) PROVE SeerrTypes' /\ ClaimInv'
  <2>1. /\ poll' = [poll EXCEPT ![p] = IdlePoll] /\ sessions' \subseteq sessions
        /\ UNCHANGED <<flow, home, made>>
        BY <1>w DEF UseLookUp
  <2>2. QED BY <2>1
<1>7. ASSUME NEW url \in SeerrServers, ChangeServer(url) PROVE SeerrTypes' /\ ClaimInv'
      BY <1>7 DEF ChangeServer
<1>8. CASE RetireAll
      BY <1>8 DEF RetireAll
<1>9. CASE UNCHANGED svars
      BY <1>9 DEF svars
<1>10. QED
       BY <1>1, <1>2, <1>3, <1>4, <1>5, <1>6, <1>u, <1>v, <1>w, <1>7, <1>8, <1>9
       DEF SeerrNext

LEMMA Uses == UseInv /\ [SeerrNext]_svars => UseInv'
<1> SUFFICES ASSUME UseInv, [SeerrNext]_svars PROVE UseInv'
    OBVIOUS
<1> USE DEF UseInv, IdlePoll
<1>1. ASSUME NEW p \in Polls, NEW f \in SeerrFlows, PollBegin(p, f) \/ UseBegin(p, f)
      PROVE UseInv'
  <2>1. CASE PollBegin(p, f)
        BY <2>1 DEF PollBegin
  <2>2. CASE UseBegin(p, f)
        BY <2>2 DEF UseBegin
  <2>3. QED BY <1>1, <2>1, <2>2
<1>2. ASSUME NEW p \in Polls, Pending(p) \/ Claim(p) \/ Insert(p) \/ InsertFails(p)
      PROVE UseInv'
  <2>1. UNCHANGED <<crossed, serverUrl, lastUse>> /\ poll[p].step \in {"checking", "claimed"}
        BY <1>2 DEF Pending, Claim, Insert, InsertFails
  <2>2. poll' = [poll EXCEPT ![p] = IdlePoll]
        \/ poll' = [poll EXCEPT ![p] = [poll[p] EXCEPT !.step = "claimed"]]
        BY <1>2 DEF Pending, Claim, Insert, InsertFails
  <2>3. poll'[p].step \notin {"configured", "resolving"} /\ DOMAIN poll' = Polls
        /\ \A q \in Polls : q # p => poll'[q] = poll[q]
    <3>1. CASE poll' = [poll EXCEPT ![p] = IdlePoll]
          BY <3>1
    <3>2. CASE poll' = [poll EXCEPT ![p] = [poll[p] EXCEPT !.step = "claimed"]]
          BY <3>2
    <3>3. QED BY <2>2, <3>1, <3>2
  <2>4. QED BY <2>1, <2>3
<1>3. ASSUME NEW p \in Polls, UseResolve(p) PROVE UseInv'
      BY <1>3 DEF UseResolve
<1>4. ASSUME NEW p \in Polls, UseLookUp(p) PROVE UseInv'
  <2>1. poll' = [poll EXCEPT ![p] = IdlePoll] /\ UNCHANGED <<serverUrl, crossed>>
        BY <1>4 DEF UseLookUp
  <2>2. lastUse'.session = lastUse'.server \/ lastUse'.crossed
    <3>1. CASE UNCHANGED lastUse
          BY <3>1
    <3>2. ASSUME NEW s \in Presented(p), s.server = poll[p].seen, lastUse' = Used(p, s)
          PROVE  lastUse'.session = lastUse'.server \/ lastUse'.crossed
          BY <1>4, <3>2 DEF UseLookUp, Used
    <3>3. QED BY <1>4, <3>1, <3>2 DEF UseLookUp
  <2>3. QED BY <2>1, <2>2
<1>5. ASSUME NEW url \in SeerrServers, ChangeServer(url) PROVE UseInv'
      BY <1>5 DEF ChangeServer
<1>6. CASE UNCHANGED <<poll, crossed, serverUrl, lastUse>>
      BY <1>6
<1>7. QED
      BY <1>1, <1>2, <1>3, <1>4, <1>5, <1>6
      DEF SeerrNext, svars, Initiate, Keep, Expire, Retire, RetireAll

\* Room is counted before anything is added.
LEMMA RoomForLess ==
    ASSUME NEW S, IsFiniteSet(S), Cardinality(S) <= Capacity, NEW T \in SUBSET S
    PROVE  IsFiniteSet(T) /\ Cardinality(T) <= Capacity
<1>1. IsFiniteSet(T) /\ Cardinality(T) <= Cardinality(S)
      BY FS_Subset
<1>2. Cardinality(T) \in Nat /\ Cardinality(S) \in Nat
      BY <1>1, FS_CardinalityType
<1>3. QED BY <1>1, <1>2, SeerrBounds

LEMMA RoomForOne ==
    ASSUME NEW S, IsFiniteSet(S), Cardinality(S) < Capacity, NEW x
    PROVE  IsFiniteSet(S \cup {x}) /\ Cardinality(S \cup {x}) <= Capacity
<1>1. IsFiniteSet(S \cup {x})
      /\ (Cardinality(S \cup {x}) = Cardinality(S)
            \/ Cardinality(S \cup {x}) = Cardinality(S) + 1)
      BY FS_AddElement
<1>2. Cardinality(S) \in Nat
      BY FS_CardinalityType
<1>3. QED BY <1>1, <1>2, SeerrBounds

LEMMA Room == SeerrTypes /\ RoomInv /\ [SeerrNext]_svars => RoomInv'
<1> SUFFICES ASSUME SeerrTypes, RoomInv, [SeerrNext]_svars PROVE RoomInv'
    OBVIOUS
<1>1. IsFiniteSet(OpenFlows)
      BY SeerrFinite, FS_Subset DEF OpenFlows
<1>2. IsFiniteSet(sessions') /\ Cardinality(sessions') <= Capacity
  <2>1. ASSUME NEW p \in Polls, Insert(p)
        PROVE  IsFiniteSet(sessions') /\ Cardinality(sessions') <= Capacity
        BY <2>1, RoomForOne DEF Insert, RoomInv
  <2>2. ASSUME sessions' \subseteq sessions
        PROVE  IsFiniteSet(sessions') /\ Cardinality(sessions') <= Capacity
        BY <2>2, RoomForLess DEF RoomInv
  <2>3. sessions' \subseteq sessions \/ \E p \in Polls : Insert(p)
        BY DEF SeerrNext, svars, Initiate, Keep, Expire, PollBegin, Pending, Claim, InsertFails,
               UseBegin, UseResolve, UseLookUp, Retire, ChangeServer, RetireAll
  <2>4. QED BY <2>1, <2>2, <2>3
<1>3. Cardinality(OpenFlows') <= Capacity
  <2>1. ASSUME NEW f \in SeerrFlows, Keep(f), Cardinality(OpenFlows) < Capacity
        PROVE  Cardinality(OpenFlows') <= Capacity
    <3>1. OpenFlows' = OpenFlows \cup {f}
          BY <2>1 DEF Keep, OpenFlows, SeerrTypes
    <3>2. QED BY <1>1, <2>1, <3>1, RoomForOne
  <2>2. ASSUME OpenFlows' \subseteq OpenFlows PROVE Cardinality(OpenFlows') <= Capacity
        BY <1>1, <2>2, RoomForLess DEF RoomInv
  <2>3. ASSUME NEW f \in SeerrFlows, Keep(f), ~(Cardinality(OpenFlows) < Capacity)
        PROVE  OpenFlows' \subseteq OpenFlows
        BY <2>3 DEF Keep, OpenFlows, SeerrTypes
  <2>4. OpenFlows' \subseteq OpenFlows \/ \E f \in SeerrFlows : Keep(f)
    <3>1. ASSUME NEW f \in SeerrFlows, Initiate(f) \/ Expire(f)
          PROVE  OpenFlows' \subseteq OpenFlows
          BY <3>1 DEF Initiate, Expire, OpenFlows, SeerrTypes
    <3>2. ASSUME NEW p \in Polls, Claim(p) PROVE OpenFlows' \subseteq OpenFlows
          BY <3>2 DEF Claim, OpenFlows, SeerrTypes
    <3>3. ASSUME RetireAll PROVE OpenFlows' \subseteq OpenFlows
          BY <3>3 DEF RetireAll, OpenFlows
    <3>4. ASSUME UNCHANGED flow PROVE OpenFlows' \subseteq OpenFlows
          BY <3>4 DEF OpenFlows
    <3>5. QED BY <3>1, <3>2, <3>3, <3>4
              DEF SeerrNext, svars, PollBegin, Pending, Insert, InsertFails, UseBegin,
                  UseResolve, UseLookUp, Retire, ChangeServer
  <2>5. QED BY <2>1, <2>2, <2>3, <2>4
<1>4. QED BY <1>2, <1>3 DEF RoomInv

\* However polls of a flow overlap and whatever happens to the server meanwhile, a flow
\* makes one session, a session is used with its own server unless a change was saved
\* between the two reads of the request that uses it, and there is room for all.
THEOREM SessionsAreSound == SeerrSpec => []OneSessionPerFlow
<1>1. SeerrInv /\ [SeerrNext]_svars => SeerrInv'
      BY TypesAndClaims, Uses, Room DEF SeerrInv
<1>2. SeerrInv => OneSessionPerFlow
      BY DEF SeerrInv, SeerrTypes, UseInv, ClaimInv, RoomInv, OneSessionPerFlow
<1>3. QED BY SeerrInitOK, <1>1, <1>2, PTL DEF SeerrSpec

-----------------------------------------------------------------------------
(* Discovery *)

StartSteps == {"new", "claimed", "registered", "retired", "done"}

\* The generations of two starts differ, and what is advertised has the newest one.
AdvertiseInv ==
    /\ generation \in Nat
    /\ starting \in [Starts -> [step : StartSteps, gen : Nat]]
    /\ registered \subseteq Starts
    /\ \A t \in Starts : starting[t].gen <= generation
    /\ \A t, u \in Starts :
         t # u /\ starting[t].step # "new" /\ starting[u].step # "new" =>
           starting[t].gen # starting[u].gen
    /\ \A t \in registered : starting[t].step \notin {"new", "claimed"}
    /\ advertised # Nobody =>
         /\ advertised \in Starts
         /\ starting[advertised].step = "done" /\ starting[advertised].gen = generation

ServiceInv == AdvertiseInv /\ NoOrphanedService

\* A step of the browser leaves the service alone, and the other way round.
LEMMA BrowseLeavesService == BrowseNext => UNCHANGED advertising
  BY DEF BrowseNext, StartBrowse, StopBrowse, Appear, Disappear, Forget, Added, Removed,
         ResolveBegin, RecordAnswer

LEMMA AdvertiseLeavesBrowser == AdvertiseNext => UNCHANGED browser
  BY DEF AdvertiseNext, ClaimSlot, Register, PublishService, Teardown, StopAdvertising,
         TeardownTaken

LEMMA ServiceInit == DiscoveryInit => ServiceInv
  BY NobodyStarts DEF DiscoveryInit, ServiceInv, AdvertiseInv, NoOrphanedService, StartSteps

LEMMA ServiceStep == ServiceInv /\ [DiscoveryNext]_dvars => ServiceInv'
<1> SUFFICES ASSUME ServiceInv, [DiscoveryNext]_dvars PROVE ServiceInv'
    OBVIOUS
<1> USE NobodyStarts DEF ServiceInv, AdvertiseInv, NoOrphanedService, StartSteps
<1>1. ASSUME NEW t \in Starts, ClaimSlot(t) PROVE ServiceInv'
      BY <1>1 DEF ClaimSlot
<1>2. ASSUME NEW t \in Starts, Register(t) PROVE ServiceInv'
      BY <1>2 DEF Register
<1>3. ASSUME NEW t \in Starts, PublishService(t) PROVE ServiceInv'
  <2>1. CASE starting[t].gen = generation
    <3>1. advertised = Nobody
          BY <1>3, <2>1 DEF PublishService
    <3>2. QED BY <1>3, <2>1, <3>1 DEF PublishService
  <2>2. CASE starting[t].gen # generation
        BY <1>3, <2>2 DEF PublishService
  <2>3. QED BY <2>1, <2>2
<1>4. ASSUME NEW t \in Starts, Teardown(t) PROVE ServiceInv'
      BY <1>4 DEF Teardown
<1>5. CASE StopAdvertising
      BY <1>5 DEF StopAdvertising
<1>6. CASE TeardownTaken
      BY <1>6 DEF TeardownTaken
<1>7. CASE UNCHANGED advertising
      BY <1>7 DEF advertising
<1>8. QED
      BY <1>1, <1>2, <1>3, <1>4, <1>5, <1>6, <1>7, BrowseLeavesService
      DEF DiscoveryNext, AdvertiseNext, dvars, advertising

\* No service stays on the network that no stop will take down: discovery_mdns.py's
\* generations do for any number of starts and stops what their comment promises.
THEOREM NothingOrphaned == DiscoverySpec => []NoOrphanedService
<1>1. ServiceInv => NoOrphanedService
      BY DEF ServiceInv
<1>2. QED BY ServiceInit, ServiceStep, <1>1, PTL DEF DiscoverySpec

BrowserInv ==
    /\ found \in [Peers -> Nat] /\ browsing \in Nat /\ opened \in Nat
    /\ FoundByTheLiveSession

LEMMA BrowserStep == BrowserInv /\ [DiscoveryNext]_dvars => BrowserInv'
<1> SUFFICES ASSUME BrowserInv, [DiscoveryNext]_dvars PROVE BrowserInv'
    OBVIOUS
<1> USE DEF BrowserInv, FoundByTheLiveSession
<1>1. CASE StartBrowse
      BY <1>1 DEF StartBrowse
<1>2. CASE StopBrowse
      BY <1>2 DEF StopBrowse
<1>3. ASSUME NEW p \in Peers, Appear(p) \/ Disappear(p) \/ Forget(p) PROVE BrowserInv'
      BY <1>3 DEF Appear, Disappear, Forget
<1>4. ASSUME NEW s \in Sessions, NEW p \in Peers,
             Added(s, p) \/ Removed(s, p) \/ ResolveBegin(s, p)
      PROVE BrowserInv'
      BY <1>4 DEF Added, Removed, ResolveBegin
<1>5. ASSUME NEW s \in Sessions, RecordAnswer(s) PROVE BrowserInv'
      BY <1>5 DEF RecordAnswer, Learn, Sessions
<1>6. CASE UNCHANGED browser
      BY <1>6 DEF browser
<1>7. QED
      BY <1>1, <1>2, <1>3, <1>4, <1>5, <1>6, AdvertiseLeavesBrowser
      DEF DiscoveryNext, BrowseNext, dvars, browser

\* No retired browse session writes what its replacement shows, for any number of
\* sessions and however late its callbacks and answers come.
THEOREM FoundByLive == DiscoverySpec => []FoundByTheLiveSession
<1>1. DiscoveryInit => BrowserInv
      BY DEF DiscoveryInit, BrowserInv, FoundByTheLiveSession
<1>2. BrowserInv => FoundByTheLiveSession
      BY DEF BrowserInv
<1>3. QED BY <1>1, <1>2, BrowserStep, PTL DEF DiscoverySpec

-----------------------------------------------------------------------------
(* The relay of post-live replays *)

Singular(S) == \A a, b \in S : a = b

LEMMA SingularIsSmall ==
    ASSUME NEW S, Singular(S) PROVE Cardinality(S) <= 1
<1>1. CASE S = {}
      BY <1>1, FS_EmptySet
<1>2. CASE S # {}
  <2>1. PICK a \in S : TRUE
        BY <1>2
  <2>2. S = {a}
        BY <2>1 DEF Singular
  <2>3. Cardinality(S) = 1
        BY <2>2, FS_Singleton
  <2>4. QED BY <2>3
<1>3. QED BY <1>1, <1>2

Creations == {"new", "spawned", "superseding", "published", "failed"}
Pipelines == {"none", "running", "done", "dead"}

\* Who creates holds the lock, and from the moment it supersedes nothing is published
\* until it publishes its own session.
RelayInv ==
    /\ creation \in [Tokens -> Creations] /\ pipeline \in [Tokens -> Pipelines]
    /\ live \subseteq Tokens /\ closing \subseteq Tokens
    /\ \A t \in UnderCreation : creating = t
    /\ \A t \in Tokens : creation[t] = "superseding" => live = {}
    /\ creating = Shutdown => live = {}
    /\ Singular(live) /\ Singular(completed)
    /\ \A t \in Tokens : pipeline[t] = "running" => t \in live \cup closing \cup UnderCreation
    /\ spools \subseteq live \cup closing \cup UnderCreation \cup completed

LEMMA RelayInitOK == RelayInit => RelayInv
  BY DEF RelayInit, RelayInv, UnderCreation, Singular, Creations, Pipelines, Free, Shutdown

LEMMA RelayStep == RelayInv /\ [RelayNext]_rvars => RelayInv'
<1> SUFFICES ASSUME RelayInv, [RelayNext]_rvars PROVE RelayInv'
    OBVIOUS
<1> USE NamesOfNobody DEF RelayInv, UnderCreation, Singular, Creations, Pipelines
<1>1. ASSUME NEW t \in Tokens, Spawn(t) PROVE RelayInv'
      BY <1>1 DEF Spawn
<1>2. ASSUME NEW t \in Tokens, SpawnFails(t) PROVE RelayInv'
      BY <1>2 DEF SpawnFails
<1>3. ASSUME NEW t \in Tokens, Supersede(t) PROVE RelayInv'
      BY <1>3 DEF Supersede
<1>4. ASSUME NEW t \in Tokens, Publish(t) PROVE RelayInv'
  <2>1. /\ creation[t] = "superseding" /\ live = {} /\ live' = {t}
        /\ creation' = [creation EXCEPT ![t] = "published"]
        /\ completed' = {} /\ spools' = spools \ completed
        /\ UNCHANGED <<pipeline, closing>> /\ creating' = Free
        BY <1>4 DEF Publish, PruneAll
  <2>2. \A u \in Tokens : creation[u] \in {"spawned", "superseding"} => u = t
        BY <2>1
  <2>3. UnderCreation' = {} /\ UnderCreation = {t}
        BY <2>1, <2>2
  <2>4. QED BY <2>1, <2>3 DEF Free, Shutdown
<1>5. ASSUME NEW t \in Tokens, PipelineEnds(t) PROVE RelayInv'
      BY <1>5 DEF PipelineEnds
<1>6. ASSUME NEW t \in Tokens, Attach(t) PROVE RelayInv'
      BY <1>6 DEF Attach
<1>7. ASSUME NEW t \in Tokens, Detach(t) PROVE RelayInv'
      BY <1>7 DEF Detach, Pop
<1>8. ASSUME NEW t \in Tokens, Abandon(t) PROVE RelayInv'
      BY <1>8 DEF Abandon, Pop
<1>9. ASSUME NEW t \in Tokens, Terminate(t) PROVE RelayInv'
      BY <1>9 DEF Terminate
<1>10. ASSUME NEW t \in Tokens, Finalize(t) PROVE RelayInv'
       BY <1>10 DEF Finalize
<1>11. CASE ExpireSpool
       BY <1>11 DEF ExpireSpool, PruneAll
<1>12. CASE CloseAll
       BY <1>12 DEF CloseAll
<1>13. CASE CloseAllEnds
       BY <1>13 DEF CloseAllEnds, PruneAll
<1>14. CASE UNCHANGED rvars
       BY <1>14 DEF rvars
<1>15. QED
       BY <1>1, <1>2, <1>3, <1>4, <1>5, <1>6, <1>7, <1>8, <1>9, <1>10, <1>11, <1>12, <1>13,
          <1>14
       DEF RelayNext

\* One pipeline at most is published, and nothing that runs or lies on disk is forgotten,
\* for any number of plays, readers and shutdowns that close each other's sessions.
THEOREM RelayKeepsOne == RelaySpec => []OnePipeline
<1>1. ASSUME RelayInv PROVE OnePipeline
  <2>1. Singular(UnderCreation)
        BY <1>1 DEF RelayInv, Singular
  <2>2. /\ Cardinality(live) <= 1 /\ Cardinality(completed) <= 1
        /\ Cardinality(UnderCreation) <= 1
        BY <1>1, <2>1, SingularIsSmall DEF RelayInv
  <2>3. QED BY <1>1, <2>2 DEF RelayInv, OnePipeline
<1>2. QED BY RelayInitOK, RelayStep, <1>1, PTL DEF RelaySpec
=============================================================================
