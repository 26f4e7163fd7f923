---------------------------- MODULE PlexPlayback ----------------------------
(***************************************************************************)
(* What a Plex title that plays leaves to be told to the media server      *)
(* (integrations/plex_service.py): the end of its transcode session, by    *)
(* whichever of the relay's readers, the player, a superseded play and     *)
(* shutdown comes first; and its timeline, by a thread per report.         *)
(***************************************************************************)
EXTENDS Integers, FiniteSets

CONSTANTS Streams,   \* minted transcode references, each with a PMS session
          Readers,   \* requests for /plex/stream, each for one reference
          MaxReports \* bound on timeline reports

ASSUME PlexPlayBounds == MaxReports \in Nat

NoStream == "none"
ASSUME NoStreamIsNone == NoStream \notin Streams

VARIABLES
    minted,     \* references that were handed out
    entries,    \* _TRANSCODE_SESSIONS
    begun,      \* those of them whose stream was asked for
    aged,       \* references minted more than five minutes ago
    reading,    \* each reader's step and reference
    ending,     \* stop requests on their way to the media server, or lost
    running,    \* sessions the media server runs (external)
    late,       \* history: sessions that started after their stop had arrived
    newest,     \* _TIMELINE_LAST of the item: sequence and state, 0 at first
    pending,    \* report threads that have not begun: their sequences
    sending,    \* those in the network
    received,   \* the report the media server holds (external)
    missed      \* history: reports that the media server did not take

pvars == <<minted, entries, begun, aged, reading, ending, running, late, newest, pending,
           sending, received, missed>>
transcodes == <<minted, entries, begun, aged, reading, ending, running, late>>
timeline == <<newest, pending, sending, received, missed>>

States == {"playing", "paused", "stopped"}

PlexPlayInit ==
    /\ minted = {} /\ entries = {} /\ begun = {} /\ aged = {} /\ ending = {}
    /\ running = {} /\ late = {} /\ reading = [r \in Readers |-> [step |-> "new", of |-> NoStream]]
    /\ newest = [seq |-> 0, state |-> "stopped"]
    /\ pending = {} /\ sending = {} /\ received = 0 /\ missed = {}

-----------------------------------------------------------------------------
(* Transcode sessions *)

\* A bug: the sweep looks at the age only.
SweptByAge(r) == r \in aged

\* What is minted and never opened is dropped after a while; nothing is asked
\* of the media server, which has not heard of it.
Swept(r) == r \in aged /\ r \notin begun

\* resolve_playback_item registers a new reference, and sweeps.
Mint(s) ==
    /\ s \notin minted /\ minted' = minted \cup {s}
    /\ entries' = {r \in entries : ~Swept(r)} \cup {s}
    /\ UNCHANGED <<begun, aged, reading, ending, running, late, timeline>>

Age(s) ==
    /\ s \in minted \ aged /\ aged' = aged \cup {s}
    /\ UNCHANGED <<minted, entries, begun, reading, ending, running, late, timeline>>

\* media_stream marks the reference before its request goes out; a reference
\* that is no longer registered has expired.
Open(r, s) ==
    /\ reading[r].step = "new" /\ s \in entries
    /\ reading' = [reading EXCEPT ![r] = [step |-> "opening", of |-> s]]
    /\ begun' = begun \cup {s}
    /\ UNCHANGED <<minted, entries, aged, ending, running, late, timeline>>

\* stop_transcode_stream: who removes the entry asks the media server to stop.
StopStream(s) ==
    /\ entries' = entries \ {s}
    /\ ending' = IF s \in entries THEN ending \cup {s} ELSE ending

Reads(r, step) == reading' = [reading EXCEPT ![r].step = step]

\* The media server starts, also when its answer is lost or comes too late.
Started(r) ==
    /\ reading[r].step = "opening" /\ Reads(r, "open")
    /\ running' = running \cup {reading[r].of}
    /\ late' = IF reading[r].of \in entries \cup ending THEN late ELSE late \cup {reading[r].of}
    /\ UNCHANGED <<minted, entries, begun, aged, ending, timeline>>

\* The stream ends, its reader leaves, or its request failed, or the Plex session
\* has been replaced meanwhile: on_close, or the error path.
Close(r) ==
    /\ reading[r].step \in {"opening", "open"} /\ Reads(r, "closed")
    /\ StopStream(reading[r].of)
    /\ UNCHANGED <<minted, begun, aged, running, late, timeline>>

\* The player has stopped, or the play was superseded before it could load.
PlayEnds(s) ==
    /\ s \in entries /\ StopStream(s)
    /\ UNCHANGED <<minted, begun, aged, reading, running, late, timeline>>

\* stop_all_transcodes at shutdown.
StopAll ==
    /\ entries # {} /\ entries' = {} /\ ending' = ending \cup entries
    /\ UNCHANGED <<minted, begun, aged, reading, running, late, timeline>>

StopArrives(s) ==
    /\ s \in ending /\ ending' = ending \ {s} /\ running' = running \ {s}
    /\ UNCHANGED <<minted, entries, begun, aged, reading, late, timeline>>

-----------------------------------------------------------------------------
(* The timeline of an item *)

\* emit_timeline_hint: a change of state is reported, a repeated stop is not; a
\* repeated state is when ten seconds, or a jump, have passed since.
Report(state) ==
    /\ newest.seq < MaxReports
    /\ state = "stopped" /\ newest.seq > 0 => newest.state # "stopped"
    /\ newest' = [seq |-> newest.seq + 1, state |-> state]
    /\ pending' = pending \cup {newest.seq + 1}
    /\ UNCHANGED <<transcodes, sending, received, missed>>

\* A bug: report threads do not wait for each other.
SendTogether(n) ==
    /\ n \in pending /\ pending' = pending \ {n}
    /\ sending' = IF n = newest.seq THEN sending \cup {n} ELSE sending
    /\ UNCHANGED <<transcodes, newest, received, missed>>

\* A thread has _TIMELINE_SEND_LOCK: what is not the newest any more is not sent.
Send(n) ==
    /\ n \in pending /\ pending' = pending \ {n}
    /\ sending = {}
    /\ sending' = IF n = newest.seq THEN {n} ELSE {}
    /\ UNCHANGED <<transcodes, newest, received, missed>>

Sent(n) ==
    /\ n \in sending /\ sending' = sending \ {n}
    /\ \/ received' = n /\ UNCHANGED missed
       \/ missed' = missed \cup {n} /\ UNCHANGED received
    /\ UNCHANGED <<transcodes, newest, pending>>

TranscodeNext ==
    \/ \E s \in Streams : Mint(s) \/ Age(s) \/ PlayEnds(s) \/ StopArrives(s)
    \/ \E r \in Readers : (\E s \in Streams : Open(r, s)) \/ Started(r) \/ Close(r)
    \/ StopAll

TimelineNext ==
    \/ \E state \in States : Report(state)
    \/ \E n \in 1..MaxReports : Send(n) \/ Sent(n)

PlexPlayNext == TranscodeNext \/ TimelineNext

PlexPlaySpec == PlexPlayInit /\ [][PlexPlayNext]_pvars

-----------------------------------------------------------------------------
(***************************************************************************)
(* The media server is told.  A session it runs is registered as opened,   *)
(* so that closing the stream, stopping or shutdown will end it, or its    *)
(* stop is under way, whoever ends, sweeps and opens in between; except a  *)
(* session that began after its stop had arrived.  And reports reach it in *)
(* order, the newest last: "ordered, throttled".                           *)
(***************************************************************************)
PlexIsTold ==
    /\ running \subseteq (entries \cap begun) \cup ending \cup late
    /\ \A n \in sending : received < n
    /\ (pending = {} /\ sending = {}) => received = newest.seq \/ newest.seq \in missed
=============================================================================
