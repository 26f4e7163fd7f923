---------------------------- MODULE RealtimeHub ----------------------------
(***************************************************************************)
(* How browser state is pushed: realtime.RealtimeHub numbers the events of *)
(* one channel and hands them to the event loop, each subscription keeps a *)
(* bounded inbox, the WebSocket adapter (routes._ui_websocket_session)     *)
(* drains it, and the browser follows the numbers (realtime_transport.js)  *)
(* so that it can ask for /status when it notices a gap.                   *)
(*                                                                         *)
(* An event is its kind and its sequence number; its payload is not read.  *)
(***************************************************************************)
EXTENDS Naturals, Sequences, FiniteSets, SequencesExt

CONSTANTS Clients,    \* the browsers on the channel that are followed
          Snapshots,  \* kinds of which only the newest matters (_COALESCED_EVENTS)
          Hints,      \* every other kind
          MaxSize,    \* capacity of an inbox
          MaxEvents   \* bound on the number of events published

ASSUME KindAssumption == Snapshots \cap Hints = {} /\ IsFiniteSet(Snapshots)
ASSUME SizeAssumption == MaxSize \in Nat \ {0} /\ MaxEvents \in Nat

VARIABLES
    sequence,   \* _sequences of the channel
    latest,     \* _latest_snapshots of the channel: per kind a number, or 0
    others,     \* somebody outside Clients is subscribed to the channel
    conn,       \* per client: "off", "hello" (subscribed, not greeted) or "on"
    scheduled,  \* per client: deliveries handed to the event loop
    inbox,      \* per client: the subscription's _items
    available,  \* per client: the subscription's _available event
    blocked,    \* per client: the adapter waits in get()
    tracked,    \* per client: the browser's lastSequence
    known,      \* per client: the browser's __lastStatus is set
    asked,      \* history: the newest event a /status request of the browser covers
    shown,      \* history: per kind, the newest snapshot applied in this connection
    joined,     \* history: the newest event when the client subscribed
    alone,      \* history: nobody else was subscribed then
    first,      \* history: the first event applied in this connection, or 0
    dropped     \* history: the newest event lost to a full inbox in this connection

subscription == <<conn, scheduled, inbox, available, blocked>>
browser == <<tracked, known, asked>>
history == <<shown, joined, alone, first, dropped>>
hubvars == <<sequence, latest, others, subscription, browser, history>>

Kinds == Snapshots \cup Hints
Events == [kind : Kinds, seq : 1..MaxEvents]
Subscribed(c) == conn[c] # "off"
InUse == others \/ \E d \in Clients : Subscribed(d)
NoneShown == [k \in Snapshots |-> 0]
Newer(a, b) == IF a > b THEN a ELSE b

HubInit ==
    /\ sequence = 0 /\ latest = NoneShown /\ others = FALSE
    /\ conn = [c \in Clients |-> "off"]
    /\ scheduled = [c \in Clients |-> <<>>]
    /\ inbox = [c \in Clients |-> <<>>]
    /\ available = [c \in Clients |-> FALSE]
    /\ blocked = [c \in Clients |-> FALSE]
    /\ tracked = [c \in Clients |-> 0]
    /\ known = [c \in Clients |-> FALSE]
    /\ asked = [c \in Clients |-> 0]
    /\ shown = [c \in Clients |-> NoneShown]
    /\ joined = [c \in Clients |-> 0]
    /\ alone = [c \in Clients |-> FALSE]
    /\ first = [c \in Clients |-> 0]
    /\ dropped = [c \in Clients |-> 0]

-----------------------------------------------------------------------------
(* RealtimeHub: each operation is one critical section of the hub lock. *)

\* A bug: the number is taken, and the event handed over after the lock is
\* released, so that another publisher's event overtakes it.
PublishOvertaken(k) ==
    /\ sequence < MaxEvents
    /\ sequence' = sequence + 1
    /\ latest' = IF k \in Snapshots THEN [latest EXCEPT ![k] = sequence + 1] ELSE latest
    /\ scheduled' = [c \in Clients |->
         IF ~Subscribed(c) THEN scheduled[c]
         ELSE IF scheduled[c] = <<>> THEN <<[kind |-> k, seq |-> sequence + 1]>>
         ELSE InsertAt(scheduled[c], Len(scheduled[c]), [kind |-> k, seq |-> sequence + 1])]
    /\ UNCHANGED <<others, conn, inbox, available, blocked, browser, history>>

Publish(k) ==
    /\ sequence < MaxEvents
    /\ sequence' = sequence + 1
    /\ latest' = IF k \in Snapshots THEN [latest EXCEPT ![k] = sequence + 1] ELSE latest
    /\ scheduled' = [c \in Clients |->
         IF Subscribed(c) THEN Append(scheduled[c], [kind |-> k, seq |-> sequence + 1])
                          ELSE scheduled[c]]
    /\ UNCHANGED <<others, conn, inbox, available, blocked, browser, history>>

\* The retained snapshots are replayed in the order of their numbers.
Retained == {[kind |-> k, seq |-> latest[k]] : k \in {j \in Snapshots : latest[j] # 0}}
Replay == {r \in BoundedSeq(Retained, Cardinality(Snapshots)) :
             /\ ToSet(r) = Retained
             /\ \A i, j \in DOMAIN r : i < j => r[i].seq < r[j].seq}

\* subscribe(replay_latest=True): only an active channel retains snapshots.
Subscribe(c) ==
    /\ conn[c] = "off"
    /\ conn' = [conn EXCEPT ![c] = "hello"]
    /\ \E events \in IF InUse THEN Replay ELSE {<<>>} :
         scheduled' = [scheduled EXCEPT ![c] = events]
    /\ joined' = [joined EXCEPT ![c] = sequence]
    /\ alone' = [alone EXCEPT ![c] = ~InUse]
    /\ UNCHANGED <<sequence, latest, others, inbox, available, blocked, browser, shown, first,
                   dropped>>

\* The socket closes: unsubscribe, and _close_on_loop on the same loop.
Unsubscribe(c) ==
    /\ Subscribed(c)
    /\ conn' = [conn EXCEPT ![c] = "off"]
    /\ latest' = IF ~others /\ \A d \in Clients \ {c} : ~Subscribed(d) THEN NoneShown ELSE latest
    /\ scheduled' = [scheduled EXCEPT ![c] = <<>>]
    /\ inbox' = [inbox EXCEPT ![c] = <<>>]
    /\ available' = [available EXCEPT ![c] = FALSE]
    /\ blocked' = [blocked EXCEPT ![c] = FALSE]
    /\ shown' = [shown EXCEPT ![c] = NoneShown]
    /\ first' = [first EXCEPT ![c] = 0]
    /\ dropped' = [dropped EXCEPT ![c] = 0]
    /\ joined' = [joined EXCEPT ![c] = 0]
    /\ alone' = [alone EXCEPT ![c] = FALSE]
    /\ UNCHANGED <<sequence, others, browser>>

\* Somebody else's page opens; the last one of them closes.
OthersJoin ==
    /\ ~others /\ others' = TRUE
    /\ UNCHANGED <<sequence, latest, subscription, browser, history>>

OthersLeave ==
    /\ others /\ others' = FALSE
    /\ latest' = IF \A d \in Clients : ~Subscribed(d) THEN NoneShown ELSE latest
    /\ UNCHANGED <<sequence, subscription, browser, history>>

-----------------------------------------------------------------------------
(* RealtimeSubscription, on the event loop *)

\* An older snapshot of the same kind makes room for the new one.
Coalesced(items, e) ==
    LET i == SelectLastInSeq(items, LAMBDA x : x.kind = e.kind)
    IN  IF e.kind \in Snapshots /\ i > 0 THEN RemoveAt(items, i) ELSE items

Full(items) == Len(items) >= MaxSize

\* A bug: a full inbox refuses the new event instead.
AdmittedIfRoom(items, e) == IF Full(items) THEN items ELSE Append(items, e)

\* A full inbox loses its oldest item.
Admitted(items, e) == Append(IF Full(items) THEN Tail(items) ELSE items, e)

\* _offer_on_loop: coalesce, make room, append, wake the reader.
Offer(c) ==
    /\ scheduled[c] # <<>>
    /\ LET e == Head(scheduled[c])
           kept == Coalesced(inbox[c], e)
       IN  /\ inbox' = [inbox EXCEPT ![c] = Admitted(kept, e)]
           /\ dropped' = [dropped EXCEPT
                ![c] = IF Full(kept) THEN Newer(Head(kept).seq, @) ELSE @]
    /\ available' = [available EXCEPT ![c] = TRUE]
    /\ scheduled' = [scheduled EXCEPT ![c] = Tail(@)]
    /\ UNCHANGED <<sequence, latest, others, conn, blocked, browser, shown, joined, alone, first>>

\* A bug: the event is cleared after the inbox was looked at, not before.
BlockBlindly(c) ==
    /\ conn[c] = "on" /\ ~blocked[c]
    /\ available' = [available EXCEPT ![c] = FALSE]
    /\ blocked' = [blocked EXCEPT ![c] = TRUE]
    /\ UNCHANGED <<sequence, latest, others, conn, scheduled, inbox, browser, history>>

\* get() finds nothing and waits.
Block(c) ==
    /\ conn[c] = "on" /\ inbox[c] = <<>> /\ ~blocked[c]
    /\ available' = [available EXCEPT ![c] = FALSE]
    /\ blocked' = [blocked EXCEPT ![c] = TRUE]
    /\ UNCHANGED <<sequence, latest, others, conn, scheduled, inbox, browser, history>>

-----------------------------------------------------------------------------
(* The browser: createSequenceTracker and _dispatchUiRealtimeEvent *)

\* A bug: one missing event is not a gap.
GapOfTwo(c, n) == tracked[c] > 0 /\ n > tracked[c] + 2

Gap(c, n) == tracked[c] > 0 /\ n > tracked[c] + 1
Stale(c, n) == tracked[c] > 0 /\ n <= tracked[c]

\* The page's first refresh, or the fallback poll while the stream is not healthy.
Refresh(c) ==
    /\ ~known[c] \/ conn[c] # "on"
    /\ known' = [known EXCEPT ![c] = TRUE]
    /\ asked' = [asked EXCEPT ![c] = sequence]
    /\ UNCHANGED <<sequence, latest, others, subscription, tracked, history>>

\* "hello" resets the tracker; only a page without any status asks for one.
Hello(c) ==
    /\ conn[c] = "hello"
    /\ conn' = [conn EXCEPT ![c] = "on"]
    /\ tracked' = [tracked EXCEPT ![c] = 0]
    /\ asked' = [asked EXCEPT ![c] = IF known[c] THEN @ ELSE sequence]
    /\ UNCHANGED <<sequence, latest, others, scheduled, inbox, available, blocked, known, history>>

\* get() or get_nowait() returns the oldest item, and the browser accepts it.
Deliver(c) ==
    /\ conn[c] = "on" /\ inbox[c] # <<>> /\ (blocked[c] => available[c])
    /\ inbox' = [inbox EXCEPT ![c] = Tail(@)]
    /\ available' = [available EXCEPT ![c] = @ /\ Len(inbox[c]) > 1]
    /\ blocked' = [blocked EXCEPT ![c] = FALSE]
    /\ LET e == Head(inbox[c])
           applied == ~Stale(c, e.seq)
       IN  /\ tracked' = [tracked EXCEPT ![c] = IF applied THEN e.seq ELSE @]
           /\ asked' = [asked EXCEPT ![c] = IF Gap(c, e.seq) THEN sequence ELSE @]
           /\ known' = [known EXCEPT ![c] = @ \/ (applied /\ e.kind \in Snapshots)]
           /\ shown' = [shown EXCEPT ![c] =
                [k \in Snapshots |-> IF applied /\ k = e.kind THEN e.seq ELSE @[k]]]
           /\ first' = [first EXCEPT ![c] = IF @ = 0 THEN e.seq ELSE @]
    /\ UNCHANGED <<sequence, latest, others, conn, scheduled, joined, alone, dropped>>

\* Heartbeat: nothing arrived for HEARTBEAT_SEC, the newest number is repeated.
Ping(c) ==
    /\ conn[c] = "on" /\ blocked[c] /\ ~available[c]
    /\ asked' = [asked EXCEPT ![c] = IF Gap(c, sequence) THEN sequence ELSE @]
    /\ UNCHANGED <<sequence, latest, others, subscription, tracked, known, history>>

HubNext ==
    \/ \E k \in Kinds : Publish(k)
    \/ OthersJoin \/ OthersLeave
    \/ \E c \in Clients :
         \/ Subscribe(c) \/ Unsubscribe(c) \/ Offer(c) \/ Block(c)
         \/ Refresh(c) \/ Hello(c) \/ Deliver(c) \/ Ping(c)

\* The event loop runs its callbacks, and an adapter whose socket accepts data
\* keeps draining its inbox.
HubFairness ==
    \A c \in Clients : WF_hubvars(Offer(c)) /\ WF_hubvars(Hello(c)) /\ WF_hubvars(Deliver(c))

HubSpec == HubInit /\ [][HubNext]_hubvars
HubFairSpec == HubSpec /\ HubFairness

-----------------------------------------------------------------------------
(* Properties *)

\* Everything on its way to a browser, oldest first.
Pipe(c) == inbox[c] \o scheduled[c]
Drained(c) == conn[c] = "on" /\ Pipe(c) = <<>>

\* The shape of the state: an inbox keeps its capacity and one snapshot a kind.
HubTypeOK ==
    /\ sequence \in 0..MaxEvents
    /\ latest \in [Snapshots -> 0..sequence] /\ others \in BOOLEAN
    /\ conn \in [Clients -> {"off", "hello", "on"}]
    /\ available \in [Clients -> BOOLEAN] /\ blocked \in [Clients -> BOOLEAN]
    /\ known \in [Clients -> BOOLEAN] /\ alone \in [Clients -> BOOLEAN]
    /\ \A c \in Clients :
         /\ scheduled[c] \in Seq(Events) /\ inbox[c] \in Seq(Events)
         /\ Len(inbox[c]) <= MaxSize
         /\ \A i, j \in DOMAIN inbox[c] :
              inbox[c][i].kind = inbox[c][j].kind /\ inbox[c][i].kind \in Snapshots => i = j
         /\ shown[c] \in [Snapshots -> 0..sequence]
         /\ {tracked[c], asked[c], joined[c], first[c], dropped[c]} \subseteq 0..sequence

\* "Application events are delivered in increasing sequence order": whoever
\* publishes, coalesces, overflows or replays, what is under way to a browser
\* is newer than what it has applied, and in order.
DeliveryInOrder ==
    /\ HubTypeOK
    /\ \A c \in Clients :
         /\ \A i, j \in DOMAIN Pipe(c) : i < j => Pipe(c)[i].seq < Pipe(c)[j].seq
         /\ conn[c] = "on" => \A i \in DOMAIN Pipe(c) : Pipe(c)[i].seq > tracked[c]

\* A browser that has received everything has received the newest event: the
\* event that made the others give way is never itself the one that is lost.  It
\* then shows the newest snapshot of each kind, also those published before it
\* joined an active channel, except what a full inbox lost.
DrainedIsCurrent ==
    \A c \in Clients : Drained(c) =>
      /\ tracked[c] = sequence \/ joined[c] = sequence
      /\ \A k \in Snapshots :
           (alone[c] => latest[k] > joined[c]) =>
             shown[c][k] = latest[k] \/ latest[k] <= dropped[c]

\* No event is lost silently: when a full inbox has lost an event that came
\* after the first one applied, the browser has asked for /status since.
LossesAreNoticed ==
    \A c \in Clients :
      Drained(c) /\ first[c] > 0 /\ dropped[c] > first[c] => asked[c] >= dropped[c]

\* A connected browser catches up with the channel: no wake-up is lost.
EventuallyCurrent ==
    \A c \in Clients :
      (conn[c] = "on" /\ sequence > joined[c])
        ~> (conn[c] # "on" \/ tracked[c] = sequence)
=============================================================================
