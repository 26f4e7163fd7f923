---------------------------- MODULE SeerrSessions ----------------------------
(***************************************************************************)
(* Caller sessions of Seerr (integrations/seerr_sessions.py): a browser    *)
(* starts a Quick Connect flow, polls until the user has approved it, and  *)
(* receives a session that its requests resolve.  Every exchange with the  *)
(* Seerr server happens between two holds of the lock, while a settings    *)
(* change may turn to another server and retire everything.  A request     *)
(* reads the settings, and then the resolver of its session reads them again. *)
(***************************************************************************)
EXTENDS Integers, FiniteSets

CONSTANTS SeerrServers,  \* server URLs that may be configured
          SeerrFlows,    \* Quick Connect flows
          Polls,         \* requests that may poll or use a session at a time
          Capacity,      \* MAX_FLOWS and MAX_SESSIONS
          MaxChanges     \* bound on changes of the configured server

ASSUME SeerrFinite == IsFiniteSet(SeerrFlows)
ASSUME SeerrBounds == Capacity \in Nat /\ MaxChanges \in Nat

NoFlow == "none"

VARIABLES
    serverUrl,    \* the configured server
    retiring,     \* changes that are saved and whose retire_all is to come
    changes,      \* bound: changes so far
    flow,         \* step of each flow: "new", "asked", "open" or "shut"
    home,         \* the server that each flow was started at
    poll,         \* each request: its step, its flow or session, the server it has read
                  \* and the one that the resolver of its session has
    sessions,     \* _SESSIONS: records of flow and server
    made,         \* history: sessions made from each flow
    crossed,      \* history: requests with a change saved between their two reads
    lastUse       \* history: the session used last, and the server it was sent to

svars == <<serverUrl, retiring, changes, flow, home, poll, sessions, made,
           crossed, lastUse>>

IdlePoll == [step |-> "idle", flow |-> NoFlow, server |-> NoFlow, seen |-> NoFlow]
NoUse == [session |-> NoFlow, server |-> NoFlow, crossed |-> FALSE]

SeerrInit ==
    /\ serverUrl = (CHOOSE url \in SeerrServers : TRUE)  \* any of them
    /\ retiring = 0 /\ changes = 0
    /\ flow = [f \in SeerrFlows |-> "new"] /\ home = [f \in SeerrFlows |-> NoFlow]
    /\ poll = [p \in Polls |-> IdlePoll]
    /\ sessions = {} /\ made = [f \in SeerrFlows |-> 0] /\ crossed = {} /\ lastUse = NoUse

OpenFlows == {f \in SeerrFlows : flow[f] = "open"}

\* initiate: the configured server is asked for a code ...
Initiate(f) ==
    /\ flow[f] = "new" /\ Cardinality(OpenFlows) < Capacity
    /\ flow' = [flow EXCEPT ![f] = "asked"] /\ home' = [home EXCEPT ![f] = serverUrl]
    /\ UNCHANGED <<serverUrl, retiring, changes, poll, sessions, made, crossed, lastUse>>

\* ... and the flow is kept, unless there are too many by now.
Keep(f) ==
    /\ flow[f] = "asked"
    /\ flow' = [flow EXCEPT ![f] = IF Cardinality(OpenFlows) < Capacity THEN "open" ELSE "shut"]
    /\ UNCHANGED <<serverUrl, retiring, changes, home, poll, sessions, made, crossed, lastUse>>

\* complete: an open flow of the configured server is looked up.
PollBegin(p, f) ==
    /\ poll[p].step = "idle" /\ flow[f] = "open" /\ home[f] = serverUrl
    /\ poll' = [poll EXCEPT ![p] = [IdlePoll EXCEPT !.step = "checking", !.flow = f,
                                                       !.server = serverUrl]]
    /\ UNCHANGED <<serverUrl, retiring, changes, flow, home, sessions, made, crossed, lastUse>>

Pending(p) ==
    /\ poll[p].step = "checking"
    /\ poll' = [poll EXCEPT ![p] = IdlePoll]
    /\ UNCHANGED <<serverUrl, retiring, changes, flow, home, sessions, made, crossed, lastUse>>

\* A bug: the flow is looked up again and stays open until the session is there.
ClaimByLooking(p) ==
    /\ poll[p].step = "checking"
    /\ poll' = [poll EXCEPT ![p] = IF flow[poll[p].flow] = "open" THEN [@ EXCEPT !.step = "claimed"]
                                   ELSE IdlePoll]
    /\ UNCHANGED <<serverUrl, retiring, changes, flow, home, sessions, made, crossed, lastUse>>

\* An approved flow is claimed by the poll that pops it.
Claim(p) ==
    /\ poll[p].step = "checking"
    /\ IF flow[poll[p].flow] = "open"
       THEN /\ flow' = [flow EXCEPT ![poll[p].flow] = "shut"]
            /\ poll' = [poll EXCEPT ![p] = [@ EXCEPT !.step = "claimed"]]
       ELSE poll' = [poll EXCEPT ![p] = IdlePoll] /\ UNCHANGED flow
    /\ UNCHANGED <<serverUrl, retiring, changes, home, sessions, made, crossed, lastUse>>

\* The server has authenticated the caller; a retirement meanwhile goes unnoticed.
Insert(p) ==
    LET s == [flow |-> poll[p].flow, server |-> poll[p].server] IN
    /\ poll[p].step = "claimed" /\ Cardinality(sessions) < Capacity
    /\ sessions' = sessions \cup {s} /\ made' = [made EXCEPT ![s.flow] = @ + 1]
    /\ poll' = [poll EXCEPT ![p] = IdlePoll]
    /\ UNCHANGED <<serverUrl, retiring, changes, flow, home, crossed, lastUse>>

\* The claim fails: the server refuses, or there is no room for the session.
InsertFails(p) ==
    /\ poll[p].step = "claimed"
    /\ poll' = [poll EXCEPT ![p] = IdlePoll]
    /\ UNCHANGED <<serverUrl, retiring, changes, flow, home, sessions, made, crossed, lastUse>>

\* A request that sends the session made from f reads the settings for its client ...
UseBegin(p, f) ==
    /\ poll[p].step = "idle" /\ made[f] > 0
    /\ poll' = [poll EXCEPT ![p] = [IdlePoll EXCEPT !.step = "configured", !.flow = f,
                                                    !.server = serverUrl]]
    /\ crossed' = crossed \ {p}
    /\ UNCHANGED <<serverUrl, retiring, changes, flow, home, sessions, made, lastUse>>

\* ... resolve reads them for itself ...
UseResolve(p) ==
    /\ poll[p].step = "configured"
    /\ poll' = [poll EXCEPT ![p] = [@ EXCEPT !.step = "resolving", !.seen = serverUrl]]
    /\ UNCHANGED <<serverUrl, retiring, changes, flow, home, sessions, made, crossed, lastUse>>

\* The session that request p presents, if it is still kept, and its use with p's client.
Presented(p) == {s \in sessions : s.flow = poll[p].flow}
Used(p, s) == [session |-> s.server, server |-> poll[p].server, crossed |-> p \in crossed]

\* A bug: whatever retire_all has left is taken to be of the configured server.
UseAnyLookUp(p) ==
    /\ poll[p].step = "resolving"
    /\ \/ \E s \in Presented(p) : lastUse' = Used(p, s)
       \/ Presented(p) = {} /\ UNCHANGED lastUse
    /\ poll' = [poll EXCEPT ![p] = IdlePoll]
    /\ UNCHANGED <<serverUrl, retiring, changes, flow, home, sessions, made, crossed>>

\* ... and looks the session up under the lock: one of the server that resolve has read
\* is sent to the server that the request has read, and another one is dropped.
UseLookUp(p) ==
    /\ poll[p].step = "resolving"
    /\ \/ \E s \in Presented(p) :
            /\ s.server = poll[p].seen
            /\ lastUse' = Used(p, s) /\ UNCHANGED sessions
       \/ /\ \A s \in Presented(p) : s.server # poll[p].seen
          /\ sessions' = sessions \ Presented(p) /\ UNCHANGED lastUse
    /\ poll' = [poll EXCEPT ![p] = IdlePoll]
    /\ UNCHANGED <<serverUrl, retiring, changes, flow, home, made, crossed>>

\* Logging out, or the ages of sessions and flows.
Retire(s) ==
    /\ sessions' = sessions \ {s}
    /\ UNCHANGED <<serverUrl, retiring, changes, flow, home, poll, made, crossed, lastUse>>

Expire(f) ==
    /\ flow[f] = "open" /\ flow' = [flow EXCEPT ![f] = "shut"]
    /\ UNCHANGED <<serverUrl, retiring, changes, home, poll, sessions, made, crossed, lastUse>>

\* update_settings saves another server and then retires all that is kept.
ChangeServer(url) ==
    /\ changes < MaxChanges /\ changes' = changes + 1
    /\ url # serverUrl /\ serverUrl' = url /\ retiring' = retiring + 1
    /\ crossed' = crossed \cup {p \in Polls : poll[p].step = "configured"}
    /\ UNCHANGED <<flow, home, poll, sessions, made, lastUse>>

RetireAll ==
    /\ retiring > 0 /\ retiring' = retiring - 1
    /\ sessions' = {}
    /\ flow' = [f \in SeerrFlows |-> IF flow[f] = "open" THEN "shut" ELSE flow[f]]
    /\ UNCHANGED <<serverUrl, changes, home, poll, made, crossed, lastUse>>

SeerrNext ==
    \/ \E f \in SeerrFlows : Initiate(f) \/ Keep(f) \/ Expire(f)
    \/ \E p \in Polls, f \in SeerrFlows : PollBegin(p, f) \/ UseBegin(p, f)
    \/ \E p \in Polls :
         \/ Pending(p) \/ Claim(p) \/ Insert(p) \/ InsertFails(p)
         \/ UseResolve(p) \/ UseLookUp(p)
    \/ \E s \in sessions : Retire(s)
    \/ \E url \in SeerrServers : ChangeServer(url)
    \/ RetireAll

SeerrSpec == SeerrInit /\ [][SeerrNext]_svars

-----------------------------------------------------------------------------
(* Properties *)

\* However polls of one flow overlap, they make one session at most, of the server the
\* flow was started at; however a change of server overtakes a completion and leaves its
\* session behind, the session is used with its own server only, unless another change
\* was saved between the two reads of the request that uses it; and no more sessions and
\* flows are kept than there is room for.
OneSessionPerFlow ==
    /\ \A f \in SeerrFlows : made[f] <= 1
    /\ \A s \in sessions : s.server = home[s.flow]
    /\ lastUse.session = lastUse.server \/ lastUse.crossed
    /\ Cardinality(sessions) <= Capacity /\ Cardinality(OpenFlows) <= Capacity
=============================================================================
