-------------------------- MODULE JellyfinControl --------------------------
(***************************************************************************)
(* How the device stays a Jellyfin cast target: the receiver's heartbeat   *)
(* (integrations/jellyfin_receiver.py) signs in, registers and keeps a     *)
(* control socket open (integrations/jellyfin_ws.py); a configuration      *)
(* change runs as a transaction that suspends the socket.  A worker thread *)
(* cannot be cancelled: what it was doing when it was retired arrives late *)
(* and must find that it is no longer wanted.                              *)
(*                                                                         *)
(* The control plane signs in as a user (auth mode "user_login"); a token  *)
(* is named by the server that issued it.                                  *)
(***************************************************************************)
EXTENDS Naturals

CONSTANTS Servers,      \* media servers an operator can choose
          None,         \* no server, no token, no thread
          Beats,        \* heartbeat threads; a retired one may still be running
          Admin,        \* whoever holds _TRANSACTION
          MaxSessions,  \* bound on the socket generations started
          MaxChanges,   \* bound on the configuration changes
          MaxBacklog    \* _COMMAND_QUEUE_MAX

ASSUME NoneAssumption == None \notin Servers \cup Beats \cup {Admin} /\ Admin \notin Beats
ASSUME BoundAssumption == {MaxSessions, MaxChanges, MaxBacklog} \subseteq Nat \ {0}

VARIABLES
    server,        \* the installed server; None: not running
    token,         \* control_token()
    linked,        \* the receiver's "connected"
    registration,  \* last_register_ok: "unknown", "ok" or "failed"
    generation,    \* _CONFIG_GENERATION
    changes,       \* configuration changes so far
    thread,        \* _THREAD: the heartbeat that has not been told to stop
    step,          \* per thread: what it does next
    context,       \* per heartbeat: the _RequestContext of its network call
    current,       \* _CURRENT: a session, or 0
    bound,         \* the identity the current session was started for
    started,       \* sessions are numbered as they start
    stopped,       \* per session: its stop flag
    reader,        \* per session: _socket_worker
    backlog,       \* per session: the length of its command queue
    worker,        \* per session: _command_worker
    suspended,     \* _SUSPENDED
    lifecycle,     \* the holder of _LIFECYCLE
    doomed,        \* the session being retired under _LIFECYCLE
    connected      \* the socket's "connected"

receiver == <<server, token, linked, registration>>
config == <<generation, changes>>
beats == <<thread, context>>
session == <<stopped, reader, backlog, worker>>
socket == <<current, bound, started, suspended, lifecycle, doomed, connected>>
vars == <<receiver, config, beats, step, session, socket>>

Threads == Beats \cup {Admin}
Sessions == 1..MaxSessions
NoContext == [server |-> None, generation |-> 0, midway |-> FALSE]
NoIdentity == <<None, None>>
Identity == IF None \in {server, token} THEN NoIdentity ELSE <<server, token>>
Changing == step[Admin] # "idle"

\* The process has come up: not configured, or enabled with the server of its
\* environment and a first heartbeat.
Init ==
    /\ token = None
    /\ \/ server = None /\ thread = None
       \/ server \in Servers /\ thread \in Beats
    /\ linked = FALSE /\ registration = "unknown"
    /\ generation = 0 /\ changes = 0
    /\ step = [x \in Threads |->
         IF x = Admin THEN "idle" ELSE IF x = thread THEN "wait" ELSE "off"]
    /\ context = [h \in Beats |-> NoContext]
    /\ current = 0 /\ bound = NoIdentity /\ started = 0
    /\ stopped = [s \in Sessions |-> FALSE]
    /\ reader = [s \in Sessions |-> "idle"]
    /\ backlog = [s \in Sessions |-> 0]
    /\ worker = [s \in Sessions |-> "idle"]
    /\ suspended = FALSE /\ lifecycle = None /\ doomed = 0
    /\ connected = FALSE

Goto(x, next) == step' = [step EXCEPT ![x] = next]

-----------------------------------------------------------------------------
(* Retiring a session: stop() and _stop_session, under _LIFECYCLE *)

\* _CURRENT is cleared first; a thread that asks whether it owns it now loses.
Retire ==
    /\ lifecycle' = Admin
    /\ doomed' = current
    /\ current' = 0 /\ bound' = NoIdentity
    /\ Goto(Admin, IF current = 0 THEN "reset" ELSE "flag")

\* Then the generation's own stop flag is set, which is never unset.
Flag ==
    /\ step[Admin] = "flag"
    /\ stopped' = [stopped EXCEPT ![doomed] = TRUE]
    /\ Goto(Admin, "reset")
    /\ UNCHANGED <<receiver, config, beats, reader, backlog, worker, socket>>

\* The joins are bounded, so the threads may still run when _STATE is reset.
Reset ==
    /\ step[Admin] = "reset"
    /\ connected' = FALSE
    /\ doomed' = 0
    /\ lifecycle' = None
    /\ Goto(Admin, "install")
    /\ UNCHANGED <<receiver, config, beats, session, current, bound, started, suspended>>

-----------------------------------------------------------------------------
(* A configuration change: connect, disconnect, set_device_identity *)

\* A bug: only the commit advances the generation.
BeginQuietly ==
    /\ step[Admin] = "idle" /\ changes < MaxChanges
    /\ changes' = changes + 1
    /\ Goto(Admin, "suspend")
    /\ UNCHANGED <<receiver, generation, beats, session, socket>>

\* _configuration_transaction: entering invalidates the work that is under way.
Begin ==
    /\ step[Admin] = "idle" /\ changes < MaxChanges
    /\ changes' = changes + 1
    /\ generation' = generation + 1
    /\ Goto(Admin, "suspend")
    /\ UNCHANGED <<receiver, beats, session, socket>>

\* A bug: the stop does not wait for a start that was already decided on.
SuspendUnlocked ==
    /\ step[Admin] = "suspend"
    /\ suspended' = TRUE
    /\ Retire
    /\ UNCHANGED <<receiver, config, beats, session, started, connected>>

\* suspended(): hold the socket down, then stop it.
Suspend ==
    /\ step[Admin] = "suspend" /\ lifecycle = None
    /\ suspended' = TRUE
    /\ Retire
    /\ UNCHANGED <<receiver, config, beats, session, started, connected>>

\* connect: install a server, whose token is still to be had, and make sure a
\* heartbeat runs.
Connect(chosen) ==
    /\ step[Admin] = "install"
    /\ server' = chosen /\ token' = None /\ linked' = TRUE
    /\ IF thread = None
         THEN \E h \in Beats :
                /\ step[h] = "off"
                /\ thread' = h
                /\ step' = [step EXCEPT ![Admin] = "resume", ![h] = "wait"]
         ELSE Goto(Admin, "resume") /\ UNCHANGED thread
    /\ UNCHANGED <<registration, config, context, session, socket>>

\* disconnect: the heartbeat is told to stop; it may be in a network call.
Disconnect ==
    /\ step[Admin] = "install"
    /\ server' = None /\ token' = None /\ linked' = FALSE
    /\ thread' = None
    /\ Goto(Admin, "resume")
    /\ UNCHANGED <<registration, config, context, session, socket>>

\* set_device_identity: sign in and register again under the new name.
Rename ==
    /\ step[Admin] = "install"
    /\ token' = None /\ linked' = FALSE /\ registration' = "unknown"
    /\ Goto(Admin, "resume")
    /\ UNCHANGED <<server, config, beats, session, socket>>

\* A bug: the suspension is not lifted.
ResumeNothing ==
    /\ step[Admin] = "resume" /\ lifecycle = None
    /\ Goto(Admin, "commit")
    /\ UNCHANGED <<receiver, config, beats, session, socket>>

Resume ==
    /\ step[Admin] = "resume" /\ lifecycle = None
    /\ suspended' = FALSE
    /\ Goto(Admin, "commit")
    /\ UNCHANGED <<receiver, config, beats, session, current, bound, started, lifecycle, doomed,
                   connected>>

\* Leaving invalidates the work that started midway.
Commit ==
    /\ step[Admin] = "commit"
    /\ generation' = generation + 1
    /\ Goto(Admin, "idle")
    /\ UNCHANGED <<receiver, changes, beats, session, socket>>

-----------------------------------------------------------------------------
(* _heartbeat_worker: sign in, report progress, register, ensure the socket *)

\* _request_context: every input of one network call, under one lock.
Capture(h) ==
    context' = [context EXCEPT
      ![h] = [server |-> server, generation |-> generation, midway |-> Changing]]

\* _publish: only under the generation the call was made for.
Current(h) == context[h].generation = generation

Quit(h) ==
    /\ step[h] = "wait" /\ thread # h
    /\ Goto(h, "off")
    /\ UNCHANGED <<receiver, config, beats, session, socket>>

\* _ensure_authentication: a call is made only when there is no token.
SignIn(h) ==
    /\ step[h] = "wait" /\ thread = h
    /\ IF server # None /\ token = None
         THEN Capture(h) /\ Goto(h, "signing")
         ELSE Goto(h, "progress") /\ UNCHANGED context
    /\ UNCHANGED <<receiver, config, thread, session, socket>>

\* authenticate_once: the server's answer, or its failure.
SignedIn(h) ==
    /\ step[h] = "signing"
    /\ IF Current(h) THEN token' \in {None, context[h].server} ELSE UNCHANGED token
    /\ Goto(h, "progress")
    /\ context' = [context EXCEPT ![h] = NoContext]
    /\ UNCHANGED <<server, linked, registration, config, thread, session, socket>>

\* send_progress_once: when something plays, its position is posted.
Progress(h) ==
    /\ step[h] = "progress"
    /\ \/ server # None /\ Capture(h) /\ Goto(h, "posting")
       \/ Goto(h, "register") /\ UNCHANGED context
    /\ UNCHANGED <<receiver, config, thread, session, socket>>

Progressed(h) ==
    /\ step[h] = "posting"
    /\ IF Current(h) THEN linked' \in BOOLEAN ELSE UNCHANGED linked
    /\ Goto(h, "register")
    /\ context' = [context EXCEPT ![h] = NoContext]
    /\ UNCHANGED <<server, token, registration, config, thread, session, socket>>

\* _ensure_registration: nothing is posted while the last one still holds, and
\* one that failed waits for its backoff.
Register(h) ==
    /\ step[h] = "register"
    /\ LET holds == linked /\ registration = "ok"
       IN  \/ Identity # NoIdentity /\ ~holds /\ Capture(h) /\ Goto(h, "registering")
           \/ /\ Identity = NoIdentity \/ holds \/ registration = "failed"
              /\ Goto(h, "socket")
              /\ UNCHANGED context
    /\ UNCHANGED <<receiver, config, thread, session, socket>>

\* register_receiver_once: posted, read back and published, or failed.
Registered(h) ==
    /\ step[h] = "registering"
    /\ IF Current(h)
         THEN \E ok \in BOOLEAN :
                /\ linked' = ok
                /\ registration' = IF ok THEN "ok" ELSE "failed"
         ELSE UNCHANGED <<linked, registration>>
    /\ Goto(h, "socket")
    /\ context' = [context EXCEPT ![h] = NoContext]
    /\ UNCHANGED <<server, token, config, thread, session, socket>>

\* ensure_running: decide, and act, while holding _LIFECYCLE.  A session bound to
\* another identity would be restarted; SocketMatchesIdentity says there is none.
Ensure(h) ==
    /\ step[h] = "socket" /\ lifecycle = None
    /\ IF suspended \/ Identity = NoIdentity \/ current # 0
         THEN Goto(h, "wait") /\ UNCHANGED <<bound, lifecycle>>
         ELSE /\ started < MaxSessions
              /\ bound' = Identity
              /\ lifecycle' = h
              /\ Goto(h, "start")
    /\ UNCHANGED <<receiver, config, beats, stopped, reader, backlog, worker, current,
                   started, suspended, doomed, connected>>

\* _start: the new generation's threads run.
Start(h) ==
    /\ step[h] = "start"
    /\ started' = started + 1
    /\ current' = started + 1
    /\ lifecycle' = None
    /\ Goto(h, "wait")
    /\ UNCHANGED <<receiver, config, beats, session, bound, suspended, doomed, connected>>

-----------------------------------------------------------------------------
(* _socket_worker and _command_worker, one of each per session *)

Read(s, next) == reader' = [reader EXCEPT ![s] = next]
Exists(s) == s <= started

\* The while loop: a stopped generation leaves, a ready one dials.
Dial(s) ==
    /\ Exists(s) /\ reader[s] = "idle"
    /\ IF stopped[s] THEN Read(s, "gone") ELSE Identity # NoIdentity /\ Read(s, "dialing")
    /\ UNCHANGED <<receiver, config, beats, step, stopped, backlog, worker, socket>>

DialFails(s) ==
    /\ reader[s] = "dialing"
    /\ Read(s, "idle")
    /\ UNCHANGED <<receiver, config, beats, step, stopped, backlog, worker, socket>>

\* A bug: the handshake is not checked against the live generation.
ClaimAlways(s) ==
    /\ reader[s] = "dialing"
    /\ Read(s, "claimed")
    /\ connected' = TRUE
    /\ UNCHANGED <<receiver, config, beats, step, stopped, backlog, worker, current,
                   bound, started, suspended, lifecycle, doomed>>

\* _claim: the handshake took seconds; only the live generation keeps it.
Claim(s) ==
    /\ reader[s] = "dialing"
    /\ IF current = s
         THEN Read(s, "claimed") /\ connected' = TRUE
         ELSE Read(s, "idle") /\ UNCHANGED connected
    /\ UNCHANGED <<receiver, config, beats, step, stopped, backlog, worker, current,
                   bound, started, suspended, lifecycle, doomed>>

\* invalidate_registration: the server's session is new.
Invalidate(s) ==
    /\ reader[s] = "claimed"
    /\ linked' = FALSE /\ registration' = "unknown"
    /\ Read(s, "open")
    /\ UNCHANGED <<server, token, config, beats, step, stopped, backlog,
                   worker, socket>>

\* _read_loop asks whether to stop, then parks in recv.
Receive(s) ==
    /\ reader[s] = "open" /\ ~stopped[s]
    /\ Read(s, "recv")
    /\ UNCHANGED <<receiver, config, beats, step, stopped, backlog, worker, socket>>

\* _submit: a full queue drops the command, loudly.
Submit(s) ==
    /\ reader[s] = "recv"
    /\ backlog' = [backlog EXCEPT ![s] = IF @ < MaxBacklog THEN @ + 1 ELSE @]
    /\ Read(s, "open")
    /\ UNCHANGED <<receiver, config, beats, step, stopped, worker, current, bound, started,
                   suspended, lifecycle, doomed, connected>>

\* _release: the stop flag, the server or the network ended the connection.
Release(s) ==
    /\ reader[s] \in {"open", "recv"}
    /\ Read(s, "idle")
    /\ connected' = IF current = s THEN FALSE ELSE connected
    /\ UNCHANGED <<receiver, config, beats, step, stopped, backlog, worker, current,
                   bound, started, suspended, lifecycle, doomed>>

\* The worker takes a command; one that outlived its session is discarded.
Take(s) ==
    /\ worker[s] = "idle" /\ backlog[s] > 0
    /\ backlog' = [backlog EXCEPT ![s] = @ - 1]
    /\ worker' = [worker EXCEPT ![s] = IF stopped[s] THEN "idle" ELSE "resolving"]
    /\ UNCHANGED <<receiver, config, beats, step, stopped, reader, socket>>

\* handle_command resolved the item: still_owned asks who owns the socket now.
Own(s) ==
    /\ worker[s] = "resolving"
    /\ worker' = [worker EXCEPT
         ![s] = IF current = s /\ ~stopped[s] THEN "owned" ELSE "idle"]
    /\ UNCHANGED <<receiver, config, beats, step, stopped, reader, backlog, socket>>

\* ... fetches the item's metadata, and starts it.
Touch(s) ==
    /\ worker[s] = "owned"
    /\ worker' = [worker EXCEPT ![s] = "idle"]
    /\ UNCHANGED <<receiver, config, beats, step, stopped, reader, backlog, socket>>

-----------------------------------------------------------------------------
Install == (\E chosen \in Servers : Connect(chosen)) \/ Disconnect \/ Rename

Change == Begin \/ Suspend \/ Flag \/ Reset \/ Install \/ Resume \/ Commit

Beat(h) ==
    \/ Quit(h) \/ SignIn(h) \/ SignedIn(h) \/ Progress(h) \/ Progressed(h)
    \/ Register(h) \/ Registered(h) \/ Ensure(h) \/ Start(h)

Session(s) ==
    \/ Dial(s) \/ DialFails(s) \/ Claim(s) \/ Invalidate(s) \/ Receive(s) \/ Submit(s)
    \/ Release(s) \/ Take(s) \/ Own(s) \/ Touch(s)

Next == Change \/ (\E h \in Beats : Beat(h)) \/ (\E s \in Sessions : Session(s))

\* A running thread proceeds, its network calls time out, and a change that
\* has begun is finished.  No command need arrive and no handshake succeed.
Fairness ==
    /\ WF_vars(Change /\ Changing)
    /\ \A h \in Beats : WF_vars(Beat(h))

Spec == Init /\ [][Next]_vars
FairSpec == Spec /\ Fairness

-----------------------------------------------------------------------------
(* Properties *)

FlagsOK == {linked, suspended, connected} \subseteq BOOLEAN /\ stopped \in [Sessions -> BOOLEAN]

ReceiverOK ==
    /\ server \in Servers \cup {None} /\ token \in Servers \cup {None}
    /\ registration \in {"unknown", "ok", "failed"}
    /\ generation \in Nat /\ changes \in 0..MaxChanges

ThreadsOK ==
    /\ thread \in Beats \cup {None} /\ lifecycle \in Threads \cup {None}
    /\ step[Admin] \in {"idle", "suspend", "flag", "reset", "install", "resume", "commit"}
    /\ \A h \in Beats : step[h] \in {"off", "wait", "signing", "progress", "posting",
         "register", "registering", "socket", "start"}
    /\ \A h \in Beats : context[h].server \in Servers \cup {None}

SocketOK ==
    /\ current \in 0..started /\ started \in 0..MaxSessions /\ doomed \in 0..started
    /\ bound \in (Servers \X Servers) \cup {NoIdentity}
    /\ reader \in [Sessions -> {"idle", "dialing", "claimed", "open", "recv", "gone"}]
    /\ backlog \in [Sessions -> 0..MaxBacklog]
    /\ worker \in [Sessions -> {"idle", "resolving", "owned"}]

\* The shape of the state: a command queue keeps its capacity.
TypeOK == FlagsOK /\ ReceiverOK /\ ThreadsOK /\ SocketOK

\* The socket is attached to the server, and speaks as the user, that the device
\* is configured for: no heartbeat, however late, reopens it to a server that was
\* left, nor after a disconnect.
SocketMatchesIdentity ==
    ~suspended /\ lifecycle = None /\ current # 0 => bound = Identity

\* "A retired generation can never be restarted": when nobody is retiring one,
\* every generation but the live one has been told to stop, and "connected" is
\* about the live generation's own connection.
OneLiveSession ==
    /\ TypeOK
    /\ lifecycle = None =>
         /\ \A s \in 1..started : s = current \/ stopped[s]
         /\ connected => current # 0 /\ reader[current] \in {"claimed", "open", "recv"}

\* What a heartbeat learnt from a server is published for that server, unless
\* the call was made midway through the change that is still under way.
LateResultsDiscarded ==
    [][\A h \in Beats :
         step[h] \in {"signing", "registering"} /\ step'[h] # step[h]
         /\ (token' # token \/ registration' # registration)
           => context[h].server = server \/ (context[h].midway /\ Changing)]_vars

\* Once the configuration settles and a token is there, a session is started,
\* unless the bound on sessions is used up.
SocketIsStarted ==
    (~Changing /\ changes = MaxChanges /\ Identity # NoIdentity)
      ~> (current # 0 \/ started = MaxSessions)

\* "A token minted against the previous server or identity must never be
\* installed over the current one."
TokenIsFromServer ==
    ~Changing /\ token # None => token = server
=============================================================================
