-------------------------- MODULE ConnectionsProofs --------------------------
(***************************************************************************)
(* The safety properties of JellyfinControl, for any number of servers,    *)
(* heartbeats, sockets and configuration changes, and of RealtimeHub, for  *)
(* any number of browsers and events and inboxes of any size.              *)
(***************************************************************************)
EXTENDS RealtimeHub, JellyfinControl, FiniteSetTheorems, TLAPS

Calling == {"signing", "posting", "registering"}
Held == {"flag", "reset", "install", "resume"}

\* The parts of the state that are functions of the threads.
StepsOK ==
    /\ DOMAIN step = Threads /\ DOMAIN context = Beats
    /\ \A h \in Beats : context[h].generation \in Nat

\* _LIFECYCLE is held across a retirement and across a start, and the socket is
\* held down from its retirement until the change resumes it.
LifecycleOK ==
    /\ \A h \in Beats : lifecycle = h <=> step[h] = "start"
    /\ lifecycle = Admin <=> step[Admin] \in {"flag", "reset"}
    /\ suspended <=> step[Admin] \in Held
    /\ suspended => current = 0 /\ lifecycle \notin Beats
    /\ lifecycle # None => current = 0
    /\ lifecycle \in Beats => started < MaxSessions

\* Every session but the current one is stopped or about to be.
SessionsOK ==
    /\ \A s \in 1..started : s = current \/ stopped[s] \/ (step[Admin] = "flag" /\ s = doomed)
    /\ step[Admin] = "flag" => doomed \in Sessions
    /\ connected =>
         \/ step[Admin] \in {"flag", "reset"}
         \/ current # 0 /\ reader[current] \in {"claimed", "open", "recv"}

\* A session, also one that is being started, is bound to the identity, and
\* there is one.
IdentityOK ==
    current # 0 \/ lifecycle \in Beats => bound = Identity /\ Identity # NoIdentity

\* A call that may still publish was made for the server that is installed, or
\* midway through the change.
CallsOK ==
    \A h \in Beats : step[h] \in Calling =>
      /\ context[h].generation <= generation
      /\ Current(h) =>
           /\ context[h].server = server \/ (context[h].midway /\ Changing)
           /\ Changing => context[h].midway

\* At most one call can still install a token, and there is none yet: it is made
\* by the heartbeat in charge, or by the one retired in the change under way.
SigningOK ==
    \A h \in Beats : step[h] = "signing" /\ Current(h) =>
      /\ token = None
      /\ thread = h \/ (thread = None /\ step[Admin] \in {"resume", "commit"})
      /\ \A g \in Beats : step[g] = "signing" /\ Current(g) => g = h

IInv ==
    TypeOK /\ StepsOK /\ LifecycleOK /\ SessionsOK /\ IdentityOK /\ CallsOK /\ SigningOK

-----------------------------------------------------------------------------
LEMMA InitInv == Init => IInv
<1> SUFFICES ASSUME Init PROVE IInv
  OBVIOUS
<1> USE NoneAssumption, BoundAssumption DEF Init, Threads, Sessions, NoContext
<1>1. FlagsOK
  BY Zenon DEF FlagsOK
<1>2. ReceiverOK /\ SocketOK
  BY DEF ReceiverOK, SocketOK
<1>3. ThreadsOK /\ StepsOK
  BY DEF ThreadsOK, StepsOK
<1>4. LifecycleOK /\ SessionsOK /\ IdentityOK
  BY DEF LifecycleOK, SessionsOK, IdentityOK, Held
<1>5. CallsOK /\ SigningOK
  BY DEF CallsOK, SigningOK, Calling
<1>6. QED
  BY <1>1, <1>2, <1>3, <1>4, <1>5 DEF IInv, TypeOK

\* The flags stay flags, whatever the rest of the state.
LEMMA FlagsInv == ASSUME FlagsOK, [Next]_vars PROVE FlagsOK'
<1> USE DEF FlagsOK, receiver, config, beats, session, socket
<1>1. CASE Change
  BY <1>1, Zenon DEF Change, Install, Begin, Suspend, Retire, Flag, Reset, Connect, Disconnect,
     Rename, Resume, Commit
<1>2. CASE \E h \in Beats : Beat(h)
  BY <1>2, Zenon DEF Beat, Quit, SignIn, SignedIn, Progress, Progressed, Register, Registered,
     Ensure, Start
<1>3. CASE \E s \in Sessions : Session(s)
  BY <1>3, Zenon DEF Session, Dial, DialFails, Claim, Invalidate, Receive, Submit, Release, Take,
     Own, Touch
<1>4. CASE UNCHANGED vars
  BY <1>4, Zenon DEF vars
<1>5. QED
  BY <1>1, <1>2, <1>3, <1>4 DEF Next

\* A socket and its commands: only a claim and a release touch the shared state.
LEMMA SessionInv ==
  ASSUME IInv, FlagsOK', NEW s \in Sessions, Session(s) PROVE IInv'
<1> USE DEF IInv, TypeOK, receiver, config, beats, session, socket
<1>1. UNCHANGED <<server, token, config, beats, step, current, bound, started, stopped, suspended,
                  lifecycle, doomed>>
  BY DEF Session, Dial, DialFails, Claim, Invalidate, Receive, Submit, Release, Take, Own, Touch
<1>2. ThreadsOK' /\ StepsOK' /\ LifecycleOK'
  BY <1>1 DEF ThreadsOK, StepsOK, LifecycleOK, Threads
<1>3. IdentityOK' /\ CallsOK' /\ SigningOK'
  BY <1>1 DEF IdentityOK, CallsOK, SigningOK, Identity, Current, Changing
<1>4. ReceiverOK'
  BY <1>1 DEF ReceiverOK, Session, Dial, DialFails, Claim, Invalidate, Receive, Submit, Release,
     Take, Own, Touch
<1>5. SocketOK' /\ SessionsOK'
  <2> USE <1>1, BoundAssumption DEF SocketOK, SessionsOK, Sessions, Read
  <2>1. CASE Dial(s)
    BY <2>1 DEF Dial
  <2>2. CASE DialFails(s)
    BY <2>2 DEF DialFails
  <2>3. CASE Claim(s)
    BY <2>3 DEF Claim
  <2>4. CASE Invalidate(s)
    BY <2>4 DEF Invalidate
  <2>5. CASE Receive(s)
    BY <2>5 DEF Receive
  <2>6. CASE Submit(s)
    BY <2>6 DEF Submit
  <2>7. CASE Release(s)
    BY <2>7 DEF Release
  <2>8. CASE Take(s)
    BY <2>8 DEF Take
  <2>9. CASE Own(s)
    BY <2>9 DEF Own
  <2>10. CASE Touch(s)
    BY <2>10 DEF Touch
  <2>11. QED
    BY <2>1, <2>2, <2>3, <2>4, <2>5, <2>6, <2>7, <2>8, <2>9, <2>10 DEF Session
<1>6. QED
  BY <1>2, <1>3, <1>4, <1>5

\* What a call captures, with the flag as a fact that the solver can use.
LEMMA Captured ==
  ASSUME NEW h \in Beats, DOMAIN context = Beats, Capture(h)
  PROVE  /\ DOMAIN context' = Beats
         /\ context'[h].server = server /\ context'[h].generation = generation
         /\ context'[h].midway <=> Changing
         /\ \A g \in Beats : g # h => context'[g] = context[g]
<1>1. context'[h] = [server |-> server, generation |-> generation, midway |-> Changing]
  BY DEF Capture
<1>2. context'[h].midway = Changing
  BY <1>1, Zenon DEF Capture
<1>3. QED
  BY <1>1, <1>2 DEF Capture

\* A heartbeat.
LEMMA BeatInv ==
  ASSUME IInv, FlagsOK', NEW h \in Beats, Beat(h) PROVE IInv'
<1> USE NoneAssumption DEF IInv, TypeOK, Goto, receiver, config, beats, session, socket
<1>1. UNCHANGED <<server, config, thread, suspended, doomed, connected, session>>
  BY DEF Beat, Quit, SignIn, SignedIn, Progress, Progressed, Register, Registered, Ensure, Start
<1>2. ReceiverOK'
  BY <1>1 DEF ReceiverOK, ThreadsOK, Beat, Quit, SignIn, SignedIn, Progress, Progressed, Register,
     Registered, Ensure, Start
<1>3. CASE Quit(h)
  <2>1. ThreadsOK' /\ StepsOK' /\ LifecycleOK'
    BY <1>3 DEF Quit, ThreadsOK, StepsOK, LifecycleOK, Threads
  <2>2. SocketOK' /\ SessionsOK' /\ IdentityOK'
    BY <1>3 DEF Quit, SocketOK, SessionsOK, IdentityOK, Identity, StepsOK, Threads
  <2>3. CallsOK' /\ SigningOK'
    BY <1>3 DEF Quit, CallsOK, SigningOK, Calling, Current, Changing, StepsOK, Threads
  <2>4. QED
    BY <1>2, <2>1, <2>2, <2>3
<1>4. CASE SignIn(h)
  <2>1. ThreadsOK' /\ StepsOK' /\ LifecycleOK'
    BY <1>4, Captured DEF SignIn, ThreadsOK, StepsOK, LifecycleOK, Threads, ReceiverOK
  <2>2. SocketOK' /\ SessionsOK' /\ IdentityOK'
    BY <1>4 DEF SignIn, SocketOK, SessionsOK, IdentityOK, Identity, StepsOK, Threads
  <2>3. CallsOK' /\ SigningOK'
    BY <1>4, Captured DEF SignIn, CallsOK, SigningOK, Calling, Current, Changing, StepsOK, Threads,
       ReceiverOK
  <2>4. QED
    BY <1>2, <2>1, <2>2, <2>3
<1>5. CASE SignedIn(h)
  <2>1. ThreadsOK' /\ StepsOK' /\ LifecycleOK'
    BY <1>5 DEF SignedIn, ThreadsOK, StepsOK, LifecycleOK, Threads, NoContext
  <2>2. SocketOK' /\ SessionsOK'
    BY <1>5 DEF SignedIn, SocketOK, SessionsOK, StepsOK, Threads
  <2>3. IdentityOK'
    BY <1>5 DEF SignedIn, IdentityOK, Identity, NoIdentity, StepsOK, Threads, SigningOK
  <2>4. CallsOK' /\ SigningOK'
    BY <1>5 DEF SignedIn, CallsOK, SigningOK, Calling, Current, Changing, StepsOK, Threads
  <2>5. QED
    BY <1>2, <2>1, <2>2, <2>3, <2>4
<1>6. CASE Progress(h)
  <2>1. ThreadsOK' /\ StepsOK' /\ LifecycleOK'
    BY <1>6, Captured DEF Progress, ThreadsOK, StepsOK, LifecycleOK, Threads, ReceiverOK
  <2>2. SocketOK' /\ SessionsOK' /\ IdentityOK'
    BY <1>6 DEF Progress, SocketOK, SessionsOK, IdentityOK, Identity, StepsOK, Threads
  <2>3. CallsOK' /\ SigningOK'
    BY <1>6, Captured DEF Progress, CallsOK, SigningOK, Calling, Current, Changing, StepsOK, Threads,
       ReceiverOK
  <2>4. QED
    BY <1>2, <2>1, <2>2, <2>3
<1>7. CASE Progressed(h)
  <2>1. ThreadsOK' /\ StepsOK' /\ LifecycleOK'
    BY <1>7 DEF Progressed, ThreadsOK, StepsOK, LifecycleOK, Threads, NoContext
  <2>2. SocketOK' /\ SessionsOK' /\ IdentityOK'
    BY <1>7 DEF Progressed, SocketOK, SessionsOK, IdentityOK, Identity, StepsOK, Threads
  <2>3. CallsOK' /\ SigningOK'
    BY <1>7 DEF Progressed, CallsOK, SigningOK, Calling, Current, Changing, StepsOK, Threads
  <2>4. QED
    BY <1>2, <2>1, <2>2, <2>3
<1>8. CASE Register(h)
  <2>1. ThreadsOK' /\ StepsOK' /\ LifecycleOK'
    BY <1>8, Captured DEF Register, ThreadsOK, StepsOK, LifecycleOK, Threads, ReceiverOK
  <2>2. SocketOK' /\ SessionsOK' /\ IdentityOK'
    BY <1>8 DEF Register, SocketOK, SessionsOK, IdentityOK, Identity, StepsOK, Threads
  <2>3. CallsOK' /\ SigningOK'
    BY <1>8, Captured DEF Register, CallsOK, SigningOK, Calling, Current, Changing, StepsOK, Threads,
       ReceiverOK
  <2>4. QED
    BY <1>2, <2>1, <2>2, <2>3
<1>9. CASE Registered(h)
  <2>1. ThreadsOK' /\ StepsOK' /\ LifecycleOK'
    BY <1>9 DEF Registered, ThreadsOK, StepsOK, LifecycleOK, Threads, NoContext
  <2>2. SocketOK' /\ SessionsOK' /\ IdentityOK'
    BY <1>9 DEF Registered, SocketOK, SessionsOK, IdentityOK, Identity, StepsOK, Threads
  <2>3. CallsOK' /\ SigningOK'
    BY <1>9 DEF Registered, CallsOK, SigningOK, Calling, Current, Changing, StepsOK, Threads
  <2>4. QED
    BY <1>2, <2>1, <2>2, <2>3
<1>10. CASE Ensure(h)
  <2>1. ThreadsOK' /\ StepsOK' /\ LifecycleOK'
    BY <1>10 DEF Ensure, ThreadsOK, StepsOK, LifecycleOK, SocketOK, Threads, Held
  <2>2. SocketOK' /\ SessionsOK' /\ IdentityOK'
    BY <1>10 DEF Ensure, SocketOK, SessionsOK, IdentityOK, Identity, StepsOK, Threads, ReceiverOK,
       NoIdentity, LifecycleOK
  <2>3. CallsOK' /\ SigningOK'
    BY <1>10 DEF Ensure, CallsOK, SigningOK, Calling, Current, Changing, StepsOK, Threads
  <2>4. QED
    BY <1>2, <2>1, <2>2, <2>3
<1>11. CASE Start(h)
  <2>1. ThreadsOK' /\ StepsOK' /\ LifecycleOK'
    BY <1>11 DEF Start, ThreadsOK, StepsOK, LifecycleOK, SocketOK, Threads, Held
  <2>2. SocketOK' /\ SessionsOK' /\ IdentityOK'
    BY <1>11, BoundAssumption DEF Start, SocketOK, SessionsOK, IdentityOK, Identity, StepsOK, Threads,
       LifecycleOK
  <2>3. CallsOK' /\ SigningOK'
    BY <1>11 DEF Start, CallsOK, SigningOK, Calling, Current, Changing, StepsOK, Threads
  <2>4. QED
    BY <1>2, <2>1, <2>2, <2>3
<1>12. QED
  BY <1>3, <1>4, <1>5, <1>6, <1>7, <1>8, <1>9, <1>10, <1>11 DEF Beat

\* A configuration change.
LEMMA ChangeInv ==
  ASSUME IInv, FlagsOK', Change PROVE IInv'
<1> USE NoneAssumption DEF IInv, TypeOK, Goto, receiver, config, beats, session, socket
<1>1. CASE Begin
  <2>1. ReceiverOK'
    BY <1>1, BoundAssumption DEF Begin, ReceiverOK
  <2>2. ThreadsOK' /\ StepsOK' /\ LifecycleOK'
    BY <1>1 DEF Begin, ThreadsOK, StepsOK, LifecycleOK, Threads, Held
  <2>3. SocketOK' /\ SessionsOK' /\ IdentityOK'
    BY <1>1 DEF Begin, SocketOK, SessionsOK, IdentityOK, Identity, StepsOK, Threads
  <2>4. CallsOK' /\ SigningOK'
    BY <1>1 DEF Begin, CallsOK, SigningOK, Calling, Current, ReceiverOK, StepsOK, Threads
  <2>5. QED
    BY <2>1, <2>2, <2>3, <2>4
<1>2. CASE Suspend
  <2>1. ReceiverOK' /\ ThreadsOK' /\ StepsOK' /\ LifecycleOK'
    BY <1>2 DEF Suspend, Retire, ReceiverOK, ThreadsOK, StepsOK, LifecycleOK, SocketOK, Threads, Held
  <2>2. SocketOK' /\ IdentityOK'
    BY <1>2 DEF Suspend, Retire, SocketOK, IdentityOK, StepsOK, Threads
  <2>3. SessionsOK'
    BY <1>2, BoundAssumption DEF Suspend, Retire, SocketOK, SessionsOK, StepsOK, Threads, Sessions
  <2>4. CallsOK' /\ SigningOK'
    BY <1>2 DEF Suspend, Retire, CallsOK, SigningOK, Calling, Current, Changing, StepsOK, Threads
  <2>5. QED
    BY <2>1, <2>2, <2>3, <2>4
<1>3. CASE Flag
  <2>1. ReceiverOK' /\ ThreadsOK' /\ StepsOK' /\ LifecycleOK'
    BY <1>3 DEF Flag, ReceiverOK, ThreadsOK, StepsOK, LifecycleOK, Threads, Held
  <2>2. SocketOK' /\ SessionsOK' /\ IdentityOK'
    BY <1>3 DEF Flag, FlagsOK, SocketOK, SessionsOK, IdentityOK, Identity, StepsOK, Threads, Sessions
  <2>3. CallsOK' /\ SigningOK'
    BY <1>3 DEF Flag, CallsOK, SigningOK, Calling, Current, Changing, StepsOK, Threads
  <2>4. QED
    BY <2>1, <2>2, <2>3
<1>4. CASE Reset
  <2>1. ReceiverOK' /\ ThreadsOK' /\ StepsOK' /\ LifecycleOK'
    BY <1>4 DEF Reset, ReceiverOK, ThreadsOK, StepsOK, LifecycleOK, Threads, Held
  <2>2. SocketOK' /\ SessionsOK' /\ IdentityOK'
    BY <1>4 DEF Reset, SocketOK, SessionsOK, IdentityOK, Identity, StepsOK, LifecycleOK, Threads
  <2>3. CallsOK' /\ SigningOK'
    BY <1>4 DEF Reset, CallsOK, SigningOK, Calling, Current, Changing, StepsOK, Threads
  <2>4. QED
    BY <2>1, <2>2, <2>3
<1>5. CASE Install
  <2> USE <1>5 DEF Install, Connect, Disconnect, Rename
  <2>2. ReceiverOK' /\ ThreadsOK' /\ StepsOK'
    BY DEF ReceiverOK, ThreadsOK, StepsOK, Threads
  <2>3. LifecycleOK' /\ SocketOK' /\ SessionsOK'
    BY DEF LifecycleOK, SocketOK, SessionsOK, StepsOK, ThreadsOK, Threads, Held
  <2>4. IdentityOK'
    BY DEF IdentityOK, LifecycleOK, StepsOK, Threads, Held
  <2>5. CallsOK' /\ SigningOK'
    BY DEF CallsOK, SigningOK, Calling, Current, Changing, StepsOK, Threads
  <2>6. QED
    BY <2>2, <2>3, <2>4, <2>5
<1>6. CASE Resume
  <2>1. ReceiverOK' /\ ThreadsOK' /\ StepsOK' /\ LifecycleOK'
    BY <1>6 DEF Resume, ReceiverOK, ThreadsOK, StepsOK, LifecycleOK, Threads, Held
  <2>2. SocketOK' /\ SessionsOK' /\ IdentityOK'
    BY <1>6 DEF Resume, SocketOK, SessionsOK, IdentityOK, Identity, StepsOK, Threads
  <2>3. CallsOK' /\ SigningOK'
    BY <1>6 DEF Resume, CallsOK, SigningOK, Calling, Current, Changing, StepsOK, Threads
  <2>4. QED
    BY <2>1, <2>2, <2>3
<1>7. CASE Commit
  <2>1. ReceiverOK' /\ ThreadsOK' /\ StepsOK' /\ LifecycleOK'
    BY <1>7 DEF Commit, ReceiverOK, ThreadsOK, StepsOK, LifecycleOK, Threads, Held
  <2>2. SocketOK' /\ SessionsOK' /\ IdentityOK'
    BY <1>7 DEF Commit, SocketOK, SessionsOK, IdentityOK, Identity, StepsOK, Threads
  <2>3. CallsOK' /\ SigningOK'
    BY <1>7 DEF Commit, CallsOK, SigningOK, Calling, Current, ReceiverOK, StepsOK, Threads
  <2>4. QED
    BY <2>1, <2>2, <2>3
<1>8. QED
  BY <1>1, <1>2, <1>3, <1>4, <1>5, <1>6, <1>7 DEF Change

\* The inductive invariant.
THEOREM Invariance == Spec => []IInv
<1>1. IInv /\ UNCHANGED vars => IInv'
  BY DEF vars, receiver, config, beats, session, socket, IInv, TypeOK, FlagsOK, ReceiverOK, ThreadsOK,
     SocketOK, StepsOK, LifecycleOK, SessionsOK, IdentityOK, Identity, CallsOK, SigningOK, Current,
     Changing
<1>2. IInv /\ [Next]_vars => IInv'
  BY <1>1, FlagsInv, ChangeInv, BeatInv, SessionInv DEF Next, IInv, TypeOK
<1>3. QED
  BY InitInv, <1>2, PTL DEF Spec

\* The state has its shape: a command queue keeps its capacity.
THEOREM Types == Spec => []TypeOK
<1>1. IInv => TypeOK
  BY DEF IInv
<1>2. QED
  BY Invariance, <1>1, PTL

\* No heartbeat, however late, reopens the socket to a server that was left, nor
\* after a disconnect (ensure_running against the configuration transaction).
THEOREM SocketFollowsIdentity == Spec => []SocketMatchesIdentity
<1>1. IInv => SocketMatchesIdentity
  BY DEF IInv, IdentityOK, SocketMatchesIdentity
<1>2. QED
  BY Invariance, <1>1, PTL

\* A retired generation is told to stop before anything else can start, and
\* "connected" is about the live one (stop, _claim, _release).
THEOREM RetiredStayRetired == Spec => []OneLiveSession
<1>1. IInv => OneLiveSession
  BY NoneAssumption DEF IInv, SessionsOK, LifecycleOK, OneLiveSession
<1>2. QED
  BY Invariance, <1>1, PTL

\* What a step of the heartbeat publishes belongs to the server it asked
\* (_publish against _configuration_transaction).
THEOREM ResultsAreForTheServer == Spec => LateResultsDiscarded
<1> DEFINE Discarded ==
      \A h \in Beats :
        step[h] \in {"signing", "registering"} /\ step'[h] # step[h]
        /\ (token' # token \/ registration' # registration)
          => context[h].server = server \/ (context[h].midway /\ Changing)
<1>1. ASSUME IInv, Next PROVE Discarded
  <2>1. CASE Change
    BY <1>1, <2>1, NoneAssumption DEF Change, Install, Begin, Suspend, Retire, Flag, Reset, Connect,
       Disconnect, Rename, Resume, Commit, Goto, IInv, StepsOK, Threads, beats, session
  <2>2. ASSUME NEW h \in Beats, Beat(h) PROVE Discarded
    <3>1. \A g \in Beats : g # h => step'[g] = step[g]
      BY <1>1, <2>2 DEF IInv, StepsOK, Threads, Goto, Beat, Quit, SignIn, SignedIn, Progress,
         Progressed, Register, Registered, Ensure, Start
    <3>2. step[h] = "signing" => SignedIn(h)
      BY <2>2 DEF Beat, Quit, SignIn, SignedIn, Progress, Progressed, Register, Registered, Ensure,
         Start
    <3>3. step[h] = "registering" => Registered(h)
      BY <2>2 DEF Beat, Quit, SignIn, SignedIn, Progress, Progressed, Register, Registered, Ensure,
         Start
    <3>4. QED
      BY <1>1, <3>1, <3>2, <3>3 DEF IInv, CallsOK, Calling, SignedIn, Registered
  <2>3. CASE \E s \in Sessions : Session(s)
    BY <2>3 DEF Session, Dial, DialFails, Claim, Invalidate, Receive, Submit, Release, Take, Own, Touch
  <2>4. QED
    BY <1>1, <2>1, <2>2, <2>3 DEF Next
<1>2. IInv /\ [Next]_vars => [Discarded]_vars
  BY <1>1
<1>3. QED
  BY Invariance, <1>2, PTL DEF Spec, LateResultsDiscarded

-----------------------------------------------------------------------------
(* The realtime hub: the inductive invariant *)

Increasing(q) == \A i, j \in DOMAIN q : i < j => q[i].seq < q[j].seq
OnePerKind(q) == \A i, j \in DOMAIN q : q[i].kind = q[j].kind /\ q[i].kind \in Snapshots => i = j
OnTheWay(c) == ToSet(inbox[c]) \cup ToSet(scheduled[c])

\* What does not depend on the events under way.
CountersOK ==
    /\ sequence \in 0..MaxEvents
    /\ latest \in [Snapshots -> 0..sequence] /\ others \in BOOLEAN
    /\ conn \in [Clients -> {"off", "hello", "on"}]
    /\ available \in [Clients -> BOOLEAN] /\ blocked \in [Clients -> BOOLEAN]
    /\ known \in [Clients -> BOOLEAN] /\ alone \in [Clients -> BOOLEAN]
    /\ shown \in [Clients -> [Snapshots -> 0..sequence]]
    /\ tracked \in [Clients -> 0..sequence] /\ asked \in [Clients -> 0..sequence]
    /\ joined \in [Clients -> 0..sequence] /\ first \in [Clients -> 0..sequence]
    /\ dropped \in [Clients -> 0..sequence]
    /\ scheduled \in [Clients -> Seq(Events)] /\ inbox \in [Clients -> Seq(Events)]
    /\ \A c \in Clients : Len(inbox[c]) <= MaxSize /\ OnePerKind(inbox[c])

\* Everything on its way is in order, newer than what was applied or lost, and not
\* newer than what the channel has.
OrderOK(c) ==
    /\ Increasing(inbox[c]) /\ Increasing(scheduled[c])
    /\ \A a \in ToSet(inbox[c]), b \in ToSet(scheduled[c]) : a.seq < b.seq
    /\ \A e \in OnTheWay(c) :
         /\ e.seq <= sequence /\ e.seq > dropped[c]
         /\ conn[c] = "on" => e.seq > tracked[c]
         /\ e.kind \in Snapshots => e.seq <= latest[e.kind]

\* A closed connection has nothing, and one that was not greeted has shown nothing.
ClosedOK(c) ==
    /\ conn[c] = "off" => OnTheWay(c) = {} /\ dropped[c] = 0
    /\ conn[c] # "on" => first[c] = 0 /\ shown[c] = NoneShown
    /\ first[c] > 0 => tracked[c] > 0
    /\ conn[c] = "on" => \A k \in Snapshots : shown[c][k] <= tracked[c]

\* The newest event is on its way or has been applied, and so is the newest snapshot
\* of each kind unless it was lost.
CurrentOK(c) ==
    Subscribed(c) =>
      /\ \/ joined[c] = sequence
         \/ \E e \in OnTheWay(c) : e.seq = sequence
         \/ conn[c] = "on" /\ tracked[c] = sequence
      /\ \A k \in Snapshots :
           (alone[c] => latest[k] > joined[c]) =>
             \/ \E e \in OnTheWay(c) : e.kind = k /\ e.seq = latest[k]
             \/ shown[c][k] = latest[k]
             \/ latest[k] <= dropped[c]

\* A loss is noticed, or will be with the next event, which is on its way.
LossOK(c) ==
    first[c] > 0 /\ dropped[c] > first[c] =>
      asked[c] >= dropped[c] \/ (dropped[c] > tracked[c] /\ OnTheWay(c) # {})

ClientOK(c) == OrderOK(c) /\ ClosedOK(c) /\ CurrentOK(c) /\ LossOK(c)

HubInv == CountersOK /\ \A c \in Clients : ClientOK(c)

-----------------------------------------------------------------------------
(* Queues of events *)

LEMMA EventFacts ==
  /\ \A e \in Events : e.seq \in Nat \ {0} /\ e.seq <= MaxEvents /\ e.kind \in Kinds
  /\ \A q \in Seq(Events) : Len(q) \in Nat /\ DOMAIN q = 1..Len(q)
  /\ \A q \in Seq(Events) : \A e : e \in ToSet(q) <=> \E i \in 1..Len(q) : q[i] = e
  /\ \A q \in Seq(Events) : \A e \in ToSet(q) : e \in Events
<1>1. MaxEvents \in Nat
  BY SizeAssumption
<1>2. \A e \in Events : e.seq \in Nat \ {0} /\ e.seq <= MaxEvents /\ e.kind \in Kinds
  BY <1>1 DEF Events
<1>3. QED
  BY <1>2 DEF ToSet

LEMMA TailEvents ==
  ASSUME NEW q \in Seq(Events), q # <<>>
  PROVE  /\ Tail(q) \in Seq(Events) /\ Len(Tail(q)) = Len(q) - 1
         /\ Head(q) \in ToSet(q)
         /\ \A e : e \in ToSet(q) <=> e = Head(q) \/ e \in ToSet(Tail(q))
         /\ Increasing(q) => /\ Increasing(Tail(q))
                             /\ \A e \in ToSet(Tail(q)) : e.seq > Head(q).seq
         /\ OnePerKind(q) => OnePerKind(Tail(q))
<1> DEFINE w == Tail(q)
<1>1. /\ Len(q) \in Nat \ {0} /\ w \in Seq(Events) /\ Len(w) = Len(q) - 1
      /\ \A i \in 1..Len(w) : i + 1 \in 1..Len(q) /\ w[i] = q[i + 1]
      /\ Head(q) = q[1] /\ 1 \in 1..Len(q)
  OBVIOUS
<1> HIDE DEF w
<1>2. ASSUME NEW e PROVE e \in ToSet(q) <=> e = Head(q) \/ e \in ToSet(w)
  <2>1. ASSUME NEW i \in 1..Len(q), q[i] = e, i # 1 PROVE e \in ToSet(w)
    <3>1. i - 1 \in 1..Len(w) /\ w[i - 1] = e
      BY <1>1, <2>1
    <3>2. QED
      BY <1>1, <3>1, EventFacts
  <2>2. e \in ToSet(w) => e \in ToSet(q)
    BY SMTT(30), <1>1, EventFacts
  <2>3. QED
    BY <1>1, <2>1, <2>2, EventFacts
<1>3. ASSUME Increasing(q)
      PROVE  Increasing(w) /\ \A e \in ToSet(w) : e.seq > Head(q).seq
  <2>1. \A i, j \in 1..Len(q) : i < j => q[i].seq < q[j].seq
    BY <1>3, EventFacts DEF Increasing
  <2>2. \A i, j \in 1..Len(w) : i < j => w[i].seq < w[j].seq
    <3>1. ASSUME NEW i \in 1..Len(w), NEW j \in 1..Len(w), i < j PROVE w[i].seq < w[j].seq
      <4>1. i + 1 \in 1..Len(q) /\ j + 1 \in 1..Len(q) /\ w[i] = q[i + 1] /\ w[j] = q[j + 1]
        BY <1>1
      <4>2. i + 1 < j + 1
        BY <1>1, <3>1
      <4>3. QED
        BY <2>1, <4>1, <4>2
    <3>2. QED
      BY <3>1
  <2>3. \A i \in 1..Len(w) : w[i].seq > q[1].seq
    <3>1. ASSUME NEW i \in 1..Len(w) PROVE w[i].seq > q[1].seq
      <4>1. w[i] = q[i + 1] /\ i + 1 \in 1..Len(q) /\ 1 < i + 1
        BY <1>1
      <4>2. q[1].seq < q[i + 1].seq
        BY <1>1, <2>1, <4>1
      <4>3. q[1].seq \in Nat /\ q[i + 1].seq \in Nat
        BY <1>1, <4>1, EventFacts
      <4>4. QED
        BY <4>1, <4>2, <4>3
    <3>2. QED
      BY <3>1
  <2>4. Increasing(w)
    BY <1>1, <2>2, EventFacts DEF Increasing
  <2>5. \A e \in ToSet(w) : e.seq > Head(q).seq
    <3>1. ASSUME NEW e \in ToSet(w) PROVE e.seq > Head(q).seq
      <4>1. PICK i \in 1..Len(w) : w[i] = e
        BY <1>1, EventFacts
      <4>2. QED
        BY <1>1, <2>3, <4>1
    <3>2. QED
      BY <3>1
  <2>6. QED
    BY <2>4, <2>5
<1>4. ASSUME OnePerKind(q) PROVE OnePerKind(w)
  <2>1. \A i, j \in 1..Len(q) : q[i].kind = q[j].kind /\ q[i].kind \in Snapshots => i = j
    BY <1>4, EventFacts DEF OnePerKind
  <2>2. ASSUME NEW i \in 1..Len(w), NEW j \in 1..Len(w),
               w[i].kind = w[j].kind, w[i].kind \in Snapshots
        PROVE  i = j
    <3>1. i + 1 = j + 1
      BY <1>1, <2>1, <2>2
    <3>2. QED
      BY <1>1, <3>1
  <2>3. QED
    BY SMTT(30), <1>1, <2>2, EventFacts DEF OnePerKind
<1>5. QED
  BY <1>1, <1>2, <1>3, <1>4, EventFacts DEF w

LEMMA AppendEvent ==
  ASSUME NEW q \in Seq(Events), NEW e \in Events
  PROVE  /\ Append(q, e) \in Seq(Events) /\ Len(Append(q, e)) = Len(q) + 1
         /\ \A x : x \in ToSet(Append(q, e)) <=> x = e \/ x \in ToSet(q)
         /\ Increasing(q) /\ (\A x \in ToSet(q) : x.seq < e.seq) => Increasing(Append(q, e))
         /\ OnePerKind(q) /\ (\A x \in ToSet(q) : ~(x.kind = e.kind /\ e.kind \in Snapshots)) =>
              OnePerKind(Append(q, e))
<1> DEFINE w == Append(q, e)
<1>1. /\ Len(q) \in Nat /\ w \in Seq(Events) /\ Len(w) = Len(q) + 1
      /\ \A i \in 1..Len(q) : i \in 1..Len(w) /\ w[i] = q[i]
      /\ w[Len(q) + 1] = e /\ Len(q) + 1 \in 1..Len(w)
      /\ \A i \in 1..Len(w) : i \in 1..Len(q) \/ i = Len(q) + 1
  OBVIOUS
<1> HIDE DEF w
<1>2. \A x : x \in ToSet(w) <=> x = e \/ x \in ToSet(q)
  BY <1>1, EventFacts
<1>3. ASSUME Increasing(q), \A x \in ToSet(q) : x.seq < e.seq PROVE Increasing(w)
  <2>1. \A i, j \in 1..Len(q) : i < j => q[i].seq < q[j].seq
    BY <1>3, EventFacts DEF Increasing
  <2>2. \A i \in 1..Len(q) : q[i].seq < e.seq
    BY <1>3, EventFacts
  <2>3. ASSUME NEW i \in 1..Len(w), NEW j \in 1..Len(w), i < j PROVE w[i].seq < w[j].seq
    <3>1. i \in 1..Len(q)
      BY <1>1, <2>3
    <3>2. CASE j \in 1..Len(q)
      BY <1>1, <2>1, <2>3, <3>1, <3>2
    <3>3. CASE j = Len(q) + 1
      BY <1>1, <2>2, <3>1, <3>3
    <3>4. QED
      BY <1>1, <3>2, <3>3
  <2>4. QED
    BY <1>1, <2>3, EventFacts DEF Increasing
<1>4. ASSUME OnePerKind(q), \A x \in ToSet(q) : ~(x.kind = e.kind /\ e.kind \in Snapshots)
      PROVE  OnePerKind(w)
  <2>1. \A i, j \in 1..Len(q) : q[i].kind = q[j].kind /\ q[i].kind \in Snapshots => i = j
    BY <1>4, EventFacts DEF OnePerKind
  <2>2. \A i \in 1..Len(q) : ~(q[i].kind = e.kind /\ e.kind \in Snapshots)
    BY <1>4, EventFacts
  <2>3. \A i, j \in 1..Len(w) : w[i].kind = w[j].kind /\ w[i].kind \in Snapshots => i = j
    BY <1>1, <2>1, <2>2
  <2>4. QED
    BY <1>1, <2>3, EventFacts DEF OnePerKind
<1>5. QED
  BY <1>1, <1>2, <1>3, <1>4 DEF w

\* A queue without its i-th event.
LEMMA WithoutEvent ==
  ASSUME NEW q \in Seq(Events), NEW i \in 1..Len(q)
  PROVE  /\ RemoveAt(q, i) \in Seq(Events) /\ Len(RemoveAt(q, i)) <= Len(q)
         /\ \A e : e \in ToSet(RemoveAt(q, i)) => e \in ToSet(q)
         /\ \A e : e \in ToSet(q) /\ e # q[i] => e \in ToSet(RemoveAt(q, i))
         /\ Increasing(q) => Increasing(RemoveAt(q, i))
         /\ OnePerKind(q) =>
              /\ OnePerKind(RemoveAt(q, i))
              /\ \A e \in ToSet(RemoveAt(q, i)) : ~(e.kind = q[i].kind /\ e.kind \in Snapshots)
<1> DEFINE w == RemoveAt(q, i)
<1>1. /\ w \in Seq(Events) /\ Len(w) = Len(q) - 1
      /\ \A k \in 1..(Len(q) - 1) : w[k] = IF k < i THEN q[k] ELSE q[k + 1]
  <2> DEFINE a == SubSeq(q, 1, i - 1)
             b == SubSeq(q, i + 1, Len(q))
  <2>1. a \in Seq(Events) /\ Len(a) = i - 1 /\ \A k \in 1..(i - 1) : a[k] = q[k]
    OBVIOUS
  <2>2. b \in Seq(Events) /\ Len(b) = Len(q) - i /\ \A k \in 1..(Len(q) - i) : b[k] = q[k + i]
    OBVIOUS
  <2>3. w = a \o b
    BY DEF RemoveAt
  <2> HIDE DEF a, b, w
  <2>4. w \in Seq(Events) /\ Len(w) = Len(q) - 1
    BY <2>1, <2>2, <2>3
  <2>5. ASSUME NEW k \in 1..(Len(q) - 1), k < i PROVE w[k] = q[k]
    BY <2>1, <2>2, <2>3, <2>5
  <2>6. ASSUME NEW k \in 1..(Len(q) - 1), k >= i PROVE w[k] = q[k + 1]
    <3>1. w[k] = b[k - (i - 1)]
      BY <2>1, <2>2, <2>3, <2>6
    <3>2. k - (i - 1) \in 1..(Len(q) - i) /\ k - (i - 1) + i = k + 1
      BY <2>6
    <3>3. QED
      BY <2>2, <3>1, <3>2
  <2>7. QED
    BY <2>4, <2>5, <2>6
<1> HIDE DEF w
<1> DEFINE place(k) == IF k < i THEN k ELSE k + 1
<1>2. /\ \A k \in 1..Len(w) : /\ place(k) \in 1..Len(q) /\ place(k) # i /\ w[k] = q[place(k)]
      /\ \A k, m \in 1..Len(w) : /\ k < m => place(k) < place(m)
                                 /\ place(k) = place(m) => k = m
  BY <1>1
<1> HIDE DEF place
<1>3. \A e : e \in ToSet(w) => e \in ToSet(q)
  BY <1>1, <1>2, EventFacts
<1>4. ASSUME NEW e, e \in ToSet(q), e # q[i] PROVE e \in ToSet(w)
  <2>1. PICK k \in 1..Len(q) : q[k] = e /\ k # i
    BY <1>4, EventFacts
  <2>2. CASE k < i
    <3>1. k \in 1..Len(w) /\ w[k] = e
      BY <1>1, <2>1, <2>2
    <3>2. QED
      BY <1>1, <3>1, EventFacts
  <2>3. CASE k > i
    <3>1. k - 1 \in 1..Len(w) /\ w[k - 1] = e
      BY <1>1, <2>1, <2>3
    <3>2. QED
      BY <1>1, <3>1, EventFacts
  <2>4. QED
    BY <2>1, <2>2, <2>3
<1>5. ASSUME Increasing(q) PROVE Increasing(w)
  <2>1. \A k, m \in 1..Len(q) : k < m => q[k].seq < q[m].seq
    BY <1>5, EventFacts DEF Increasing
  <2>2. \A k, m \in 1..Len(w) : k < m => w[k].seq < w[m].seq
    BY <1>2, <2>1
  <2>3. QED
    BY <1>1, <2>2, EventFacts DEF Increasing
<1>6. ASSUME OnePerKind(q)
      PROVE  /\ OnePerKind(w)
             /\ \A e \in ToSet(w) : ~(e.kind = q[i].kind /\ e.kind \in Snapshots)
  <2>1. \A k, m \in 1..Len(q) : q[k].kind = q[m].kind /\ q[k].kind \in Snapshots => k = m
    BY <1>6, EventFacts DEF OnePerKind
  <2>2. \A k, m \in 1..Len(w) : w[k].kind = w[m].kind /\ w[k].kind \in Snapshots => k = m
    BY <1>2, <2>1
  <2>3. \A k \in 1..Len(w) : ~(w[k].kind = q[i].kind /\ w[k].kind \in Snapshots)
    BY <1>2, <2>1
  <2>4. OnePerKind(w)
    BY <1>1, <2>2, EventFacts DEF OnePerKind
  <2>5. \A e \in ToSet(w) : ~(e.kind = q[i].kind /\ e.kind \in Snapshots)
    <3>1. ASSUME NEW e \in ToSet(w) PROVE ~(e.kind = q[i].kind /\ e.kind \in Snapshots)
      <4>1. PICK k \in 1..Len(w) : w[k] = e
        BY <1>1, EventFacts
      <4>2. QED
        BY <2>3, <4>1
    <3>2. QED
      BY <3>1
  <2>6. QED
    BY <2>4, <2>5
<1>7. Len(w) <= Len(q)
  BY <1>1
<1>8. QED
  BY <1>1, <1>3, <1>4, <1>5, <1>6, <1>7 DEF w

\* Coalescing takes away at most an older snapshot of the same kind.
LEMMA CoalescedItems ==
  ASSUME NEW q \in Seq(Events), NEW e \in Events, OnePerKind(q)
  PROVE  /\ Coalesced(q, e) \in Seq(Events) /\ Len(Coalesced(q, e)) <= Len(q)
         /\ OnePerKind(Coalesced(q, e)) /\ (Increasing(q) => Increasing(Coalesced(q, e)))
         /\ \A x : x \in ToSet(Coalesced(q, e)) =>
                   x \in ToSet(q) /\ ~(x.kind = e.kind /\ e.kind \in Snapshots)
         /\ \A x : x \in ToSet(q) =>
                   x \in ToSet(Coalesced(q, e)) \/ (x.kind = e.kind /\ e.kind \in Snapshots)
<1> DEFINE I == {i \in 1..Len(q) : q[i].kind = e.kind}
           last == SelectLastInSeq(q, LAMBDA x : x.kind = e.kind)
<1>1. last = IF I # {} THEN Max(I) ELSE 0
  BY DEF SelectLastInSeq
<1>2. Coalesced(q, e) = IF e.kind \in Snapshots /\ last > 0 THEN RemoveAt(q, last) ELSE q
  BY DEF Coalesced
<1>3. Len(q) <= Len(q)
  OBVIOUS
<1>4. CASE e.kind \in Snapshots /\ I # {}
  <2>1. PICK i \in 1..Len(q) : q[i].kind = e.kind
    BY <1>4
  <2>2. \A j \in 1..Len(q) : q[j].kind = e.kind => j = i
    BY <1>4, <2>1, EventFacts DEF OnePerKind
  <2>3. I = {i} /\ i \in Nat
    BY <2>1, <2>2
  <2> HIDE DEF I, last
  <2>4. Max(I) = i
    BY <2>3 DEF Max
  <2>5. Coalesced(q, e) = RemoveAt(q, i)
    BY <1>1, <1>2, <1>4, <2>1, <2>4
  <2>6. QED
    BY <1>4, <2>1, <2>5, WithoutEvent
<1>5. CASE e.kind \in Snapshots /\ I = {}
  <2>1. Coalesced(q, e) = q
    BY <1>1, <1>2, <1>5
  <2>2. \A x \in ToSet(q) : x.kind # e.kind
    BY <1>5, EventFacts
  <2>3. QED
    BY <1>3, <2>1, <2>2
<1>6. CASE e.kind \notin Snapshots
  BY <1>2, <1>3, <1>6
<1>7. QED
  BY <1>4, <1>5, <1>6

\* A full inbox gives up its head for the new event.
LEMMA AdmittedItems ==
  ASSUME NEW q \in Seq(Events), NEW e \in Events, Len(q) <= MaxSize, OnePerKind(q), Increasing(q),
         \A x \in ToSet(q) : x.seq < e.seq /\ ~(x.kind = e.kind /\ e.kind \in Snapshots)
  PROVE  /\ Admitted(q, e) \in Seq(Events) /\ Len(Admitted(q, e)) <= MaxSize
         /\ OnePerKind(Admitted(q, e)) /\ Increasing(Admitted(q, e))
         /\ \A x : x \in ToSet(Admitted(q, e)) => x = e \/ x \in ToSet(q)
         /\ \A x : x = e \/ (x \in ToSet(q) /\ (Full(q) => x # Head(q))) =>
                   x \in ToSet(Admitted(q, e))
         /\ Full(q) => /\ Head(q) \in ToSet(q)
                       /\ \A x \in ToSet(Admitted(q, e)) : x.seq > Head(q).seq
<1>1. Len(q) \in Nat /\ MaxSize \in Nat \ {0}
  BY SizeAssumption
<1>2. CASE Full(q)
  <2>1. q # <<>> /\ Admitted(q, e) = Append(Tail(q), e) /\ Len(q) = MaxSize
    BY <1>1, <1>2 DEF Full, Admitted
  <2>2. /\ Tail(q) \in Seq(Events) /\ Len(Tail(q)) = Len(q) - 1 /\ Head(q) \in ToSet(q)
        /\ \A x : x \in ToSet(q) <=> x = Head(q) \/ x \in ToSet(Tail(q))
        /\ Increasing(Tail(q)) /\ OnePerKind(Tail(q))
        /\ \A x \in ToSet(Tail(q)) : x.seq > Head(q).seq
    BY <2>1, TailEvents
  <2>3. /\ Append(Tail(q), e) \in Seq(Events) /\ Len(Append(Tail(q), e)) = Len(Tail(q)) + 1
        /\ \A x : x \in ToSet(Append(Tail(q), e)) <=> x = e \/ x \in ToSet(Tail(q))
        /\ Increasing(Append(Tail(q), e)) /\ OnePerKind(Append(Tail(q), e))
    <3>1. PICK r \in Seq(Events) : r = Tail(q)
      BY <2>2
    <3>2. /\ Increasing(r) /\ OnePerKind(r)
          /\ \A x \in ToSet(r) : x.seq < e.seq /\ ~(x.kind = e.kind /\ e.kind \in Snapshots)
      BY <2>2, <3>1
    <3>3. QED
      BY <3>1, <3>2, AppendEvent
  <2>4. Head(q).seq < e.seq /\ Head(q).seq \in Nat /\ e.seq \in Nat
    BY <2>2, EventFacts
  <2>5. \A x \in ToSet(Append(Tail(q), e)) : x.seq > Head(q).seq
    BY <2>2, <2>3, <2>4
  <2>6. Len(Append(Tail(q), e)) <= MaxSize
    BY <1>1, <2>1, <2>2, <2>3
  <2>7. QED
    BY <1>2, <2>1, <2>2, <2>3, <2>5, <2>6
<1>3. CASE ~Full(q)
  <2>1. Admitted(q, e) = Append(q, e) /\ Len(q) + 1 <= MaxSize
    BY <1>1, <1>3 DEF Full, Admitted
  <2>2. QED
    BY <1>3, <2>1, AppendEvent
<1>4. QED
  BY <1>2, <1>3

-----------------------------------------------------------------------------
(* The steps of the hub *)

Of(c) == <<conn[c], scheduled[c], inbox[c], tracked[c], asked[c], shown[c], joined[c], alone[c],
           first[c], dropped[c]>>

\* What happens to one client leaves the others alone.
LEMMA OtherClient ==
  ASSUME NEW d \in Clients, ClientOK(d), UNCHANGED <<sequence, latest, Of(d)>>
  PROVE  ClientOK(d)'
<1>1. OnTheWay(d)' = OnTheWay(d)
  BY DEF OnTheWay, Of
<1>2. OrderOK(d)'
  BY <1>1 DEF ClientOK, OrderOK, Of
<1>3. ClosedOK(d)'
  BY <1>1 DEF ClientOK, ClosedOK, Of, NoneShown
<1>4. CurrentOK(d)'
  BY <1>1 DEF ClientOK, CurrentOK, Of, Subscribed
<1>5. LossOK(d)'
  BY <1>1 DEF ClientOK, LossOK, Of
<1>6. QED
  BY <1>2, <1>3, <1>4, <1>5 DEF ClientOK

\* What a client has on its way, as the invariant says it.
LEMMA WayFacts ==
  ASSUME CountersOK, NEW c \in Clients, OrderOK(c)
  PROVE  /\ scheduled[c] \in Seq(Events) /\ inbox[c] \in Seq(Events)
         /\ sequence \in Nat /\ MaxEvents \in Nat /\ sequence <= MaxEvents
         /\ tracked[c] \in 0..sequence /\ asked[c] \in 0..sequence /\ dropped[c] \in 0..sequence
         /\ joined[c] \in 0..sequence /\ first[c] \in 0..sequence
         /\ shown[c] \in [Snapshots -> 0..sequence]
         /\ \A x \in OnTheWay(c) : x \in Events /\ x.seq \in 1..sequence /\ x.kind \in Kinds
<1>1. MaxEvents \in Nat /\ sequence \in 0..MaxEvents
  BY SizeAssumption DEF CountersOK
<1>2. scheduled[c] \in Seq(Events) /\ inbox[c] \in Seq(Events)
  BY DEF CountersOK
<1>3. \A x \in OnTheWay(c) : x \in Events
  BY <1>2, EventFacts DEF OnTheWay
<1>4. QED
  BY <1>1, <1>2, <1>3, EventFacts DEF CountersOK, OrderOK

LEMMA PublishStep ==
  ASSUME HubInv, NEW k \in Kinds, Publish(k)
  PROVE  HubInv'
<1> PICK e : e = [kind |-> k, seq |-> sequence + 1]
  OBVIOUS
<1>1. /\ sequence \in Nat /\ sequence + 1 \in Nat /\ sequence' = sequence + 1
      /\ sequence + 1 \in 1..MaxEvents /\ sequence' \in 0..MaxEvents
      /\ e \in Events /\ e.seq = sequence' /\ e.kind = k
  BY SizeAssumption DEF HubInv, CountersOK, Publish, Events
<1>2. \A c \in Clients :
        /\ scheduled'[c] = IF Subscribed(c) THEN Append(scheduled[c], e) ELSE scheduled[c]
        /\ inbox'[c] = inbox[c] /\ conn'[c] = conn[c]
  BY DEF Publish
<1>3. /\ latest' \in [Snapshots -> 0..sequence']
      /\ \A j \in Snapshots : latest'[j] = IF j = k THEN sequence' ELSE latest[j]
      /\ \A j \in Snapshots : latest[j] \in 0..sequence
  BY <1>1 DEF HubInv, CountersOK, Publish
<1>4. ASSUME NEW c \in Clients
      PROVE  /\ scheduled'[c] \in Seq(Events)
             /\ \A x : x \in OnTheWay(c)' <=> x \in OnTheWay(c) \/ (Subscribed(c) /\ x = e)
             /\ OrderOK(c)'
  <2>1. /\ scheduled[c] \in Seq(Events) /\ inbox[c] \in Seq(Events)
        /\ Increasing(inbox[c]) /\ Increasing(scheduled[c])
        /\ \A x \in OnTheWay(c) : x.seq \in 1..sequence
        /\ dropped[c] \in 0..sequence /\ tracked[c] \in 0..sequence
    BY WayFacts DEF HubInv, ClientOK, OrderOK
  <2>2. \A x \in OnTheWay(c) : x.seq < e.seq
    BY <1>1, <2>1
  <2>3. /\ scheduled'[c] \in Seq(Events) /\ Increasing(scheduled'[c])
        /\ \A x : x \in ToSet(scheduled'[c]) <=> x \in ToSet(scheduled[c]) \/ (Subscribed(c) /\ x = e)
    BY <1>1, <1>2, <2>1, <2>2, AppendEvent DEF OnTheWay
  <2>4. \A x : x \in OnTheWay(c)' <=> x \in OnTheWay(c) \/ (Subscribed(c) /\ x = e)
    BY <1>2, <2>3 DEF OnTheWay
  <2>5. /\ Increasing(inbox'[c])
        /\ \A a \in ToSet(inbox'[c]), b \in ToSet(scheduled'[c]) : a.seq < b.seq
    BY <1>2, <2>1, <2>2, <2>3 DEF HubInv, ClientOK, OrderOK, OnTheWay
  <2>6. ASSUME NEW x \in OnTheWay(c)'
        PROVE  /\ x.seq <= sequence' /\ x.seq > dropped'[c]
               /\ conn'[c] = "on" => x.seq > tracked'[c]
               /\ x.kind \in Snapshots => x.seq <= latest'[x.kind]
    <3>1. dropped' = dropped /\ tracked' = tracked /\ conn' = conn
      BY DEF Publish, browser, history
    <3>2. CASE x = e
      BY <1>1, <1>3, <2>1, <3>1, <3>2
    <3>3. CASE x \in OnTheWay(c)
      BY <1>1, <1>3, <2>1, <3>1, <3>3 DEF HubInv, ClientOK, OrderOK
    <3>4. QED
      BY <2>4, <3>2, <3>3
  <2>7. QED
    BY <2>3, <2>4, <2>5, <2>6 DEF OrderOK
<1>5. CountersOK'
  <2>1. scheduled' \in [Clients -> Seq(Events)]
    BY <1>4 DEF Publish
  <2>2. QED
    BY <1>1, <1>3, <2>1 DEF HubInv, CountersOK, Publish, browser, history
<1>6. ASSUME NEW c \in Clients PROVE ClientOK(c)'
  <2>1. ClosedOK(c)'
    BY <1>1, <1>4 DEF HubInv, ClientOK, ClosedOK, Publish, browser, history, NoneShown, Subscribed
  <2>2. CurrentOK(c)'
    <3>1. ASSUME Subscribed(c)' PROVE Subscribed(c) /\ e \in OnTheWay(c)'
      BY <1>2, <1>4, <3>1 DEF Subscribed
    <3>2. ASSUME Subscribed(c), NEW j \in Snapshots, j # k, alone'[c] => latest'[j] > joined'[c]
          PROVE  \/ \E x \in OnTheWay(c)' : x.kind = j /\ x.seq = latest'[j]
                 \/ shown'[c][j] = latest'[j]
                 \/ latest'[j] <= dropped'[c]
      <4>1. /\ latest'[j] = latest[j] /\ alone' = alone /\ joined' = joined /\ shown' = shown
            /\ dropped' = dropped
        BY <1>3, <3>2 DEF Publish, browser, history
      <4>2. QED
        BY <1>4, <3>2, <4>1 DEF HubInv, ClientOK, CurrentOK
    <3>3. QED
      BY <1>1, <1>3, <3>1, <3>2 DEF CurrentOK
  <2>3. LossOK(c)'
    BY <1>4 DEF HubInv, ClientOK, LossOK, Publish, browser, history
  <2>4. QED
    BY <1>4, <2>1, <2>2, <2>3 DEF ClientOK
<1>7. QED
  BY <1>5, <1>6 DEF HubInv

LEMMA SubscribeStep ==
  ASSUME HubInv, NEW c \in Clients, Subscribe(c)
  PROVE  HubInv'
<1>1. PICK events \in IF InUse THEN Replay ELSE {<<>>} :
        scheduled' = [scheduled EXCEPT ![c] = events]
  BY DEF Subscribe
<1>2. /\ sequence \in Nat /\ MaxEvents \in Nat /\ sequence <= MaxEvents /\ sequence' = sequence
      /\ latest' = latest /\ \A j \in Snapshots : latest[j] \in 0..sequence
      /\ conn[c] = "off" /\ OnTheWay(c) = {} /\ dropped[c] = 0 /\ first[c] = 0
      /\ shown[c] = NoneShown
  BY SizeAssumption DEF HubInv, CountersOK, ClientOK, ClosedOK, Subscribe
<1>3. Retained \subseteq Events
  BY <1>2 DEF Retained, Events, Kinds
<1>4. /\ events \in Seq(Events) /\ Increasing(events)
      /\ \A x \in ToSet(events) : x \in Retained
      /\ InUse => ToSet(events) = Retained
  <2>1. CASE InUse
    <3>1. PICK n \in 0..Cardinality(Snapshots) : events \in [1..n -> Retained]
      BY <1>1, <2>1 DEF Replay, BoundedSeq, SeqOf
    <3>2. Cardinality(Snapshots) \in Nat
      BY KindAssumption, FS_CardinalityType
    <3>3. events \in Seq(Events)
      BY <1>3, <3>1, <3>2
    <3>4. QED
      BY <1>1, <2>1, <3>3 DEF Replay, Increasing
  <2>2. CASE ~InUse
    BY <1>1, <2>2 DEF Increasing, ToSet
  <2>3. QED
    BY <2>1, <2>2
<1>5. /\ scheduled'[c] = events /\ inbox'[c] = inbox[c] /\ conn'[c] = "hello"
      /\ joined'[c] = sequence /\ alone'[c] = ~InUse
      /\ first'[c] = first[c] /\ shown'[c] = shown[c] /\ dropped'[c] = dropped[c]
      /\ \A d \in Clients : d # c => UNCHANGED Of(d)
      /\ UNCHANGED <<tracked, asked>>
  BY <1>1 DEF HubInv, CountersOK, Subscribe, browser, Of
<1>6. CountersOK'
  <2>1. (~InUse) \in BOOLEAN
    OBVIOUS
  <2>2. alone' \in [Clients -> BOOLEAN]
    BY <2>1 DEF HubInv, CountersOK, Subscribe
  <2>3. /\ scheduled' \in [Clients -> Seq(Events)] /\ joined' \in [Clients -> 0..sequence]
        /\ conn' \in [Clients -> {"off", "hello", "on"}]
    BY <1>1, <1>2, <1>4 DEF HubInv, CountersOK, Subscribe
  <2>4. QED
    BY <1>2, <2>2, <2>3 DEF HubInv, CountersOK, Subscribe, browser
<1>7. ToSet(inbox[c]) = {} /\ Increasing(inbox[c])
  BY <1>2 DEF OnTheWay, HubInv, ClientOK, OrderOK
<1>8. OnTheWay(c)' = ToSet(events)
  BY <1>5, <1>7 DEF OnTheWay
<1>9. \A x \in Retained : x.kind \in Snapshots /\ x.seq = latest[x.kind] /\ x.seq \in 1..sequence
  BY <1>2 DEF Retained
<1>10. OrderOK(c)'
  BY <1>2, <1>4, <1>5, <1>7, <1>8, <1>9 DEF OrderOK
<1>11. ClosedOK(c)'
  BY <1>2, <1>5 DEF ClosedOK, NoneShown
<1>12. CurrentOK(c)'
  <2>1. ASSUME NEW j \in Snapshots, alone'[c] => latest'[j] > joined'[c]
        PROVE  \/ \E x \in OnTheWay(c)' : x.kind = j /\ x.seq = latest'[j]
               \/ latest'[j] <= dropped'[c]
    <3>1. CASE ~InUse
      <4>1. alone'[c]
        BY <1>5, <3>1
      <4>2. latest[j] > sequence
        BY <1>2, <1>5, <2>1, <4>1
      <4>3. QED
        BY <1>2, <4>2
    <3>2. CASE InUse /\ latest[j] # 0
      <4>1. [kind |-> j, seq |-> latest[j]] \in Retained
        BY <3>2 DEF Retained
      <4>2. QED
        BY <1>2, <1>4, <1>8, <3>2, <4>1
    <3>3. CASE latest[j] = 0
      BY <1>2, <1>5, <3>3
    <3>4. QED
      BY <3>1, <3>2, <3>3
  <2>2. QED
    BY <1>2, <1>5, <2>1 DEF CurrentOK
<1>13. LossOK(c)'
  BY <1>2, <1>5 DEF LossOK
<1>14. \A d \in Clients : ClientOK(d)'
  BY <1>2, <1>5, <1>10, <1>11, <1>12, <1>13, OtherClient DEF HubInv, ClientOK
<1>15. QED
  BY <1>6, <1>14 DEF HubInv

LEMMA UnsubscribeStep ==
  ASSUME HubInv, NEW c \in Clients, Unsubscribe(c)
  PROVE  HubInv'
<1>1. /\ sequence \in Nat /\ sequence' = sequence /\ 0 \in 0..sequence
      /\ conn'[c] = "off" /\ scheduled'[c] = <<>> /\ inbox'[c] = <<>>
      /\ first'[c] = 0 /\ dropped'[c] = 0 /\ shown'[c] = NoneShown
      /\ \A d \in Clients : d # c => UNCHANGED Of(d)
      /\ NoneShown \in [Snapshots -> 0..sequence]
  BY SizeAssumption DEF HubInv, CountersOK, Unsubscribe, browser, Of, NoneShown
<1>2. OnTheWay(c)' = {}
  BY <1>1 DEF OnTheWay, ToSet
<1>3. latest' = NoneShown \/ latest' = latest
  BY DEF Unsubscribe
<1>4. CountersOK'
  <2>1. \A d \in Clients : Len(inbox'[d]) <= MaxSize /\ OnePerKind(inbox'[d])
    <3>1. Len(inbox'[c]) <= MaxSize /\ OnePerKind(inbox'[c])
      BY <1>1, SizeAssumption DEF OnePerKind
    <3>2. QED
      BY <1>1, <3>1 DEF HubInv, CountersOK, Of
  <2>2. /\ scheduled' \in [Clients -> Seq(Events)] /\ inbox' \in [Clients -> Seq(Events)]
        /\ shown' \in [Clients -> [Snapshots -> 0..sequence]]
        /\ latest' \in [Snapshots -> 0..sequence]
    BY <1>1, <1>3 DEF HubInv, CountersOK, Unsubscribe
  <2>3. QED
    BY <1>1, <2>1, <2>2 DEF HubInv, CountersOK, Unsubscribe, browser
<1>5. ClientOK(c)'
  BY <1>1, <1>2 DEF ClientOK, OrderOK, ClosedOK, CurrentOK, LossOK, OnTheWay, Increasing, ToSet,
                    NoneShown, Subscribed
<1>6. ASSUME NEW d \in Clients, d # c PROVE ClientOK(d)'
  <2>1. CASE latest' = latest
    BY <1>1, <1>6, <2>1, OtherClient DEF HubInv
  <2>2. CASE latest' # latest
    <3>1. ~Subscribed(d)
      BY <1>6, <2>2 DEF Unsubscribe
    <3>2. /\ conn[d] = "off" /\ OnTheWay(d) = {}
      BY <3>1 DEF Subscribed, HubInv, ClientOK, ClosedOK
    <3>3. UNCHANGED Of(d) /\ OnTheWay(d)' = OnTheWay(d)
      BY <1>1, <1>6 DEF Of, OnTheWay
    <3>4. OrderOK(d)' /\ ClosedOK(d)' /\ LossOK(d)'
      BY <3>2, <3>3 DEF Of, HubInv, ClientOK, OrderOK, ClosedOK, LossOK, NoneShown, OnTheWay
    <3>5. CurrentOK(d)'
      BY <3>2, <3>3 DEF Of, CurrentOK, Subscribed
    <3>6. QED
      BY <3>4, <3>5 DEF ClientOK
  <2>3. QED
    BY <2>1, <2>2
<1>7. QED
  BY <1>4, <1>5, <1>6 DEF HubInv

\* The loop takes the oldest scheduled event: what is on its way loses at most what
\* the event makes superfluous and what the inbox has no room for.
LEMMA OfferStep ==
  ASSUME HubInv, NEW c \in Clients, Offer(c)
  PROVE  HubInv'
<1>1. PICK q, e, kept : q = inbox[c] /\ e = Head(scheduled[c]) /\ kept = Coalesced(inbox[c], e)
  OBVIOUS
<1>2. /\ q \in Seq(Events) /\ scheduled[c] \in Seq(Events) /\ scheduled[c] # <<>>
      /\ Len(q) <= MaxSize /\ OnePerKind(q) /\ Increasing(q) /\ Increasing(scheduled[c])
      /\ sequence \in Nat /\ dropped[c] \in 0..sequence
      /\ \A x \in OnTheWay(c) : x \in Events /\ x.seq \in 1..sequence
      /\ \A a \in ToSet(q), b \in ToSet(scheduled[c]) : a.seq < b.seq
  BY <1>1, WayFacts DEF Offer, HubInv, CountersOK, ClientOK, OrderOK
<1>3. /\ Tail(scheduled[c]) \in Seq(Events) /\ Increasing(Tail(scheduled[c]))
      /\ e \in ToSet(scheduled[c]) /\ e \in Events /\ e \in OnTheWay(c)
      /\ \A x : x \in ToSet(scheduled[c]) <=> x = e \/ x \in ToSet(Tail(scheduled[c]))
      /\ \A x \in ToSet(Tail(scheduled[c])) : x.seq > e.seq
  BY <1>1, <1>2, TailEvents, EventFacts DEF OnTheWay
<1>4. /\ kept \in Seq(Events) /\ Len(kept) <= MaxSize /\ OnePerKind(kept) /\ Increasing(kept)
      /\ \A x : x \in ToSet(kept) => x \in ToSet(q) /\ ~(x.kind = e.kind /\ e.kind \in Snapshots)
      /\ \A x : x \in ToSet(q) => x \in ToSet(kept) \/ (x.kind = e.kind /\ e.kind \in Snapshots)
  <2>1. /\ Coalesced(q, e) \in Seq(Events) /\ Len(Coalesced(q, e)) <= Len(q)
        /\ kept = Coalesced(q, e)
    BY <1>1, <1>2, <1>3, CoalescedItems
  <2>2. Len(kept) <= MaxSize
    BY <1>2, <2>1, SizeAssumption
  <2>3. QED
    BY <1>2, <1>3, <2>1, <2>2, CoalescedItems
<1>5. \A x \in ToSet(kept) : x.seq < e.seq
  BY <1>2, <1>3, <1>4
<1>6. PICK new : new = Admitted(kept, e)
  OBVIOUS
<1>7. /\ new \in Seq(Events) /\ Len(new) <= MaxSize /\ OnePerKind(new) /\ Increasing(new)
      /\ \A x : x \in ToSet(new) => x = e \/ x \in ToSet(kept)
      /\ \A x : x = e \/ (x \in ToSet(kept) /\ (Full(kept) => x # Head(kept))) => x \in ToSet(new)
      /\ Full(kept) => /\ Head(kept) \in ToSet(kept)
                       /\ \A x \in ToSet(new) : x.seq > Head(kept).seq
  BY <1>3, <1>4, <1>5, <1>6, AdmittedItems
<1>8. /\ inbox'[c] = new /\ scheduled'[c] = Tail(scheduled[c])
      /\ dropped'[c] = (IF Full(kept) THEN Newer(Head(kept).seq, dropped[c]) ELSE dropped[c])
      /\ inbox' = [inbox EXCEPT ![c] = new]
      /\ dropped' = [dropped EXCEPT ![c] = dropped'[c]]
      /\ \A d \in Clients : d # c => UNCHANGED Of(d)
      /\ UNCHANGED <<sequence, latest, others, conn, browser, shown, joined, alone, first>>
  BY <1>1, <1>6 DEF Offer, HubInv, CountersOK, Of, browser
<1>9. Full(kept) =>
        /\ dropped'[c] = Head(kept).seq /\ Head(kept) \in OnTheWay(c) /\ Head(kept).seq < e.seq
        /\ Head(kept).seq \in 1..sequence /\ dropped[c] < dropped'[c]
  <2>1. ASSUME Full(kept)
        PROVE  /\ Head(kept) \in OnTheWay(c) /\ Head(kept).seq > dropped[c]
               /\ Head(kept).seq \in 1..sequence /\ Head(kept).seq < e.seq
    BY <1>1, <1>2, <1>4, <1>5, <1>7, <2>1 DEF OnTheWay, HubInv, ClientOK, OrderOK
  <2>2. QED
    BY <1>2, <1>8, <2>1 DEF Newer
<1>10. dropped'[c] \in 0..sequence /\ dropped[c] <= dropped'[c]
  BY <1>2, <1>8, <1>9
<1>11. CountersOK'
  <2>1. /\ inbox' \in [Clients -> Seq(Events)] /\ scheduled' \in [Clients -> Seq(Events)]
        /\ \A d \in Clients : Len(inbox'[d]) <= MaxSize /\ OnePerKind(inbox'[d])
    BY <1>3, <1>7, <1>8 DEF HubInv, CountersOK, Offer
  <2>2. dropped' \in [Clients -> 0..sequence]
    BY <1>8, <1>10 DEF HubInv, CountersOK
  <2>3. QED
    BY <1>8, <2>1, <2>2 DEF HubInv, CountersOK, Offer, browser
<1>12. /\ \A x : x \in OnTheWay(c)' => x \in OnTheWay(c)
       /\ \A x : x \in ToSet(Tail(scheduled[c])) \/ x = e => x \in OnTheWay(c)'
       /\ \A x : x \in OnTheWay(c) =>
            \/ x \in OnTheWay(c)'
            \/ x.kind = e.kind /\ e.kind \in Snapshots /\ x.seq < e.seq
            \/ Full(kept) /\ x = Head(kept)
  <2>1. OnTheWay(c)' = ToSet(new) \cup ToSet(Tail(scheduled[c]))
    BY <1>8 DEF OnTheWay
  <2>2. OnTheWay(c) = ToSet(q) \cup ToSet(scheduled[c])
    BY <1>1 DEF OnTheWay
  <2>3. QED
    BY <1>2, <1>3, <1>4, <1>7, <2>1, <2>2
<1>13. OrderOK(c)'
  <2>1. \A a \in ToSet(new), b \in ToSet(Tail(scheduled[c])) : a.seq < b.seq
    BY <1>2, <1>3, <1>4, <1>7
  <2>2. ASSUME NEW x \in OnTheWay(c)' PROVE x.seq > dropped'[c]
    <3>1. x.seq > dropped[c] /\ x \in OnTheWay(c) /\ x.seq \in Nat /\ e.seq \in Nat
      BY <1>2, <1>3, <1>12 DEF HubInv, ClientOK, OrderOK
    <3>2. CASE ~Full(kept)
      BY <1>8, <3>1, <3>2
    <3>3. CASE Full(kept)
      <4>1. CASE x \in ToSet(new)
        BY <1>7, <1>9, <3>3, <4>1
      <4>2. CASE x \in ToSet(Tail(scheduled[c]))
        BY <1>2, <1>3, <1>9, <3>1, <3>3, <4>2
      <4>3. QED
        BY <1>8, <4>1, <4>2 DEF OnTheWay
    <3>4. QED
      BY <3>2, <3>3
  <2>3. QED
    BY <1>3, <1>7, <1>8, <1>12, <2>1, <2>2 DEF HubInv, ClientOK, OrderOK, browser
<1>14. ClosedOK(c)'
  <2>1. conn[c] # "off"
    BY <1>3 DEF HubInv, ClientOK, ClosedOK
  <2>2. QED
    BY <1>8, <2>1 DEF HubInv, ClientOK, ClosedOK, browser, NoneShown
<1>15. CurrentOK(c)'
  <2>1. ASSUME NEW x \in OnTheWay(c), x.seq = sequence
        PROVE  \E y \in OnTheWay(c)' : y.seq = sequence
    <3>1. e.seq <= sequence /\ e.seq \in Nat
      BY <1>2, <1>3
    <3>2. x \in OnTheWay(c)'
      BY <1>2, <1>9, <1>12, <2>1, <3>1
    <3>3. QED
      BY <2>1, <3>2
  <2>2. ASSUME NEW j \in Snapshots, NEW x \in OnTheWay(c), x.kind = j, x.seq = latest[j]
        PROVE  \/ \E y \in OnTheWay(c)' : y.kind = j /\ y.seq = latest[j]
               \/ latest[j] <= dropped'[c]
    <3>1. CASE x \in OnTheWay(c)'
      BY <2>2, <3>1
    <3>2. CASE x.kind = e.kind /\ e.kind \in Snapshots /\ x.seq < e.seq
      <4>1. e.seq <= latest[j] /\ e.seq \in Nat
        BY <1>2, <1>3, <2>2, <3>2 DEF HubInv, ClientOK, OrderOK
      <4>2. QED
        BY <1>2, <2>2, <3>2, <4>1
    <3>3. CASE Full(kept) /\ x = Head(kept)
      BY <1>2, <1>9, <2>2, <3>3
    <3>4. QED
      BY <1>12, <3>1, <3>2, <3>3
  <2>3. ASSUME NEW j \in Snapshots, latest[j] <= dropped[c] PROVE latest[j] <= dropped'[c]
    BY <1>2, <1>10, <2>3 DEF HubInv, CountersOK
  <2>4. QED
    BY <1>8, <2>1, <2>2, <2>3 DEF HubInv, ClientOK, CurrentOK, Subscribed, browser
<1>16. LossOK(c)'
  <2>1. SUFFICES ASSUME first[c] > 0, dropped'[c] > first[c]
                 PROVE  asked[c] >= dropped'[c] \/ (dropped'[c] > tracked[c] /\ OnTheWay(c)' # {})
    BY <1>8 DEF LossOK, browser
  <2>2. e \in OnTheWay(c)'
    BY <1>12
  <2>3. CASE ~Full(kept)
    BY <1>8, <2>1, <2>2, <2>3 DEF HubInv, ClientOK, LossOK
  <2>4. CASE Full(kept)
    <3>1. conn[c] = "on"
      BY <1>2, <2>1 DEF HubInv, ClientOK, ClosedOK
    <3>2. Head(kept).seq > tracked[c]
      BY <1>9, <2>4, <3>1 DEF HubInv, ClientOK, OrderOK
    <3>3. QED
      BY <1>9, <2>2, <2>4, <3>2
  <2>5. QED
    BY <2>3, <2>4
<1>17. \A d \in Clients : ClientOK(d)'
  BY <1>8, <1>13, <1>14, <1>15, <1>16, OtherClient DEF HubInv, ClientOK
<1>18. QED
  BY <1>11, <1>17 DEF HubInv

\* The browser gets the oldest event of the inbox, which is newer than what it has.
LEMMA DeliverStep ==
  ASSUME HubInv, NEW c \in Clients, Deliver(c)
  PROVE  HubInv'
<1>1. PICK e : e = Head(inbox[c])
  OBVIOUS
<1>2. /\ inbox[c] \in Seq(Events) /\ scheduled[c] \in Seq(Events) /\ inbox[c] # <<>>
      /\ Increasing(inbox[c]) /\ OnePerKind(inbox[c])
      /\ Len(inbox[c]) <= MaxSize /\ Len(inbox[c]) \in Nat /\ MaxSize \in Nat
      /\ conn[c] = "on" /\ sequence \in Nat
      /\ tracked[c] \in 0..sequence /\ asked[c] \in 0..sequence /\ dropped[c] \in 0..sequence
      /\ first[c] \in 0..sequence /\ shown[c] \in [Snapshots -> 0..sequence]
      /\ \A x \in OnTheWay(c) : x \in Events /\ x.seq \in 1..sequence /\ x.seq > tracked[c]
      /\ \A a \in ToSet(inbox[c]), b \in ToSet(scheduled[c]) : a.seq < b.seq
  BY WayFacts, SizeAssumption, EventFacts DEF Deliver, HubInv, CountersOK, ClientOK, OrderOK
<1>3. /\ Tail(inbox[c]) \in Seq(Events) /\ Len(Tail(inbox[c])) = Len(inbox[c]) - 1
      /\ Increasing(Tail(inbox[c])) /\ OnePerKind(Tail(inbox[c]))
      /\ e \in ToSet(inbox[c])
      /\ \A x : x \in ToSet(inbox[c]) <=> x = e \/ x \in ToSet(Tail(inbox[c]))
      /\ \A x \in ToSet(Tail(inbox[c])) : x.seq > e.seq
  BY <1>1, <1>2, TailEvents
<1>4. e \in OnTheWay(c) /\ ~Stale(c, e.seq) /\ e.seq \in 1..sequence /\ e.seq > tracked[c]
  BY <1>2, <1>3 DEF OnTheWay, Stale
<1>5. /\ inbox'[c] = Tail(inbox[c]) /\ tracked'[c] = e.seq
      /\ asked'[c] = (IF Gap(c, e.seq) THEN sequence ELSE asked[c])
      /\ shown'[c] = [k \in Snapshots |-> IF k = e.kind THEN e.seq ELSE shown[c][k]]
      /\ first'[c] = (IF first[c] = 0 THEN e.seq ELSE first[c])
      /\ \A d \in Clients : d # c => UNCHANGED Of(d)
      /\ UNCHANGED <<sequence, latest, others, conn, scheduled, joined, alone, dropped>>
  BY <1>1, <1>4 DEF Deliver, HubInv, CountersOK, Of
<1>6. /\ asked'[c] \in 0..sequence /\ asked'[c] >= asked[c]
      /\ first'[c] \in 0..sequence /\ first'[c] > 0
      /\ shown'[c] \in [Snapshots -> 0..sequence]
  BY <1>2, <1>4, <1>5
<1>7. CountersOK'
  <2>1. /\ inbox' \in [Clients -> Seq(Events)]
        /\ \A d \in Clients : Len(inbox'[d]) <= MaxSize /\ OnePerKind(inbox'[d])
    <3>1. inbox' = [inbox EXCEPT ![c] = Tail(inbox[c])]
      BY DEF Deliver
    <3>2. Len(Tail(inbox[c])) <= MaxSize
      BY <1>2, <1>3
    <3>3. QED
      BY <1>3, <3>1, <3>2 DEF HubInv, CountersOK
  <2>2. /\ asked' \in [Clients -> 0..sequence] /\ first' \in [Clients -> 0..sequence]
        /\ tracked' \in [Clients -> 0..sequence]
        /\ shown' \in [Clients -> [Snapshots -> 0..sequence]]
    <3>1. /\ DOMAIN asked' = Clients /\ asked' = [asked EXCEPT ![c] = asked'[c]]
          /\ DOMAIN first' = Clients /\ first' = [first EXCEPT ![c] = first'[c]]
          /\ DOMAIN tracked' = Clients /\ tracked' = [tracked EXCEPT ![c] = tracked'[c]]
          /\ DOMAIN shown' = Clients /\ shown' = [shown EXCEPT ![c] = shown'[c]]
      BY DEF Deliver, HubInv, CountersOK
    <3>2. asked' \in [Clients -> 0..sequence]
      BY <1>6, <3>1 DEF HubInv, CountersOK
    <3>3. first' \in [Clients -> 0..sequence]
      BY <1>6, <3>1 DEF HubInv, CountersOK
    <3>4. tracked' \in [Clients -> 0..sequence]
      <4>1. tracked'[c] \in 0..sequence
        BY <1>2, <1>4, <1>5
      <4>2. QED
        BY <3>1, <4>1 DEF HubInv, CountersOK
    <3>5. shown' \in [Clients -> [Snapshots -> 0..sequence]]
      BY <1>6, <3>1 DEF HubInv, CountersOK
    <3>6. QED
      BY <3>2, <3>3, <3>4, <3>5
  <2>3. known' \in [Clients -> BOOLEAN] /\ available' \in [Clients -> BOOLEAN]
    <3>1. \A a, b : (a \/ b) \in BOOLEAN /\ (a /\ b) \in BOOLEAN
      OBVIOUS
    <3>2. QED
      BY <3>1 DEF Deliver, HubInv, CountersOK
  <2>4. blocked' \in [Clients -> BOOLEAN]
    BY DEF Deliver, HubInv, CountersOK
  <2>5. QED
    BY <1>5, <2>1, <2>2, <2>3, <2>4 DEF HubInv, CountersOK
<1>8. /\ \A x : x \in OnTheWay(c) <=> x = e \/ x \in OnTheWay(c)'
      /\ \A x \in OnTheWay(c)' : x.seq > e.seq
  BY <1>3, <1>5, <1>2 DEF OnTheWay
<1>9. OrderOK(c)'
  BY <1>2, <1>3, <1>5, <1>8 DEF HubInv, ClientOK, OrderOK
<1>10. ClosedOK(c)'
  <2>1. ASSUME NEW k \in Snapshots PROVE shown'[c][k] <= tracked'[c]
    <3>1. shown[c][k] <= tracked[c] /\ shown[c][k] \in Nat
      BY <1>2 DEF HubInv, ClientOK, ClosedOK
    <3>2. QED
      BY <1>2, <1>4, <1>5, <3>1
  <2>2. QED
    BY <1>2, <1>4, <1>5, <2>1 DEF ClosedOK
<1>11. CurrentOK(c)'
  <2>1. joined[c] # sequence => tracked'[c] = sequence \/ \E x \in OnTheWay(c)' : x.seq = sequence
    <3>1. ASSUME joined[c] # sequence PROVE \E x \in OnTheWay(c) : x.seq = sequence
      <4>1. tracked[c] # sequence
        BY <1>2, <1>4
      <4>2. QED
        BY <1>2, <3>1, <4>1 DEF HubInv, ClientOK, CurrentOK, Subscribed
    <3>2. QED
      BY <1>5, <1>8, <3>1
  <2>2. ASSUME NEW k \in Snapshots, alone[c] => latest[k] > joined[c]
        PROVE  \/ \E x \in OnTheWay(c)' : x.kind = k /\ x.seq = latest[k]
               \/ shown'[c][k] = latest[k]
               \/ latest[k] <= dropped[c]
    <3>1. \/ \E x \in OnTheWay(c) : x.kind = k /\ x.seq = latest[k]
          \/ shown[c][k] = latest[k]
          \/ latest[k] <= dropped[c]
      BY <1>2, <2>2 DEF HubInv, ClientOK, CurrentOK, Subscribed
    <3>2. CASE k = e.kind
      <4>1. shown'[c][k] = e.seq /\ e.seq <= latest[k] /\ latest[k] \in 0..sequence
        BY <1>4, <1>5, <3>2 DEF HubInv, CountersOK, ClientOK, OrderOK
      <4>2. shown[c][k] # latest[k]
        <5>1. shown[c][k] <= tracked[c] /\ shown[c][k] \in Nat
          BY <1>2 DEF HubInv, ClientOK, ClosedOK
        <5>2. QED
          BY <1>2, <1>4, <4>1, <5>1
      <4>3. ASSUME NEW x \in OnTheWay(c), x.kind = k, x.seq = latest[k], x # e
            PROVE  x \in OnTheWay(c)'
        BY <1>8, <4>3
      <4>4. QED
        BY <3>1, <4>1, <4>2, <4>3
    <3>3. CASE k # e.kind
      BY <1>5, <1>8, <3>1, <3>3
    <3>4. QED
      BY <3>2, <3>3
  <2>3. QED
    BY <1>2, <1>5, <2>1, <2>2 DEF CurrentOK
<1>12. LossOK(c)'
  <2>1. SUFFICES ASSUME dropped[c] > first'[c] PROVE asked'[c] >= dropped[c]
    BY <1>5 DEF LossOK
  <2>2. first[c] > 0 /\ first'[c] = first[c]
    <3>1. e.seq > dropped[c]
      BY <1>4 DEF HubInv, ClientOK, OrderOK
    <3>2. QED
      BY <1>2, <1>4, <1>5, <2>1, <3>1
  <2>3. CASE asked[c] >= dropped[c]
    BY <1>2, <1>6, <2>3
  <2>4. CASE dropped[c] > tracked[c]
    <3>1. tracked[c] > 0 /\ e.seq > dropped[c]
      BY <1>4, <2>2 DEF HubInv, ClientOK, ClosedOK, OrderOK
    <3>2. Gap(c, e.seq)
      BY <1>2, <1>4, <2>4, <3>1 DEF Gap
    <3>3. QED
      BY <1>2, <1>5, <3>2
  <2>5. QED
    BY <2>1, <2>2, <2>3, <2>4 DEF HubInv, ClientOK, LossOK
<1>13. \A d \in Clients : ClientOK(d)'
  BY <1>5, <1>9, <1>10, <1>11, <1>12, OtherClient DEF HubInv, ClientOK
<1>14. QED
  BY <1>7, <1>13 DEF HubInv

\* Greeting, asking for /status, heartbeats, waiting and other pages.
LEMMA QuietStep ==
  ASSUME HubInv,
         \/ OthersJoin \/ OthersLeave
         \/ \E c \in Clients : Block(c) \/ Refresh(c) \/ Hello(c) \/ Ping(c)
  PROVE  HubInv'
<1>1. /\ sequence \in Nat /\ sequence' = sequence
      /\ UNCHANGED <<scheduled, inbox, shown, joined, alone, first, dropped>>
      /\ NoneShown \in [Snapshots -> 0..sequence]
  BY SizeAssumption
     DEF HubInv, CountersOK, OthersJoin, OthersLeave, Block, Refresh, Hello, Ping, subscription,
         browser, history, NoneShown
<1>2. ASSUME NEW d \in Clients
      PROVE  /\ asked'[d] \in 0..sequence /\ asked'[d] >= asked[d]
             /\ OnTheWay(d)' = OnTheWay(d) /\ asked[d] \in 0..sequence
             /\ \/ conn'[d] = conn[d] /\ tracked'[d] = tracked[d]
                \/ conn[d] = "hello" /\ conn'[d] = "on" /\ tracked'[d] = 0
             /\ latest' = latest \/ conn[d] = "off"
  BY <1>1
     DEF HubInv, CountersOK, OthersJoin, OthersLeave, Block, Refresh, Hello, Ping, subscription,
         browser, history, OnTheWay, Subscribed
<1>3. CountersOK'
  <2> USE DEF subscription, browser, history
  <2>1. /\ asked' \in [Clients -> 0..sequence] /\ tracked' \in [Clients -> 0..sequence]
        /\ latest' \in [Snapshots -> 0..sequence] /\ conn' \in [Clients -> {"off", "hello", "on"}]
    <3>1. CASE OthersJoin \/ OthersLeave
      BY <1>1, <3>1 DEF HubInv, CountersOK, OthersJoin, OthersLeave
    <3>2. ASSUME NEW c \in Clients, Block(c) \/ Refresh(c)
          PROVE  asked' \in [Clients -> 0..sequence] /\ UNCHANGED <<tracked, latest, conn>>
      <4>1. sequence \in 0..sequence
        BY <1>1
      <4>2. CASE Block(c)
        BY <4>2 DEF HubInv, CountersOK, Block
      <4>3. CASE Refresh(c)
        BY <4>1, <4>3 DEF HubInv, CountersOK, Refresh
      <4>4. QED
        BY <3>2, <4>2, <4>3
    <3>3. ASSUME NEW c \in Clients, Hello(c)
          PROVE  /\ asked' \in [Clients -> 0..sequence] /\ tracked' \in [Clients -> 0..sequence]
                 /\ latest' = latest /\ conn' \in [Clients -> {"off", "hello", "on"}]
      <4>1. sequence \in 0..sequence /\ 0 \in 0..sequence /\ asked[c] \in 0..sequence
        BY <1>1 DEF HubInv, CountersOK
      <4>2. QED
        BY <3>3, <4>1 DEF HubInv, CountersOK, Hello
    <3>4. CASE \E c \in Clients : Ping(c)
      BY <1>1, <3>4 DEF HubInv, CountersOK, Ping
    <3>5. QED
      BY <3>1, <3>2, <3>3, <3>4 DEF HubInv, CountersOK
  <2>2. /\ known' \in [Clients -> BOOLEAN] /\ available' \in [Clients -> BOOLEAN]
        /\ blocked' \in [Clients -> BOOLEAN] /\ others' \in BOOLEAN
    BY DEF HubInv, CountersOK, OthersJoin, OthersLeave, Block, Refresh, Hello, Ping, subscription,
           browser, history
  <2>3. QED
    BY <1>1, <2>1, <2>2 DEF HubInv, CountersOK
<1>4. ASSUME NEW d \in Clients PROVE ClientOK(d)'
  <2>1. OrderOK(d)'
    <3>1. \A x \in OnTheWay(d) : x.seq \in 1..sequence
      BY WayFacts DEF HubInv, ClientOK
    <3>2. OnTheWay(d) # {} => latest' = latest
      BY <1>2 DEF HubInv, ClientOK, ClosedOK
    <3>3. QED
      BY <1>1, <1>2, <3>1, <3>2 DEF HubInv, ClientOK, OrderOK
  <2>2. ClosedOK(d)'
    BY <1>1, <1>2 DEF HubInv, ClientOK, ClosedOK, NoneShown
  <2>3. CurrentOK(d)'
    BY <1>1, <1>2 DEF HubInv, ClientOK, CurrentOK, Subscribed
  <2>4. LossOK(d)'
    <3>1. /\ dropped[d] \in 0..sequence /\ first[d] \in 0..sequence
      BY DEF HubInv, CountersOK
    <3>2. first[d] > 0 => conn[d] = "on"
      BY DEF HubInv, ClientOK, ClosedOK
    <3>3. QED
      BY <1>1, <1>2, <3>1, <3>2 DEF HubInv, ClientOK, LossOK
  <2>5. QED
    BY <2>1, <2>2, <2>3, <2>4 DEF ClientOK
<1>5. QED
  BY <1>3, <1>4 DEF HubInv

-----------------------------------------------------------------------------
(* The theorems of the hub *)

\* The invariant of the hub.
THEOREM HubInvariance == HubSpec => []HubInv
<1>1. HubInit => HubInv
  <2> SUFFICES ASSUME HubInit PROVE HubInv
    OBVIOUS
  <2>1. /\ MaxEvents \in Nat /\ MaxSize \in Nat /\ <<>> \in Seq(Events) /\ Len(<<>>) = 0
        /\ OnePerKind(<<>>) /\ NoneShown \in [Snapshots -> 0..0]
    BY SizeAssumption DEF OnePerKind, NoneShown
  <2>2. CountersOK
    <3>1. /\ sequence \in 0..MaxEvents /\ others \in BOOLEAN
          /\ latest \in [Snapshots -> 0..sequence]
          /\ shown \in [Clients -> [Snapshots -> 0..sequence]]
      <4>1. sequence = 0 /\ latest = NoneShown /\ shown = [c \in Clients |-> NoneShown]
            /\ others = FALSE
        BY DEF HubInit
      <4>2. NoneShown \in [Snapshots -> 0..sequence]
        BY <2>1, <4>1
      <4>3. latest \in [Snapshots -> 0..sequence]
        BY <4>1, <4>2
      <4>4. shown \in [Clients -> [Snapshots -> 0..sequence]]
        BY <4>1, <4>2
      <4>5. sequence \in 0..MaxEvents
        BY <2>1, <4>1
      <4>6. others \in BOOLEAN
        BY <4>1
      <4>7. QED
        BY <4>3, <4>4, <4>5, <4>6
    <3>2. /\ conn \in [Clients -> {"off", "hello", "on"}]
          /\ available \in [Clients -> BOOLEAN] /\ blocked \in [Clients -> BOOLEAN]
          /\ known \in [Clients -> BOOLEAN] /\ alone \in [Clients -> BOOLEAN]
      BY DEF HubInit
    <3>3. /\ tracked \in [Clients -> 0..sequence] /\ asked \in [Clients -> 0..sequence]
          /\ joined \in [Clients -> 0..sequence] /\ first \in [Clients -> 0..sequence]
          /\ dropped \in [Clients -> 0..sequence]
      BY DEF HubInit
    <3>4. /\ scheduled \in [Clients -> Seq(Events)] /\ inbox \in [Clients -> Seq(Events)]
          /\ \A c \in Clients : Len(inbox[c]) <= MaxSize /\ OnePerKind(inbox[c])
      BY <2>1 DEF HubInit
    <3>5. QED
      BY <3>1, <3>2, <3>3, <3>4 DEF CountersOK
  <2>3. \A c \in Clients : ClientOK(c)
    BY <2>1 DEF HubInit, ClientOK, OrderOK, ClosedOK, CurrentOK, LossOK, OnTheWay, Increasing,
                ToSet, NoneShown, Subscribed
  <2>4. QED
    BY <2>2, <2>3 DEF HubInv
<1>2. HubInv /\ [HubNext]_hubvars => HubInv'
  <2> SUFFICES ASSUME HubInv, [HubNext]_hubvars PROVE HubInv'
    OBVIOUS
  <2>1. CASE UNCHANGED hubvars
    <3>1. CountersOK'
      BY <2>1 DEF HubInv, CountersOK, hubvars, subscription, browser, history, OnePerKind
    <3>2. \A c \in Clients : ClientOK(c)'
      BY <2>1, OtherClient DEF HubInv, hubvars, subscription, browser, history, Of
    <3>3. QED
      BY <3>1, <3>2 DEF HubInv
  <2>2. CASE \E k \in Kinds : Publish(k)
    BY <2>2, PublishStep
  <2>3. ASSUME NEW c \in Clients, Subscribe(c) \/ Unsubscribe(c) \/ Offer(c) \/ Deliver(c)
        PROVE  HubInv'
    BY <2>3, SubscribeStep, UnsubscribeStep, OfferStep, DeliverStep
  <2>4. CASE \/ OthersJoin \/ OthersLeave
             \/ \E c \in Clients : Block(c) \/ Refresh(c) \/ Hello(c) \/ Ping(c)
    BY <2>4, QuietStep
  <2>5. QED
    BY <2>1, <2>2, <2>3, <2>4 DEF HubNext
<1>3. QED
  BY <1>1, <1>2, PTL DEF HubSpec

\* Everything on its way is the inbox, and then what is scheduled.
LEMMA PipeIsWay ==
  ASSUME HubInv, NEW c \in Clients
  PROVE  /\ \A i, j \in DOMAIN Pipe(c) : i < j => Pipe(c)[i].seq < Pipe(c)[j].seq
         /\ \A i \in DOMAIN Pipe(c) : Pipe(c)[i] \in OnTheWay(c)
         /\ Pipe(c) = <<>> => OnTheWay(c) = {}
<1>1. PICK p, q \in Seq(Events) : p = inbox[c] /\ q = scheduled[c]
  BY DEF HubInv, CountersOK
<1>2. /\ Len(p) \in Nat /\ Len(q) \in Nat
      /\ \A i, j \in 1..Len(p) : i < j => p[i].seq < p[j].seq
      /\ \A i, j \in 1..Len(q) : i < j => q[i].seq < q[j].seq
      /\ \A i \in 1..Len(p), j \in 1..Len(q) : p[i].seq < q[j].seq
      /\ \A i \in 1..Len(p) : p[i] \in OnTheWay(c)
      /\ \A i \in 1..Len(q) : q[i] \in OnTheWay(c)
  <2>1. /\ Increasing(p) /\ Increasing(q)
        /\ \A a \in ToSet(p), b \in ToSet(q) : a.seq < b.seq
    BY <1>1 DEF HubInv, ClientOK, OrderOK
  <2>2. /\ Len(p) \in Nat /\ DOMAIN p = 1..Len(p) /\ \A i \in 1..Len(p) : p[i] \in ToSet(p)
        /\ Len(q) \in Nat /\ DOMAIN q = 1..Len(q) /\ \A i \in 1..Len(q) : q[i] \in ToSet(q)
    BY EventFacts
  <2>3. /\ \A i \in 1..Len(p) : p[i] \in OnTheWay(c)
        /\ \A i \in 1..Len(q) : q[i] \in OnTheWay(c)
    BY <1>1, <2>2 DEF OnTheWay
  <2>4. QED
    BY <2>1, <2>2, <2>3 DEF Increasing
<1>3. PICK w \in Seq(Events) : w = p \o q
  <2>1. p \o q \in Seq(Events)
    OBVIOUS
  <2>2. QED
    BY <2>1
<1>4. /\ Len(w) = Len(p) + Len(q) /\ Pipe(c) = w /\ DOMAIN w = 1..Len(w)
      /\ \A i \in 1..Len(w) : i \in 1..Len(p) => w[i] = p[i]
      /\ \A i \in 1..Len(w) : i \notin 1..Len(p) => i - Len(p) \in 1..Len(q) /\ w[i] = q[i - Len(p)]
  <2>1. Len(w) = Len(p) + Len(q) /\ DOMAIN w = 1..Len(w)
    BY <1>3
  <2>2. Pipe(c) = w
    BY <1>1, <1>3 DEF Pipe
  <2>3. ASSUME NEW i \in 1..Len(w), i \in 1..Len(p) PROVE w[i] = p[i]
    BY <1>3, <2>3
  <2>4. ASSUME NEW i \in 1..Len(w), i \notin 1..Len(p)
        PROVE  i - Len(p) \in 1..Len(q) /\ w[i] = q[i - Len(p)]
    <3>1. i - Len(p) \in 1..Len(q) /\ i > Len(p) /\ i <= Len(p) + Len(q)
      BY <1>2, <2>1, <2>4
    <3>2. QED
      BY <1>3, <3>1
  <2>5. QED
    BY <2>1, <2>2, <2>3, <2>4
<1>5. ASSUME NEW i \in 1..Len(w), NEW j \in 1..Len(w), i < j PROVE w[i].seq < w[j].seq
  <2>1. CASE j \in 1..Len(p)
    BY <1>2, <1>4, <1>5, <2>1
  <2>2. CASE i \notin 1..Len(p)
    <3>1. j \notin 1..Len(p) /\ i - Len(p) < j - Len(p)
      BY <1>2, <1>4, <1>5, <2>2
    <3>2. QED
      BY <1>2, <1>4, <2>2, <3>1
  <2>3. CASE i \in 1..Len(p) /\ j \notin 1..Len(p)
    BY <1>2, <1>4, <2>3
  <2>4. QED
    BY <2>1, <2>2, <2>3
<1>6. \A i \in 1..Len(w) : w[i] \in OnTheWay(c)
  BY <1>2, <1>4
<1>7. w = <<>> => OnTheWay(c) = {}
  <2>1. w = <<>> => Len(p) = 0 /\ Len(q) = 0
    BY <1>2, <1>4
  <2>2. QED
    BY <1>1, <2>1 DEF OnTheWay, ToSet
<1>8. QED
  BY <1>4, <1>5, <1>6, <1>7

\* Application events are delivered in increasing order, whoever publishes, coalesces,
\* overflows or replays (publish, _offer_on_loop and subscribe).
THEOREM EventsInOrder == HubSpec => []DeliveryInOrder
<1>1. HubInv => DeliveryInOrder
  <2> SUFFICES ASSUME HubInv PROVE DeliveryInOrder
    OBVIOUS
  <2>1. HubTypeOK
    BY DEF HubInv, CountersOK, HubTypeOK, OnePerKind
  <2>2. ASSUME NEW c \in Clients, conn[c] = "on", NEW i \in DOMAIN Pipe(c)
        PROVE  Pipe(c)[i].seq > tracked[c]
    <3>1. Pipe(c)[i] \in OnTheWay(c)
      BY PipeIsWay
    <3>2. QED
      BY <2>2, <3>1 DEF HubInv, ClientOK, OrderOK
  <2>3. QED
    BY <2>1, <2>2, PipeIsWay DEF DeliveryInOrder
<1>2. QED
  BY <1>1, HubInvariance, PTL

\* A browser that has received everything has received the newest event and shows the
\* newest snapshot of each kind, but for what a full inbox lost (subscribe with its
\* replay, and _offer_on_loop, which never loses the event that it offers).
THEOREM DrainedBrowserIsCurrent == HubSpec => []DrainedIsCurrent
<1>1. HubInv => DrainedIsCurrent
  <2> SUFFICES ASSUME HubInv, NEW c \in Clients, Drained(c)
               PROVE  /\ tracked[c] = sequence \/ joined[c] = sequence
                      /\ \A k \in Snapshots :
                           (alone[c] => latest[k] > joined[c]) =>
                             shown[c][k] = latest[k] \/ latest[k] <= dropped[c]
    BY DEF DrainedIsCurrent
  <2>1. OnTheWay(c) = {} /\ Subscribed(c)
    BY PipeIsWay DEF Drained, Subscribed
  <2>2. QED
    BY <2>1 DEF HubInv, ClientOK, CurrentOK
<1>2. QED
  BY <1>1, HubInvariance, PTL

\* No event is lost silently: the browser asks for /status when what a full inbox lost
\* came after the first event it applied (createSequenceTracker against drop-oldest).
THEOREM LossesAreRepaired == HubSpec => []LossesAreNoticed
<1>1. HubInv => LossesAreNoticed
  BY PipeIsWay DEF HubInv, ClientOK, LossOK, LossesAreNoticed, Drained
<1>2. QED
  BY <1>1, HubInvariance, PTL
=============================================================================
