------------------------------ MODULE PlexLink ------------------------------
(***************************************************************************)
(* The Plex account and the selected server (integrations/plex_auth.py,    *)
(* routes/plex.py): linking by flows that are polled, selecting a server,  *)
(* refreshing tokens, unlinking, and the plays that depend on them.        *)
(* Everything that asks plex.tv does so between two holds of the manager's *)
(* lock and compares the generation it saw first; plays, selections and    *)
(* unlinking also exclude each other by PLEX_LIFECYCLE_LOCK.               *)
(***************************************************************************)
EXTENDS Integers

CONSTANTS Accounts,  \* Plex accounts that may be linked
          Machines,  \* Plex media servers
          Flows,     \* link flows
          MaxGen     \* bound on generations

ASSUME PlexBounds == MaxGen \in Nat

None == "none"
NoServer == [machine |-> None, of |-> None, jwt |-> FALSE]
\* of: the account whose token found the server.
Servers == [machine : Machines, of : Accounts, jwt : BOOLEAN]

VARIABLES
    account, server,  \* the store, plex_auth.json
    gen,              \* _generation
    flows,            \* _flows: the flows that can still complete
    link,             \* each flow: step, generation at its start, account that approved it
    lifecycle,        \* who holds PLEX_LIFECYCLE_LOCK: "play", "select" or None
    selecting,        \* a selection under way
    refresh,          \* a token refresh under way
    session,          \* a PlexServerSession under way
    title,            \* machine of the Plex title that a play has resolved
    playing,          \* machine of the Plex title that plays, or None
    relinked          \* history: a link was completed since that title was resolved

xvars == <<account, server, gen, flows, link, lifecycle, selecting, refresh, session, title,
           playing, relinked>>

NoAsk == [gen |-> -1, account |-> None, machine |-> None, jwt |-> FALSE]

PlexInit ==
    /\ account = None /\ server = NoServer /\ gen = 0 /\ flows = {}
    /\ link = [f \in Flows |-> [step |-> "new", gen |-> 0, account |-> None]]
    /\ lifecycle = None /\ selecting = NoAsk /\ refresh = NoAsk /\ session = NoAsk
    /\ title = None /\ playing = None /\ relinked = FALSE

\* What a request remembers when it releases the manager's lock.
Seen(machine) == [gen |-> gen, account |-> account, machine |-> machine, jwt |-> server.jwt]

-----------------------------------------------------------------------------
(* Linking *)

\* start_link reads the generation, asks plex.tv for a PIN ...
StartLink(f) ==
    /\ link[f].step = "new"
    /\ link' = [link EXCEPT ![f] = [step |-> "asked", gen |-> gen, account |-> None]]
    /\ UNCHANGED <<account, server, gen, flows, lifecycle, selecting, refresh, session, title,
                   playing, relinked>>

\* ... and registers the flow unless the generation has moved on.
RegisterFlow(f) ==
    /\ link[f].step = "asked"
    /\ IF link[f].gen = gen
       THEN flows' = flows \cup {f} /\ link' = [link EXCEPT ![f].step = "live"]
       ELSE flows' = flows /\ link' = [link EXCEPT ![f].step = "refused"]
    /\ UNCHANGED <<account, server, gen, lifecycle, selecting, refresh, session, title, playing,
                   relinked>>

\* A poll finds that the user has approved the PIN.
Approved(f, a) ==
    /\ f \in flows /\ link[f].step = "live"
    /\ link' = [link EXCEPT ![f] = [step |-> "approved", gen |-> link[f].gen, account |-> a]]
    /\ UNCHANGED <<account, server, gen, flows, lifecycle, selecting, refresh, session, title,
                   playing, relinked>>

\* The poll stores the account and forgets the server, under the manager's lock only.
PollLink(f) ==
    /\ link[f].step = "approved"
    /\ IF f \in flows /\ link[f].gen = gen
       THEN /\ gen < MaxGen
            /\ account' = link[f].account /\ server' = NoServer
            /\ gen' = gen + 1 /\ flows' = flows \ {f}
            /\ link' = [link EXCEPT ![f].step = "linked"]
            /\ relinked' = TRUE
       ELSE /\ link' = [link EXCEPT ![f].step = "refused"]
            /\ UNCHANGED <<account, server, gen, flows, relinked>>
    /\ UNCHANGED <<lifecycle, selecting, refresh, session, title, playing>>

\* cancel_link, or the flow's age.
CancelLink(f) ==
    /\ f \in flows /\ flows' = flows \ {f}
    /\ UNCHANGED <<account, server, gen, link, lifecycle, selecting, refresh, session, title,
                   playing, relinked>>

\* Refused while a Plex title plays.
Disconnect ==
    /\ lifecycle = None /\ playing = None
    /\ gen < MaxGen /\ gen' = gen + 1
    /\ account' = None /\ server' = NoServer /\ flows' = {}
    /\ UNCHANGED <<link, lifecycle, selecting, refresh, session, title, playing, relinked>>

-----------------------------------------------------------------------------
(* Tokens and servers *)

RefreshBegin ==
    /\ refresh = NoAsk /\ account # None
    /\ refresh' = Seen(None)
    /\ UNCHANGED <<account, server, gen, flows, link, lifecycle, selecting, session, title,
                   playing, relinked>>

\* The refreshed account is written back only if nothing has changed since.
RefreshEnd ==
    /\ refresh # NoAsk /\ refresh' = NoAsk
    /\ account' = IF refresh.gen = gen THEN refresh.account ELSE account
    /\ UNCHANGED <<server, gen, flows, link, lifecycle, selecting, session, title, playing,
                   relinked>>

\* A bug: a selection does not wait for a play that is still resolving.
SelectAnytime(m) ==
    /\ playing = None /\ account # None /\ selecting = NoAsk
    /\ lifecycle' = "select" /\ selecting' = Seen(m)
    /\ UNCHANGED <<account, server, gen, flows, link, refresh, session, title, playing, relinked>>

\* plex_server_select holds the lifecycle lock and refuses while a title plays.
SelectBegin(m) ==
    /\ lifecycle = None /\ playing = None /\ account # None
    /\ lifecycle' = "select" /\ selecting' = Seen(m)
    /\ UNCHANGED <<account, server, gen, flows, link, refresh, session, title, playing, relinked>>

\* A bug: the server is stored whatever account is linked by now.
SelectBlindly ==
    /\ selecting # NoAsk /\ gen < MaxGen
    /\ \E jwt \in BOOLEAN :
           server' = [machine |-> selecting.machine, of |-> selecting.account, jwt |-> jwt]
    /\ gen' = gen + 1
    /\ lifecycle' = None /\ selecting' = NoAsk
    /\ UNCHANGED <<account, flows, link, refresh, session, title, playing, relinked>>

\* The server is stored with its token, which may be a JWT, or the attempt fails.
SelectEnd ==
    /\ selecting # NoAsk
    /\ \/ /\ selecting.gen = gen /\ gen < MaxGen /\ gen' = gen + 1
          /\ \E jwt \in BOOLEAN :
                 server' = [machine |-> selecting.machine, of |-> selecting.account, jwt |-> jwt]
       \/ UNCHANGED <<server, gen>>
    /\ lifecycle' = None /\ selecting' = NoAsk
    /\ UNCHANGED <<account, flows, link, refresh, session, title, playing, relinked>>

\* selected_server_session: a snapshot of account, server and generation.
SessionBegin ==
    /\ session = NoAsk /\ server # NoServer
    /\ session' = Seen(server.machine)
    /\ UNCHANGED <<account, server, gen, flows, link, lifecycle, selecting, refresh, title,
                   playing, relinked>>

\* _upgrade_selected_server_token: a JWT is exchanged for the server's own token; the
\* session goes on with the JWT if there is none, or is refused if all has changed.
Upgrade ==
    LET same == account = session.account /\ server.machine = session.machine IN
    /\ session # NoAsk /\ session.jwt
    /\ \/ /\ session.gen = gen /\ gen < MaxGen  \* upgraded
          /\ server' = [machine |-> server.machine, of |-> server.of, jwt |-> FALSE]
          /\ gen' = gen + 1
          /\ session' = [session EXCEPT !.gen = gen + 1, !.jwt = FALSE]
       \/ /\ session.gen # gen
          /\ session' = IF same /\ ~server.jwt THEN [session EXCEPT !.gen = gen, !.jwt = FALSE]
                        ELSE NoAsk
          /\ UNCHANGED <<server, gen>>
       \/ session' = [session EXCEPT !.jwt = FALSE] /\ UNCHANGED <<server, gen>>  \* not upgraded
    /\ UNCHANGED <<account, flows, link, lifecycle, selecting, refresh, title, playing, relinked>>

\* assert_server_session_current, after the catalogue has answered.
Current(s) == s.gen = gen /\ s.account = account /\ s.machine = server.machine

SessionEnd ==
    /\ session # NoAsk /\ ~session.jwt
    /\ session' = NoAsk
    /\ UNCHANGED <<account, server, gen, flows, link, lifecycle, selecting, refresh, title,
                   playing, relinked>>

-----------------------------------------------------------------------------
(* Plays *)

\* play_item takes the lifecycle lock before it resolves a Plex item ...
PlayBegin ==
    /\ lifecycle = None /\ lifecycle' = "play"
    /\ UNCHANGED <<account, server, gen, flows, link, selecting, refresh, session, title, playing,
                   relinked>>

\* ... resolves it with a session that is current ...
Resolve ==
    /\ lifecycle = "play" /\ title = None
    /\ session # NoAsk /\ ~session.jwt /\ Current(session)
    /\ title' = session.machine /\ session' = NoAsk
    /\ relinked' = (relinked /\ playing # None)
    /\ UNCHANGED <<account, server, gen, flows, link, lifecycle, selecting, refresh, playing>>

\* ... and holds it until the session is published, or the play fails or is superseded.
PlayEnd ==
    /\ lifecycle = "play"
    /\ playing' \in {playing} \cup ({title} \ {None})
    /\ lifecycle' = None /\ title' = None
    /\ UNCHANGED <<account, server, gen, flows, link, selecting, refresh, session, relinked>>

\* The title is stopped, ends, or something else plays.
StopTitle ==
    /\ playing # None /\ playing' = None
    /\ UNCHANGED <<account, server, gen, flows, link, lifecycle, selecting, refresh, session,
                   title, relinked>>

PlexNext ==
    \/ \E f \in Flows : StartLink(f) \/ RegisterFlow(f) \/ PollLink(f) \/ CancelLink(f)
    \/ \E f \in Flows, a \in Accounts : Approved(f, a)
    \/ \E m \in Machines : SelectBegin(m)
    \/ Disconnect \/ RefreshBegin \/ RefreshEnd \/ SelectEnd
    \/ SessionBegin \/ Upgrade \/ SessionEnd
    \/ PlayBegin \/ Resolve \/ PlayEnd \/ StopTitle

PlexSpec == PlexInit /\ [][PlexNext]_xvars

-----------------------------------------------------------------------------
(* Properties *)

\* However links, selections, refreshes, upgrades and unlinking overlap, the selected
\* server was found with the account that is linked now.
ServerBelongsToAccount ==
    server # NoServer => server \in Servers /\ server.of = account

\* "so it does not invalidate the active loopback stream": from the moment a play has
\* resolved a title until the title is over, its server stays selected.  The exception
\* is a link that completes meanwhile: poll_link does not take the lifecycle lock.
TitleKeepsServer ==
    \A m \in {title, playing} \ {None} : relinked \/ server.machine = m
=============================================================================
