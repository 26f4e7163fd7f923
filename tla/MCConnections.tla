--------------------------- MODULE MCConnections ---------------------------
(***************************************************************************)
(* The connections that must come up again and again: the browsers of the  *)
(* realtime hub and the control socket of Jellyfin.  They share no         *)
(* variable, so one of them runs at a time, under its own fairness.        *)
(***************************************************************************)
EXTENDS RealtimeHub, JellyfinControl

VARIABLE focus  \* the connection that runs

ConnectionsInit ==
    /\ focus \in {"hub", "control"} /\ HubInit /\ Init
    /\ focus = "hub" => server = None

ConnectionsNext ==
    /\ UNCHANGED focus
    /\ IF focus = "hub" THEN HubNext ELSE UNCHANGED hubvars
    /\ IF focus = "control" THEN Next ELSE UNCHANGED vars

Hub(action) == focus = "hub" /\ action
Control(action) == focus = "control" /\ action

\* HubFairness and Fairness, each while its module runs.
ConnectionsFairness ==
    /\ \A c \in Clients :
         /\ WF_hubvars(Hub(Offer(c))) /\ WF_hubvars(Hub(Hello(c)))
         /\ WF_hubvars(Hub(Deliver(c)))
    /\ WF_vars(Control(Change /\ Changing))
    /\ \A h \in Beats : WF_vars(Control(Beat(h)))

ConnectionsSpec ==
    /\ ConnectionsInit
    /\ [][ConnectionsNext]_<<focus, hubvars, vars>>
    /\ ConnectionsFairness
=============================================================================
