------------------------- MODULE MCJellyfinControl -------------------------
(***************************************************************************)
(* JellyfinControl with interchangeable servers and heartbeat threads;     *)
(* sessions are numbered in the order they start, so they are not.         *)
(***************************************************************************)
EXTENDS JellyfinControl, TLC

ControlSymmetry == Permutations(Servers) \cup Permutations(Beats)
=============================================================================
