-------------------------- MODULE MCPlaybackIntent --------------------------
(***************************************************************************)
(* PlaybackIntent with small sets of threads.  Players are                 *)
(* interchangeable; the run without liveness uses them as a symmetry set.  *)
(***************************************************************************)
EXTENDS PlaybackIntent, TLC

ThreadSymmetry == Permutations(Players)
=============================================================================
