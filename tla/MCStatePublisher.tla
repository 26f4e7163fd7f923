-------------------------- MODULE MCStatePublisher --------------------------
(***************************************************************************)
(* StatePublisher with a few interchangeable writers.                      *)
(***************************************************************************)
EXTENDS StatePublisher, TLC

WriterSymmetry == Permutations(Writers)
=============================================================================
