---------------------------- MODULE DurableStore ----------------------------
(***************************************************************************)
(* What a persisted store promises, without threads, versions or locks:    *)
(* memory runs ahead, the file follows it and never goes back, and a       *)
(* restart resumes from the file.  A value stands for the state after one  *)
(* more mutation, so a larger value contains every smaller one.            *)
(***************************************************************************)
EXTENDS Naturals

VARIABLES state, saved

vars == <<state, saved>>

Init == state = 0 /\ saved = 0

Mutate == state' > state /\ state' \in Nat /\ saved' = saved

Save == saved' > saved /\ saved' \in Nat /\ saved' <= state /\ state' = state

Restart == state' = saved /\ saved' = saved

Next == Mutate \/ Save \/ Restart

Spec == Init /\ [][Next]_vars
=============================================================================
