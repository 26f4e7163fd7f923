----------------------------- MODULE MCQueueOps -----------------------------
(***************************************************************************)
(* QueueOps with a few interchangeable threads.                            *)
(***************************************************************************)
EXTENDS QueueOps, TLC

QueueSymmetry == Permutations(Threads)

\* What is remembered of a dequeuing that is over makes no difference.
Dequeuing == {t \in Threads : spot[t] # 0}
QueueView ==
    <<queue, clean \cap Dequeuing, touched \cap Dequeuing, resume, playback, advLock, pc,
      local, bounds, cleared, accepted \ gone, gone \ accepted>>
=============================================================================
