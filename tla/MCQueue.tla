------------------------------- MODULE MCQueue -------------------------------
(* Instances of MessageQueue for TLC: at most two workers, two writers and  *)
(* two contents.  Which of them a run uses, and every bound, is in its cfg. *)
EXTENDS MessageQueue, TLC

CONSTANTS w1, w2, e1, e2, a, b

\* Threads of one kind are interchangeable: used by runs without liveness.
WorkerSymmetry == Permutations({w1, w2})
=============================================================================
