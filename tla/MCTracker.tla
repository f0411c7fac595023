------------------------------- MODULE MCTracker -------------------------------
(* Instances of AckTracker for TLC.                                            *)
EXTENDS AckTracker, TLC

Symmetry == Permutations(Direct) \cup Permutations(Queued)
================================================================================
