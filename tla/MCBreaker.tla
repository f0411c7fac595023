------------------------------ MODULE MCBreaker ------------------------------
(* Instances of CircuitBreaker for TLC.                                      *)
EXTENDS CircuitBreaker, TLC

\* Callers and circuit objects are interchangeable (safety runs only).
Symmetry == Permutations(Callers) \cup Permutations(Circuits)
=============================================================================
