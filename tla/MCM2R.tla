-------------------------------- MODULE MCM2R --------------------------------
(* Instances of M2RAccounting for TLC; the bounds are in each cfg. *)
EXTENDS M2RAccounting

CONSTANTS m1, m2, br, bg
=============================================================================
