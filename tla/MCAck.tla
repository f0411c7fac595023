-------------------------------- MODULE MCAck --------------------------------
(* Instances of AckSynthesis for TLC; the bounds are in each cfg. *)
EXTENDS AckSynthesis

CONSTANTS q, b
=============================================================================
