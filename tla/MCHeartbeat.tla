----------------------------- MODULE MCHeartbeat -----------------------------
(* Instances of GatewayHeartbeat for TLC.                                    *)
EXTENDS GatewayHeartbeat
=============================================================================
