------------------------------- MODULE MCBridge -------------------------------
(* Instances of BridgeLifecycle for TLC.                                      *)
EXTENDS BridgeLifecycle
=============================================================================
