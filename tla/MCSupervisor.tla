---------------------------- MODULE MCSupervisor -----------------------------
(* Instances of MeshCoreSupervisor for TLC.                                  *)
EXTENDS MeshCoreSupervisor, TLC

CONSTANTS c1, t1

Gateway == {c1}
Tool    == {t1}
NoTool  == {}
=============================================================================
