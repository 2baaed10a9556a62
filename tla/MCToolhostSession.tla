-------------------------- MODULE MCToolhostSession --------------------------
(* Instances of ToolhostSession for TLC. *)
EXTENDS ToolhostSession

AllFaults == FaultKinds
BadHello == {"hello"}
=============================================================================
