----------------------------- MODULE MCPendingCalls -----------------------------
(******************************************************************************)
(* Instances of PendingCalls for TLC: three calls, with more identifiers than *)
(* calls, so that the counter does not wrap around.                           *)
(******************************************************************************)
EXTENDS PendingCallsProps
================================================================================
