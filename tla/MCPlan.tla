------------------------------- MODULE MCPlan -------------------------------
(***************************************************************************)
(* PlanMode for TLC: two sessions.                                         *)
(***************************************************************************)
EXTENDS PlanMode

CONSTANTS s1, s2
=============================================================================
