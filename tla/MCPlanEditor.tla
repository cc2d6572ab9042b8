---------------------------- MODULE MCPlanEditor ----------------------------
(* Small instances of PlanEditor for TLC. *)
EXTENDS PlanEditor
=============================================================================
