---------------------------- MODULE MCPlanStops -----------------------------
(* The plans of one conversation and the stops over them. *)
EXTENDS PlanStops
=============================================================================
