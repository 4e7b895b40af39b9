----------------------------- MODULE MCPlanCheck -----------------------------
(* The plans of MCExecutionRun, each checked with several executions. *)
EXTENDS PlanCheck, MCExecutionRun
=============================================================================
