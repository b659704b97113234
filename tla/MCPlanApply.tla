----------------------------- MODULE MCPlanApply -----------------------------
(* PlanApply for TLC: fields and values are interchangeable.                *)
EXTENDS PlanApply, TLC

Symmetry == Permutations(Fields) \cup Permutations(Values)
=============================================================================
