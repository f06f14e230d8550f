---------------------------- MODULE MCPlanRevisions ----------------------------
(* PlanRevisions on a small plan file. *)
EXTENDS PlanRevisions, TLC

Symmetry == Permutations(Contents)
================================================================================
