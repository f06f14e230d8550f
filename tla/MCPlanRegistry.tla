----------------------------- MODULE MCPlanRegistry -----------------------------
(* Two threads, in one process or in two, and three places of plan files.  *)
EXTENDS PlanRegistry, TLC

ThreadSymmetry == Permutations(Threads) \cup Permutations(Procs)
=============================================================================
