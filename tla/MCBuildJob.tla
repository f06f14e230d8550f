------------------------------- MODULE MCBuildJob -------------------------------
(* BuildJob with a few jobs. *)
EXTENDS BuildJob, TLC

Symmetry == Permutations(Jobs) \cup Permutations(Plans)
================================================================================
