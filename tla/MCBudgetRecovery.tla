---------------------------- MODULE MCBudgetRecovery ----------------------------
(* A category and a line; the amounts of users and of the seed are told     *)
(* apart.                                                                   *)
EXTENDS BudgetRecovery, TLC

UserAmounts == {0, 5}
KnownGood == [k \in Keys |-> 3]
Symmetry == Permutations(Clients)
=============================================================================
