-------------------------- MODULE MCTransactionLog --------------------------
(* TransactionLog for TLC: two accounts, lots entered by hand in the first. *)
EXTENDS TransactionLog
CONSTANTS a1, a2
MCHandLots == {<<a1, 1>>}
(* A purchase of two shares that is sold one by one, and one of one share   *)
(* that a lot entered by hand can be mistaken for.                          *)
MCBuys == {[account |-> a1, date |-> 1, shares |-> 2]}
MCSmallBuys == {[account |-> a1, date |-> 1, shares |-> 1]}
MCSells == {[account |-> a1, date |-> 2, shares |-> 1]}
=============================================================================
