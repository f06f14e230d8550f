----------------------------- MODULE BudgetRecovery -----------------------------
(***************************************************************************)
(* The spending budget and its recovery from the plan's recovery seed      *)
(* (src/spending_tracker.py, with the requests of                          *)
(* server_services/spending_service.py).                                   *)
(*                                                                         *)
(* A request reads the whole budget table and later writes the whole table *)
(* back; each read and each write is a transaction of its own.  Loading a  *)
(* budget whose categories are all zero writes too: it fills the budget    *)
(* from the seed.  A row is an amount under its kind and key; absent rows  *)
(* are None.  The seed is set when a plan is converted and stays.          *)
(* Requests overlap freely, as the server is threaded and other processes  *)
(* open the same plan.                                                     *)
(***************************************************************************)
EXTENDS Integers, FiniteSets, FiniteSetsExt

CONSTANTS
    Cats,        \* keys of category and group rows
    Lines,       \* keys of detail lines
    Amounts,     \* what users budget
    Seed,        \* the rows of the recovery seed
    Clients,     \* requests in progress at the same time
    TableRows,   \* rows from which a page of zeros is refused (3 in the code)
    None

Keys == Cats \cup Lines
Budgets == [Keys -> Amounts \cup {Seed[k] : k \in Keys} \cup {None}]

ASSUME AmountAssumption == Amounts \subseteq Nat /\ 0 \in Amounts /\ None \notin Nat
ASSUME SeedAssumption ==
    /\ Cats \cap Lines = {}
    /\ Seed \in [Keys -> Nat \cup {None}]
    /\ \E k \in Cats : Seed[k] \notin {0, None}
ASSUME TableAssumption == TableRows \in Nat

VARIABLES
    budget,      \* the spending_budget table
    copy,        \* the newest pre-recovery copy: "none", or whether its rows
                 \* were read "before" or "after" a recovery was written
    work,        \* what each request is doing and the rows it goes on from;
                 \* "since" is history: the writes of other requests that came
                 \* after it read them, or after its own last write
    history      \* whether a recovery was written, and one without a copy

vars == <<budget, copy, work, history>>

Nonzero(rows, k) == rows[k] \notin {0, None}
(* _budget_row_total of the category and group rows is zero. *)
Zeroed(rows) == \A k \in Cats : ~Nonzero(rows, k)
NoRows == [k \in Keys |-> None]

Ops == {"load", "recover", "cats", "lines", "add"}
Idle == [at |-> "idle", op |-> "load", rows |-> NoRows, kept |-> "none", since |-> {}]

(* Requests that go on from rows they have read or written. *)
Relying == {"current", "keep", "look", "take", "merge", "reread"}
(* The requests after c wrote the table: who relies on older rows has not  *)
(* seen this write, nor the writes that this write did not see.            *)
Unseen(c, kind) ==
    [d \in Clients |-> IF d # c /\ work[d].at \in Relying
                        THEN [work[d] EXCEPT !.since = @ \cup {kind} \cup work[c].since]
                        ELSE work[d]]

-----------------------------------------------------------------------------
Init ==
    /\ budget \in Budgets
    /\ copy = "none"
    /\ work = [c \in Clients |-> Idle]
    /\ history = [recovered |-> FALSE, unkept |-> FALSE]

-----------------------------------------------------------------------------
(* Requests.  What a page sends is chosen when it is written: nothing      *)
(* looks at it before.                                                     *)

Saving(c) == work[c].at # "idle" /\ work[c].op \in {"cats", "lines", "add"}

Ask(c, op, at) ==
    /\ work[c] = Idle
    /\ work' = [work EXCEPT ![c] = [Idle EXCEPT !.op = op, !.at = at]]
    /\ UNCHANGED <<budget, copy, history>>

Load(c) == Ask(c, "load", "read")
Recover(c) == Ask(c, "recover", "current")
SaveByCategory(c) == Ask(c, "cats", "read")
SaveLines(c) == Ask(c, "lines", "read")
RestoreCategory(c) == Ask(c, "add", "read")

(* The rows of the keys in S that a page can send. *)
Payloads(S) ==
    {[k \in Keys |-> IF k \in S THEN p[k] ELSE None] : p \in [S -> Amounts \cup {None}]}
(* save_unified_budget with the rows of the request. *)
SaveUnified(c) ==
    /\ work[c] = Idle
    /\ budget' \in Payloads(Keys)
    /\ work' = Unseen(c, "save")
    /\ UNCHANGED <<copy, history>>

-----------------------------------------------------------------------------
(* load_unified_budget                                                     *)

Goes(c, at) == work' = [work EXCEPT ![c].at = at]
GoesWith(c, at, rows) == work' = [work EXCEPT ![c].at = at, ![c].rows = rows]

(* Mutant: detail lines count as a budget that is not zeroed. *)
NeedsRecoveryAll(rows) == \A k \in Keys : ~Nonzero(rows, k)
NeedsRecovery(rows) == Zeroed(rows)

Read(c) ==
    /\ work[c].at = "read"
    /\ GoesWith(c, IF NeedsRecovery(budget) THEN "current" ELSE "loaded", budget)
    /\ UNCHANGED <<budget, copy, history>>

(* _merge_budget_seed *)
(* Mutant: seed amounts win over the budget's own. *)
MergeForced(rows) ==
    [k \in Keys |-> IF Nonzero(Seed, k) THEN Seed[k] ELSE rows[k]]
Merge(rows) ==
    [k \in Keys |-> IF Nonzero(Seed, k) /\ ~Nonzero(rows, k) THEN Seed[k] ELSE rows[k]]

(* recover_spending_budget_from_seed: the table is read again.  When the   *)
(* seed has nothing to fill nothing is written, and a load answers with    *)
(* the rows it read first; otherwise it will not use them again.           *)
ReadCurrent(c) ==
    /\ work[c].at = "current"
    /\ \/ /\ Merge(budget) = budget
          /\ work' = [work EXCEPT ![c] = IF @.op = "recover" THEN Idle
                                          ELSE [@ EXCEPT !.at = "loaded"]]
       \/ /\ Merge(budget) # budget
          /\ work' = [work EXCEPT ![c].at = "keep", ![c].rows = budget, ![c].since = {}]
    /\ UNCHANGED <<budget, copy, history>>

(* keep_workspace_pre_recovery_copy: the rows are read once more, then the *)
(* revisions are looked at, then the copy is taken; a failure is ignored.  *)
KeepRead(c) ==
    /\ work[c].at = "keep"
    /\ IF budget = NoRows THEN Goes(c, "merge")
       ELSE work' = [work EXCEPT ![c].at = "look",
                                 ![c].kept = IF history.recovered THEN "after" ELSE "before"]
    /\ UNCHANGED <<budget, copy, history>>
Kept(c) == work' = [work EXCEPT ![c].at = "merge", ![c].kept = "none"]
(* Mutant: a copy is taken at every recovery. *)
KeepLookAgain(c) ==
    /\ work[c].at = "look"
    /\ Goes(c, "take")
    /\ UNCHANGED <<budget, copy, history>>
KeepLook(c) ==
    /\ work[c].at = "look"
    /\ IF copy = "none" THEN Goes(c, "take") ELSE Kept(c)
    /\ UNCHANGED <<budget, copy, history>>
KeepTake(c) ==
    /\ work[c].at = "take"
    /\ copy' = work[c].kept
    /\ Kept(c)
    /\ UNCHANGED <<budget, history>>
KeepFails(c) ==
    /\ work[c].at \in {"keep", "look", "take"}
    /\ Kept(c)
    /\ UNCHANGED <<budget, copy, history>>

(* The budget as it was read, filled from the seed, replaces the table. *)
WriteMerged(c) ==
    /\ work[c].at = "merge"
    /\ budget' = Merge(work[c].rows)
    /\ history' = [recovered |-> TRUE, unkept |-> history.unkept \/ copy = "none"]
    /\ work' = [Unseen(c, "recovery") EXCEPT
                    ![c] = IF @.op = "recover" THEN Idle
                           ELSE [@ EXCEPT !.at = "reread", !.rows = NoRows, !.since = {}]]
    /\ UNCHANGED copy
Reread(c) ==
    /\ work[c].at = "reread"
    /\ GoesWith(c, "loaded", budget)
    /\ UNCHANGED <<budget, copy, history>>

-----------------------------------------------------------------------------
(* What a request does with the rows it loaded                             *)

(* save_budget_by_category: a page of zeros does not replace a budget that *)
(* has amounts, unless the table would be a row or two.                    *)
ByCategory(sent, existing) ==
    LET rows == [k \in Keys |-> IF k \in Cats THEN sent[k] ELSE existing[k]]
    IN  IF Zeroed(sent) /\ ~Zeroed(existing)
           /\ Cardinality({k \in Keys : rows[k] # None}) >= TableRows
        THEN existing ELSE rows
(* save_budget_lines_payload: the rows of the other kind as they were read. *)
Replacing(sent, existing) ==
    [k \in Keys |-> IF k \in Lines THEN sent[k] ELSE existing[k]]
(* restore_taxonomy_category and its like put a row of zero back. *)
Added(k, existing) == IF existing[k] = None THEN [existing EXCEPT ![k] = 0] ELSE existing

Saved(w) ==
    CASE w.op = "cats" -> {ByCategory(sent, w.rows) : sent \in Payloads(Cats)}
      [] w.op = "lines" -> {Replacing(sent, w.rows) : sent \in Payloads(Lines)}
      [] w.op = "add" -> {Added(k, w.rows) : k \in Cats}
WriteSaved(c) ==
    /\ work[c].at = "loaded" /\ Saving(c)
    /\ budget' \in Saved(work[c])
    /\ work' = [Unseen(c, "save") EXCEPT ![c] = Idle]
    /\ UNCHANGED <<copy, history>>

Answer(c) ==
    /\ work[c].at = "loaded" /\ work[c].op = "load"
    /\ work' = [work EXCEPT ![c] = Idle]
    /\ UNCHANGED <<budget, copy, history>>

-----------------------------------------------------------------------------
Request(c) ==
    \/ Load(c) \/ Recover(c) \/ SaveByCategory(c) \/ SaveLines(c)
    \/ RestoreCategory(c) \/ SaveUnified(c)
Step(c) ==
    \/ Read(c) \/ ReadCurrent(c) \/ KeepRead(c) \/ KeepLook(c) \/ KeepTake(c)
    \/ KeepFails(c) \/ WriteMerged(c) \/ Reread(c) \/ WriteSaved(c) \/ Answer(c)
Next == \E c \in Clients : Request(c) \/ Step(c)

Spec == Init /\ [][Next]_vars

-----------------------------------------------------------------------------
(* A recovery fills rows that are missing or zero and leaves every other   *)
(* amount of the budget as it is ("it never overwrites a current nonzero   *)
(* budget", recover_spending_budget_from_seed).                            *)
Overwrites == \E k \in Keys : Nonzero(budget, k) /\ budget'[k] # budget[k]
RecoveryNeverOverwrites == [][\A c \in Clients : WriteMerged(c) => ~Overwrites]_vars

(* The one way it does: a save was written after the recovery, or one that *)
(* overlaps it, read the table it fills.  Recoveries by themselves,        *)
(* however many overlap, lose no amount (the merge that is written back in *)
(* recover_spending_budget_from_seed).                                     *)
OverwritesOnlyUnseenSaves ==
    [][\A c \in Clients : WriteMerged(c) /\ Overwrites => "save" \in work[c].since]_vars

(* No page is shown a budget whose categories are all zero while the seed  *)
(* has amounts for them, unless a save zeroed it meanwhile (the safety net *)
(* of load_unified_budget: "restore the prior nonzero values").            *)
ShowsZeroed(c) == work[c].at = "loaded" /\ Zeroed(work[c].rows)
LoadsAreRecovered == \A c \in Clients : ShowsZeroed(c) => "save" \in work[c].since

(* A zeroed budget gets through load_unified_budget in one way only:       *)
(* another request wrote the table between two of its transactions.        *)
ZeroedOnlyByRace == \A c \in Clients : ShowsZeroed(c) => work[c].since # {}

(* The pre-recovery copy holds the budget as it was before any recovery,   *)
(* however requests overlap, unless a recovery was written without a copy  *)
(* (an empty budget, or a failed snapshot).                                *)
CopyIsOfBefore == copy = "after" => history.unkept
=============================================================================
