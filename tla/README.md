# Specifications of the retirement planner

The planner is a local program: a threaded web server (or the desktop shell
around it), SQLite files, a build process per workbook, and a large numeric
projection engine. The numbers are covered by the repository's own tests. What
those tests hardly reach is the rest: several threads and processes that share
one plan file, copies of the plan that must survive whatever comes between, and
long operations that may be cancelled, killed or overtaken by an edit. That is
what is specified here.

Package code lives in `src/src/`; where a comment in a module says
`stores/plan_store.py` it means `src/src/stores/plan_store.py`.

## 1. The system

| Component | State it keeps | Operations | Talks to | Hard about it |
|---|---|---|---|---|
| Plan store (`stores/plan_store.py`, `datasets.py`, `spending_repo.py`) | rows, dataset tables, typed tables, revisions and their copies, retention, in one SQLite file | insert/set/delete/clear rows, replace a dataset, snapshot, restore, set retention, seed and recovery copies | every other component | copies must outlive pruning; ids come back with a restore; read-then-write over two transactions |
| Build jobs (`server_services/build_job_service.py`, `build_service.py`, `server/workbook_routes.py`, `stores/build_results.py`) | in-memory registry (jobs, processes, cancels), `build_results` rows of the plan, last-build metadata | start, run, cancel, time out, report, prune, stream events | active plan, build process, clients | three kinds of threads and a process; cancel races; switches of the plan |
| One-time conversion (`legacy_conversion/*`, `server_services/conversion_service.py`, `plan_db_replace.py`) | old files, staging copy, live plan with markers, rollback copies, app.db flags, last result | decide, back up, convert a copy, verify, swap, install, mark | plan store, registry, secrets store | killed or failing anywhere; process-wide environment while the server serves |
| Active plan access (`active_plan.py`) | none of its own: path resolution, a process lock, read views | edit, read, fingerprint (`plan_state`), build environment | plan store, registry | torn fingerprints |
| Plan registry (`plan_registry.py`, `stores/app_store.py`) | registered plans, active plan, demo's return plan, a cached record per process | register, activate, rename, forget, bootstrap | app.db | cache validity, several processes |
| Plan file services (`plan_file_service.py`, `demo_plan_service.py`, `blank_plan_service.py`) | plan files on disk | load, save as, new, open / exit / reset demo | registry, `plan_db_replace` | several files and app.db in one operation |
| Local backups (`local_backup_scheduler.py`) | copies, manifests, policy | due check, run, prune, list orphans | app.db, plan file | copy and manifest are two steps; concurrent prune |
| Spending tracker (`spending_tracker.py`, `spending_service.py`) | budget table, recovery seed and copy | load, save by category / line / whole, recover from the seed | plan store | a load may write; recovery overlaps with saves |
| Sales (`sales_confirm.py`, `sales_confirm_bulk.py`, `sales_ledger.py`, `sales_service.py`) | sale queue, realized sales, holdings | queue, confirm, undo, bulk confirm / undo, void, make official, dismiss | plan store, transaction log | lots without ids; undo after other changes |
| Transaction log (`transactions.py`) | transactions, their lots, managed accounts | backfill, synchronise, hand entry, revise, void, transfer, manage | holdings, sales, broker import | the log explains holdings or authors them |
| Broker and Monarch import (`broker_import.py`, `monarch_import.py`) | activity rows, job state | import, match, revert, auto-import | holdings, queue, log, external extractor | revert after later operations |
| Cash (`cash_*.py`, `year_end.py`) | ledgers and anchors | record, pair, close a year | plan store | arithmetic on dates and amounts |
| Market data, secrets, reference data, reports, HTTP, frontend, engine, taxes and optimisers | caches or nothing | see `PROJECT.json` | | numeric, presentational or I/O |

What makes each of them correct, in a line:

* plan store: a restore is exact and can be undone; pruning drops nothing that
  is protected and keeps its bound; one id never means two rows;
* builds: a status tells the truth about the process and its results; a cancel
  takes effect; no process outlives its job; whoever waits is answered;
* conversion: the live plan is the old one or a whole verified one; nothing the
  user wrote is lost; done means installed; it finishes in the end;
* registry and files: the active plan exists and is registered; a cached record
  is not another plan's; Exit demo leads back to the plan that was left;
* budget: recoveries take no amount back that they have seen, a load repairs what
  the seed can unless another request comes between, and the copy kept is of
  before any recovery;
* ledgers: shares are neither made nor lost; the log accounts for what is held,
  records nothing twice, and what is undone is as it was.

The hazards behind these properties are listed line by line in `PROJECT.json`
("hazards"), with the property that covers each or the reason none does yet.

## 2. Modules

| Module | What it is |
|---|---|
| `PlanHistory` | abstract: a document, its saved versions, edit / save / go back |
| `PlanRevisions` | the plan store's rows, tables, revisions and recovery copies; implements `PlanHistory` |
| `BuildJob` | builds: registry, runner, process, cancel, stream, results |
| `AtomicUpgrade` | abstract: the plan is replaced once, as a whole, its old self kept beside it |
| `Conversion` | the one-time conversion with kills, faults and edits; implements `AtomicUpgrade` |
| `TransactionLog` | the transaction log against holdings, broker imports and confirmed sales |
| `SalesQueue` | queued sales, batches and undo against the holdings rows |
| `PlanRegistry` | registry, active plan and its cached record, demo, by threads and processes |
| `BudgetRecovery` | loads, saves and recoveries of the budget, step by step |
| `PlanRevisionsProofs`, `BuildJobProofs`, `ConversionProofs`, `PlanRegistryProofs`, `BudgetRecoveryProofs`, `SalesQueueProofs`, `TransactionLogProofs` | the theorems of each, with their proofs |
| `SumsAndFolds` | lemmas on sums over finite sets and on folds over sequences and sets, for the two ledgers |
| `MCPlanRevisions`, `MCBuildJob`, `MCTransactionLog`, `MCSalesQueue`, `MCPlanRegistry`, `MCBudgetRecovery` | constants and symmetry for their runs |

Each component module keeps its mutated operators ("Mutant: ...") just before
the operator they change: plausible bugs that a run must notice. They are used
by no specification.

### PlanRevisions

State: `rows` (plan_rows, id to content), `nextRow` and `nextRev` (the two
AUTOINCREMENT counters), `tables` (flat datasets and rental tables), `revs`
(plan_revisions with revision_rows and revision_datasets), `retention`
(plan_meta), and `keeping`, the local read of a caller inside
`keep_pre_recovery_copy`. The typed tables (sales, broker, transactions, Monarch)
are not in revisions and left out.

Every store call is one `BEGIN IMMEDIATE` transaction, hence one action named
after it. `keep_pre_recovery_copy` is made of two transactions, the pair
`KeepPreRecoveryCheck`, `KeepPreRecoveryTake`, which any number of callers
interleave; `restore_pre_recovery_copy` is made of three, whose outcome one action
covers (copies never change, so it puts back any copy there is). A restore contains the hash
check, the optional pre-restore snapshot, the replacement of rows and tables and
the prune, in that order. `DamageCopy` is the disk corruption the hash check
exists for. Row contents and dataset contents are model values; `hash_rows` is
the sequence of contents in id order, so two row sets have the same hash exactly
if they read the same. `set_value` is `InsertRow` or `SetRow`. The fields
`was` and `wasTables` of a revision are history: no action reads them.

### BuildJob

State: the registry's `status`, `procs` and `cancelled`; a place (`pc`) per
runner thread; the build process (`child`, `wrote`); cancel requests that hold a
process after releasing the lock (`signalling`); the plan a build was given
(`planOf`), the active plan, the `results` rows per plan; the event `stream`.

Each registry call holds the registry's lock and is one action; the runner takes
one action between any two of them. Time is nondeterministic: a job may be
`overdue` at any moment, and an entry with a final status (or one silent for an
hour) may be pruned. `InterpretBuildResult` reads the plan that is active when
the build ends, as the code does. `RunnerRaises` is
an exception anywhere between `Popen` and the report: the job is reported failed
and its process left as it is; `raised` (history) remembers such jobs. Not
modelled: the synchronous route.

### Conversion

State: `live` with its markers, `keeps` (rollback copies), `backup`, `staging`,
`app` (app.db), `secrets`, the facts of the install (`midDemo`: an old demo is
open, with the real plan put aside or only in the legacy files; `legacy`: what
legacy sources there are; `elsewhere`: the workspace is not the server's), the
run's `pc` and record `run`, `engine` (the process works on the verification's
copies), and two sets of edits: `edited`, which the user was told are saved, and
`raced`, those of them that were saved where no run looks any more.

One action per durable step of `_run`, in its order; `StepFails` is an exception
or failing result at any step, reported as `_convert` and `_block` report it;
`Crash` kills the process between any two steps and leaves the files as they
are. A run with nothing to convert ends in `Decide`. `ConvertStaging` includes
what `_c3` does to a placeholder: its rows, user edits among them, go to a
revision (`kept`) and make room for the legacy plan. What the engine finds is a
choice: equal, different or an exception. `Content` is the fingerprint
`_live_state` (rows and datasets, not markers).

Requests are served all the time, also during a run, as the first-launch service
does (`conversion_service.py:67-90`): `EditPlan` writes to whatever file the
process resolves as the plan at that moment. Some edits enter a household
(`Households`), after which the plan is no placeholder. In two windows no look can
notice an edit: while the engine has the process redirected, and between the run's
last look at the plan and the swap. Those edits are in `raced`; section 4 says what
becomes of them.

### TransactionLog

State: `held` (holdings: account, purchase date, shares), `log` (transactions
with the lots they take from, in id order), `managed` (accounts whose holdings
the log writes), `imported` (what the import of each broker row did) and `sales`
(the lots of each confirmed sale). A row that is corrected stays, voided, with
`revises` pointing from its successor.

Each operation is one plan-file transaction, so one action, with everything it
calls: `AddLot`, `AddSale`, `ReviseLot`, `ReviseDisposal`, `Void`, `Transfer`,
`Manage`, `Unmanage`, `StartLog`, `EditHoldings`, `Import`, `Revert`,
`ConfirmFromHoldings`, `ConfirmInLog`, `Undo`. `Backfill` and `Synced` are the
code's `backfill` and `sync_if_started`; every write by hand is refused when the
log would no longer replay. One symbol, one price and one lot type, so a lot is
its account and date; the three-day tolerance of the matching and all amounts are
left out, a file is imported row by row, and a lot that shares its key counts as
changed in `Revert`. Not modelled: bulk confirmation inside an import,
history-only imports, cash rows, candidates that cover a Monarch transaction.

### SalesQueue

State: `held`, the holdings dataset as the sequence it is, and `queue`, each
order's state and its realized rows; `brought` and `batch` are history. A lot is
a row index while a panel is open (`Picks`) and its identity afterwards, several
rows may share an identity, and a row that is emptied is dropped: that is what
the module is about. `Confirmed` and `Undone` are `confirm_in` and `undo_in` on
a pair of dataset and queue, so that `Batch` can fold several in one transaction
as `sales_confirm_bulk` does, with `Current` its `_Lots.current`. Holdings are
edited by hand between any two requests. Not modelled: accounts managed by the
log (in `TransactionLog`), sales a holdings import queues, the purchase-date
check, superseded candidates, amounts and gains, and 1099-B statements beyond
the lock they put on a sale. Dismissed and not-a-sale are one state.

### PlanRegistry

State: app.db (`plans`, `opened`, `active`, `return`), a lock and a cached record
per process, and per thread the step it is at (`req`). `proc`, chosen at the
start, puts the threads in one process or in several; `from` is history.

One action per transaction or per look: `Look` (active_record with bootstrap),
`Stamp` (the record is stored under the stamp app.db has by then), `Check`,
`NoteReturn`, `Activate`, `RegisterPlanFile`, `Forget`, `Target`, `Dest`,
`OtherWrite` (any other write of app.db, which changes its stamp), and an action
for each request. An id is a path and a kind, so a file registered again is the
same plan; whether a file exists may change at any time, so a look for it may
fail; when the demo was last opened is not kept (nothing reads it). The
granularity of modification times is abstracted: a write always changes the
stamp. Forgetting a plan, two transactions in a row under the lock, is one step,
and so is the bootstrap.

### BudgetRecovery

State: `budget` (the whole table), `copy` (the pre-recovery copy), `work` (per
request its step and the rows it has read) and `history`. Reads and writes of the
table are separate transactions, as in `spending_tracker.py`. A load of a budget
whose categories are all zero goes through the recovery: read again, keep a copy
(three steps, any of which may fail and be ignored), write the merge, read once
more. When the recovery's own read finds nothing to fill, the load answers with the
rows it read first, as the code does. A save loads the same way and then writes the
whole table: its categories over the rows loaded (`ByCategory`, which refuses a
page of zeros once the table has `TableRows` rows), its lines (`Replacing`), or a
restored category's missing rows (`Added`); `SaveUnified` writes the request's rows
as they are. The seed is a constant: it is set at the conversion and an import
only. Everything overlaps with everything. `since`, in a request's record, is
history: what other requests wrote after it read the rows it goes on from. Not
modelled: taxonomy, mapping rules, summaries.

## 3. Runs

| Run | Question | Bounds |
|---|---|---|
| `plan_restore` | are restores exact and undoable, and do ids stay apart | 2 row ids, 2 contents, 2 revisions, 2 dataset values, retention 1..2 |
| `plan_retention` | does pruning keep its bound and every recovery copy, does each caller leave one copy at most | 5 revisions, retention 1..3, 2 callers, no rows |
| `build_overlap` | are reports true when two builds overlap, the plan is switched and runners raise | 2 jobs, 2 plans, results retention 1, no silent hour |
| `build_ends` | do cancels and streams end, do final statuses stay, also for a build pruned while silent | 1 job, 2 plans, 2 lines, fair threads |
| `conversion` | is the live plan whole and nothing lost, is the upgrade atomic and finished, with requests served | 2 edits, one of them a household, 2 faults, fair runs |
| `transaction_log` | is nothing logged twice, does the log explain what is held, do managed holdings follow, do changes by hand replay | 2 accounts, 2 dates, 3 log rows, a purchase, a sale |
| `log_import_doubles` | (violation) does an import leave log and holdings equal | the same, a purchase of one share |
| `sales_queue` | are shares conserved, does a batch take what was shown and undo what it did | 2 lots, orders of 1 and 2 shares, 4 shares |
| `plan_registry` | is the active plan registered, the cached record fresh, the way back from the demo right | 2 threads in 1 or 2 processes, 3 files |
| `budget_recovery` | who can show zeros or overwrite an amount, is the copy kept the right one | 1 category, 1 line, 2 requests |
| `budget_overwrite` | (violation) does a recovery overwrite nothing | the same |
| `budget_load_zeroed` | (violation) is no load shown a zeroed budget | the same |

Why the bounds are enough. A restore involves one revision, its backup and the
rows between: two revisions at retention 1 or 2 already force the restored one
to be pruned, and two row ids suffice to delete the newest row and insert again.
Pruning compares positions, so five revisions against a retention of at most
three leave some to prune in every mixture of the four sources; two callers are
what a race for the one-time copy takes. Two builds are
what it takes to clear or overtake each other's results; their output lines do
not interact, so `build_overlap` reads none, and `build_ends` reads two to have
one late. Results retention 1 makes two builds exceed it. Two faults let a run be
killed twice at different places, or killed and then failing; the number
of runs is not bounded, since a run leaves only finitely many states behind. Two
edits, before, during or after any of them, show an edit that makes the plan a
household's and one that does not. Three log rows
hold a lot, what uses it and a correction or transfer of either, the shortest
history in which a voided or revised row still counts; the second account is there
to transfer to. Orders of one and two shares over two identities let a batch
empty a row before the next order, split an order over rows, and have rows that
look alike. Two threads show every overlap of two requests, in a process and
across processes; work plan, demo and one other file are the kinds of place the
code tells apart. Two requests and a zero, a seed and a user amount per row
show who wrote last; `TableRows` is 2 for a table of two rows, where the code has
3 for the tables of real plans. A build may be silent for an hour only in
`build_ends`, to keep `build_overlap` small; the theorems about builds hold with
and without it.

CHECK_DEADLOCK is off where ids run out or a job ends for good (`plan_*`,
`build_*`, `transaction_log`, `log_import_doubles`, `sales_queue`); the
conversion, registry and budget runs check it, so no lock of the registry and no
step of a conversion can leave everybody waiting.

Fairness. `BuildJob` assumes that started server threads are scheduled
(`threading.Thread` in `build_start`, the request threads of cancel and stream):
weak fairness of the runner, of a cancel's signal and of a stream's poll.
Nothing is assumed of the build process, so a silent process may be silent for
ever, and nothing of the user or the clock. `Conversion` assumes that the run's
thread is scheduled, and that a user whose plan is not converted starts a real
run again and accepts the differences in the end (strong fairness, since dry
runs may come between). The other modules state no liveness: their requests are
short transactions, and nothing in them waits but for the registry's lock.

## 4. Findings and observations

Three runs end in a violation:

* `log_import_doubles` (`transactions.py:290`): a broker purchase of a lot that
  was already held is logged as a new lot, though the log had opened that lot
  with an `opening` row; the log then holds twice the shares, against the
  docstring at 281-282.
* `budget_overwrite` (`spending_tracker.py:1130`): a save that commits between
  the recovery's read and its write is taken back by the write, against the
  docstring at 1095 ("it never overwrites a current nonzero budget");
* `budget_load_zeroed` (`spending_tracker.py:1148`): two loads read a zeroed budget
  and one recovers it; the recovery of the other finds nothing to fill, so that load
  answers with the zeros it read first, against the comment at 1141-1142 ("restore
  the prior nonzero values"). A page may then autosave them.

The rest was seen while modelling, in traces of the models or in the code, and
has no run of its own.

Plan store and budget:

* two callers that race may leave two of the "one-time" pre-recovery copies
  (`spending_repo.py:174`, 177), and neither is ever pruned;
  `PreRecoveryCopiesBounded` says that it is never more than one for each caller;
* a restore leaves the typed tables as they are (`plan_store.py:747`), against
  the docstring at 557-558;
* `save_budget_by_category` drops the categories its payload does not name,
  although the comment at `spending_tracker.py:1222-1224` says that absence is
  not deletion; no route restores the pre-recovery copy.

Builds:

* the time limit is looked at only between two lines of output
  (`build_job_service.py:341`), so a silent build never times out;
* an exception in the read loop reports the build failed and leaves its process
  running (403-405); a cancel then answers "finished" (183-184), so nothing ends it
  but itself;
* a late cancel reports a build that stored its results as stopped (354);
* `request_cancel` answers "cancelling" without a signal when the process is
  already detached (187);
* the event stream of a cancelled job sends heartbeats until the job is pruned
  (`workbook_routes.py:292`).

Conversion:

* an edit saved while the engine verifies, even in a dry run, goes to a scratch
  copy and is gone (`verify.py:206-209`); `workspace.py:56-57` asks for a run
  "before the app serves requests", which the first-launch service does not do
  (`conversion_service.py:67-90`);
* an edit between the last comparison and the replacement is replaced with the
  plan and is not in the rollback copy either (`workspace.py:317-329`);
* an exception after the swap reads "blocked" (`workspace.py:211`), which
  `result.py:6` describes as nothing having become live.

Transaction log and sales:

* confirm, undo and confirm again in an account the log does not manage logs too
  little of the second sale: what is left of a lot is counted against voided rows
  too (`transactions.py:334`);
* a broker sale dated before an in-kind transfer may be logged against the
  transferred lot; the log then no longer replays and later writes are refused.
  This is why `LogReplays` is no invariant, and `HandEditsReplay` speaks only of
  logs that replay;
* reverting an import may take away a purchase that a sale entered by hand
  used; its refusal for rows that were revised never clears
  (`transactions.py:414-419`);
* voiding a transfer's outgoing row leaves its incoming rows; unvoiding a ledger
  row of an undone order counts the sale though the shares are back
  (`sales_service.py:91-97`);
* two replace imports at once may queue the same sale twice
  (`holdings_service.py:66`);
* `start_log`, called again on a started log, does not rewrite managed holdings,
  so `ManagedFollowsLog` excludes it.

Registry and files:

* a cached record may be stale after another process switched plans between the
  read and the stamp (`plan_registry.py:148-149`); edits go to the old plan until
  app.db is next written. `StaleOnlyByRace` says that this is the only case;
* Load Saved Plan of a `demo.rpx` that is not registered makes it a user plan;
  Open demo then opens it without noting a way back;
* `save_as` copies over a plan that was registered at its path after the look
  (`plan_file_service.py:145`);
* local backups copy a live database with `shutil.copy2`, and back up
  the database of the old layout by name, not the open plan.

## 5. Proofs

`PlanRevisionsProofs` proves, for any contents, datasets, callers and bounds:
`TypeCorrect`, `RowIdsNeverShared`, `SeedIsUnique`, `RestoresAreExact`,
`RestoresCanBeUndone`, `CopiesSurvive`, `RetentionBounds`, `CopiesBounded` and
`HistoryImplemented`.

Assumptions: `DatasetsAssumption` (the budget is a dataset, the empty value is a
value, a missing copy is none) `BoundsAssumption` (the bounds are naturals
and the default retention is allowed) and, for `CopiesBounded`, `ThreadsAssumption`
(finitely many callers). TLC evaluates them on every plan run.

The inductive invariant `IInv` adds to `TypeOK` what the properties need and do
not say: every retained id was issued (`nextRev` is above all of them), every row
id of a live row or of a retained copy is below `nextRow`, a revision's recorded
hash is the hash of what it was made of (which is why a copy that passes the
check is exact), a damaged copy has only row ids it had before, a pre-recovery
revision holds a budget, and seeds are unique. `TypeOK` alone is not enough for
any of them: a restore brings back ids that are in no live row, and exactness must
hold after any number of damages. Each action has its own step; pruning, adding
and discarding are lemmas on the revision functions. The retention bound is a fact
about cardinality: `Prune` keeps the versions with fewer than `retention` newer ones,
and the oldest it keeps has all the others after it. For the
pre-recovery copies the invariant (`CopiesInv`) counts the copies together with the
callers that have looked and not yet taken theirs: a look that finds a copy adds
nothing to the sum, and as long as there is none it is only the lookers, so it
never exceeds the callers. The action properties follow
from `IInv` and the definition of the step; the refinement from the same
invariant, step by step.

`BuildJobProofs` proves, for any number of jobs, plans and lines and any
retention: `Typed`, `DoneIsBuilt`, `SignalledIsNeverDone`, `NoOrphanBuild`,
`LastBuildDone` and `FinalStays`, from `JobAssumption` (which TLC evaluates on
every build run). Its invariant `IInv` says, job by job, what the runner's place
tells of the rest: a live status means the runner is under way and a final one
that it has ended (`StatusOK`); the process does not exist before `Popen` and is
over wherever the runner has left the read loop, unless an exception took it to the
failed report (`ChildOK`); a process is
attached only in between, so a cancel that will signal it was marked before the
runner decides (`CancelOK`); success rests on an exit 0 and a row of this build
(`SuccessOK`, with `RowsOK`: only a build's process writes its row). None of the
properties is inductive alone: that a signalled job cannot become done rests on
when the process may be attached, which no property mentions.

`ConversionProofs` proves, for any edits and any number of kills and faults, with
requests served all the while, from `ConversionAssumption` and `NoPlanAssumption` (a
missing file is no plan): `Typed`, `Verified`, `DoneInstalled`, `EditsKept` and
`UpgradeImplemented`. The invariants grow in three layers. `TypeInv` adds to
`TypeOK` which file is there at which step (a run between staging and swap has its
copy, an install step has a live plan). `SafeInv` says what the steps before left
behind: what a plan file's markers promise, of the live plan and of the copy
(`Sound`); the copy on its way to the swap is converted, then verified, never a dry
run's, with a backup at hand (`StagingOK`); a run that converts anything works on a
plan not converted yet, without which a second run could undo the first (`OnceOK`);
an install step works on a converted plan and on the results of the ones before it
(`InstallOK`). `KeptInv` follows the edits: no file holds an edit before the
user made it, so a plan that still looks the same has no edit since (`LookOK`);
while it does, the copy holds its edits, in its rows or its revision, unless it
comes from the plan put aside (`CopyOK`); and at the swap every edit but the raced
ones is in the copy or in the kept demo, and what the run last looked at is kept
(`SwapOK`).

`PlanRegistryProofs` proves, for any threads, processes and files, from
`PathAssumption` and `NoneAssumption`: `Typed`, `CacheIsFresh`,
`ActiveRegistered` and `DemoLeadsBack`. `TypeInv` adds what a thread carries at
each step. `LockInv` says that a thread between the read of a record and its
stamp, or between the look of a switch and its end, holds its process's lock, and
`SeenInv` that what it read is still the active plan unless some other process
exists. `WayInv` says, for one process, that the plan noted for the way back is
the one that was left, now (`BackOK`) and in every thread about to enter the demo
(`ThreadOK`). The bootstrap picks the plan opened latest, whose existence is that
of a least natural number (`WellFoundedInduction`).

`BudgetRecoveryProofs` proves, for any rows, amounts and requests and any overlap,
from the assumptions on amounts, the seed and the size of a table: `Typed`,
`CopyBefore`, `ZeroedByRace` and `OverwritesUnseen`. `KeepInv` follows a copy from
the read of its rows to the look that finds no other. `RaceInv` relates what a
request has read to the table through `since`: whoever is about to write a merge and
has seen every save read the table as it is, or as it was before a merge of the same
rows (`Fresh`, since merging twice is merging once); and a load whose table nobody
else wrote finds it zeroed when it starts to recover and filled when it reads it
again (`Undisturbed`).

The two ledgers count shares, so their proofs rest on sums and folds.
`SumsAndFolds` derives what they need from the definitions of the community
modules: a sum over a finite set unfolds at any element, is natural over naturals,
splits, and changes by what one of its terms changes; a property that every step of
a fold keeps holds of its result. The library states induction with an operator as
a parameter, which the provers cannot instantiate; here the induction is over a
set of naturals, the sizes or the indices at which the claim holds, whose least
missing member would be a contradiction.

`SalesQueueProofs` proves, for any lots, dates and shares and any finite set of
orders, `SalesInvariant`, `SalesTyped`, `NoShareMadeOrLost`,
`BatchesTakeShownRows` and `UndoRestoresTheBatch`. `SalesInv` adds to
`SharesConserved` that the books are well formed (an order has ledger rows exactly
while it is confirmed, and every row has shares) and that the batch just confirmed
can be taken back: undoing its orders, the last one first, leads to the rows there
were before it (`TakenBack`). The hard part is the row positions: a batch is
reviewed against one list of rows and confirmed against a shrinking one, so where
a row went is described by the rank of its index among those that are left.

`TransactionLogProofs` proves, for any accounts, dates, broker rows, orders and
bounds, `LogInvariant`, `LedgerTyped`, `BrokerRowLoggedOnce`, `EditsReplay`,
`HoldingsFollowLog` and `SyncsExplain`, from `ActivityAssumption` (broker rows and
accounts are finitely many, the absent value is no row and no sale),
`SizeAssumption` and `HandAssumption`. Its invariant `TxnInv` says:

* `LogTyped`: a row takes from rows of the log and revises an earlier one;
* `OpenOK`, `OwnOK`: no live lot has given more than it has, and a live disposal
  draws on its own account, also where the whole log does not replay (see 4);
* `ChainOK`: no two live rows mirror the same broker row, where a correction
  mirrors what the first row of its chain was written for;
* `ToldOK`: a live row that mirrors an order is the sale of that order, and the
  order is confirmed.

`ChainOK` is `OneRowPerActivity` and is not inductive alone: a confirm in a
managed account writes a row for its order without a look at the log, and that no
live row mirrors the order yet follows from `ToldOK`, since the order was not
confirmed. Every step is one of four kinds, which carry the action properties: a
hand edit that keeps the open lots of all other accounts (`EditStep`), an
operation that ends in a synchronisation (`SyncStep`), a log start, and a step
that leaves log, imports and sales alone (`QuietStep`). `backfill` is taken apart
into its four passes, each of which only adds lots or adds one sale that draws on
what is spare.

Model-checked only: the liveness properties `CancelEndsTheBuild`, `StreamEnds` and
`ConversionFinishes` (fairness needs ENABLED, which the prover does not handle).
That a sum or a fold computes what the code's loop does is by
inspection of its definition.

## 6. Plan and limits

Done: the plan store, builds, the conversion, the registry with the demo, the
budget's recovery, the transaction log and the sales queue, with proofs for all of
them. What could follow, in order:

1. Local backups: copy, manifest, prune, locked files, two runs at once.
2. `edit_active_plan`, `plan_state` and the stamp of a build's results: is a
   stale build ever shown as current.
3. The contents of plan files under Load Saved Plan, Save As, new and demo, with
   `replace_active_db`, over the registry of `PlanRegistry`.
4. `TransactionLog` with history-only imports and covered Monarch candidates.
5. Cash year close, Monarch auto-import, and the withdrawal cascade as a pure
   function against a reference definition.

Not modelled:

* local backups: what could go wrong lies inside one call (a copy of a file that
  is being written, a prune between copy and manifest) and is recorded as a
  hazard;
* cash ledgers and year end: sequential arithmetic on amounts and dates, one
  transaction each;
* CSV exchange, vendor parsing: pure conversion of text;
* the projection engine, taxes and optimisers: floating-point arithmetic over
  decades, outside TLC's integers; this is most of the code by lines;
* market data: remote providers and their caches, a candidate for a later module;
* secrets: calls to the operating system's store; only its availability matters
  (`MoveSecrets`);
* reports, workbook, frontend, HTTP runtime and desktop shell: presentation and
  transport; the handlers that change shared state are with the component they
  call;
* reference data and configuration: read-only tables and settings.

Of the components that are partly modelled the missing operations are named in
`PROJECT.json` with each: schema migration and row-by-row dataset edits of the
plan store, the synchronous build route, what each conversion step converts,
`edit_active_plan` and `plan_state`, renaming, the contents of plan files,
taxonomy and summaries of the budget, gains and 1099-B matching of sales, and
history-only and Monarch imports.
