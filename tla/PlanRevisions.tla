----------------------------- MODULE PlanRevisions -----------------------------
(***************************************************************************)
(* The plan file's rows, its flat dataset tables and the revisions that    *)
(* retain copies of them (src/stores/plan_store.py PlanStore, with the     *)
(* recovery copies of src/stores/spending_repo.py SpendingRepo).           *)
(*                                                                         *)
(* Every store call is one SQLite transaction (BEGIN IMMEDIATE), so one    *)
(* action; the only calls made of several transactions are the recovery    *)
(* copy's "is there one already" read followed by the snapshot, which two  *)
(* threads or processes may interleave.                                    *)
(*                                                                         *)
(* A row is its id and an abstract content (its six text fields and its    *)
(* place); a dataset table is one abstract value.  The typed tables (sales,*)
(* transactions, broker and Monarch rows) are not retained by revisions    *)
(* and are left out.                                                       *)
(***************************************************************************)
EXTENDS Naturals, FiniteSets

CONSTANTS
    Contents,        \* what a plan row can say
    Datasets,        \* the flat dataset tables and the rental set
    Budget,          \* the dataset the recovery copies are about
    Values,          \* what a dataset table can hold
    Empty,           \* the value of a dataset with no rows
    NoCopy,          \* a revision that retained no table, or no budget
    Threads,         \* callers that keep the pre-recovery copy
    DefaultRetention,
    MaxRetention,    \* bound on set_revision_retention
    MaxRows,         \* bound on the row ids ever issued
    MaxRevs          \* bound on the revision ids ever issued

ASSUME DatasetsAssumption ==
    /\ Budget \in Datasets
    /\ Empty \in Values
    /\ NoCopy \notin Values /\ NoCopy \notin [Datasets -> Values]
ASSUME BoundsAssumption ==
    /\ MaxRows \in Nat
    /\ MaxRevs \in Nat
    /\ MaxRetention \in Nat
    /\ DefaultRetention \in 1..MaxRetention
ASSUME ThreadsAssumption == IsFiniteSet(Threads)

VARIABLES
    rows,       \* plan_rows: row id -> content
    nextRow,    \* the id AUTOINCREMENT gives the next inserted row
    tables,     \* the flat dataset tables and the rental tables
    revs,       \* plan_revisions with revision_rows and revision_datasets
    nextRev,    \* the id AUTOINCREMENT gives the next revision
    retention,  \* plan_meta 'revision_retention'
    keeping     \* thread -> the budget it found worth a pre-recovery copy

vars == <<rows, nextRow, tables, revs, nextRev, retention, keeping>>
liveVars == <<rows, nextRow, tables>>

PreRecovery == "pre-recovery"
Seed == "budget-recovery-seed"
PreRestore == "pre-restore"
PreConversion == "pre-conversion"
ProtectedSources == {PreRecovery, Seed}
Sources == ProtectedSources \cup {PreRestore, PreConversion}

RowIds == 1..MaxRows
RevIds == 1..MaxRevs
NoRev == 0
RowSets == UNION {[S -> Contents] : S \in SUBSET RowIds}

(* hash_rows and row_count: the contents in canonical order, ids left out. *)
Digest(copy) ==
    {<<Cardinality({j \in DOMAIN copy : j < i}), copy[i]>> : i \in DOMAIN copy}

(* The fields was and wasTables are not in the file: they are what the     *)
(* rows and the tables were when the revision was made, for the properties *)
(* to compare with.                                                        *)
Revision(source, withTables, budget) ==
    [source |-> source,
     copy   |-> rows,
     sum    |-> Digest(rows),
     tables |-> IF withTables THEN tables ELSE NoCopy,
     budget |-> budget,
     was    |-> rows,
     wasTables |-> tables]

Newest(ids, keep) == {i \in ids : Cardinality({j \in ids : j > i}) < keep}

(* Mutant: retention also prunes the recovery copies. *)
PruneEverySource(rs, keep, protect) ==
    [i \in {j \in DOMAIN rs : j \in Newest(DOMAIN rs, keep) \/ j = protect} |-> rs[i]]

Prune(rs, keep, protect) ==
    [i \in {j \in DOMAIN rs : \/ j \in Newest(DOMAIN rs, keep)
                              \/ j = protect
                              \/ rs[j].source \in ProtectedSources} |-> rs[i]]

Add(rs, id, rev) ==
    [i \in DOMAIN rs \cup {id} |-> IF i = id THEN rev ELSE rs[i]]

Discard(rs, source) ==
    [i \in {j \in DOMAIN rs : rs[j].source # source} |-> rs[i]]

RevsOf(rs, source) == {i \in DOMAIN rs : rs[i].source = source}

Init ==
    /\ rows = [i \in {} |-> NoCopy]
    /\ nextRow = 1
    /\ tables = [d \in Datasets |-> Empty]
    /\ revs = [i \in {} |-> NoCopy]
    /\ nextRev = 1
    /\ retention = DefaultRetention
    /\ keeping = [t \in Threads |-> NoCopy]

----------------------------------------------------------------------------
(* Plan rows and dataset tables                                            *)

InsertRow(c) ==
    /\ nextRow \in RowIds
    /\ rows' = [i \in DOMAIN rows \cup {nextRow} |->
                   IF i = nextRow THEN c ELSE rows[i]]
    /\ nextRow' = nextRow + 1
    /\ UNCHANGED <<tables, revs, nextRev, retention, keeping>>

SetRow(id, c) ==
    /\ id \in DOMAIN rows
    /\ rows' = [rows EXCEPT ![id] = c]
    /\ UNCHANGED <<nextRow, tables, revs, nextRev, retention, keeping>>

(* Mutant: a row id without AUTOINCREMENT, one more than the highest left. *)
DeleteRowReusingIds(id) ==
    /\ id \in DOMAIN rows
    /\ rows' = [i \in DOMAIN rows \ {id} |-> rows[i]]
    /\ nextRow' = CHOOSE n \in 1..(MaxRows + 1) :
                     /\ \A i \in DOMAIN rows' : i < n
                     /\ n = 1 \/ n - 1 \in DOMAIN rows'
    /\ UNCHANGED <<tables, revs, nextRev, retention, keeping>>

DeleteRow(id) ==
    /\ id \in DOMAIN rows
    /\ rows' = [i \in DOMAIN rows \ {id} |-> rows[i]]
    /\ UNCHANGED <<nextRow, tables, revs, nextRev, retention, keeping>>

ClearRows ==
    /\ rows' = [i \in {} |-> NoCopy]
    /\ UNCHANGED <<nextRow, tables, revs, nextRev, retention, keeping>>

ReplaceAll(d, v) ==
    /\ tables' = [tables EXCEPT ![d] = v]
    /\ UNCHANGED <<rows, nextRow, revs, nextRev, retention, keeping>>

----------------------------------------------------------------------------
(* Revisions                                                               *)

(* Mutant: the snapshot leaves pruning to somebody else. *)
SnapshotWithoutPrune(source, budget) ==
    /\ nextRev \in RevIds
    /\ revs' = Add(revs, nextRev,
                   Revision(source, source \notin ProtectedSources, budget))
    /\ nextRev' = nextRev + 1
    /\ UNCHANGED <<liveVars, retention, keeping>>

SnapshotRevision(source, budget) ==
    /\ nextRev \in RevIds
    /\ revs' = Prune(Add(revs, nextRev,
                         Revision(source, source \notin ProtectedSources, budget)),
                     retention, NoRev)
    /\ nextRev' = nextRev + 1
    /\ UNCHANGED <<liveVars, retention, keeping>>

(* Mutant: the minimum of 1 is off by one. *)
SetRetentionOffByOne(keep) ==
    /\ retention' = keep - 1
    /\ revs' = Prune(revs, keep - 1, NoRev)
    /\ UNCHANGED <<liveVars, nextRev, keeping>>

SetRevisionRetention(keep) ==
    /\ retention' = keep
    /\ revs' = Prune(revs, keep, NoRev)
    /\ UNCHANGED <<liveVars, nextRev, keeping>>

(* Mutants: the restore trusts the copy; it forgets the tables; it does    *)
(* not protect the revision it restores from its own pruning.              *)
RestoreWithBugs(r, backup, checked, withTables, protect) ==
    /\ r \in DOMAIN revs
    /\ checked => Digest(revs[r].copy) = revs[r].sum
    /\ backup => nextRev \in RevIds
    /\ rows' = revs[r].copy
    /\ tables' = IF withTables /\ revs[r].tables # NoCopy THEN revs[r].tables ELSE tables
    /\ LET kept == IF backup
                   THEN Add(revs, nextRev, Revision(PreRestore, TRUE, NoCopy))
                   ELSE revs
       IN  revs' = Prune(kept, retention, protect)
    /\ nextRev' = IF backup THEN nextRev + 1 ELSE nextRev
    /\ UNCHANGED <<nextRow, retention, keeping>>
RestoreUnchecked(r, backup) == RestoreWithBugs(r, backup, FALSE, TRUE, r)
RestoreRowsOnly(r, backup) == RestoreWithBugs(r, backup, TRUE, FALSE, r)
RestoreUnprotected(r, backup) == RestoreWithBugs(r, backup, TRUE, TRUE, NoRev)

(* restore_revision: a copy that no longer matches its recorded hash is    *)
(* refused, and the refused call changes nothing.                          *)
RestoreRevision(r, backup) ==
    /\ r \in DOMAIN revs
    /\ Digest(revs[r].copy) = revs[r].sum
    /\ backup => nextRev \in RevIds
    /\ rows' = revs[r].copy
    /\ tables' = IF revs[r].tables = NoCopy THEN tables ELSE revs[r].tables
    /\ LET kept == IF backup
                   THEN Add(revs, nextRev, Revision(PreRestore, TRUE, NoCopy))
                   ELSE revs
       IN  revs' = Prune(kept, retention, r)
    /\ nextRev' = IF backup THEN nextRev + 1 ELSE nextRev
    /\ UNCHANGED <<nextRow, retention, keeping>>

\* The copy of a revision loses a row on disk (what the hash is there for).
DamageCopy(r) ==
    /\ r \in DOMAIN revs
    /\ \E id \in DOMAIN revs[r].copy :
           revs' = [revs EXCEPT ![r].copy =
                       [i \in DOMAIN revs[r].copy \ {id} |-> revs[r].copy[i]]]
    /\ UNCHANGED <<liveVars, nextRev, retention, keeping>>

----------------------------------------------------------------------------
(* The spending recovery copies                                            *)

(* Mutant: the older seeds are not discarded. *)
SetRecoverySeedKeepingOld(v) ==
    /\ v # Empty
    /\ nextRev \in RevIds
    /\ revs' = Prune(Add(revs, nextRev, Revision(Seed, FALSE, v)), retention, NoRev)
    /\ nextRev' = nextRev + 1
    /\ UNCHANGED <<liveVars, retention, keeping>>

SetRecoverySeed(v) ==
    IF v = Empty
    THEN /\ revs' = Discard(revs, Seed)
         /\ UNCHANGED <<liveVars, nextRev, retention, keeping>>
    ELSE /\ nextRev \in RevIds
         /\ revs' = Prune(Add(Discard(revs, Seed), nextRev,
                              Revision(Seed, FALSE, v)),
                          retention, NoRev)
         /\ nextRev' = nextRev + 1
         /\ UNCHANGED <<liveVars, retention, keeping>>

(* Mutant: nobody looks for an earlier copy. *)
KeepPreRecoveryUnchecked(t) ==
    /\ keeping[t] = NoCopy
    /\ tables[Budget] # Empty
    /\ keeping' = [keeping EXCEPT ![t] = tables[Budget]]
    /\ UNCHANGED <<liveVars, revs, nextRev, retention>>

(* keep_pre_recovery_copy(the live budget): latest_revision is a read of   *)
(* its own, the snapshot a later transaction.                              *)
KeepPreRecoveryCheck(t) ==
    /\ keeping[t] = NoCopy
    /\ tables[Budget] # Empty
    /\ RevsOf(revs, PreRecovery) = {}
    /\ keeping' = [keeping EXCEPT ![t] = tables[Budget]]
    /\ UNCHANGED <<liveVars, revs, nextRev, retention>>

KeepPreRecoveryTake(t) ==
    /\ keeping[t] # NoCopy
    /\ nextRev \in RevIds
    /\ revs' = Prune(Add(revs, nextRev, Revision(PreRecovery, FALSE, keeping[t])),
                     retention, NoRev)
    /\ nextRev' = nextRev + 1
    /\ keeping' = [keeping EXCEPT ![t] = NoCopy]
    /\ UNCHANGED <<liveVars, retention>>

(* restore_pre_recovery_copy finds the newest copy, reads it and replaces  *)
(* the table in three transactions.  Copies stay as they are, and a newer  *)
(* one may come in between, so it is any copy there is.                    *)
RestorePreRecoveryCopy ==
    \E r \in RevsOf(revs, PreRecovery) :
        /\ tables' = [tables EXCEPT ![Budget] = revs[r].budget]
        /\ UNCHANGED <<rows, nextRow, revs, nextRev, retention, keeping>>

----------------------------------------------------------------------------

Next ==
    \/ \E c \in Contents : InsertRow(c) \/ \E id \in RowIds : SetRow(id, c)
    \/ \E id \in RowIds : DeleteRow(id)
    \/ ClearRows
    \/ \E d \in Datasets, v \in Values : ReplaceAll(d, v)
    \/ \E v \in Values : SetRecoverySeed(v)
    \/ SnapshotRevision(PreConversion, NoCopy)
    \/ \E keep \in 1..MaxRetention : SetRevisionRetention(keep)
    \/ \E r \in RevIds, backup \in BOOLEAN : RestoreRevision(r, backup)
    \/ \E r \in RevIds : DamageCopy(r)
    \/ \E t \in Threads : KeepPreRecoveryCheck(t) \/ KeepPreRecoveryTake(t)
    \/ RestorePreRecoveryCopy

Spec == Init /\ [][Next]_vars

----------------------------------------------------------------------------
(* Properties                                                              *)

TableSets == [Datasets -> Values]

RevRecords ==
    [source : Sources,
     copy   : RowSets,
     sum    : {Digest(copy) : copy \in RowSets},
     tables : TableSets \cup {NoCopy},
     budget : Values \cup {NoCopy},
     was    : RowSets,
     wasTables : TableSets]

(* The types of plan_store.py's tables and of the threads' local reads.    *)
TypeOK ==
    /\ rows \in RowSets
    /\ nextRow \in 1..(MaxRows + 1)
    /\ tables \in TableSets
    /\ DOMAIN revs \subseteq RevIds
    /\ \A i \in DOMAIN revs : revs[i] \in RevRecords
    /\ revs = [i \in DOMAIN revs |-> revs[i]]
    /\ nextRev \in 1..(MaxRevs + 1)
    /\ retention \in 1..MaxRetention
    /\ keeping \in [Threads -> Values \cup {NoCopy}]

(* A new row never takes an id that a live row or any retained copy still  *)
(* uses, so a restore (which puts original ids back) cannot make one id    *)
(* mean two rows: the "never-reused row_id" insert_row promises.           *)
RowIdsStayApart ==
    \A i \in DOMAIN rows \cup UNION {DOMAIN revs[r].was : r \in DOMAIN revs} :
        i < nextRow

(* restore_revision brings back exactly what the rows and the tables were  *)
(* when the revision was made, whatever happened to its copy on disk and   *)
(* to the tables since; only the recovery copies, made without them, leave *)
(* the tables alone (plan_store.py:648-678).                               *)
RestoreIsExact ==
    [][\A r \in RevIds, b \in BOOLEAN :
          RestoreRevision(r, b) =>
              /\ Digest(rows') = Digest(revs[r].was)
              /\ tables' = IF revs[r].source \in ProtectedSources
                           THEN tables ELSE revs[r].wasTables]_vars

(* A restore with a backup can always be undone: the revision restored     *)
(* outlives its own pruning, and the backup, which is retained too at any  *)
(* retention, holds the rows and the tables of just before.                *)
RestoreCanBeUndone ==
    [][\A r \in RevIds :
          RestoreRevision(r, TRUE) =>
              /\ r \in DOMAIN revs'
              /\ nextRev \in DOMAIN revs'
              /\ revs'[nextRev].copy = rows
              /\ revs'[nextRev].sum = Digest(rows)
              /\ revs'[nextRev].tables = tables]_vars

(* No step drops a recovery copy, but a new seed (or an empty one) taking  *)
(* the seed's place: PROTECTED_REVISION_SOURCES is never pruned, whatever  *)
(* snapshot, restore or lower retention comes between.                     *)
RecoveryCopiesSurvive ==
    [][\A i \in DOMAIN revs \ DOMAIN revs' :
          revs[i].source \in ProtectedSources =>
              /\ revs[i].source = Seed
              /\ \A j \in RevsOf(revs', Seed) : j \notin DOMAIN revs]_vars

(* Retention is a bound: besides the recovery copies at most retention     *)
(* revisions are kept, and one more after a restore that protected an old  *)
(* one.                                                                    *)
RetentionIsABound ==
    Cardinality({i \in DOMAIN revs : revs[i].source \notin ProtectedSources})
        <= retention + 1

(* There is one recovery seed at most, so the budget it recovers is never  *)
(* in doubt (set_recovery_seed discards the older ones).                   *)
OneSeed ==
    \A i, j \in RevsOf(revs, Seed) : i = j

(* The "one-time pre-recovery" copy of keep_pre_recovery_copy: callers     *)
(* that race past the look of one another leave a copy each at most; once  *)
(* there is a copy, whatever is pruned or restored, a look finds one.      *)
PreRecoveryCopiesBounded ==
    Cardinality(RevsOf(revs, PreRecovery)) <= Cardinality(Threads)

(* The refinement mapping: the document is the hash of the rows and the    *)
(* tables, a saved version what its revision was made of.                  *)
HistoryDoc ==
    [p \in {"rows", "tables"} |-> IF p = "rows" THEN Digest(rows) ELSE tables]
HistorySaved ==
    [r \in DOMAIN revs |->
        [p \in IF revs[r].tables = NoCopy THEN {"rows"} ELSE {"rows", "tables"} |->
            IF p = "rows" THEN Digest(revs[r].was) ELSE revs[r].tables]]

History == INSTANCE PlanHistory WITH doc <- HistoryDoc, saved <- HistorySaved

(* The revision store implements the abstract history of saved versions.   *)
ImplementsHistory == History!Spec
================================================================================
