-------------------------- MODULE PlanRevisionsProofs --------------------------
(***************************************************************************)
(* Proofs about PlanRevisions, for any contents, datasets, retention and   *)
(* bounds.                                                                 *)
(***************************************************************************)
EXTENDS PlanRevisions, FiniteSetTheorems, TLAPS

----------------------------------------------------------------------------
(* The inductive invariant                                                 *)

(* Of the live plan: the types, and every live row id was issued. *)
LiveOK ==
    /\ rows \in RowSets
    /\ nextRow \in 1..(MaxRows + 1)
    /\ tables \in TableSets
    /\ nextRev \in 1..(MaxRevs + 1)
    /\ retention \in 1..MaxRetention
    /\ keeping \in [Threads -> Values \cup {NoCopy}]
    /\ \A i \in DOMAIN rows : i < nextRow

(* The tables a revision holds, of those there were when it was made. *)
TablesOf(rev) == IF rev.source \in ProtectedSources THEN NoCopy ELSE rev.wasTables

(* Of the revisions rs, with nrow and nrev the next ids: the types, every  *)
(* id was issued, a recorded hash is the hash of what was saved, a copy    *)
(* holds no row that was not there then, a pre-recovery revision has its   *)
(* budget copy, the recovery copies alone hold no tables, and there is one *)
(* seed at most.                                                           *)
RevsOK(rs, nrow, nrev) ==
    /\ DOMAIN rs \subseteq RevIds
    /\ rs = [i \in DOMAIN rs |-> rs[i]]
    /\ \A i \in DOMAIN rs :
           /\ rs[i] \in RevRecords
           /\ i < nrev
           /\ rs[i].sum = Digest(rs[i].was)
           /\ DOMAIN rs[i].copy \subseteq DOMAIN rs[i].was
           /\ \A j \in DOMAIN rs[i].was : j < nrow
           /\ rs[i].source = PreRecovery => rs[i].budget \in Values
           /\ rs[i].tables = TablesOf(rs[i])
    /\ \A i, j \in DOMAIN rs : rs[i].source = Seed /\ rs[j].source = Seed => i = j

IInv == LiveOK /\ RevsOK(revs, nextRow, nextRev)

----------------------------------------------------------------------------
(* Helpers                                                                 *)

(* Any function from row ids to contents is a set of rows. *)
LEMMA RowSetsIntro ==
    ASSUME NEW S \in SUBSET RowIds, NEW f \in [S -> Contents]
    PROVE  f \in RowSets
BY DEF RowSets

(* A set of rows is a function on some row ids. *)
LEMMA RowSetsElim ==
    ASSUME NEW f \in RowSets
    PROVE  /\ DOMAIN f \in SUBSET RowIds
           /\ f \in [DOMAIN f -> Contents]
           /\ f = [i \in DOMAIN f |-> f[i]]
BY DEF RowSets

(* The hash of a set of rows is one of the values rows_sha256 can hold. *)
LEMMA DigestType ==
    ASSUME NEW f \in RowSets
    PROVE  Digest(f) \in {Digest(copy) : copy \in RowSets}
OBVIOUS

(* Pruning keeps or drops whole revisions. *)
LEMMA PruneFacts ==
    ASSUME NEW rs, NEW keep, NEW protect
    PROVE  /\ DOMAIN Prune(rs, keep, protect) \subseteq DOMAIN rs
           /\ \A i \in DOMAIN Prune(rs, keep, protect) :
                  Prune(rs, keep, protect)[i] = rs[i]
           /\ Prune(rs, keep, protect)
                = [i \in DOMAIN Prune(rs, keep, protect) |->
                       Prune(rs, keep, protect)[i]]
           /\ protect \in DOMAIN rs => protect \in DOMAIN Prune(rs, keep, protect)
           /\ \A i \in DOMAIN rs : rs[i].source \in ProtectedSources =>
                  i \in DOMAIN Prune(rs, keep, protect)
           /\ Newest(DOMAIN rs, keep) \cap DOMAIN rs
                 \subseteq DOMAIN Prune(rs, keep, protect)
BY DEF Prune

(* Adding a revision touches no other. *)
LEMMA AddFacts ==
    ASSUME NEW rs, NEW id, NEW rev
    PROVE  /\ DOMAIN Add(rs, id, rev) = DOMAIN rs \cup {id}
           /\ Add(rs, id, rev)[id] = rev
           /\ \A i \in DOMAIN rs \ {id} : Add(rs, id, rev)[i] = rs[i]
BY DEF Add

(* The revision just added is the newest, so retention keeps it. *)
LEMMA NewestSurvives ==
    ASSUME NEW rs, NEW id \in Nat, NEW rev, NEW keep \in Nat \ {0}, NEW protect,
           DOMAIN rs \subseteq Nat, \A i \in DOMAIN rs : i < id
    PROVE  id \in DOMAIN Prune(Add(rs, id, rev), keep, protect)
<1> DEFINE new == Add(rs, id, rev)
<1>1. DOMAIN new = DOMAIN rs \cup {id}
    BY AddFacts
<1>2. \A j \in DOMAIN new : ~ (j > id)
    BY <1>1
<1>3. {j \in DOMAIN new : j > id} = {}
    BY <1>2
<1>4. Cardinality({j \in DOMAIN new : j > id}) < keep
    BY <1>3, FS_EmptySet
<1>5. id \in Newest(DOMAIN new, keep)
    BY <1>1, <1>4 DEF Newest
<1> HIDE DEF new
<1>6. id \in DOMAIN Prune(new, keep, protect)
    BY <1>1, <1>5, PruneFacts
<1> QED
    BY <1>6 DEF new

----------------------------------------------------------------------------
(* A step that adds a revision and prunes, in general                      *)

(* The record a snapshot makes is well typed and honest. *)
LEMMA RevisionType ==
    ASSUME LiveOK,
           NEW source \in Sources, NEW withTables \in BOOLEAN,
           NEW budget \in Values \cup {NoCopy}
    PROVE  /\ Revision(source, withTables, budget) \in RevRecords
           /\ Revision(source, withTables, budget).sum
                = Digest(Revision(source, withTables, budget).was)
           /\ Revision(source, withTables, budget).copy = rows
           /\ Revision(source, withTables, budget).was = rows
           /\ Revision(source, withTables, budget).source = source
           /\ Revision(source, withTables, budget).budget = budget
           /\ (withTables <=> source \notin ProtectedSources) =>
                  Revision(source, withTables, budget).tables
                      = TablesOf(Revision(source, withTables, budget))
<1>1. rows \in RowSets
    BY DEF LiveOK
<1>2. Digest(rows) \in {Digest(copy) : copy \in RowSets}
    BY <1>1
<1>3. (IF withTables THEN tables ELSE NoCopy) \in TableSets \cup {NoCopy} /\ tables \in TableSets
    BY DEF LiveOK
<1> QED
    BY <1>1, <1>2, <1>3 DEF Revision, RevRecords, TablesOf

(* Pruning preserves RevsOK. *)
LEMMA PruneOK ==
    ASSUME NEW rs, NEW keep, NEW protect, NEW nrow, NEW nrev, RevsOK(rs, nrow, nrev)
    PROVE  RevsOK(Prune(rs, keep, protect), nrow, nrev)
BY PruneFacts DEF RevsOK

(* Discarding a source preserves it, and leaves none of that source. *)
LEMMA DiscardOK ==
    ASSUME NEW rs, NEW source, NEW nrow, NEW nrev, RevsOK(rs, nrow, nrev)
    PROVE  /\ RevsOK(Discard(rs, source), nrow, nrev)
           /\ DOMAIN Discard(rs, source) \subseteq DOMAIN rs
           /\ \A i \in DOMAIN Discard(rs, source) :
                  /\ Discard(rs, source)[i] = rs[i]
                  /\ Discard(rs, source)[i].source # source
BY DEF RevsOK, Discard

(* Adding a snapshot of the live rows preserves it, if that makes no       *)
(* second seed.                                                            *)
LEMMA AddOK ==
    ASSUME IInv, nextRev \in RevIds, NEW rs, RevsOK(rs, nextRow, nextRev),
           NEW source \in Sources, NEW withTables \in BOOLEAN,
           NEW budget \in Values \cup {NoCopy},
           source = Seed => \A i \in DOMAIN rs : rs[i].source # Seed,
           source = PreRecovery => budget \in Values,
           withTables <=> source \notin ProtectedSources
    PROVE  RevsOK(Add(rs, nextRev, Revision(source, withTables, budget)),
                  nextRow, nextRev + 1)
<1> DEFINE rev == Revision(source, withTables, budget)
<1> DEFINE new == Add(rs, nextRev, rev)
<1>1. /\ rev \in RevRecords
      /\ rev.sum = Digest(rev.was)
      /\ rev.copy = rows /\ rev.was = rows
      /\ rev.source = source /\ rev.budget = budget
      /\ rev.tables = TablesOf(rev)
    BY RevisionType DEF IInv
<1>2. \A i \in DOMAIN rows : i < nextRow
    BY DEF IInv, LiveOK
<1>3. /\ DOMAIN new = DOMAIN rs \cup {nextRev}
      /\ new[nextRev] = rev
      /\ new = [i \in DOMAIN new |-> new[i]]
    BY DEF Add
<1>4. nextRev \notin DOMAIN rs
    BY DEF RevsOK, RevIds
<1>5. \A i \in DOMAIN rs : new[i] = rs[i]
    BY <1>4 DEF Add
<1>6. \A i \in DOMAIN new : i < nextRev + 1 /\ i \in RevIds
    BY <1>3, BoundsAssumption DEF RevsOK, RevIds
<1> HIDE DEF rev, new
<1>7. \A i \in DOMAIN new :
          /\ new[i] \in RevRecords
          /\ i < nextRev + 1
          /\ new[i].sum = Digest(new[i].was)
          /\ DOMAIN new[i].copy \subseteq DOMAIN new[i].was
          /\ \A j \in DOMAIN new[i].was : j < nextRow
          /\ new[i].source = PreRecovery => new[i].budget \in Values
          /\ new[i].tables = TablesOf(new[i])
    <2> TAKE i \in DOMAIN new
    <2>1. CASE i = nextRev
        BY <1>1, <1>2, <1>3, <1>6, <2>1
    <2>2. CASE i \in DOMAIN rs
        BY <1>3, <1>5, <1>6, <2>2 DEF RevsOK
    <2> QED
        BY <1>3, <2>1, <2>2
<1>8. \A i, j \in DOMAIN new : new[i].source = Seed /\ new[j].source = Seed => i = j
    BY <1>1, <1>3, <1>5 DEF RevsOK
<1>9. DOMAIN new \subseteq RevIds
    BY <1>6
<1>10. RevsOK(new, nextRow, nextRev + 1)
    BY <1>3, <1>6, <1>7, <1>8, <1>9 DEF RevsOK
<1> QED
    BY <1>10 DEF new, rev

----------------------------------------------------------------------------
(* The actions preserve the invariant                                      *)

(* RevsOK survives a larger next row id. *)
LEMMA RevsOKMonotone ==
    ASSUME NEW rs, NEW nrev, NEW n \in Nat, RevsOK(rs, n, nrev)
    PROVE  RevsOK(rs, n + 1, nrev)
<1>1. ASSUME NEW i \in DOMAIN rs, NEW j \in DOMAIN rs[i].was
      PROVE  j < n + 1
    <2>1. j < n /\ rs[i] \in RevRecords
        BY DEF RevsOK
    <2>2. rs[i].was \in RowSets
        BY <2>1 DEF RevRecords
    <2>3. j \in Nat
        BY <2>2, RowSetsElim, BoundsAssumption DEF RowIds
    <2> QED
        BY <2>1, <2>3
<1> QED
    BY <1>1 DEF RevsOK

(* The empty plan file satisfies the invariant. *)
LEMMA InitIInv == Init => IInv
<1> SUFFICES ASSUME Init PROVE IInv
    OBVIOUS
<1>1. rows \in [{} -> Contents]
    BY DEF Init
<1>2. rows \in RowSets
    BY <1>1, RowSetsIntro, {} \in SUBSET RowIds
<1>3. LiveOK
    BY <1>2, DatasetsAssumption, BoundsAssumption DEF Init, LiveOK, TableSets
<1>4. RevsOK(revs, nextRow, nextRev)
    BY DEF Init, RevsOK
<1> QED
    BY <1>3, <1>4 DEF IInv

(* Editing rows: no revision changes, and a new id is past every other. *)
LEMMA RowEditsIInv ==
    ASSUME IInv,
           \/ \E c \in Contents : InsertRow(c)
           \/ \E id \in RowIds, c \in Contents : SetRow(id, c)
           \/ \E id \in RowIds : DeleteRow(id)
           \/ ClearRows
    PROVE  IInv'
<1> USE DEF IInv
<1>0. nextRow \in Nat
    BY BoundsAssumption DEF LiveOK
<1>d. /\ DOMAIN rows \in SUBSET RowIds
      /\ rows \in [DOMAIN rows -> Contents]
    BY RowSetsElim DEF LiveOK
<1>1. CASE \E c \in Contents : InsertRow(c)
    <2> PICK c \in Contents : InsertRow(c)
        BY <1>1
    <2>1. /\ DOMAIN rows \cup {nextRow} \in SUBSET RowIds
          /\ rows' \in [DOMAIN rows \cup {nextRow} -> Contents]
        BY <1>d DEF InsertRow
    <2>2. rows' \in RowSets
        BY <2>1, RowSetsIntro
    <2>3. DOMAIN rows' = DOMAIN rows \cup {nextRow}
        BY DEF InsertRow
    <2>4. \A i \in DOMAIN rows' : i < nextRow'
        BY <1>0, <1>d, <2>3, BoundsAssumption DEF InsertRow, LiveOK, RowIds
    <2>5. nextRow' \in 1..(MaxRows + 1)
        BY BoundsAssumption DEF InsertRow, RowIds
    <2>6. RevsOK(revs, nextRow + 1, nextRev)
        BY <1>0, RevsOKMonotone
    <2> QED
        BY <2>2, <2>4, <2>5, <2>6 DEF InsertRow, LiveOK
<1>2. CASE \E id \in RowIds, c \in Contents : SetRow(id, c)
    <2> PICK id \in RowIds, c \in Contents : SetRow(id, c)
        BY <1>2
    <2>1. rows' \in [DOMAIN rows -> Contents]
        BY <1>d DEF SetRow
    <2>2. rows' \in RowSets /\ DOMAIN rows' = DOMAIN rows
        BY <1>d, <2>1, RowSetsIntro
    <2> QED
        BY <2>2 DEF SetRow, LiveOK
<1>3. CASE \E id \in RowIds : DeleteRow(id)
    <2> PICK id \in RowIds : DeleteRow(id)
        BY <1>3
    <2>1. /\ DOMAIN rows \ {id} \in SUBSET RowIds
          /\ rows' \in [DOMAIN rows \ {id} -> Contents]
        BY <1>d DEF DeleteRow
    <2>2. rows' \in RowSets /\ DOMAIN rows' \subseteq DOMAIN rows
        BY <2>1, RowSetsIntro
    <2> QED
        BY <2>2 DEF DeleteRow, LiveOK
<1>4. CASE ClearRows
    <2>1. rows' \in [{} -> Contents]
        BY <1>4 DEF ClearRows
    <2>2. rows' \in RowSets /\ DOMAIN rows' = {}
        BY <2>1, RowSetsIntro, {} \in SUBSET RowIds
    <2> QED
        BY <1>4, <2>2 DEF ClearRows, LiveOK
<1> QED
    BY <1>1, <1>2, <1>3, <1>4

(* Writing a dataset, or finding the budget worth a copy, leaves rows   *)
(* and revisions alone.                                                    *)
LEMMA TableEditsIInv ==
    ASSUME IInv,
           \/ \E d \in Datasets, v \in Values : ReplaceAll(d, v)
           \/ \E t \in Threads : KeepPreRecoveryCheck(t)
    PROVE  IInv'
<1>1. CASE \E d \in Datasets, v \in Values : ReplaceAll(d, v)
    BY <1>1 DEF ReplaceAll, IInv, LiveOK, TableSets
<1>2. CASE \E t \in Threads : KeepPreRecoveryCheck(t)
    <2>1. tables[Budget] \in Values
        BY DatasetsAssumption DEF IInv, LiveOK, TableSets
    <2> QED
        BY <1>2, <2>1 DEF KeepPreRecoveryCheck, liveVars, IInv, LiveOK
<1> QED
    BY <1>1, <1>2

(* Putting the budget back puts back a value a budget can have.  A copy    *)
(* taken as a pre-recovery revision is never NoCopy.                       *)
LEMMA RestorePreRecoveryIInv ==
    ASSUME IInv, RestorePreRecoveryCopy
    PROVE  IInv'
<1> PICK r \in RevsOf(revs, PreRecovery) :
        /\ tables' = [tables EXCEPT ![Budget] = revs[r].budget]
        /\ UNCHANGED <<rows, nextRow, revs, nextRev, retention, keeping>>
    BY DEF RestorePreRecoveryCopy
<1>1. revs[r].budget \in Values
    BY DEF RevsOf, IInv, RevsOK
<1> QED
    BY <1>1 DEF IInv, LiveOK, TableSets

(* A snapshot adds one honest revision and prunes. *)
LEMMA SnapshotIInv ==
    ASSUME IInv, SnapshotRevision(PreConversion, NoCopy)
    PROVE  IInv'
<1>1. nextRev \in RevIds
    BY DEF SnapshotRevision
<1>2. PreConversion \in Sources /\ PreConversion \notin {Seed, PreRecovery}
    BY DEF PreConversion, Sources, Seed, PreRecovery
<1>3. RevsOK(Add(revs, nextRev,
                 Revision(PreConversion, PreConversion \notin ProtectedSources, NoCopy)),
             nextRow, nextRev + 1)
    BY <1>1, <1>2, AddOK DEF IInv
<1>4. RevsOK(revs', nextRow', nextRev')
    BY <1>3, PruneOK DEF SnapshotRevision, liveVars
<1> QED
    BY <1>1, <1>4, BoundsAssumption DEF SnapshotRevision, liveVars, IInv, LiveOK, RevIds

(* A lower retention only drops revisions. *)
LEMMA RetentionIInv ==
    ASSUME IInv, NEW keep \in 1..MaxRetention, SetRevisionRetention(keep)
    PROVE  IInv'
<1>1. RevsOK(revs', nextRow', nextRev')
    BY PruneOK DEF SetRevisionRetention, liveVars, IInv
<1> QED
    BY <1>1 DEF SetRevisionRetention, liveVars, IInv, LiveOK

(* A restore puts back rows that were issued, and its backup is honest. *)
LEMMA RestoreIInv ==
    ASSUME IInv, NEW r \in RevIds, NEW backup \in BOOLEAN, RestoreRevision(r, backup)
    PROVE  IInv'
<1>1. /\ r \in DOMAIN revs
      /\ revs[r] \in RevRecords
      /\ DOMAIN revs[r].copy \subseteq DOMAIN revs[r].was
      /\ \A j \in DOMAIN revs[r].was : j < nextRow
    BY DEF RestoreRevision, IInv, RevsOK
<1>2. rows' \in RowSets /\ \A i \in DOMAIN rows' : i < nextRow
    BY <1>1 DEF RestoreRevision, RevRecords
<1>3. tables' \in TableSets
    BY <1>1 DEF RestoreRevision, RevRecords, IInv, LiveOK
<1>4. CASE backup
    <2>1. nextRev \in RevIds
        BY <1>4 DEF RestoreRevision
    <2>2. PreRestore \in Sources /\ PreRestore \notin {Seed, PreRecovery}
          /\ PreRestore \notin ProtectedSources
        BY DEF PreRestore, Sources, Seed, PreRecovery, ProtectedSources
    <2>3. RevsOK(Add(revs, nextRev, Revision(PreRestore, TRUE, NoCopy)),
                 nextRow, nextRev + 1)
        BY <2>1, <2>2, AddOK DEF IInv
    <2>4. revs' = Prune(Add(revs, nextRev, Revision(PreRestore, TRUE, NoCopy)),
                        retention, r)
        BY <1>4 DEF RestoreRevision
    <2>5. RevsOK(revs', nextRow', nextRev')
        BY <1>4, <2>3, <2>4, PruneOK DEF RestoreRevision
    <2>6. nextRev' \in 1..(MaxRevs + 1)
        BY <1>4, <2>1, BoundsAssumption DEF RestoreRevision, RevIds
    <2> QED
        BY <1>2, <1>3, <2>5, <2>6 DEF RestoreRevision, IInv, LiveOK
<1>5. CASE ~backup
    <2>1. revs' = Prune(revs, retention, r) /\ nextRev' = nextRev
        BY <1>5 DEF RestoreRevision
    <2>2. RevsOK(revs', nextRow', nextRev')
        BY <2>1, PruneOK DEF RestoreRevision, IInv
    <2> QED
        BY <1>2, <1>3, <2>1, <2>2 DEF RestoreRevision, IInv, LiveOK
<1> QED
    BY <1>4, <1>5

(* Damage takes rows out of a copy and leaves the recorded hash. *)
LEMMA DamageIInv ==
    ASSUME IInv, NEW r \in RevIds, DamageCopy(r)
    PROVE  IInv'
<1> PICK id \in DOMAIN revs[r].copy :
        revs' = [revs EXCEPT ![r].copy =
                    [i \in DOMAIN revs[r].copy \ {id} |-> revs[r].copy[i]]]
    BY DEF DamageCopy
<1> DEFINE left == [i \in DOMAIN revs[r].copy \ {id} |-> revs[r].copy[i]]
<1>1. r \in DOMAIN revs /\ revs[r] \in RevRecords
    BY DEF DamageCopy, IInv, RevsOK
<1>2. revs[r].copy \in RowSets
    BY <1>1 DEF RevRecords
<1>3. /\ DOMAIN left \in SUBSET RowIds
      /\ left \in [DOMAIN left -> Contents]
      /\ DOMAIN left \subseteq DOMAIN revs[r].copy
    BY <1>2, RowSetsElim
<1>4. left \in RowSets
    BY <1>3, RowSetsIntro
<1> HIDE DEF left
<1>5. /\ revs' = [revs EXCEPT ![r] = [revs[r] EXCEPT !.copy = left]]
      /\ [revs[r] EXCEPT !.copy = left] \in RevRecords
    BY <1>1, <1>4 DEF left, RevRecords
<1>6. \A i \in DOMAIN revs' :
          /\ i \in DOMAIN revs
          /\ revs'[i] \in RevRecords
          /\ revs'[i].source = revs[i].source
          /\ revs'[i].sum = revs[i].sum
          /\ revs'[i].was = revs[i].was
          /\ revs'[i].budget = revs[i].budget
          /\ revs'[i].tables = revs[i].tables
          /\ revs'[i].wasTables = revs[i].wasTables
          /\ DOMAIN revs'[i].copy \subseteq DOMAIN revs[i].copy
    <2> TAKE i \in DOMAIN revs'
    <2>1. i \in DOMAIN revs /\ revs[i] \in RevRecords
        BY <1>5 DEF IInv, RevsOK
    <2>2. CASE i = r
        BY <1>1, <1>3, <1>5, <2>1, <2>2 DEF RevRecords
    <2>3. CASE i # r
        BY <1>5, <2>1, <2>3
    <2> QED
        BY <2>2, <2>3
<1>7. /\ DOMAIN revs' = DOMAIN revs
      /\ revs' = [i \in DOMAIN revs' |-> revs'[i]]
    BY <1>5
<1>8. RevsOK(revs', nextRow, nextRev)
    <2>1. RevsOK(revs, nextRow, nextRev)
        BY DEF IInv
    <2>2. ASSUME NEW i \in DOMAIN revs'
          PROVE  /\ revs'[i] \in RevRecords
                 /\ i < nextRev
                 /\ revs'[i].sum = Digest(revs'[i].was)
                 /\ DOMAIN revs'[i].copy \subseteq DOMAIN revs'[i].was
                 /\ \A j \in DOMAIN revs'[i].was : j < nextRow
                 /\ revs'[i].source = PreRecovery => revs'[i].budget \in Values
                 /\ revs'[i].tables = TablesOf(revs'[i])
        <3>1. revs'[i].tables = TablesOf(revs'[i])
            BY <1>6, <2>1 DEF RevsOK, TablesOf
        <3> QED
            BY <1>6, <2>1, <3>1, Zenon DEF RevsOK
    <2>3. ASSUME NEW i \in DOMAIN revs', NEW j \in DOMAIN revs',
                 revs'[i].source = Seed, revs'[j].source = Seed
          PROVE  i = j
        <3>1. /\ i \in DOMAIN revs /\ j \in DOMAIN revs
              /\ revs[i].source = Seed /\ revs[j].source = Seed
            BY <1>6, <2>3
        <3> QED
            BY <2>1, <3>1 DEF RevsOK
    <2>4. DOMAIN revs' \subseteq RevIds
        BY <1>7, <2>1 DEF RevsOK
    <2> QED
        BY <1>7, <2>2, <2>3, <2>4, Zenon DEF RevsOK
<1> QED
    BY <1>8 DEF DamageCopy, liveVars, IInv, LiveOK

(* A new seed takes the place of the old one. *)
LEMMA SeedIInv ==
    ASSUME IInv, NEW v \in Values, SetRecoverySeed(v)
    PROVE  IInv'
<1>1. /\ RevsOK(Discard(revs, Seed), nextRow, nextRev)
      /\ \A i \in DOMAIN Discard(revs, Seed) : Discard(revs, Seed)[i].source # Seed
    BY DiscardOK DEF IInv
<1>2. CASE v = Empty
    BY <1>1, <1>2 DEF SetRecoverySeed, liveVars, IInv, LiveOK
<1>3. CASE v # Empty
    <2>1. nextRev \in RevIds
        BY <1>3 DEF SetRecoverySeed
    <2>2. Seed \in Sources /\ Seed # PreRecovery /\ Seed \in ProtectedSources
        BY DEF Sources, ProtectedSources, Seed, PreRecovery
    <2>3. RevsOK(Add(Discard(revs, Seed), nextRev, Revision(Seed, FALSE, v)),
                 nextRow, nextRev + 1)
        BY <1>1, <2>1, <2>2, AddOK
    <2>4. RevsOK(revs', nextRow', nextRev')
        BY <1>3, <2>3, PruneOK DEF SetRecoverySeed, liveVars
    <2> QED
        BY <1>3, <2>1, <2>4, BoundsAssumption
        DEF SetRecoverySeed, liveVars, IInv, LiveOK, RevIds
<1> QED
    BY <1>2, <1>3

(* The pre-recovery copy is one more honest revision. *)
LEMMA KeepTakeIInv ==
    ASSUME IInv, NEW t \in Threads, KeepPreRecoveryTake(t)
    PROVE  IInv'
<1>1. nextRev \in RevIds /\ keeping[t] \in Values
    BY DEF KeepPreRecoveryTake, IInv, LiveOK
<1>2. PreRecovery \in Sources /\ PreRecovery # Seed /\ PreRecovery \in ProtectedSources
    BY DEF PreRecovery, Sources, ProtectedSources, Seed
<1>3. RevsOK(Add(revs, nextRev, Revision(PreRecovery, FALSE, keeping[t])),
             nextRow, nextRev + 1)
    BY <1>1, <1>2, AddOK DEF IInv
<1>4. RevsOK(revs', nextRow', nextRev')
    BY <1>3, PruneOK DEF KeepPreRecoveryTake, liveVars
<1>5. keeping' \in [Threads -> Values \cup {NoCopy}]
    BY DEF KeepPreRecoveryTake, IInv, LiveOK
<1>6. nextRev' \in 1..(MaxRevs + 1)
    BY <1>1, BoundsAssumption DEF KeepPreRecoveryTake, RevIds
<1>7. UNCHANGED <<rows, nextRow, tables, retention>>
    BY DEF KeepPreRecoveryTake, liveVars
<1> QED
    BY <1>4, <1>5, <1>6, <1>7 DEF IInv, LiveOK

----------------------------------------------------------------------------
(* The theorems                                                            *)

(* Every step of the plan file preserves the invariant. *)
LEMMA NextIInv == IInv /\ [Next]_vars => IInv'
<1> SUFFICES ASSUME IInv, [Next]_vars PROVE IInv'
    OBVIOUS
<1>1. CASE \/ \E c \in Contents : InsertRow(c)
           \/ \E id \in RowIds, c \in Contents : SetRow(id, c)
           \/ \E id \in RowIds : DeleteRow(id)
           \/ ClearRows
    BY <1>1, RowEditsIInv
<1>2. CASE \/ \E d \in Datasets, v \in Values : ReplaceAll(d, v)
           \/ \E t \in Threads : KeepPreRecoveryCheck(t)
    BY <1>2, TableEditsIInv
<1>3. CASE \E v \in Values : SetRecoverySeed(v)
    BY <1>3, SeedIInv
<1>4. CASE SnapshotRevision(PreConversion, NoCopy)
    BY <1>4, SnapshotIInv
<1>5. CASE \E keep \in 1..MaxRetention : SetRevisionRetention(keep)
    BY <1>5, RetentionIInv
<1>6. CASE \E r \in RevIds, backup \in BOOLEAN : RestoreRevision(r, backup)
    BY <1>6, RestoreIInv
<1>7. CASE \E r \in RevIds : DamageCopy(r)
    BY <1>7, DamageIInv
<1>8. CASE \E t \in Threads : KeepPreRecoveryTake(t)
    BY <1>8, KeepTakeIInv
<1>9. CASE RestorePreRecoveryCopy
    BY <1>9, RestorePreRecoveryIInv
<1>10. CASE UNCHANGED vars
    BY <1>10 DEF vars, IInv, LiveOK
<1> QED
    BY <1>1, <1>2, <1>3, <1>4, <1>5, <1>6, <1>7, <1>8, <1>9, <1>10 DEF Next

(* The inductive invariant always holds. *)
THEOREM InductiveInvariant == Spec => []IInv
BY InitIInv, NextIInv, PTL DEF Spec

(* Every variable of the plan file keeps its type. *)
THEOREM TypeCorrect == Spec => []TypeOK
<1>1. IInv => TypeOK
    BY DEF IInv, LiveOK, RevsOK, TypeOK
<1> QED
    BY <1>1, InductiveInvariant, PTL

(* No id is given to a second row while any copy still names the first. *)
THEOREM RowIdsNeverShared == Spec => []RowIdsStayApart
<1>1. IInv => RowIdsStayApart
    BY DEF IInv, LiveOK, RevsOK, RowIdsStayApart
<1> QED
    BY <1>1, InductiveInvariant, PTL

(* There is never more than one recovery seed. *)
THEOREM SeedIsUnique == Spec => []OneSeed
<1>1. IInv => OneSeed
    BY DEF IInv, RevsOK, OneSeed, RevsOf
<1> QED
    BY <1>1, InductiveInvariant, PTL

(* A restore brings back exactly the rows and the tables that were saved,  *)
(* damaged copies or not; a recovery copy leaves the tables alone.         *)
THEOREM RestoresAreExact == Spec => RestoreIsExact
<1> DEFINE Exact(r) ==
        /\ Digest(rows') = Digest(revs[r].was)
        /\ tables' = IF revs[r].source \in ProtectedSources
                     THEN tables ELSE revs[r].wasTables
<1>1. ASSUME IInv, NEW r \in RevIds, NEW b \in BOOLEAN, RestoreRevision(r, b)
      PROVE  Exact(r)
    <2>1. /\ r \in DOMAIN revs
          /\ revs[r] \in RevRecords
          /\ revs[r].sum = Digest(revs[r].was)
          /\ revs[r].tables = TablesOf(revs[r])
        BY <1>1 DEF RestoreRevision, IInv, RevsOK
    <2>2. Digest(rows') = Digest(revs[r].was)
        BY <1>1, <2>1 DEF RestoreRevision
    <2>3. revs[r].wasTables # NoCopy
        BY <2>1, DatasetsAssumption DEF RevRecords, TableSets
    <2>4. tables' = IF revs[r].source \in ProtectedSources
                    THEN tables ELSE revs[r].wasTables
        BY <1>1, <2>1, <2>3 DEF RestoreRevision, TablesOf
    <2> QED
        BY <2>2, <2>4
<1>2. IInv => [\A r \in RevIds, b \in BOOLEAN : RestoreRevision(r, b) => Exact(r)]_vars
    BY <1>1
<1> QED
    BY <1>2, InductiveInvariant, PTL DEF RestoreIsExact

(* A restore with a backup keeps both the revision and the way back. *)
THEOREM RestoresCanBeUndone == Spec => RestoreCanBeUndone
<1>1. ASSUME IInv, NEW r \in RevIds, RestoreRevision(r, TRUE)
      PROVE  /\ r \in DOMAIN revs'
             /\ nextRev \in DOMAIN revs'
             /\ revs'[nextRev].copy = rows
             /\ revs'[nextRev].sum = Digest(rows)
             /\ revs'[nextRev].tables = tables
    <2> DEFINE bak == Revision(PreRestore, TRUE, NoCopy)
    <2> DEFINE kept == Add(revs, nextRev, bak)
    <2>1. revs' = Prune(kept, retention, r) /\ r \in DOMAIN revs
        BY <1>1 DEF RestoreRevision
    <2>2. nextRev \in Nat /\ retention \in Nat \ {0}
        BY <1>1, BoundsAssumption DEF IInv, LiveOK
    <2>3. DOMAIN revs \subseteq Nat /\ \A i \in DOMAIN revs : i < nextRev
        BY <1>1, BoundsAssumption DEF IInv, RevsOK, RevIds
    <2>4. nextRev \in DOMAIN revs'
        BY <2>1, <2>2, <2>3, NewestSurvives
    <2>5. r \in DOMAIN kept /\ kept[nextRev] = bak
        BY <2>1 DEF Add
    <2>6. bak.copy = rows /\ bak.sum = Digest(rows) /\ bak.tables = tables
        BY DEF Revision
    <2> HIDE DEF kept, bak
    <2> QED
        BY <2>1, <2>4, <2>5, <2>6, PruneFacts
<1>2. IInv => [\A r \in RevIds :
                  RestoreRevision(r, TRUE) =>
                      /\ r \in DOMAIN revs'
                      /\ nextRev \in DOMAIN revs'
                      /\ revs'[nextRev].copy = rows
                      /\ revs'[nextRev].sum = Digest(rows)
                      /\ revs'[nextRev].tables = tables]_vars
    BY <1>1
<1> QED
    BY <1>2, InductiveInvariant, PTL DEF RestoreCanBeUndone
----------------------------------------------------------------------------
(* The recovery copies                                                     *)

(* Adding a revision and pruning drops no recovery copy. *)
LEMMA ProtectedStay ==
    ASSUME NEW rs, NEW id, NEW rev, NEW keep, NEW protect,
           NEW i \in DOMAIN rs, i # id, rs[i].source \in ProtectedSources
    PROVE  i \in DOMAIN Prune(Add(rs, id, rev), keep, protect)
BY DEF Prune, Add

(* Only a new seed, or an empty one, takes a recovery copy away. *)
LEMMA NextKeepsCopies ==
    ASSUME IInv, [Next]_vars, NEW i \in DOMAIN revs \ DOMAIN revs',
           revs[i].source \in ProtectedSources
    PROVE  /\ revs[i].source = Seed
           /\ \A j \in RevsOf(revs', Seed) : j \notin DOMAIN revs
<1>1. i # nextRev /\ nextRev \notin DOMAIN revs
    BY BoundsAssumption DEF IInv, LiveOK, RevsOK, RevIds
<1>2. revs' # revs
    OBVIOUS
<1>3. ASSUME NEW source \in Sources, NEW budget, SnapshotRevision(source, budget)
      PROVE  FALSE
    BY <1>1, <1>3, ProtectedStay DEF SnapshotRevision
<1>4. ASSUME NEW keep, SetRevisionRetention(keep)
      PROVE  FALSE
    BY <1>4, PruneFacts DEF SetRevisionRetention
<1>5. ASSUME NEW r \in RevIds, NEW backup \in BOOLEAN, RestoreRevision(r, backup)
      PROVE  FALSE
    <2>1. CASE backup
        BY <1>1, <1>5, <2>1, ProtectedStay DEF RestoreRevision
    <2>2. CASE ~backup
        BY <1>5, <2>2, PruneFacts DEF RestoreRevision
    <2> QED
        BY <2>1, <2>2
<1>6. ASSUME NEW r \in RevIds, DamageCopy(r)
      PROVE  FALSE
    BY <1>6 DEF DamageCopy
<1>7. ASSUME NEW t \in Threads, KeepPreRecoveryTake(t)
      PROVE  FALSE
    BY <1>1, <1>7, ProtectedStay DEF KeepPreRecoveryTake
<1>8. ASSUME NEW v \in Values, SetRecoverySeed(v)
      PROVE  /\ revs[i].source = Seed
             /\ \A j \in RevsOf(revs', Seed) : j \notin DOMAIN revs
    <2>1. \A j \in DOMAIN Discard(revs, Seed) :
              Discard(revs, Seed)[j] = revs[j] /\ revs[j].source # Seed
        BY DEF Discard
    <2>2. revs[i].source # Seed => i \in DOMAIN Discard(revs, Seed)
        BY DEF Discard
    <2>3. CASE v = Empty
        BY <1>8, <2>1, <2>2, <2>3 DEF SetRecoverySeed, RevsOf
    <2>4. CASE v # Empty
        <3> DEFINE new == Add(Discard(revs, Seed), nextRev,
                              Revision(Seed, FALSE, v))
        <3>1. revs' = Prune(new, retention, NoRev)
            BY <1>8, <2>4 DEF SetRecoverySeed
        <3>2. revs[i].source = Seed
            BY <1>1, <2>1, <2>2, <3>1, ProtectedStay
        <3>3. ASSUME NEW j \in RevsOf(revs', Seed)
              PROVE  j = nextRev
            <4>1. j \in DOMAIN new /\ new[j].source = Seed
                BY <3>1 DEF RevsOf, Prune
            <4>2. j # nextRev => /\ j \in DOMAIN Discard(revs, Seed)
                                 /\ new[j] = Discard(revs, Seed)[j]
                BY <4>1 DEF Add
            <4> QED
                BY <2>1, <4>1, <4>2
        <3> QED
            BY <1>1, <3>2, <3>3
    <2> QED
        BY <2>3, <2>4
<1> QED
    BY <1>2, <1>3, <1>4, <1>5, <1>6, <1>7, <1>8
    DEF Next, vars, InsertRow, SetRow, DeleteRow, ClearRows, ReplaceAll,
        KeepPreRecoveryCheck, RestorePreRecoveryCopy,
        Sources, PreConversion

(* No revision, restore or lower retention prunes a recovery copy. *)
THEOREM CopiesSurvive == Spec => RecoveryCopiesSurvive
<1>1. IInv /\ [Next]_vars =>
          [\A i \in DOMAIN revs \ DOMAIN revs' :
              revs[i].source \in ProtectedSources =>
                  /\ revs[i].source = Seed
                  /\ \A j \in RevsOf(revs', Seed) : j \notin DOMAIN revs]_vars
    BY NextKeepsCopies
<1> QED
    BY <1>1, InductiveInvariant, PTL DEF RecoveryCopiesSurvive, Spec
----------------------------------------------------------------------------
(* Retention and the pre-recovery copy                                     *)

(* A set of revision ids that is not empty has a lowest one. *)
LEMMA LowestId ==
    ASSUME NEW ids \in SUBSET Nat, ids # {}
    PROVE  \E m \in ids : \A i \in ids : m <= i
<1> DEFINE below == {p \in Nat \X Nat : p[1] < p[2]}
<1>1. IsWellFoundedOn(below, Nat)
    BY NatLessThanWellFounded DEF OpToRel
<1> HIDE DEF below
<1>2. PICK m \in ids : \A i \in ids : ~(<<i, m>> \in below)
    BY <1>1, WFMin
<1>3. \A i \in ids : ~(i < m)
    BY <1>2 DEF below
<1> QED
    BY <1>3

(* At most keep ids have fewer than keep newer ones: the lowest of them    *)
(* has all the others after it.                                            *)
LEMMA NewestBound ==
    ASSUME NEW ids \in SUBSET Nat, IsFiniteSet(ids), NEW keep \in Nat
    PROVE  /\ IsFiniteSet(Newest(ids, keep))
           /\ Cardinality(Newest(ids, keep)) <= keep
<1> DEFINE kept == Newest(ids, keep)
<1>1. kept \subseteq ids
    BY DEF Newest
<1>2. IsFiniteSet(kept)
    BY <1>1, FS_Subset
<1>3. CASE kept = {}
    BY <1>2, <1>3, FS_EmptySet
<1>4. CASE kept # {}
    <2>1. PICK m \in kept : \A i \in kept : m <= i
        BY <1>1, <1>4, LowestId
    <2> DEFINE after == {j \in ids : j > m}
    <2>2. Cardinality(after) < keep
        BY <2>1 DEF Newest
    <2>3. IsFiniteSet(after)
        BY FS_Subset
    <2>4. kept \ {m} \subseteq after
        <3> HIDE DEF kept
        <3>1. ASSUME NEW i \in kept \ {m}
              PROVE  i > m
            <4>1. m <= i /\ m \in Nat /\ i \in Nat
                BY <1>1, <2>1
            <4> QED
                BY <4>1
        <3> QED
            BY <1>1, <3>1
    <2>5. Cardinality(kept \ {m}) <= Cardinality(after)
        BY <2>3, <2>4, FS_Subset
    <2>6. Cardinality(kept \ {m}) = Cardinality(kept) - 1
        BY <1>2, <2>1, FS_RemoveElement
    <2>7. Cardinality(kept) \in Nat /\ Cardinality(after) \in Nat
        BY <1>2, <2>3, FS_CardinalityType
    <2> HIDE DEF kept, after
    <2>8. Cardinality(kept) <= keep
        BY <2>2, <2>5, <2>6, <2>7
    <2> QED
        BY <1>2, <2>8 DEF kept
<1> QED
    BY <1>3, <1>4

(* What retention counts. *)
Ordinary(rs) == {i \in DOMAIN rs : rs[i].source \notin ProtectedSources}

(* Pruning leaves as many of them as retention says, and the protected one. *)
LEMMA PruneBound ==
    ASSUME NEW rs, DOMAIN rs \subseteq Nat, IsFiniteSet(DOMAIN rs),
           NEW keep \in Nat, NEW protect
    PROVE  Cardinality(Ordinary(Prune(rs, keep, protect))) <= keep + 1
<1> DEFINE kept == Newest(DOMAIN rs, keep)
<1>1. IsFiniteSet(kept) /\ Cardinality(kept) <= keep
    BY NewestBound
<1>2. Ordinary(Prune(rs, keep, protect)) \subseteq kept \cup {protect}
    BY DEF Ordinary, Prune
<1> HIDE DEF kept
<1>3. /\ IsFiniteSet(kept \cup {protect})
      /\ Cardinality(kept \cup {protect}) <= Cardinality(kept) + 1
      /\ Cardinality(kept) \in Nat /\ Cardinality(kept \cup {protect}) \in Nat
    <2>1. Cardinality(kept) \in Nat /\ IsFiniteSet(kept \cup {protect})
        BY <1>1, FS_AddElement, FS_CardinalityType
    <2>2. Cardinality(kept \cup {protect}) =
             IF protect \in kept THEN Cardinality(kept) ELSE Cardinality(kept) + 1
        BY <1>1, FS_AddElement
    <2> QED
        BY <2>1, <2>2
<1>4. /\ Cardinality(Ordinary(Prune(rs, keep, protect)))
             <= Cardinality(kept \cup {protect})
      /\ Cardinality(Ordinary(Prune(rs, keep, protect))) \in Nat
    BY <1>2, <1>3, FS_Subset, FS_CardinalityType
<1> QED
    BY <1>1, <1>3, <1>4

(* The revisions a step may prune are finitely many. *)
LEMMA RevisionsAreFinite ==
    ASSUME IInv, NEW rs, DOMAIN rs \subseteq DOMAIN revs, NEW rev
    PROVE  /\ DOMAIN Add(rs, nextRev, rev) \subseteq Nat
           /\ IsFiniteSet(DOMAIN Add(rs, nextRev, rev))
           /\ DOMAIN rs \subseteq Nat
           /\ IsFiniteSet(DOMAIN rs)
<1>1. DOMAIN revs \subseteq RevIds /\ nextRev \in Nat
    BY BoundsAssumption DEF IInv, RevsOK, LiveOK
<1>2. IsFiniteSet(RevIds) /\ RevIds \subseteq Nat
    BY FS_Interval, BoundsAssumption DEF RevIds
<1>3. IsFiniteSet(DOMAIN rs)
    BY <1>1, <1>2, FS_Subset
<1>4. DOMAIN Add(rs, nextRev, rev) = DOMAIN rs \cup {nextRev}
    BY AddFacts
<1> QED
    BY <1>1, <1>2, <1>3, <1>4, FS_AddElement

(* Every step keeps the number of revisions within retention: it prunes,   *)
(* or it adds none and leaves retention alone.                             *)
LEMMA NextBounds ==
    ASSUME IInv, RetentionIsABound, [Next]_vars
    PROVE  RetentionIsABound'
<1>r. retention \in Nat
    BY BoundsAssumption DEF IInv, LiveOK
<1>1. ASSUME NEW rs, DOMAIN rs \subseteq DOMAIN revs, NEW rev, NEW protect,
             \/ revs' = Prune(Add(rs, nextRev, rev), retention, protect)
             \/ revs' = Prune(rs, retention, protect),
             retention' = retention
      PROVE  RetentionIsABound'
    <2>1. Cardinality(Ordinary(revs')) <= retention' + 1
        BY <1>r, <1>1, RevisionsAreFinite, PruneBound
    <2> QED
        BY <2>1 DEF RetentionIsABound, Ordinary
<1>2. ASSUME Ordinary(revs') = Ordinary(revs), retention' = retention
      PROVE  RetentionIsABound'
    BY <1>2 DEF RetentionIsABound, Ordinary
<1>3. ASSUME NEW keep \in 1..MaxRetention, SetRevisionRetention(keep)
      PROVE  RetentionIsABound'
    <2>1. revs' = Prune(revs, keep, NoRev) /\ retention' = keep /\ keep \in Nat
        BY <1>3, BoundsAssumption DEF SetRevisionRetention
    <2>2. DOMAIN revs \subseteq Nat /\ IsFiniteSet(DOMAIN revs)
        BY RevisionsAreFinite
    <2>3. Cardinality(Ordinary(revs')) <= retention' + 1
        BY <2>1, <2>2, PruneBound
    <2> QED
        BY <2>3 DEF RetentionIsABound, Ordinary
<1>4. ASSUME SnapshotRevision(PreConversion, NoCopy)
      PROVE  RetentionIsABound'
    BY <1>1, <1>4 DEF SnapshotRevision
<1>5. ASSUME NEW r \in RevIds, NEW backup \in BOOLEAN, RestoreRevision(r, backup)
      PROVE  RetentionIsABound'
    BY <1>1, <1>5 DEF RestoreRevision
<1>6. ASSUME NEW r \in RevIds, DamageCopy(r)
      PROVE  RetentionIsABound'
    <2>1. PICK id \in DOMAIN revs[r].copy :
              revs' = [revs EXCEPT ![r].copy =
                          [i \in DOMAIN revs[r].copy \ {id} |-> revs[r].copy[i]]]
        BY <1>6 DEF DamageCopy
    <2>2. \A i \in DOMAIN revs : revs[i] \in RevRecords
        BY DEF IInv, RevsOK
    <2>3. DOMAIN revs' = DOMAIN revs
        BY <2>1
    <2>4. \A i \in DOMAIN revs' : revs'[i].source = revs[i].source
        BY <2>1, <2>2, <2>3 DEF RevRecords
    <2> QED
        BY <1>2, <1>6, <2>3, <2>4 DEF DamageCopy, Ordinary
<1>7. ASSUME NEW v \in Values, SetRecoverySeed(v)
      PROVE  RetentionIsABound'
    <2>1. DOMAIN Discard(revs, Seed) \subseteq DOMAIN revs
        BY DEF Discard
    <2>2. CASE v = Empty
        <3>1. Ordinary(Discard(revs, Seed)) = Ordinary(revs)
            BY DEF Ordinary, Discard, ProtectedSources
        <3> QED
            BY <1>2, <1>7, <2>2, <3>1 DEF SetRecoverySeed
    <2>3. CASE v # Empty
        BY <1>1, <1>7, <2>1, <2>3 DEF SetRecoverySeed
    <2> QED
        BY <2>2, <2>3
<1>8. ASSUME NEW t \in Threads, KeepPreRecoveryTake(t)
      PROVE  RetentionIsABound'
    BY <1>1, <1>8 DEF KeepPreRecoveryTake
<1> QED
    BY <1>2, <1>3, <1>4, <1>5, <1>6, <1>7, <1>8
    DEF Next, vars, InsertRow, SetRow, DeleteRow, ClearRows, ReplaceAll,
        KeepPreRecoveryCheck, RestorePreRecoveryCopy

(* However revisions, restores and settings of the retention follow one    *)
(* another, besides the recovery copies at most retention revisions are    *)
(* kept, and one more that a restore protected.                            *)
THEOREM RetentionBounds == Spec => []RetentionIsABound
<1>1. Init => RetentionIsABound
    <2>1. Init => {i \in DOMAIN revs : revs[i].source \notin ProtectedSources} = {}
        BY DEF Init
    <2> QED
        BY <2>1, FS_EmptySet, BoundsAssumption DEF Init, RetentionIsABound
<1> QED
    BY <1>1, NextBounds, InductiveInvariant, PTL DEF Spec

(* The revisions of a source after a step that adds one and prunes.        *)
LEMMA SourcesAfterAdd ==
    ASSUME NEW rs, NEW id, NEW rev, NEW keep, NEW protect, NEW source
    PROVE  RevsOf(Prune(Add(rs, id, rev), keep, protect), source)
              \subseteq RevsOf(rs, source) \cup (IF rev.source = source THEN {id} ELSE {})
BY DEF RevsOf, Prune, Add

(* The callers that have found no copy and will take one.                  *)
Lookers == {t \in Threads : keeping[t] # NoCopy}
CopiesInv ==
    Cardinality(RevsOf(revs, PreRecovery)) + Cardinality(Lookers) <= Cardinality(Threads)

LEMMA CopiesAreFinite ==
    ASSUME IInv
    PROVE  /\ IsFiniteSet(RevsOf(revs, PreRecovery))
           /\ IsFiniteSet(Lookers)
           /\ Cardinality(RevsOf(revs, PreRecovery)) \in Nat
           /\ Cardinality(Lookers) \in Nat
           /\ Cardinality(Lookers) <= Cardinality(Threads)
           /\ Cardinality(Threads) \in Nat
<1>1. IsFiniteSet(DOMAIN revs)
    BY RevisionsAreFinite
<1>2. RevsOf(revs, PreRecovery) \subseteq DOMAIN revs /\ Lookers \subseteq Threads
    BY DEF RevsOf, Lookers
<1> QED
    BY <1>1, <1>2, ThreadsAssumption, FS_Subset, FS_CardinalityType

LEMMA NextCopies ==
    ASSUME IInv, IInv', CopiesInv, [Next]_vars
    PROVE  CopiesInv'
<1>1. ASSUME RevsOf(revs', PreRecovery) \subseteq RevsOf(revs, PreRecovery),
             keeping' = keeping
      PROVE  CopiesInv'
    <2>1. Lookers' = Lookers
        BY <1>1 DEF Lookers
    <2>2. /\ Cardinality(RevsOf(revs', PreRecovery)) <= Cardinality(RevsOf(revs, PreRecovery))
          /\ Cardinality(RevsOf(revs', PreRecovery)) \in Nat
        BY <1>1, CopiesAreFinite, FS_Subset, FS_CardinalityType
    <2> QED
        BY <2>1, <2>2, CopiesAreFinite DEF CopiesInv
<1>2. ASSUME SnapshotRevision(PreConversion, NoCopy)
      PROVE  CopiesInv'
    <2>1. Revision(PreConversion, PreConversion \notin ProtectedSources, NoCopy).source
             # PreRecovery
        BY DEF Revision, PreConversion, PreRecovery
    <2> QED
        BY <1>1, <1>2, <2>1, SourcesAfterAdd DEF SnapshotRevision
<1>3. ASSUME NEW keep, SetRevisionRetention(keep)
      PROVE  CopiesInv'
    BY <1>1, <1>3 DEF SetRevisionRetention, RevsOf, Prune
<1>4. ASSUME NEW r \in RevIds, NEW backup \in BOOLEAN, RestoreRevision(r, backup)
      PROVE  CopiesInv'
    <2>1. CASE backup
        <3>1. Revision(PreRestore, TRUE, NoCopy).source # PreRecovery
            BY DEF Revision, PreRestore, PreRecovery
        <3> QED
            BY <1>1, <1>4, <2>1, <3>1, SourcesAfterAdd DEF RestoreRevision
    <2>2. CASE ~backup
        BY <1>1, <1>4, <2>2 DEF RestoreRevision, RevsOf, Prune
    <2> QED
        BY <2>1, <2>2
<1>5. ASSUME NEW r \in RevIds, DamageCopy(r)
      PROVE  CopiesInv'
    <2>1. PICK id \in DOMAIN revs[r].copy :
              revs' = [revs EXCEPT ![r].copy =
                          [i \in DOMAIN revs[r].copy \ {id} |-> revs[r].copy[i]]]
        BY <1>5 DEF DamageCopy
    <2>2. \A i \in DOMAIN revs : revs[i] \in RevRecords
        BY DEF IInv, RevsOK
    <2>3. \A i \in DOMAIN revs' : i \in DOMAIN revs /\ revs'[i].source = revs[i].source
        BY <2>1, <2>2 DEF RevRecords
    <2> QED
        BY <1>1, <1>5, <2>3 DEF DamageCopy, RevsOf
<1>6. ASSUME NEW v \in Values, SetRecoverySeed(v)
      PROVE  CopiesInv'
    <2>1. RevsOf(Discard(revs, Seed), PreRecovery) \subseteq RevsOf(revs, PreRecovery)
        BY DEF Discard, RevsOf
    <2>2. CASE v = Empty
        BY <1>1, <1>6, <2>1, <2>2 DEF SetRecoverySeed
    <2>3. CASE v # Empty
        <3>1. Revision(Seed, FALSE, v).source # PreRecovery
            BY DEF Revision, Seed, PreRecovery
        <3> QED
            BY <1>1, <1>6, <2>1, <2>3, <3>1, SourcesAfterAdd DEF SetRecoverySeed
    <2> QED
        BY <2>2, <2>3
\* A look finds no copy: there are none yet, and no more lookers than callers.
<1>7. ASSUME NEW t \in Threads, KeepPreRecoveryCheck(t)
      PROVE  CopiesInv'
    <2>1. RevsOf(revs', PreRecovery) = {}
        BY <1>7 DEF KeepPreRecoveryCheck
    <2>2. Lookers' \subseteq Threads
        BY DEF Lookers
    <2>3. /\ Cardinality(Lookers') <= Cardinality(Threads)
          /\ Cardinality(Lookers') \in Nat /\ Cardinality(Threads) \in Nat
        BY <2>2, ThreadsAssumption, FS_Subset, FS_CardinalityType
    <2>4. Cardinality(RevsOf(revs', PreRecovery)) = 0
        BY <2>1, FS_EmptySet
    <2> QED
        BY <2>3, <2>4 DEF CopiesInv
\* A caller takes its copy and looks no more.
<1>8. ASSUME NEW t \in Threads, KeepPreRecoveryTake(t)
      PROVE  CopiesInv'
    <2>1. RevsOf(revs', PreRecovery) \subseteq RevsOf(revs, PreRecovery) \cup {nextRev}
        BY <1>8, SourcesAfterAdd DEF KeepPreRecoveryTake
    <2>2. Lookers' = Lookers \ {t} /\ t \in Lookers
        BY <1>8 DEF KeepPreRecoveryTake, Lookers, IInv, LiveOK
    <2>3. /\ IsFiniteSet(RevsOf(revs, PreRecovery) \cup {nextRev})
          /\ Cardinality(RevsOf(revs, PreRecovery) \cup {nextRev})
                <= Cardinality(RevsOf(revs, PreRecovery)) + 1
        <3> DEFINE copies == RevsOf(revs, PreRecovery)
        <3>1. IsFiniteSet(copies) /\ Cardinality(copies) \in Nat
            BY CopiesAreFinite
        <3> HIDE DEF copies
        <3>2. /\ IsFiniteSet(copies \cup {nextRev})
              /\ Cardinality(copies \cup {nextRev})
                    = IF nextRev \in copies THEN Cardinality(copies) ELSE Cardinality(copies) + 1
            BY <3>1, FS_AddElement
        <3> QED
            BY <3>1, <3>2 DEF copies
    <2>4. Cardinality(RevsOf(revs, PreRecovery) \cup {nextRev}) \in Nat
        BY <2>3, FS_CardinalityType
    <2>5. /\ Cardinality(RevsOf(revs', PreRecovery))
                <= Cardinality(RevsOf(revs, PreRecovery) \cup {nextRev})
          /\ Cardinality(RevsOf(revs', PreRecovery)) \in Nat
        BY <2>1, <2>3, FS_Subset, FS_CardinalityType
    <2>6. Cardinality(Lookers') = Cardinality(Lookers) - 1
        BY <2>2, CopiesAreFinite, FS_RemoveElement
    <2> QED
        BY <2>3, <2>4, <2>5, <2>6, CopiesAreFinite DEF CopiesInv
<1> QED
    BY <1>1, <1>2, <1>3, <1>4, <1>5, <1>6, <1>7, <1>8
    DEF Next, vars, InsertRow, SetRow, DeleteRow, ClearRows, ReplaceAll,
        RestorePreRecoveryCopy

(* The look and the snapshot of keep_pre_recovery_copy are transactions of *)
(* their own; whoever races there, and whatever is pruned, discarded or    *)
(* restored in between, no caller ever leaves a second copy of its own.    *)
THEOREM CopiesBounded == Spec => []PreRecoveryCopiesBounded
<1>1. Init => CopiesInv
    <2>1. Init => RevsOf(revs, PreRecovery) = {} /\ Lookers = {}
        BY DEF Init, RevsOf, Lookers
    <2>2. Cardinality({}) = 0 /\ Cardinality(Threads) \in Nat
        BY ThreadsAssumption, FS_EmptySet, FS_CardinalityType
    <2> QED
        BY <2>1, <2>2 DEF CopiesInv
<1>2. IInv /\ IInv' /\ CopiesInv /\ [Next]_vars => CopiesInv'
    BY NextCopies
<1>3. IInv /\ CopiesInv => PreRecoveryCopiesBounded
    BY CopiesAreFinite DEF CopiesInv, PreRecoveryCopiesBounded
<1> QED
    BY <1>1, <1>2, <1>3, InductiveInvariant, PTL DEF Spec
----------------------------------------------------------------------------
(* The refinement                                                          *)

(* A revision that keeps its tables and rows-as-saved is the same version. *)
LEMMA SameVersion ==
    ASSUME NEW i \in DOMAIN revs, i \in DOMAIN revs',
           revs'[i].was = revs[i].was, revs'[i].tables = revs[i].tables
    PROVE  HistorySaved'[i] = HistorySaved[i]
BY DEF HistorySaved

(* The versions of the document are the revisions. *)
LEMMA Versions ==
    DOMAIN HistorySaved = DOMAIN revs /\ DOMAIN HistorySaved' = DOMAIN revs'
BY DEF HistorySaved

(* Dropping revisions, or damaging a copy, saves nothing and loses no      *)
(* content: an edit, whatever happens to the document.                     *)
LEMMA EditStep ==
    ASSUME DOMAIN revs' \subseteq DOMAIN revs,
           \A i \in DOMAIN revs' : /\ revs'[i].was = revs[i].was
                                   /\ revs'[i].tables = revs[i].tables
    PROVE  History!Edit
<1>1. \A i \in DOMAIN revs' : HistorySaved'[i] = HistorySaved[i]
    BY SameVersion
<1> QED
    BY <1>1, Versions DEF History!Edit, History!KeepsContents

(* A revision made of the live plan, added to some of the others, is a     *)
(* saved version.                                                          *)
LEMMA SaveStep ==
    ASSUME IInv, NEW source, NEW withTables \in BOOLEAN, NEW budget,
           NEW rs, DOMAIN rs \subseteq DOMAIN revs,
           \A i \in DOMAIN rs : rs[i] = revs[i],
           revs' = Prune(Add(rs, nextRev, Revision(source, withTables, budget)),
                         retention, NoRev),
           UNCHANGED <<rows, tables>>
    PROVE  History!Save
<1> DEFINE rev == Revision(source, withTables, budget)
<1> DEFINE new == Add(rs, nextRev, rev)
<1>1. /\ nextRev \in Nat /\ retention \in Nat \ {0}
      /\ DOMAIN revs \subseteq Nat /\ \A i \in DOMAIN revs : i < nextRev
      /\ nextRev \notin DOMAIN revs
    BY BoundsAssumption DEF IInv, LiveOK, RevsOK, RevIds
<1>2. nextRev \in DOMAIN revs'
    <2>1. DOMAIN rs \subseteq Nat /\ \A i \in DOMAIN rs : i < nextRev
        BY <1>1
    <2> QED
        BY <1>1, <2>1, NewestSurvives
<1>3. DOMAIN revs' \subseteq DOMAIN revs \cup {nextRev}
    BY DEF Prune, Add
<1>4. revs'[nextRev] = rev
    BY <1>2 DEF Prune, Add
<1>5. ASSUME NEW i \in DOMAIN revs' \ {nextRev}
      PROVE  HistorySaved'[i] = HistorySaved[i] /\ i \in DOMAIN revs
    <2>1. i \in DOMAIN rs /\ revs'[i] = rs[i]
        BY <1>5 DEF Prune, Add
    <2> QED
        BY <1>5, <2>1, SameVersion
<1>6. \A p \in DOMAIN HistorySaved'[nextRev] :
          HistorySaved'[nextRev][p] = HistoryDoc[p]
    <2>1. rev.was = rows /\ (rev.tables = tables \/ rev.tables = NoCopy)
        BY DEF Revision
    <2> HIDE DEF rev
    <2>2. HistorySaved'[nextRev] =
            [p \in IF rev.tables = NoCopy THEN {"rows"} ELSE {"rows", "tables"} |->
                IF p = "rows" THEN Digest(rows) ELSE rev.tables]
        BY <1>2, <1>4, <2>1 DEF HistorySaved
    <2> QED
        BY <2>1, <2>2 DEF HistoryDoc
<1>7. HistoryDoc' = HistoryDoc
    BY DEF HistoryDoc, Digest
<1>8. nextRev \in DOMAIN HistorySaved' \ DOMAIN HistorySaved
    BY <1>1, <1>2, Versions
<1>9. DOMAIN HistorySaved' \subseteq DOMAIN HistorySaved \cup {nextRev}
    BY <1>3, Versions
<1>10. \A i \in DOMAIN HistorySaved' \ {nextRev} :
           i \in DOMAIN HistorySaved /\ HistorySaved'[i] = HistorySaved[i]
    BY <1>5, Versions
<1> QED
    BY <1>6, <1>7, <1>8, <1>9, <1>10 DEF History!Save, History!KeepsContents

(* A restore goes back to its revision, which stays, and its backup, if it *)
(* takes one, holds the document of before.                                *)
LEMMA GoBackStep ==
    ASSUME IInv, NEW r \in RevIds, NEW backup \in BOOLEAN,
           RestoreRevision(r, backup)
    PROVE  History!GoBack
<1> DEFINE bak == Revision(PreRestore, TRUE, NoCopy)
<1> DEFINE kept == IF backup THEN Add(revs, nextRev, bak) ELSE revs
<1>1. /\ nextRev \in Nat /\ retention \in Nat \ {0}
      /\ DOMAIN revs \subseteq Nat /\ \A i \in DOMAIN revs : i < nextRev
      /\ nextRev \notin DOMAIN revs
      /\ tables \in TableSets
    BY BoundsAssumption DEF IInv, LiveOK, RevsOK, RevIds
<1>2. r \in DOMAIN revs /\ revs' = Prune(kept, retention, r)
    BY DEF RestoreRevision
<1>3. r \in DOMAIN kept /\ DOMAIN kept = DOMAIN revs \cup (IF backup THEN {nextRev} ELSE {})
    BY <1>2 DEF Add
<1>4. r \in DOMAIN revs'
    BY <1>2, <1>3, PruneFacts
<1>5. DOMAIN revs' \subseteq DOMAIN kept
    BY <1>2, PruneFacts
<1>6. ASSUME NEW i \in DOMAIN revs' \cap DOMAIN revs
      PROVE  HistorySaved'[i] = HistorySaved[i]
    <2>1. i # nextRev
        BY <1>1
    <2>2. revs'[i] = kept[i]
        BY <1>2, <1>6 DEF Prune
    <2>3. kept[i] = revs[i]
        BY <2>1, <1>6 DEF Add
    <2> QED
        BY <1>6, <2>2, <2>3, SameVersion
<1>7. HistoryDoc' = [p \in DOMAIN HistoryDoc |->
                        IF p \in DOMAIN HistorySaved[r]
                        THEN HistorySaved[r][p] ELSE HistoryDoc[p]]
    <2>1. Digest(rows') = Digest(revs[r].was)
        BY DEF RestoreRevision, IInv, RevsOK
    <2>2. tables' = IF revs[r].tables = NoCopy THEN tables ELSE revs[r].tables
        BY DEF RestoreRevision
    <2>3. HistorySaved[r] =
            [p \in IF revs[r].tables = NoCopy THEN {"rows"} ELSE {"rows", "tables"} |->
                IF p = "rows" THEN Digest(revs[r].was) ELSE revs[r].tables]
        BY <1>2 DEF HistorySaved
    <2>4. HistoryDoc' = [p \in {"rows", "tables"} |->
                            IF p = "rows" THEN Digest(rows') ELSE tables']
        BY DEF HistoryDoc, Digest
    <2>5. DOMAIN HistorySaved[r] =
             IF revs[r].tables = NoCopy THEN {"rows"} ELSE {"rows", "tables"}
        BY <2>3
    <2>6. "rows" \in DOMAIN HistorySaved[r] /\ HistorySaved[r]["rows"] = Digest(revs[r].was)
        BY <2>3
    <2>7. "tables" \in DOMAIN HistorySaved[r] => HistorySaved[r]["tables"] = revs[r].tables
        BY <2>3
    <2>8. "tables" \in DOMAIN HistorySaved[r] <=> revs[r].tables # NoCopy
        BY <2>5
    <2>9. DOMAIN HistoryDoc = {"rows", "tables"} /\ HistoryDoc["tables"] = tables
        BY DEF HistoryDoc
    <2> QED
        BY <2>1, <2>2, <2>4, <2>6, <2>7, <2>8, <2>9
<1>8. DOMAIN revs' \ DOMAIN revs \subseteq {nextRev}
    BY <1>3, <1>5
<1>9. ASSUME NEW b \in DOMAIN revs' \ DOMAIN revs
      PROVE  HistorySaved'[b] = HistoryDoc
    <2>1. b = nextRev /\ b \in DOMAIN kept
        BY <1>5, <1>8
    <2>2. backup
        BY <1>3, <1>9, <2>1
    <2>3. revs'[b] = bak
        BY <1>2, <2>1, <2>2, <1>9 DEF Prune, Add
    <2>4. bak.was = rows /\ bak.tables = tables
        BY DEF Revision
    <2>5. tables # NoCopy
        BY <1>1, DatasetsAssumption DEF TableSets
    <2> HIDE DEF bak
    <2> QED
        BY <1>9, <2>3, <2>4, <2>5 DEF HistorySaved, HistoryDoc
<1> HIDE DEF kept, bak
<1> DEFINE B == DOMAIN HistorySaved' \ DOMAIN HistorySaved
<1>10. \A b, c \in B : b = c
    BY <1>8, Versions
<1>11. \A b \in B : HistorySaved'[b] = HistoryDoc
    BY <1>9, Versions
<1>12. \A v \in DOMAIN HistorySaved' \ B :
           v \in DOMAIN HistorySaved /\ HistorySaved'[v] = HistorySaved[v]
    BY <1>6, Versions
<1>13. r \in DOMAIN HistorySaved \cap DOMAIN HistorySaved'
    BY <1>2, <1>4, Versions
<1> QED
    BY <1>7, <1>10, <1>11, <1>12, <1>13 DEF History!GoBack, History!KeepsContents

(* Every step of the store is a step of the history. *)
LEMMA HistoryStep ==
    ASSUME IInv, Next
    PROVE  History!Next \/ UNCHANGED <<HistoryDoc, HistorySaved>>
<1>1. ASSUME revs' = revs
      PROVE  History!Edit
    BY <1>1, EditStep
<1>2. ASSUME SnapshotRevision(PreConversion, NoCopy)
      PROVE  History!Save
    <2>1. UNCHANGED <<rows, tables>>
        BY <1>2 DEF SnapshotRevision, liveVars
    <2>2. PreConversion \notin ProtectedSources
        BY DEF PreConversion, ProtectedSources, PreRecovery, Seed
    <2>3. revs' = Prune(Add(revs, nextRev, Revision(PreConversion, TRUE, NoCopy)),
                        retention, NoRev)
        BY <1>2, <2>2 DEF SnapshotRevision
    <2> QED
        BY <2>1, <2>3, SaveStep
<1>3. ASSUME NEW keep, SetRevisionRetention(keep)
      PROVE  History!Edit
    BY <1>3, PruneFacts, EditStep DEF SetRevisionRetention
<1>4. ASSUME NEW r \in RevIds, NEW backup \in BOOLEAN, RestoreRevision(r, backup)
      PROVE  History!GoBack
    BY <1>4, GoBackStep
<1>5. ASSUME NEW r \in RevIds, DamageCopy(r)
      PROVE  History!Edit
    <2>1. PICK id \in DOMAIN revs[r].copy :
              revs' = [revs EXCEPT ![r].copy =
                          [i \in DOMAIN revs[r].copy \ {id} |-> revs[r].copy[i]]]
        BY <1>5 DEF DamageCopy
    <2>2. \A i \in DOMAIN revs : revs[i] \in RevRecords
        BY DEF IInv, RevsOK
    <2>3. DOMAIN revs' = DOMAIN revs
        BY <2>1
    <2>4. \A i \in DOMAIN revs' : /\ revs'[i].was = revs[i].was
                                  /\ revs'[i].tables = revs[i].tables
        BY <2>1, <2>2, <2>3 DEF RevRecords
    <2> QED
        BY <2>3, <2>4, EditStep
<1>6. ASSUME NEW v \in Values, SetRecoverySeed(v)
      PROVE  History!Edit \/ History!Save
    <2>1. /\ DOMAIN Discard(revs, Seed) \subseteq DOMAIN revs
          /\ \A i \in DOMAIN Discard(revs, Seed) : Discard(revs, Seed)[i] = revs[i]
        BY DEF Discard
    <2>2. CASE v = Empty
        BY <1>6, <2>1, <2>2, EditStep DEF SetRecoverySeed
    <2>3. CASE v # Empty
        BY <1>6, <2>1, <2>3, SaveStep DEF SetRecoverySeed, liveVars
    <2> QED
        BY <2>2, <2>3
<1>7. ASSUME NEW t \in Threads, KeepPreRecoveryTake(t)
      PROVE  History!Save
    BY <1>7, SaveStep DEF KeepPreRecoveryTake, liveVars
<1> QED
    BY <1>1, <1>2, <1>3, <1>4, <1>5, <1>6, <1>7
    DEF Next, History!Next, InsertRow, SetRow, DeleteRow, ClearRows, ReplaceAll,
        KeepPreRecoveryCheck, RestorePreRecoveryCopy

(* The revision store implements the history of saved versions. *)
THEOREM HistoryImplemented == Spec => ImplementsHistory
<1>1. Init => History!Init
    BY DEF Init, History!Init, HistorySaved
<1>2. IInv /\ [Next]_vars => [History!Next]_(History!vars)
    <2>1. ASSUME UNCHANGED vars
          PROVE  UNCHANGED <<HistoryDoc, HistorySaved>>
        BY <2>1 DEF vars, HistoryDoc, HistorySaved, Digest
    <2> QED
        BY <2>1, HistoryStep DEF History!vars
<1> QED
    BY <1>1, <1>2, InductiveInvariant, PTL
    DEF ImplementsHistory, History!Spec, Spec
================================================================================
