------------------------------ MODULE SalesQueue ------------------------------
(***************************************************************************)
(* The queue of sales waiting to be recorded, and the holdings they are    *)
(* taken from (src/sales_confirm.py, sales_confirm_bulk.py, the candidate  *)
(* and ledger rows of stores/sales_repo.py), for one symbol of an account  *)
(* whose holdings the transaction log does not write.                      *)
(*                                                                         *)
(* Holdings rows have no id: a lot is named by its row index while a panel *)
(* is open and by its identity (account, symbol, purchase date, price, lot *)
(* type, note) afterwards.  Several rows may share an identity, and a row  *)
(* a sale empties leaves the dataset, which moves every later index.       *)
(***************************************************************************)
EXTENDS Integers, Sequences, FiniteSets, FiniteSetsExt, SequencesExt

CONSTANTS
    Lots,        \* identities of holdings rows
    Orders,      \* the sales that can be queued
    Sold,        \* order -> its shares
    MaxRow,      \* bound on the shares of a row entered by hand
    MaxShares    \* bound on the shares there are

ASSUME SoldAssumption == IsFiniteSet(Orders) /\ Sold \in [Orders -> Nat \ {0}]
ASSUME SizeAssumption == {MaxRow, MaxShares} \subseteq Nat

VARIABLES
    held,      \* the holdings dataset: rows [lot, shares]
    queue,     \* sale_candidates: order -> [state, its rows of realized_sales]
    brought,   \* history: lot -> shares that came in by hand, less those taken out
    batch      \* history: the bulk confirm just made, or an empty one

vars == <<held, queue, brought, batch>>

States == {"absent", "unmatched", "confirmed", "dismissed"}
NoBatch == [before |-> <<>>, confirmed |-> <<>>, asShown |-> TRUE]

(* The shares of one lot among the rows s. *)
LotShares(s, lot) ==
    SumFunctionOnSet([i \in DOMAIN s |-> s[i].shares], {i \in DOMAIN s : s[i].lot = lot})
HeldOf(lot) == LotShares(held, lot)

(* Row indexes in order, and the rows of s that have them. *)
Ascending(S) ==
    [k \in 1..Cardinality(S) |-> CHOOSE i \in S : Cardinality({j \in S : j < i}) = k - 1]
RowsAt(s, S) == LET at == Ascending(S) IN [k \in DOMAIN at |-> s[at[k]]]

TypeOK ==
    /\ held \in Seq([lot : Lots, shares : Nat \ {0}])
    /\ \A o \in Orders :
        /\ queue[o].state \in States
        /\ queue[o].rows \in Seq([lot : Lots, index : Nat \ {0}, shares : Nat \ {0},
                                 live : BOOLEAN, official : BOOLEAN])
        /\ queue[o].rows # <<>> <=> queue[o].state = "confirmed"
    /\ brought \in [Lots -> Nat]
    /\ batch.asShown \in BOOLEAN

-----------------------------------------------------------------------------
(* confirm_in and undo_in, as functions of the dataset and the queue, so    *)
(* that a bulk request can apply several in one transaction.  The ledger   *)
(* rows of an undone order stay, voided, and no operation here reads them. *)

Book(h, q) == [held |-> h, queue |-> q]
Now == Book(held, queue)

Shares(alloc) == SumFunction(alloc)

(* sales_ledger.allocate_lots and the state check of confirm_in. *)
CanConfirm(b, o, alloc) ==
    /\ b.queue[o].state = "unmatched"
    /\ DOMAIN alloc \subseteq DOMAIN b.held
    /\ \A i \in DOMAIN alloc : alloc[i] <= b.held[i].shares
    /\ Shares(alloc) = Sold[o]

Reduced(h, alloc) ==
    [i \in DOMAIN h |->
        [h[i] EXCEPT !.shares = @ - (IF i \in DOMAIN alloc THEN alloc[i] ELSE 0)]]
Recorded(b, o, alloc, h) ==
    LET picked == Ascending(DOMAIN alloc)
        rows == [k \in DOMAIN picked |->
                    [lot |-> b.held[picked[k]].lot, index |-> picked[k],
                     shares |-> alloc[picked[k]], live |-> TRUE, official |-> FALSE]]
    IN  Book(h, [b.queue EXCEPT ![o] = [state |-> "confirmed", rows |-> rows]])
(* Mutant: rows without shares stay in the dataset. *)
ConfirmedKeepingEmpty(b, o, alloc) == Recorded(b, o, alloc, Reduced(b.held, alloc))
Confirmed(b, o, alloc) ==
    LET left == Reduced(b.held, alloc) IN
    Recorded(b, o, alloc, RowsAt(left, {i \in DOMAIN left : left[i].shares > 0}))

CanUndo(b, o) ==
    /\ b.queue[o].state = "confirmed"
    /\ \A k \in DOMAIN b.queue[o].rows : ~b.queue[o].rows[k].official

(* The shares of a ledger row go to the first row of its identity, or to a *)
(* new one where the old one was.                                          *)
GiveBack(h, sale) ==
    LET spots == {i \in DOMAIN h : h[i].lot = sale.lot}
        first == CHOOSE i \in spots : \A j \in spots : i <= j
        at == IF sale.index <= Len(h) THEN sale.index ELSE Len(h) + 1
    IN  IF spots = {} THEN InsertAt(h, at, [lot |-> sale.lot, shares |-> sale.shares])
        ELSE [h EXCEPT ![first].shares = @ + sale.shares]
Returned(b, o, rows) ==
    Book(FoldLeft(GiveBack, b.held, rows),
         [b.queue EXCEPT ![o] = [state |-> "unmatched", rows |-> <<>>]])
(* Mutant: a ledger row that was voided by hand gives nothing back. *)
UndoneIfLive(b, o) ==
    LET rows == b.queue[o].rows IN
    Returned(b, o, RowsAt(rows, {k \in DOMAIN rows : rows[k].live}))
Undone(b, o) == Returned(b, o, b.queue[o].rows)

Becomes(b) ==
    /\ held' = b.held
    /\ queue' = b.queue
    /\ UNCHANGED brought

-----------------------------------------------------------------------------
(* sales_confirm_bulk._Lots: the ids of a batch are row indexes of the     *)
(* holdings as they were when it began.                                    *)

NoRow == 0
(* Mutant: the ids are used as they are. *)
CurrentAsShown(snap, gone, h, sid) == sid
Current(snap, gone, h, sid) ==
    LET rank == Cardinality({j \in 1..(sid - 1) : snap[j] = snap[sid] /\ j \notin gone})
        spots == Ascending({j \in DOMAIN h : h[j].lot = snap[sid]})
    IN  IF sid \notin gone /\ rank < Len(spots) THEN spots[rank + 1] ELSE NoRow

(* One item of a batch: in its own savepoint, so one that cannot be        *)
(* confirmed changes nothing.  "from" is history: the snapshot index each   *)
(* row of the dataset had when the batch began.                            *)
BatchStep(snap, st, item) ==
    LET now(sid) == Current(snap, st.gone, st.book.held, sid)
        alloc == [i \in {now(sid) : sid \in DOMAIN item.alloc} |->
                    item.alloc[CHOOSE sid \in DOMAIN item.alloc : now(sid) = i]]
        rows == DOMAIN st.book.held
        emptied == {i \in DOMAIN alloc : alloc[i] = st.book.held[i].shares}
    IN  IF ~CanConfirm(st.book, item.order, alloc) THEN st
        ELSE [book |-> Confirmed(st.book, item.order, alloc),
              gone |-> st.gone \cup {sid \in DOMAIN item.alloc : now(sid) \in emptied},
              confirmed |-> Append(st.confirmed, item.order),
              from |-> RowsAt(st.from, rows \ emptied),
              asShown |-> st.asShown /\ \A sid \in DOMAIN item.alloc : st.from[now(sid)] = sid]

Batch(items) ==
    FoldLeft(LAMBDA st, item : BatchStep([i \in DOMAIN held |-> held[i].lot], st, item),
             [book |-> Now, gone |-> {}, confirmed |-> <<>>,
              from |-> [i \in DOMAIN held |-> i], asShown |-> TRUE],
             items)

-----------------------------------------------------------------------------
Init ==
    /\ held = <<>>
    /\ queue = [o \in Orders |-> [state |-> "absent", rows |-> <<>>]]
    /\ brought = [lot \in Lots |-> 0]
    /\ batch = NoBatch

(* sales.add_candidate: an order that is queued already is left as it is. *)
AddCandidate(o) ==
    /\ queue[o].state = "absent"
    /\ queue' = [queue EXCEPT ![o].state = "unmatched"]
    /\ batch' = NoBatch
    /\ UNCHANGED <<held, brought>>

Confirm(o, alloc) ==
    /\ CanConfirm(Now, o, alloc)
    /\ Becomes(Confirmed(Now, o, alloc))
    /\ batch' = NoBatch

(* undo, and requeue_sale, which finds the order of a ledger row first. *)
Undo(o) ==
    /\ CanUndo(Now, o)
    /\ Becomes(Undone(Now, o))
    /\ batch' = NoBatch

BulkConfirm(items) ==
    LET done == Batch(items) IN
    /\ Becomes(done.book)
    /\ batch' = [before |-> held, confirmed |-> done.confirmed, asShown |-> done.asShown]

(* The last order of the list first; one that is locked or not confirmed   *)
(* is reported and left.                                                   *)
UndoIfCan(b, o) == IF CanUndo(b, o) THEN Undone(b, o) ELSE b
UndoEach(b, os) == FoldLeft(UndoIfCan, b, os)
(* Mutant: in the order of the list. *)
BulkUndoForward(os) ==
    /\ Becomes(UndoEach(Now, os))
    /\ batch' = NoBatch
BulkUndo(os) ==
    /\ Becomes(UndoEach(Now, Reverse(os)))
    /\ batch' = NoBatch

(* dismiss and restore, alone or in bulk: state only. *)
Move(S, from, to) ==
    /\ queue' = [o \in Orders |->
                    IF o \in S /\ queue[o].state = from
                    THEN [queue[o] EXCEPT !.state = to] ELSE queue[o]]
    /\ batch' = NoBatch
    /\ UNCHANGED <<held, brought>>
Dismiss(S) == Move(S, "unmatched", "dismissed")
Restore(S) == Move(S, "dismissed", "unmatched")

(* sales_service.void_sale and unvoid_sale of a ledger row: the queue and  *)
(* the holdings are not told.                                              *)
SetVoided(o, k) ==
    /\ k \in DOMAIN queue[o].rows
    /\ queue' = [queue EXCEPT ![o].rows[k].live = ~@]
    /\ batch' = NoBatch
    /\ UNCHANGED <<held, brought>>

(* sales_1099b.apply puts the official numbers on a live row; replacing    *)
(* the statement takes them off again.                                     *)
SetOfficial(o, k) ==
    /\ k \in DOMAIN queue[o].rows
    /\ queue[o].rows[k].live \/ queue[o].rows[k].official
    /\ queue' = [queue EXCEPT ![o].rows[k].official = ~@]
    /\ batch' = NoBatch
    /\ UNCHANGED <<held, brought>>

(* A row is added, changed or (no shares) removed by hand or by an import. *)
AddRow(lot, n) ==
    /\ n + SumFunction(brought) <= MaxShares
    /\ held' = Append(held, [lot |-> lot, shares |-> n])
    /\ brought' = [brought EXCEPT ![lot] = @ + n]
    /\ batch' = NoBatch
    /\ UNCHANGED queue
RemoveRow(i) ==
    /\ i \in DOMAIN held
    /\ held' = RemoveAt(held, i)
    /\ brought' = [brought EXCEPT ![held[i].lot] = @ - held[i].shares]
    /\ batch' = NoBatch
    /\ UNCHANGED queue

(* What a user can pick for an order, from the rows a panel showed. *)
Picks(o) ==
    {f \in UNION {[T -> 1..Sold[o]] : T \in SUBSET DOMAIN held \ {{}}} : Shares(f) = Sold[o]}

Next ==
    \/ \E o \in Orders :
        \/ AddCandidate(o) \/ Undo(o)
        \/ \E alloc \in Picks(o) : Confirm(o, alloc)
    \/ \E os \in SetToAllKPermutations(Orders) \ {<<>>} :
        \/ BulkUndo(os)
        \/ \E picks \in [DOMAIN os -> UNION {Picks(o) : o \in Orders}] :
              BulkConfirm([k \in DOMAIN os |-> [order |-> os[k], alloc |-> picks[k]]])
    \/ \E S \in SUBSET Orders \ {{}} : Dismiss(S) \/ Restore(S)
    \/ \E o \in Orders : \E k \in DOMAIN queue[o].rows : SetVoided(o, k) \/ SetOfficial(o, k)
    \/ \E lot \in Lots, n \in 1..MaxRow : AddRow(lot, n)
    \/ \E i \in DOMAIN held : RemoveRow(i)

Spec == Init /\ [][Next]_vars

-----------------------------------------------------------------------------
(* Properties.                                                             *)

SoldOf(lot) == SumFunction([o \in Orders |-> LotShares(queue[o].rows, lot)])

(* Shares are neither made nor lost: of every lot, what is held and what   *)
(* the confirmed orders took is what was brought in, after any sequence of  *)
(* confirms, undos, batches, voids and edits (confirm_in and undo_in).     *)
SharesConserved == \A lot \in Lots : HeldOf(lot) + SoldOf(lot) = brought[lot]

(* Every order of a batch is taken from the very rows the review showed,   *)
(* however many rows the orders before it emptied and however many rows    *)
(* look alike (_Lots.current).                                             *)
BatchTakesShownRows == batch.asShown

(* Undoing the batch just confirmed puts the holdings back row by row      *)
(* (sales_confirm_bulk.undo), unless rows look alike.                      *)
BatchUndoRestores ==
    [][/\ batch.confirmed # <<>>
       /\ BulkUndo(batch.confirmed)
       /\ \A i, j \in DOMAIN batch.before : batch.before[i].lot = batch.before[j].lot => i = j
       => held' = batch.before]_vars
=============================================================================
