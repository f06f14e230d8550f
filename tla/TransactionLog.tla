---------------------------- MODULE TransactionLog ----------------------------
(***************************************************************************)
(* The transaction log of a plan file (src/transactions.py over            *)
(* stores/transactions_repo.py), the holdings it explains or authors, and  *)
(* the broker imports and confirmed sales it is kept in line with          *)
(* (broker_import.py commit, sales_confirm.py confirm and undo).           *)
(*                                                                         *)
(* Every operation is one plan-file transaction, so one action.  There is  *)
(* one symbol and one price, so a holdings lot is told apart by its        *)
(* account and purchase date alone (transactions._key).  Amounts, fees,    *)
(* settlement dates and notes are left out.                                *)
(***************************************************************************)
EXTENDS Integers, Sequences, FiniteSets, FiniteSetsExt, Functions

CONSTANTS
    Accounts,     \* the accounts of the plan
    MaxDate,      \* dates are 1..MaxDate
    MaxShares,    \* bound on the shares of a hand-entered row or holding
    HandLots,     \* <<account, date>> of lots and holdings entered by hand
    SaleDates,    \* dates of hand-entered sales and transfers
    Buys,         \* the purchases a broker file can bring: [account, date, shares]
    Sells,        \* the sale orders a broker file can bring: [account, date, shares]
    None,         \* no activity, no order, no sale
    MaxTxns       \* bound on the rows of the log

Dates == 1..MaxDate
Activities == Buys \cup Sells
LotShares == [Dates -> Nat]
Sales == [lots : LotShares, logged : BOOLEAN]   \* what a confirmed sale took, and where

ASSUME ActivityAssumption ==
    /\ Activities \subseteq [account : Accounts, date : Dates, shares : Nat \ {0}]
    /\ Buys \cap Sells = {}
    /\ None \notin Activities /\ None \notin Sales
    /\ IsFiniteSet(Accounts) /\ IsFiniteSet(Activities)
ASSUME SizeAssumption == {MaxDate, MaxShares, MaxTxns} \subseteq Nat
ASSUME HandAssumption == HandLots \subseteq Accounts \X Dates /\ SaleDates \subseteq Dates

VARIABLES
    held,      \* holdings: account -> purchase date -> shares
    log,       \* transactions with their transaction_lots, in id order
    managed,   \* transaction_accounts: accounts whose holdings the log writes
    imported,  \* broker_activity: what the import of a row did, or "no"
    sales      \* queued order -> the lots of its confirmed sale, or None

vars == <<held, log, managed, imported, sales>>

Kinds == {"lot", "sell", "out"}   \* LOT_TYPES_CREATING as one, and DISPOSAL_TYPES

(* A row of transactions, with what it takes from earlier lots             *)
(* (transaction_lots).  "since" is lot_date: 0, or the date a transferred   *)
(* lot's holding period runs from.                                         *)
Row(kind, account, date, shares, since, takes, activity, order) ==
    [kind |-> kind, account |-> account, date |-> date, shares |-> shares,
     since |-> since, takes |-> takes, activity |-> activity, order |-> order,
     revises |-> 0, active |-> TRUE]
NoLots == [i \in {} |-> 0]
LotRow(a, d, n, activity) == Row("lot", a, d, n, 0, NoLots, activity, None)
Since(r) == IF r.since = 0 THEN r.date ELSE r.since   \* transactions.lot_date

Total(f) == SumFunction(f)

TypeOK ==
    /\ held \in [Accounts -> LotShares]
    /\ Len(log) \in 0..MaxTxns
    /\ \A i \in DOMAIN log :
        /\ log[i].kind \in Kinds
        /\ log[i].account \in Accounts
        /\ log[i].date \in Dates /\ log[i].since \in 0..MaxDate
        /\ log[i].shares \in Nat \ {0}
        /\ DOMAIN log[i].takes \subseteq 1..Len(log)
        /\ log[i].activity \in Activities \cup {None}
        /\ log[i].order \in Sells \cup {None}
        /\ log[i].revises \in 0..(i - 1)
    /\ managed \subseteq Accounts
    /\ imported \in [Activities -> {"no", "present", "created", "queued"}]
    /\ sales \in [Sells -> Sales \cup {None}]

-----------------------------------------------------------------------------
(* Reading the log.                                                        *)

Live(l) == {i \in DOMAIN l : l[i].active}
LotsIn(l) == {i \in Live(l) : l[i].kind = "lot"}
Disposals(l) == {i \in Live(l) : l[i].kind # "lot"}

(* Shares of lot i that the rows in S took. *)
TakenBy(r, i) == IF i \in DOMAIN r.takes THEN r.takes[i] ELSE 0
Taken(l, i, S) == SumFunctionOnSet([t \in DOMAIN l |-> TakenBy(l[t], i)], S)
Open(l, i) == l[i].shares - Taken(l, i, Disposals(l))

(* transactions.replay_errors finds nothing: a disposal draws on active    *)
(* lots of its own account that exist on its date, for all of its shares,  *)
(* and no lot gives more than it has.                                      *)
ReplayOK(l) ==
    /\ \A t \in Disposals(l) :
        /\ \A i \in DOMAIN l[t].takes :
            /\ i \in LotsIn(l)
            /\ l[i].account = l[t].account
            /\ l[i].date <= l[t].date
        /\ Total(l[t].takes) = l[t].shares
    /\ \A i \in LotsIn(l) : Open(l, i) >= 0

KeyLots(l, a, d) == {i \in LotsIn(l) : l[i].account = a /\ Since(l[i]) = d}
Logged(l, a, d) == SumFunctionOnSet([i \in DOMAIN l |-> Open(l, i)], KeyLots(l, a, d))
OpenOf(l, a) == [d \in Dates |-> Logged(l, a, d)]
Started(l) == l # <<>>
(* Mutant: a row that was voided by hand is forgotten, and logged again. *)
DoneLive(l) == {l[i].activity : i \in Live(l)} \ {None}
Done(l) == {l[i].activity : i \in DOMAIN l} \ {None}

(* Ways to take n shares of the lots in S. *)
Allocations(S, n) ==
    {f \in UNION {[T -> 1..n] : T \in SUBSET S \ {{}}} : Total(f) = n}

(* transactions.materialize for the managed accounts in A. *)
(* Mutant: an account that has no lot left keeps its rows. *)
MaterializedIfAny(h, l, A) ==
    [a \in Accounts |->
        IF a \in A \cap managed /\ OpenOf(l, a) # [d \in Dates |-> 0]
        THEN OpenOf(l, a) ELSE h[a]]
Materialized(h, l, A) ==
    [a \in Accounts |-> IF a \in A \cap managed THEN OpenOf(l, a) ELSE h[a]]

-----------------------------------------------------------------------------
(* transactions.backfill: from the broker rows, the confirmed orders and   *)
(* the holdings, whatever the log does not have yet.                       *)

AppendEach(l, rows) == FoldSet(LAMBDA x, acc : Append(acc, rows[x]), l, DOMAIN rows)
LogBuys(l, imp) ==
    AppendEach(l, [b \in {x \in Buys : imp[x] # "no"} \ Done(l) |->
                       LotRow(b.account, b.date, b.shares, b)])

Pending(l, sold) == {s \in Sells : sold[s] # None} \ Done(l)
Needed(P, sold, a, d) ==
    SumFunctionOnSet([s \in P |-> sold[s].lots[d]], {s \in P : s.account = a})
Keys == Accounts \X Dates
OpenFor(l, missing) ==
    AppendEach(l, [k \in {x \in Keys : missing[x] > 0} |->
                       LotRow(k[1], k[2], missing[k], None)])
LogSoldLots(l, h, sold) ==
    LET P == Pending(l, sold) IN
    OpenFor(l, [k \in Keys |->
        LET n == Needed(P, sold, k[1], k[2]) IN
        IF n = 0 THEN 0 ELSE h[k[1]][k[2]] + n - Logged(l, k[1], k[2])])

(* How much of n shares comes from lot i of S when the oldest id goes      *)
(* first.  What is left of a lot is counted against every row that ever    *)
(* took from it, voided rows included (all_disposals).                     *)
NatDiff(m, n) == Max({m - n, 0})
Spare(l, i) == NatDiff(l[i].shares, Taken(l, i, DOMAIN l))
FirstFrom(l, S, n, i) ==
    Min({Spare(l, i),
         NatDiff(n, SumFunctionOnSet([j \in S |-> Spare(l, j)], {j \in S : j < i}))})
LotsFor(l, a, lots) ==
    LET take(i) == FirstFrom(l, KeyLots(l, a, Since(l[i])), lots[Since(l[i])], i)
        mine == {i \in LotsIn(l) : l[i].account = a}
    IN  [i \in {j \in mine : take(j) > 0} |-> take(i)]
(* Mutant: a sale that finds no lot is logged all the same. *)
LogSaleAlways(l, s, lots) ==
    LET takes == LotsFor(l, s.account, lots) IN
    Append(l, Row("sell", s.account, s.date, Total(takes), 0, takes, s, s))
LogSale(l, s, lots) ==
    LET takes == LotsFor(l, s.account, lots) IN
    IF takes = NoLots THEN l
    ELSE Append(l, Row("sell", s.account, s.date, Total(takes), 0, takes, s, s))
LogSells(l, sold) ==
    FoldSet(LAMBDA s, acc : LogSale(acc, s, sold[s].lots), l, Pending(l, sold))
LogUnexplained(l, h) ==
    OpenFor(l, [k \in Keys |-> h[k[1]][k[2]] - Logged(l, k[1], k[2])])
(* Mutant: the holdings the broker rows and sales do not explain stay so. *)
BackfillKnown(l, h, imp, sold) ==
    LogSells(LogSoldLots(LogBuys(l, imp), h, sold), sold)
Backfill(l, h, imp, sold) ==
    LogUnexplained(LogSells(LogSoldLots(LogBuys(l, imp), h, sold), sold), h)

(* transactions_repo.release of the rows in S. *)
Release(l, S) ==
    [i \in DOMAIN l |->
        IF i \in S THEN [l[i] EXCEPT !.active = FALSE, !.activity = None] ELSE l[i]]

(* transactions.sync_if_started: void the rows whose broker row is gone or *)
(* whose sale was undone, then backfill.                                   *)
Gone(imp, sold) ==
    {r \in Activities : imp[r] = "no"} \cup {s \in Sells : sold[s] = None}
Synced(l, h, imp, sold) ==
    IF Started(l)
    THEN Backfill(Release(l, {i \in Live(l) : l[i].activity \in Gone(imp, sold)}), h, imp, sold)
    ELSE l

-----------------------------------------------------------------------------
Init ==
    /\ held \in {h \in [Accounts -> [Dates -> 0..MaxShares]] :
                 \A k \in Keys \ HandLots : h[k[1]][k[2]] = 0}
    /\ log = <<>>
    /\ managed = {}
    /\ imported = [r \in Activities |-> "no"]
    /\ sales = [s \in Sells |-> None]

(* A write of the log: refused when the log would not replay; the holdings *)
(* of the managed accounts among A are rewritten from it.                  *)
Write(l, A) ==
    /\ Len(l) <= MaxTxns
    /\ log' = l
    /\ held' = Materialized(held, l, A)

(* transactions.add of a purchase, a reinvestment or an opening lot. *)
AddLot(a, d, n) ==
    LET l == Append(log, LotRow(a, d, n, None)) IN
    /\ ReplayOK(l)
    /\ Write(l, {a})
    /\ UNCHANGED <<managed, imported, sales>>

(* transactions.add of a sale.  Oldest first (_fifo) is one of the         *)
(* allocations.                                                            *)
AddSale(a, d, n) ==
    \E takes \in Allocations(LotsIn(log), n) :
        LET l == Append(log, Row("sell", a, d, n, 0, takes, None, None)) IN
        /\ ReplayOK(l)
        /\ Write(l, {a})
        /\ UNCHANGED <<managed, imported, sales>>

(* The void half of a revision: the old row keeps its activity. *)
Voided(l, i) == [l EXCEPT ![i].active = FALSE]
Revision(i, a, d, n) ==
    [log[i] EXCEPT !.account = a, !.date = d, !.shares = n,
                   !.activity = None, !.revises = i]

(* transactions.revise of a row that creates a lot: the sales that used    *)
(* the lot follow it (repoint_disposals), and the change is refused if it  *)
(* would leave them short.                                                 *)
Moved(takes, i, j) ==
    IF i \in DOMAIN takes
    THEN [k \in (DOMAIN takes \ {i}) \cup {j} |-> IF k = j THEN takes[i] ELSE takes[k]]
    ELSE takes
Repointed(l, i, j) == [k \in DOMAIN l |-> [l[k] EXCEPT !.takes = Moved(@, i, j)]]
ReviseLot(i, a, d, n) ==
    LET l == Repointed(Append(Voided(log, i), Revision(i, a, d, n)), i, Len(log) + 1) IN
    /\ i \in LotsIn(log)
    /\ ReplayOK(l)
    /\ Write(l, {log[i].account, a})
    /\ UNCHANGED <<managed, imported, sales>>

(* transactions.revise of a sale or a transfer_out. *)
ReviseDisposal(i, d, n) ==
    /\ i \in Disposals(log)
    /\ \E takes \in Allocations(LotsIn(log), n) :
        LET new == [Revision(i, log[i].account, d, n) EXCEPT !.takes = takes]
            l == Append(Voided(log, i), new)
        IN  /\ ReplayOK(l)
            /\ Write(l, {log[i].account})
    /\ UNCHANGED <<managed, imported, sales>>

(* transactions.void: refused for a lot that a sale used. *)
(* Mutant: a lot that a sale used is voided too. *)
VoidAny(i) ==
    /\ i \in Live(log)
    /\ Write(Voided(log, i), {log[i].account})
    /\ UNCHANGED <<managed, imported, sales>>
Void(i) ==
    /\ i \in Live(log)
    /\ \A t \in Disposals(log) : i \notin DOMAIN log[t].takes
    /\ Write(Voided(log, i), {log[i].account})
    /\ UNCHANGED <<managed, imported, sales>>

(* transactions.transfer: one transfer_out that takes the chosen lots, and *)
(* a transfer_in for each of them that keeps its purchase date.            *)
Transfer(a, b, d, n) ==
    /\ a # b
    /\ \E takes \in Allocations(LotsIn(log), n) :
        LET out == Append(log, Row("out", a, d, n, 0, takes, None, None))
            In(i) == [LotRow(b, d, takes[i], None) EXCEPT !.since = Since(log[i])]
            l == AppendEach(out, [i \in DOMAIN takes |-> In(i)])
        IN  /\ ReplayOK(out)
            /\ Write(l, {a, b})
    /\ UNCHANGED <<managed, imported, sales>>

(* transactions.set_managed: on only when log and holdings agree. *)
Agree(a) == held[a] = OpenOf(log, a)
Manage(a) ==
    /\ Started(log) /\ Agree(a)
    /\ managed' = managed \cup {a}
    /\ UNCHANGED <<held, log, imported, sales>>
Unmanage(a) ==
    /\ managed' = managed \ {a}
    /\ UNCHANGED <<held, log, imported, sales>>

(* transactions.start_log. *)
StartLog ==
    /\ log' = Backfill(log, held, imported, sales)
    /\ Len(log') <= MaxTxns
    /\ UNCHANGED <<held, managed, imported, sales>>

(* The holdings are saved by hand (holdings_service.save_holdings). *)
EditHoldings(a, d, n) ==
    /\ held' = [held EXCEPT ![a][d] = n]
    /\ UNCHANGED <<log, managed, imported, sales>>

(* sync_if_started at the end of an operation that left holdings h. *)
Sync(h) ==
    LET l == Synced(log, h, imported', sales') IN
    /\ Len(l) <= MaxTxns
    /\ log' = l
    /\ held' = IF Started(log) THEN Materialized(h, l, Accounts) ELSE h

(* broker_import.commit of one row: a purchase adds its lot, unless the    *)
(* holdings have a lot of that date and size; a sale is queued.            *)
Import(r) ==
    LET present == held[r.account][r.date] = r.shares
        outcome == IF r \in Sells THEN "queued" ELSE IF present THEN "present" ELSE "created"
    IN  /\ imported[r] = "no"
        /\ imported' = [imported EXCEPT ![r] = outcome]
        /\ UNCHANGED <<managed, sales>>
        /\ Sync(IF outcome = "created"
                THEN [held EXCEPT ![r.account][r.date] = @ + r.shares] ELSE held)

(* broker_import.revert: refused after a confirmed sale, a revision in the *)
(* log or a change of the created lot.  The ids of the deleted broker rows *)
(* are never issued again, so no log row can be about them any more.       *)
Revert(r) ==
    LET l == [i \in DOMAIN log |->
                IF log[i].activity = r /\ ~log[i].active
                THEN [log[i] EXCEPT !.activity = None] ELSE log[i]]
        h == IF imported[r] = "created"
             THEN [held EXCEPT ![r.account][r.date] = @ - r.shares] ELSE held
        synced == Synced(l, h, imported', sales)
    IN  /\ imported[r] # "no"
        /\ r \in Sells => sales[r] = None
        /\ \A i, j \in DOMAIN log : log[j].revises = i => log[i].activity # r
        /\ imported[r] = "created" => held[r.account][r.date] = r.shares
        /\ imported' = [imported EXCEPT ![r] = "no"]
        /\ Len(synced) <= MaxTxns
        /\ log' = synced
        /\ held' = IF Started(log) THEN Materialized(h, synced, Accounts) ELSE h
        /\ UNCHANGED <<managed, sales>>

(* sales_confirm.confirm in an account the log does not manage: the chosen *)
(* lots leave the holdings.                                                *)
ConfirmFromHoldings(s) ==
    /\ imported[s] # "no" /\ sales[s] = None
    /\ s.account \notin managed
    /\ \E lots \in [Dates -> 0..s.shares] :
        /\ Total(lots) = s.shares
        /\ \A d \in Dates : /\ lots[d] <= held[s.account][d]
                            /\ lots[d] > 0 => d <= s.date
        /\ sales' = [sales EXCEPT ![s] = [lots |-> lots, logged |-> FALSE]]
        /\ UNCHANGED <<managed, imported>>
        /\ Sync([held EXCEPT ![s.account] = [d \in Dates |-> @[d] - lots[d]]])

(* sales_confirm.confirm in a managed account: the log gets the sale and   *)
(* the holdings are rewritten from it.                                     *)
ConfirmInLog(s) ==
    /\ imported[s] # "no" /\ sales[s] = None
    /\ s.account \in managed
    /\ \E takes \in Allocations(LotsIn(log), s.shares) :
        LET l == Append(log, Row("sell", s.account, s.date, s.shares, 0, takes, s, s))
            from(d) == {i \in DOMAIN takes : Since(log[i]) = d}
            lots == [d \in Dates |-> SumFunctionOnSet(takes, from(d))]
            after == [sales EXCEPT ![s] = [lots |-> lots, logged |-> TRUE]]
            h == Materialized(held, l, {s.account})
            synced == Synced(l, h, imported, after)
        IN  /\ \A i \in DOMAIN takes : Since(log[i]) <= s.date      \* _log_lots
            /\ ReplayOK(l)
            /\ sales' = after
            /\ Len(synced) <= MaxTxns
            /\ log' = synced
            /\ held' = Materialized(h, synced, Accounts)
            /\ UNCHANGED <<managed, imported>>

(* sales_confirm.undo: a sale the log wrote and still manages is undone    *)
(* there; any other gives its shares back to the holdings.                 *)
Undo(s) ==
    LET sale == sales[s]
        viaLog == sale.logged /\ s.account \in managed
        back == [d \in Dates |-> held[s.account][d] + sale.lots[d]]
        h == IF viaLog THEN held ELSE [held EXCEPT ![s.account] = back]
        l == Release(log, {i \in Live(log) : log[i].kind = "sell" /\ log[i].order = s})
        after == [sales EXCEPT ![s] = None]
        synced == Synced(l, Materialized(h, l, {s.account}), imported, after)
    IN  /\ sale # None
        /\ sales' = after
        /\ Len(synced) <= MaxTxns
        /\ log' = synced
        /\ held' = IF Started(l) THEN Materialized(h, synced, Accounts) ELSE h
        /\ UNCHANGED <<managed, imported>>

-----------------------------------------------------------------------------
Next ==
    \/ \E a \in Accounts, n \in 1..MaxShares :
        \/ \E d \in SaleDates : AddSale(a, d, n)
        \/ \E d \in SaleDates, b \in Accounts : Transfer(a, b, d, n)
        \/ \E i \in DOMAIN log, d \in Dates : ReviseLot(i, a, d, n)
    \/ \E i \in DOMAIN log, d \in SaleDates, n \in 1..MaxShares : ReviseDisposal(i, d, n)
    \/ \E i \in DOMAIN log : Void(i)
    \/ \E a \in Accounts : Manage(a) \/ Unmanage(a)
    \/ StartLog
    \/ \E k \in HandLots :
        \/ \E n \in 1..MaxShares : AddLot(k[1], k[2], n)
        \/ \E n \in 0..MaxShares : EditHoldings(k[1], k[2], n)
    \/ \E r \in Activities : Import(r) \/ Revert(r)
    \/ \E s \in Sells : ConfirmFromHoldings(s) \/ ConfirmInLog(s) \/ Undo(s)

Spec == Init /\ [][Next]_vars

-----------------------------------------------------------------------------
(* Properties.                                                             *)

LogReplays == ReplayOK(log)

(* After an import, a revert, a confirmed or an undone sale, the log       *)
(* accounts for every share the holdings show.                             *)
SyncExplains ==
    [][(imported' # imported \/ sales' # sales) /\ Started(log)
          => \A a \in Accounts, d \in Dates : held'[a][d] <= Logged(log', a, d)]_vars

(* Whatever changes the open lots of a managed account rewrites its        *)
(* holdings (start_log, called again on a started log, does not).          *)
ManagedFollowsLog ==
    [][\A a \in managed :
          log' # log /\ OpenOf(log, a)' # OpenOf(log, a)
             => held'[a] = OpenOf(log, a)' \/ StartLog]_vars

(* A broker row is logged once: at most one live row mirrors it, counting  *)
(* the corrected rows that replaced its first one.                         *)
Root(l) ==
    LET R[i \in DOMAIN l] == IF l[i].revises = 0 THEN i ELSE R[l[i].revises] IN R
OneRowPerActivity ==
    \A r \in Activities : \A i, j \in Live(log) :
        log[Root(log)[i]].activity = r /\ log[Root(log)[j]].activity = r => i = j

(* A change made by hand never breaks a log that replays: sales keep the   *)
(* lots they used through voids, revisions and transfers.                  *)
HandEditsReplay ==
    [][UNCHANGED <<imported, sales>> /\ log' # log /\ LogReplays
          => LogReplays' \/ StartLog]_vars

(* An import into a log that agrees with the holdings leaves them agreeing *)
(* (transactions.backfill: "so open_lots equals the holdings").            *)
ImportKeepsAgreement ==
    [][imported' # imported /\ Started(log) /\ (\A a \in Accounts : Agree(a))
          => (\A a \in Accounts : Agree(a))']_vars
=============================================================================
