------------------------- MODULE TransactionLogProofs -------------------------
(***************************************************************************)
(* Proofs about TransactionLog.  A log is first looked at by itself: what  *)
(* one row takes from a lot, what is left of a lot, and how both change    *)
(* when rows are appended, voided, released or repointed.  Then the        *)
(* backfill, which folds such steps, and the actions.                      *)
(***************************************************************************)
EXTENDS TransactionLog, SumsAndFolds, SequenceTheorems

TakesSet == UNION {[T -> Nat \ {0}] : T \in SUBSET Nat}
Txn == [kind : Kinds, account : Accounts, date : Dates, shares : Nat \ {0},
        since : 0..MaxDate, takes : TakesSet, activity : Activities \cup {None},
        order : Sells \cup {None}, revises : Nat, active : BOOLEAN]

(* Rows refer to rows of the log, and replace an earlier one if any. *)
LogTyped(l) ==
    /\ l \in Seq(Txn)
    /\ \A t \in DOMAIN l : DOMAIN l[t].takes \subseteq DOMAIN l /\ l[t].revises \in 0..(t - 1)
(* No live lot gives more than it has. *)
OpenOK(l) == \A i \in LotsIn(l) : Open(l, i) >= 0
(* A live disposal takes from rows of its own account. *)
OwnOK(l) == \A t \in Disposals(l) : \A i \in DOMAIN l[t].takes : l[i].account = l[t].account
LogOK(l) == LogTyped(l) /\ OpenOK(l) /\ OwnOK(l)

LEMMA Sizes ==
    /\ MaxDate \in Nat /\ MaxShares \in Nat /\ MaxTxns \in Nat
    /\ Dates = 1..MaxDate /\ IsFiniteSet(Dates)
    /\ IsFiniteSet(Keys) /\ IsFiniteSet(Activities) /\ IsFiniteSet(Buys) /\ IsFiniteSet(Sells)
    /\ \A x \in Activities : x.account \in Accounts /\ x.date \in Dates /\ x.shares \in Nat \ {0}
    /\ NoLots \in TakesSet /\ DOMAIN NoLots = {}
<1>1. MaxDate \in Nat /\ MaxShares \in Nat /\ MaxTxns \in Nat
    BY SizeAssumption
<1>2. IsFiniteSet(Dates)
    BY <1>1, FS_Interval DEF Dates
<1>3. IsFiniteSet(Accounts \X Dates)
    BY <1>2, ActivityAssumption, FS_Product
<1>4. IsFiniteSet(Buys) /\ IsFiniteSet(Sells)
    BY ActivityAssumption, FS_Subset DEF Activities
<1>5. \A x \in Activities : x.account \in Accounts /\ x.date \in Dates /\ x.shares \in Nat \ {0}
    BY ActivityAssumption
<1>6. NoLots \in [{} -> Nat \ {0}]
    BY DEF NoLots
<1>7. NoLots \in TakesSet
    BY <1>6 DEF TakesSet
<1> QED
    BY <1>1, <1>2, <1>3, <1>4, <1>5, <1>6, <1>7, ActivityAssumption DEF Keys, Dates

LEMMA RowTyped ==
    ASSUME NEW r \in Txn
    PROVE  /\ r.kind \in Kinds /\ r.account \in Accounts /\ r.date \in Dates
           /\ r.shares \in Nat \ {0} /\ r.since \in 0..MaxDate
           /\ r.takes \in TakesSet
           /\ \A i \in DOMAIN r.takes : i \in Nat /\ r.takes[i] \in Nat \ {0}
           /\ r.takes = [i \in DOMAIN r.takes |-> r.takes[i]]
           /\ r.activity \in Activities \cup {None} /\ r.order \in Sells \cup {None}
           /\ r.revises \in Nat /\ r.active \in BOOLEAN
           /\ Since(r) \in Dates
           /\ \A i : TakenBy(r, i) \in Nat
<1>1. /\ r.kind \in Kinds /\ r.account \in Accounts /\ r.date \in Dates
      /\ r.shares \in Nat \ {0} /\ r.since \in 0..MaxDate /\ r.takes \in TakesSet
      /\ r.activity \in Activities \cup {None} /\ r.order \in Sells \cup {None}
      /\ r.revises \in Nat /\ r.active \in BOOLEAN
    BY DEF Txn
<1>2. PICK T \in SUBSET Nat : r.takes \in [T -> Nat \ {0}]
    BY <1>1 DEF TakesSet
<1>3. /\ \A i \in DOMAIN r.takes : i \in Nat /\ r.takes[i] \in Nat \ {0}
      /\ r.takes = [i \in DOMAIN r.takes |-> r.takes[i]]
    BY <1>2
<1>4. Since(r) \in Dates
    BY <1>1, Sizes DEF Since, Dates
<1>5. \A i : TakenBy(r, i) \in Nat
    BY <1>3 DEF TakenBy
<1> QED
    BY <1>1, <1>3, <1>4, <1>5

LEMMA LogBasics ==
    ASSUME NEW l \in Seq(Txn)
    PROVE  /\ Len(l) \in Nat /\ DOMAIN l = 1..Len(l) /\ IsFiniteSet(DOMAIN l)
           /\ \A i \in DOMAIN l : l[i] \in Txn
           /\ Live(l) \subseteq DOMAIN l /\ IsFiniteSet(Live(l))
           /\ LotsIn(l) \subseteq Live(l) /\ Disposals(l) \subseteq Live(l)
           /\ IsFiniteSet(LotsIn(l)) /\ IsFiniteSet(Disposals(l))
           /\ \A a, d : KeyLots(l, a, d) \subseteq LotsIn(l) /\ IsFiniteSet(KeyLots(l, a, d))
<1>1. Len(l) \in Nat /\ DOMAIN l = 1..Len(l) /\ \A i \in DOMAIN l : l[i] \in Txn
    BY LenProperties, ElementOfSeq
<1>2. IsFiniteSet(DOMAIN l)
    BY <1>1, FS_Interval
<1>3. /\ Live(l) \in SUBSET DOMAIN l /\ LotsIn(l) \in SUBSET DOMAIN l
      /\ Disposals(l) \in SUBSET DOMAIN l
      /\ LotsIn(l) \subseteq Live(l) /\ Disposals(l) \subseteq Live(l)
    BY DEF Live, LotsIn, Disposals
<1>4. \A a, d : KeyLots(l, a, d) \in SUBSET DOMAIN l /\ KeyLots(l, a, d) \subseteq LotsIn(l)
    BY <1>3 DEF KeyLots
<1>5. \A S \in SUBSET DOMAIN l : IsFiniteSet(S)
    BY <1>2, FS_Subset
<1> QED
    BY <1>1, <1>2, <1>3, <1>4, <1>5

(* What row t takes from lot i, if it is a live disposal. *)
Draws(l, t, i) == IF t \in Disposals(l) THEN TakenBy(l[t], i) ELSE 0
DrawsOf(l, i, D) == [t \in D |-> Draws(l, t, i)]

LEMMA TakenIs ==
    ASSUME NEW l \in Seq(Txn), NEW D, IsFiniteSet(D), DOMAIN l \subseteq D, NEW i
    PROVE  /\ Taken(l, i, Disposals(l)) = SumFunctionOnSet(DrawsOf(l, i, D), D)
           /\ NatOn(DrawsOf(l, i, D), D) /\ IntOn(DrawsOf(l, i, D), D)
           /\ Taken(l, i, Disposals(l)) \in Nat
<1> DEFINE f == [t \in DOMAIN l |-> TakenBy(l[t], i)]
<1> DEFINE S == Disposals(l)
<1> DEFINE w == DrawsOf(l, i, D)
<1>1. /\ \A t \in DOMAIN l : l[t] \in Txn
      /\ S \subseteq DOMAIN l /\ S \subseteq D /\ S \in SUBSET D /\ IsFiniteSet(S)
    BY LogBasics
<1>2. \A t \in D : w[t] \in Nat
    BY <1>1, RowTyped DEF DrawsOf, Draws
<1>3. \A t \in S : f[t] = w[t]
    BY <1>1 DEF DrawsOf, Draws
<1>4. \A t \in D \ S : w[t] = 0
    BY DEF DrawsOf, Draws
<1> HIDE DEF f, S, w
<1>5. NatOn(w, D) /\ IntOn(w, D)
    BY <1>2, NatIsInt DEF NatOn
<1>6. SumFunctionOnSet(f, S) = SumFunctionOnSet(w, S)
    BY <1>1, <1>3, SumEqual DEF SameOn
<1>7. SumFunctionOnSet(w, D) = SumFunctionOnSet(w, S) + SumFunctionOnSet(w, D \ S)
      /\ SumFunctionOnSet(w, S) \in Int
    BY <1>1, <1>5, SumWithout
<1>8. SumFunctionOnSet(w, D \ S) = 0
    <2>1. IsFiniteSet(D \ S)
        <3>1. D \ S \in SUBSET D
            OBVIOUS
        <3> QED
            BY <3>1, FS_Subset
    <2> QED
        BY <1>4, <2>1, SumZero
<1>9. SumFunctionOnSet(w, D) \in Nat
    BY <1>5, SumIsNat
<1> QED
    BY <1>5, <1>6, <1>7, <1>8, <1>9 DEF Taken, f, S, w

LEMMA TakenSame ==
    ASSUME NEW l \in Seq(Txn), NEW m \in Seq(Txn), NEW i,
           \A t \in DOMAIN l \cup DOMAIN m : Draws(l, t, i) = Draws(m, t, i)
    PROVE  Taken(l, i, Disposals(l)) = Taken(m, i, Disposals(m))
<1> DEFINE D == DOMAIN l \cup DOMAIN m
<1>1. IsFiniteSet(D) /\ DOMAIN l \subseteq D /\ DOMAIN m \subseteq D
    BY LogBasics, FS_Union
<1>2. DrawsOf(l, i, D) = DrawsOf(m, i, D)
    BY DEF DrawsOf
<1> HIDE DEF D
<1> QED
    BY <1>1, <1>2, TakenIs

LEMMA TakenLess ==
    ASSUME NEW l \in Seq(Txn), NEW m \in Seq(Txn), NEW i,
           \A t \in DOMAIN l \cup DOMAIN m : Draws(m, t, i) <= Draws(l, t, i)
    PROVE  Taken(m, i, Disposals(m)) <= Taken(l, i, Disposals(l))
<1> DEFINE D == DOMAIN l \cup DOMAIN m
<1> DEFINE v == DrawsOf(m, i, D)
<1> DEFINE w == DrawsOf(l, i, D)
<1>1. IsFiniteSet(D) /\ DOMAIN l \subseteq D /\ DOMAIN m \subseteq D
    BY LogBasics, FS_Union
<1>2. AtMostOn(v, w, D)
    BY DEF AtMostOn, DrawsOf
<1> HIDE DEF D
<1>3. IntOn(v, D) /\ IntOn(w, D)
      /\ Taken(m, i, Disposals(m)) = SumFunctionOnSet(v, D)
      /\ Taken(l, i, Disposals(l)) = SumFunctionOnSet(w, D)
    BY <1>1, TakenIs
<1> HIDE DEF v, w
<1> QED
    BY <1>1, <1>2, <1>3, SumMonotone

(* What all rows took, voided ones included, is no less. *)
LEMMA TakenByAll ==
    ASSUME NEW l \in Seq(Txn), NEW i
    PROVE  /\ Taken(l, i, DOMAIN l) \in Nat
           /\ Taken(l, i, Disposals(l)) <= Taken(l, i, DOMAIN l)
<1> DEFINE f == [t \in DOMAIN l |-> TakenBy(l[t], i)]
<1>1. IsFiniteSet(DOMAIN l) /\ Disposals(l) \in SUBSET DOMAIN l /\ \A t \in DOMAIN l : f[t] \in Nat
    BY LogBasics, RowTyped
<1> HIDE DEF f
<1>2. NatOn(f, DOMAIN l)
    BY <1>1 DEF NatOn
<1> QED
    BY <1>1, <1>2, SumSubset, SumIsNat DEF Taken, f

LEMMA OpenTyped ==
    ASSUME NEW l \in Seq(Txn), NEW i \in DOMAIN l
    PROVE  /\ Open(l, i) \in Int
           /\ Open(l, i) = l[i].shares - Taken(l, i, Disposals(l))
           /\ l[i].shares \in Nat /\ Taken(l, i, Disposals(l)) \in Nat
<1>1. Taken(l, i, Disposals(l)) \in Nat
    BY LogBasics, TakenIs
<1>2. l[i].shares \in Nat
    BY LogBasics, RowTyped
<1> QED
    BY <1>1, <1>2 DEF Open

(* The open shares of an account, by date. *)
LEMMA LoggedTyped ==
    ASSUME NEW l \in Seq(Txn), NEW a, NEW d
    PROVE  Logged(l, a, d) \in Int /\ (OpenOK(l) => Logged(l, a, d) \in Nat)
<1> DEFINE f == [i \in DOMAIN l |-> Open(l, i)]
<1> DEFINE S == KeyLots(l, a, d)
<1>1. IsFiniteSet(S) /\ S \subseteq LotsIn(l) /\ S \subseteq DOMAIN l
    BY LogBasics
<1>2. \A i \in S : f[i] \in Int /\ (OpenOK(l) => f[i] \in Nat)
    BY <1>1, OpenTyped DEF OpenOK
<1> HIDE DEF f, S
<1>3. IntOn(f, S) /\ (OpenOK(l) => NatOn(f, S))
    BY <1>2 DEF IntOn, NatOn
<1> QED
    BY <1>1, <1>3, SumIsInt, SumIsNat DEF Logged, f, S

LEMMA OpenOfTyped ==
    ASSUME NEW l, LogOK(l), NEW a
    PROVE  OpenOf(l, a) \in LotShares
BY LoggedTyped DEF OpenOf, LotShares, LogOK, LogTyped

(* An account whose lots and what is open of them stay. *)
LEMMA LoggedSame ==
    ASSUME NEW l \in Seq(Txn), NEW m \in Seq(Txn), NEW a,
           \A d \in Dates : KeyLots(m, a, d) = KeyLots(l, a, d),
           \A d \in Dates : \A i \in KeyLots(l, a, d) : Open(m, i) = Open(l, i)
    PROVE  OpenOf(m, a) = OpenOf(l, a)
<1>1. ASSUME NEW d \in Dates PROVE Logged(m, a, d) = Logged(l, a, d)
    <2> DEFINE f == [i \in DOMAIN l |-> Open(l, i)]
    <2> DEFINE g == [i \in DOMAIN m |-> Open(m, i)]
    <2> DEFINE S == KeyLots(l, a, d)
    <2>1. IsFiniteSet(S) /\ S \subseteq DOMAIN l /\ KeyLots(m, a, d) = S /\ S \subseteq DOMAIN m
        BY LogBasics
    <2>2. \A i \in S : f[i] = g[i]
        BY <2>1
    <2> HIDE DEF f, g, S
    <2>3. SumFunctionOnSet(f, S) = SumFunctionOnSet(g, S)
        BY <2>1, <2>2, SumEqual DEF SameOn
    <2> QED
        BY <2>1, <2>3 DEF Logged, f, g, S
<1> QED
    BY <1>1 DEF OpenOf

LEMMA ReplayIsOK ==
    ASSUME NEW l, LogTyped(l), ReplayOK(l)
    PROVE  LogOK(l)
<1>1. OpenOK(l)
    BY DEF ReplayOK, OpenOK
<1>2. OwnOK(l)
    BY DEF ReplayOK, OwnOK
<1> QED
    BY <1>1, <1>2 DEF LogOK

----------------------------------------------------------------------------
(* Appended rows.                                                          *)

RowFits(l, r) == r \in Txn /\ DOMAIN r.takes \subseteq DOMAIN l /\ r.revises \in 0..Len(l)

LEMMA AppendIs ==
    ASSUME NEW l, LogTyped(l), NEW r, RowFits(l, r)
    PROVE  LET m == Append(l, r)
               n == Len(l)
           IN  /\ LogTyped(m) /\ m \in Seq(Txn) /\ l \in Seq(Txn)
               /\ n \in Nat /\ Len(m) = n + 1
               /\ DOMAIN l = 1..n /\ DOMAIN m = 1..(n + 1)
               /\ n + 1 \in DOMAIN m /\ n + 1 \notin DOMAIN l
               /\ \A i \in DOMAIN m : i \in DOMAIN l \/ i = n + 1
               /\ m[n + 1] = r /\ \A i \in DOMAIN l : m[i] = l[i] /\ i \in DOMAIN m
               /\ \A i : i \in Live(m) <=> i \in Live(l) \/ (i = n + 1 /\ r.active)
               /\ \A i : i \in LotsIn(m) <=>
                      i \in LotsIn(l) \/ (i = n + 1 /\ r.active /\ r.kind = "lot")
               /\ \A i : i \in Disposals(m) <=>
                      i \in Disposals(l) \/ (i = n + 1 /\ r.active /\ r.kind # "lot")
               /\ \A a, d, i : i \in KeyLots(m, a, d) <=>
                      \/ i \in KeyLots(l, a, d)
                      \/ i = n + 1 /\ r.active /\ r.kind = "lot" /\ r.account = a /\ Since(r) = d
<1> DEFINE m == Append(l, r)
<1> DEFINE n == Len(l)
<1>1. l \in Seq(Txn) /\ r \in Txn
    BY DEF LogTyped, RowFits
<1>2. n \in Nat /\ DOMAIN l = 1..n
    BY <1>1, LogBasics
<1>3. /\ m \in Seq(Txn) /\ Len(m) = n + 1 /\ m[n + 1] = r /\ \A i \in 1..n : m[i] = l[i]
    BY <1>1, AppendProperties
<1> HIDE DEF m, n
<1>4. DOMAIN m = 1..(n + 1) /\ n + 1 \in 1..(n + 1) /\ n + 1 \notin 1..n
      /\ \A i \in 1..(n + 1) : i \in 1..n \/ i = n + 1
    BY <1>2, <1>3, LenProperties
<1>5. \A i \in DOMAIN l : m[i] = l[i] /\ i \in DOMAIN m
    BY <1>2, <1>3, <1>4
<1>6. LogTyped(m)
    <2>1. ASSUME NEW t \in DOMAIN m
          PROVE  DOMAIN m[t].takes \subseteq DOMAIN m /\ m[t].revises \in 0..(t - 1)
        <3>1. CASE t \in DOMAIN l
            <4>1. DOMAIN l[t].takes \subseteq DOMAIN l /\ l[t].revises \in 0..(t - 1)
                BY <3>1 DEF LogTyped
            <4> QED
                BY <1>5, <3>1, <4>1
        <3>2. CASE t = n + 1
            <4>1. DOMAIN r.takes \subseteq DOMAIN l /\ r.revises \in 0..n /\ t - 1 = n
                BY <1>2, <3>2 DEF RowFits, n
            <4> QED
                BY <1>3, <1>5, <3>2, <4>1
        <3> QED
            BY <1>2, <1>4, <3>1, <3>2
    <2> QED
        BY <1>3, <2>1 DEF LogTyped
<1>7. \A i : i \in Live(m) <=> i \in Live(l) \/ (i = n + 1 /\ r.active)
    BY <1>2, <1>3, <1>4, <1>5 DEF Live
<1>8. \A i \in Live(l) : i \in DOMAIN l
    BY DEF Live
<1>9. \A i : i \in LotsIn(m) <=> i \in LotsIn(l) \/ (i = n + 1 /\ r.active /\ r.kind = "lot")
    BY <1>2, <1>3, <1>4, <1>5, <1>7, <1>8 DEF LotsIn
<1>10. \A i : i \in Disposals(m) <=> i \in Disposals(l) \/ (i = n + 1 /\ r.active /\ r.kind # "lot")
    BY <1>2, <1>3, <1>4, <1>5, <1>7, <1>8 DEF Disposals
<1>11. \A i \in LotsIn(l) : i \in DOMAIN l
    BY <1>8 DEF LotsIn
<1>12. \A a, d, i : i \in KeyLots(m, a, d) <=>
           \/ i \in KeyLots(l, a, d)
           \/ i = n + 1 /\ r.active /\ r.kind = "lot" /\ r.account = a /\ Since(r) = d
    BY <1>2, <1>3, <1>4, <1>5, <1>9, <1>11 DEF KeyLots
<1> QED
    BY <1>1, <1>2, <1>3, <1>4, <1>5, <1>6, <1>7, <1>9, <1>10, <1>12 DEF m, n

(* Lots, and nothing else, were appended. *)
FreshLot(r) ==
    r \in Txn /\ r.kind = "lot" /\ r.active /\ r.takes = NoLots /\ r.revises = 0
MoreLots(l, m) ==
    /\ LogTyped(m) /\ Len(l) <= Len(m)
    /\ \A i \in DOMAIN l : m[i] = l[i]
    /\ \A i \in DOMAIN m \ DOMAIN l : FreshLot(m[i])

LEMMA MoreLotsIs ==
    ASSUME NEW l, LogTyped(l), NEW m, MoreLots(l, m)
    PROVE  /\ l \in Seq(Txn) /\ m \in Seq(Txn) /\ DOMAIN l \subseteq DOMAIN m
           /\ Disposals(m) = Disposals(l)
           /\ \A i \in DOMAIN l : i \in LotsIn(m) <=> i \in LotsIn(l)
           /\ \A i \in DOMAIN l : Open(m, i) = Open(l, i)
           /\ \A i \in DOMAIN m \ DOMAIN l : i \in LotsIn(m) /\ Open(m, i) = m[i].shares
<1>1. /\ l \in Seq(Txn) /\ m \in Seq(Txn) /\ LogTyped(m)
      /\ \A i \in DOMAIN l : m[i] = l[i]
      /\ \A i \in DOMAIN m \ DOMAIN l : FreshLot(m[i])
    BY DEF LogTyped, MoreLots
<1>2. DOMAIN l \subseteq DOMAIN m
    <2>1. DOMAIN l = 1..Len(l) /\ DOMAIN m = 1..Len(m) /\ Len(l) \in Nat /\ Len(m) \in Nat
          /\ Len(l) <= Len(m)
        BY <1>1, LogBasics DEF MoreLots
    <2> QED
        BY <2>1
<1>3. Disposals(m) = Disposals(l)
    BY <1>1, <1>2 DEF Disposals, Live, FreshLot
<1>4. \A i \in DOMAIN l : i \in LotsIn(m) <=> i \in LotsIn(l)
    BY <1>1, <1>2 DEF LotsIn, Live
<1>5. Disposals(l) \subseteq DOMAIN l
    BY <1>1, LogBasics
<1>6. ASSUME NEW i PROVE Taken(m, i, Disposals(m)) = Taken(l, i, Disposals(l))
    <2>1. \A t \in DOMAIN l \cup DOMAIN m : Draws(l, t, i) = Draws(m, t, i)
        BY <1>1, <1>3, <1>5 DEF Draws
    <2> QED
        BY <1>1, <2>1, TakenSame
<1>7. \A i \in DOMAIN l : Open(m, i) = Open(l, i)
    BY <1>1, <1>6 DEF Open
<1>8. ASSUME NEW i \in DOMAIN m \ DOMAIN l PROVE i \in LotsIn(m) /\ Open(m, i) = m[i].shares
    <2>1. i \in LotsIn(m)
        BY <1>1 DEF LotsIn, Live, FreshLot
    <2>2. ASSUME NEW t \in DOMAIN l PROVE DrawsOf(l, i, DOMAIN l)[t] = 0
        <3>1. i \notin DOMAIN l[t].takes
            BY DEF LogTyped
        <3> QED
            BY <3>1 DEF DrawsOf, Draws, TakenBy
    <2>3. SumFunctionOnSet(DrawsOf(l, i, DOMAIN l), DOMAIN l) = 0
        <3>1. IsFiniteSet(DOMAIN l)
            BY <1>1, LogBasics
        <3> QED
            BY <2>2, <3>1, SumZero
    <2>4. Taken(l, i, Disposals(l)) = 0
        <3>1. IsFiniteSet(DOMAIN l)
            BY <1>1, LogBasics
        <3> QED
            BY <1>1, <2>3, <3>1, TakenIs
    <2>5. m[i].shares \in Nat
        BY <1>1, LogBasics, RowTyped
    <2> QED
        BY <1>6, <2>1, <2>4, <2>5 DEF Open
<1> QED
    BY <1>1, <1>2, <1>3, <1>4, <1>7, <1>8

LEMMA MoreLotsOK ==
    ASSUME NEW l, LogOK(l), NEW m, MoreLots(l, m)
    PROVE  LogOK(m)
<1>1. LogTyped(l) /\ OpenOK(l) /\ OwnOK(l)
    BY DEF LogOK
<1>2. /\ l \in Seq(Txn) /\ m \in Seq(Txn) /\ DOMAIN l \subseteq DOMAIN m
      /\ Disposals(m) = Disposals(l)
      /\ \A i \in DOMAIN l : i \in LotsIn(m) <=> i \in LotsIn(l)
      /\ \A i \in DOMAIN l : Open(m, i) = Open(l, i)
      /\ \A i \in DOMAIN m \ DOMAIN l : i \in LotsIn(m) /\ Open(m, i) = m[i].shares
    BY <1>1, MoreLotsIs
<1>3. ASSUME NEW i \in LotsIn(m) PROVE Open(m, i) >= 0
    <2>1. i \in DOMAIN m
        BY <1>2, LogBasics
    <2>2. CASE i \in DOMAIN l
        BY <1>1, <1>2, <1>3, <2>2 DEF OpenOK
    <2>3. CASE i \notin DOMAIN l
        <3>1. m[i].shares \in Nat
            BY <1>2, <2>1, LogBasics, RowTyped
        <3> QED
            BY <1>2, <2>1, <2>3, <3>1
    <2> QED
        BY <2>2, <2>3
<1>4. OwnOK(m)
    <2>1. ASSUME NEW t \in Disposals(m), NEW i \in DOMAIN m[t].takes
          PROVE  m[i].account = m[t].account
        <3>1. t \in Disposals(l) /\ t \in DOMAIN l
            BY <1>2, LogBasics
        <3>2. m[t] = l[t]
            BY <3>1 DEF MoreLots
        <3>3. i \in DOMAIN l /\ m[i] = l[i]
            BY <1>1, <3>1, <3>2 DEF LogTyped, MoreLots
        <3> QED
            BY <1>1, <3>1, <3>2, <3>3 DEF OwnOK
    <2> QED
        BY <2>1 DEF OwnOK
<1>5. OpenOK(m)
    BY <1>3 DEF OpenOK
<1> QED
    BY <1>4, <1>5 DEF LogOK, MoreLots

(* One fresh lot. *)
LEMMA LotAppended ==
    ASSUME NEW l, LogTyped(l), NEW r, FreshLot(r)
    PROVE  /\ MoreLots(l, Append(l, r)) /\ RowFits(l, r)
           /\ \A a, d : Logged(Append(l, r), a, d) = Logged(l, a, d)
                          + (IF r.account = a /\ Since(r) = d THEN r.shares ELSE 0)
<1> DEFINE m == Append(l, r)
<1> DEFINE n == Len(l)
<1>1. RowFits(l, r)
    <2>1. Len(l) \in Nat
        BY LogBasics DEF LogTyped
    <2> QED
        BY <2>1, Sizes DEF RowFits, FreshLot
<1>2. /\ LogTyped(m) /\ m \in Seq(Txn) /\ l \in Seq(Txn)
      /\ n \in Nat /\ Len(m) = n + 1
      /\ n + 1 \in DOMAIN m /\ n + 1 \notin DOMAIN l
      /\ \A i \in DOMAIN m : i \in DOMAIN l \/ i = n + 1
      /\ m[n + 1] = r /\ \A i \in DOMAIN l : m[i] = l[i]
      /\ \A a, d, i : i \in KeyLots(m, a, d) <=>
             \/ i \in KeyLots(l, a, d)
             \/ i = n + 1 /\ r.active /\ r.kind = "lot" /\ r.account = a /\ Since(r) = d
    BY <1>1, AppendIs
<1> HIDE DEF m, n
<1>3. MoreLots(l, m)
    BY <1>2 DEF MoreLots, n
<1>4. \A i \in DOMAIN l : Open(m, i) = Open(l, i)
    BY <1>3, MoreLotsIs
<1>5. Open(m, n + 1) = r.shares /\ r.shares \in Nat
    <2>1. r.shares \in Nat
        BY RowTyped DEF FreshLot
    <2> QED
        BY <1>2, <1>3, <2>1, MoreLotsIs
<1>6. ASSUME NEW a, NEW d
      PROVE  Logged(m, a, d) = Logged(l, a, d)
                 + (IF r.account = a /\ Since(r) = d THEN r.shares ELSE 0)
    <2> DEFINE f == [i \in DOMAIN l |-> Open(l, i)]
    <2> DEFINE g == [i \in DOMAIN m |-> Open(m, i)]
    <2> DEFINE S == KeyLots(l, a, d)
    <2>1. IsFiniteSet(S) /\ S \subseteq DOMAIN l
        BY <1>2, LogBasics
    <2>2. \A i \in S : f[i] = g[i] /\ g[i] \in Int
        BY <1>2, <1>4, <2>1, OpenTyped
    <2>3. g[n + 1] = r.shares
        BY <1>2, <1>5
    <2>4. Logged(m, a, d) = SumFunctionOnSet(g, KeyLots(m, a, d))
          /\ Logged(l, a, d) = SumFunctionOnSet(f, S)
        BY DEF Logged
    <2>5. n + 1 \notin S
        BY <1>2, <2>1
    <2>t. S \in SUBSET DOMAIN m /\ KeyLots(m, a, d) \in SUBSET DOMAIN m
        BY <1>2, <2>1, LogBasics
    <2>k. \A i \in DOMAIN m :
              i \in KeyLots(m, a, d) <=>
                  i \in S \/ (i = n + 1 /\ r.account = a /\ Since(r) = d)
        BY <1>2 DEF FreshLot
    <2> HIDE DEF f, g, S
    <2>6. SumFunctionOnSet(f, S) = SumFunctionOnSet(g, S)
        BY <2>1, <2>2, SumEqual DEF SameOn
    <2>7. SumFunctionOnSet(g, S) \in Int
        BY <2>1, <2>2, SumIsInt DEF IntOn
    <2>8. CASE r.account = a /\ Since(r) = d
        <3>1. KeyLots(m, a, d) = S \cup {n + 1}
            BY <1>2, <2>8, <2>t, <2>k
        <3>2. IntOn(g, S \cup {n + 1})
            BY <1>5, <2>2, <2>3 DEF IntOn
        <3>3. SumFunctionOnSet(g, S \cup {n + 1}) = SumFunctionOnSet(g, S) + g[n + 1]
            BY <2>1, <2>5, <3>2, SumAdd
        <3> QED
            BY <2>3, <2>4, <2>6, <2>8, <3>1, <3>3
    <2>9. CASE ~(r.account = a /\ Since(r) = d)
        <3>1. KeyLots(m, a, d) = S
            BY <1>2, <2>9, <2>t, <2>k
        <3> QED
            BY <2>4, <2>6, <2>7, <2>9, <3>1
    <2> QED
        BY <2>8, <2>9
<1> QED
    BY <1>1, <1>3, <1>6 DEF m

(* One disposal: what it takes is open no more. *)
LEMMA DisposalAppended ==
    ASSUME NEW l, LogTyped(l), NEW r, RowFits(l, r), r.active, r.kind # "lot"
    PROVE  /\ \A i \in DOMAIN l : Open(Append(l, r), i) = Open(l, i) - TakenBy(r, i)
           /\ LotsIn(Append(l, r)) = LotsIn(l)
           /\ \A a, d : KeyLots(Append(l, r), a, d) = KeyLots(l, a, d)
<1> DEFINE m == Append(l, r)
<1> DEFINE n == Len(l)
<1>1. /\ LogTyped(m) /\ m \in Seq(Txn) /\ l \in Seq(Txn)
      /\ n \in Nat
      /\ n + 1 \in DOMAIN m /\ n + 1 \notin DOMAIN l
      /\ \A i \in DOMAIN m : i \in DOMAIN l \/ i = n + 1
      /\ m[n + 1] = r /\ \A i \in DOMAIN l : m[i] = l[i] /\ i \in DOMAIN m
      /\ \A i : i \in LotsIn(m) <=>
             i \in LotsIn(l) \/ (i = n + 1 /\ r.active /\ r.kind = "lot")
      /\ \A i : i \in Disposals(m) <=>
             i \in Disposals(l) \/ (i = n + 1 /\ r.active /\ r.kind # "lot")
      /\ \A a, d, i : i \in KeyLots(m, a, d) <=>
             \/ i \in KeyLots(l, a, d)
             \/ i = n + 1 /\ r.active /\ r.kind = "lot" /\ r.account = a /\ Since(r) = d
    BY AppendIs
<1> HIDE DEF m, n
<1>2. ASSUME NEW i \in DOMAIN l PROVE Open(m, i) = Open(l, i) - TakenBy(r, i)
    <2> DEFINE D == DOMAIN m
    <2> DEFINE v == DrawsOf(m, i, D)
    <2> DEFINE w == DrawsOf(l, i, D)
    <2>1. IsFiniteSet(D) /\ DOMAIN l \subseteq D
        BY <1>1, LogBasics
    <2>2. Disposals(l) \subseteq DOMAIN l
        BY <1>1, LogBasics
    <2>3. v[n + 1] = TakenBy(r, i) /\ w[n + 1] = 0
        BY <1>1, <2>2 DEF DrawsOf, Draws
    <2>4. \A t \in D \ {n + 1} : v[t] = w[t]
        BY <1>1, <2>2 DEF DrawsOf, Draws
    <2>5. /\ Taken(m, i, Disposals(m)) = SumFunctionOnSet(v, D) /\ IntOn(v, D)
          /\ Taken(l, i, Disposals(l)) = SumFunctionOnSet(w, D) /\ IntOn(w, D)
        BY <1>1, <2>1, TakenIs
    <2> HIDE DEF v, w
    <2>6. /\ SumFunctionOnSet(v, D) = v[n + 1] + SumFunctionOnSet(v, D \ {n + 1})
          /\ SumFunctionOnSet(w, D) = w[n + 1] + SumFunctionOnSet(w, D \ {n + 1})
        BY <1>1, <2>1, <2>5, SumPick
    <2>7. SumFunctionOnSet(v, D \ {n + 1}) = SumFunctionOnSet(w, D \ {n + 1})
        <3>1. IsFiniteSet(D \ {n + 1})
            <4>1. D \ {n + 1} \in SUBSET D
                OBVIOUS
            <4> QED
                BY <2>1, <4>1, FS_Subset
        <3> QED
            BY <2>4, <3>1, SumEqual DEF SameOn
    <2>8. SumFunctionOnSet(w, D) \in Nat
        BY <1>1, <2>1, <2>5, TakenIs
    <2>9. TakenBy(r, i) \in Nat /\ l[i].shares \in Nat
        <3>1. r \in Txn /\ l[i] \in Txn
            BY <1>1, LogBasics DEF RowFits
        <3> QED
            BY <3>1, RowTyped
    <2>10. SumFunctionOnSet(w, D \ {n + 1}) = SumFunctionOnSet(w, D)
        <3>1. SumFunctionOnSet(w, D \ {n + 1}) \in Int
            <4>1. D \ {n + 1} \in SUBSET D
                OBVIOUS
            <4> QED
                BY <2>1, <2>5, <4>1, SumWithout
        <3> QED
            BY <2>3, <2>6, <3>1
    <2>11. Taken(m, i, Disposals(m)) = TakenBy(r, i) + Taken(l, i, Disposals(l))
        BY <2>3, <2>5, <2>6, <2>7, <2>10
    <2>12. m[i].shares = l[i].shares /\ Taken(l, i, Disposals(l)) \in Nat
        BY <1>1, <2>5, <2>8
    <2> QED
        BY <2>9, <2>11, <2>12 DEF Open
<1>3. LotsIn(m) = LotsIn(l)
    BY <1>1
<1>4. ASSUME NEW a, NEW d PROVE KeyLots(m, a, d) = KeyLots(l, a, d)
    <2>1. \A i : i \in KeyLots(m, a, d) <=> i \in KeyLots(l, a, d)
        BY <1>1
    <2>2. KeyLots(m, a, d) \in SUBSET DOMAIN m /\ KeyLots(l, a, d) \in SUBSET DOMAIN m
        BY <1>1, LogBasics
    <2> QED
        BY <2>1, <2>2
<1> QED
    BY <1>2, <1>3, <1>4 DEF m

----------------------------------------------------------------------------
(* Rows voided, released or forgotten: nothing but that changed.           *)

SameBut(r, x) ==
    /\ x.kind = r.kind /\ x.account = r.account /\ x.date = r.date /\ x.shares = r.shares
    /\ x.since = r.since /\ x.takes = r.takes /\ x.order = r.order /\ x.revises = r.revises
    /\ x.activity \in {r.activity, None}
    /\ x.active => r.active
Fewer(l, m) ==
    /\ m \in Seq(Txn) /\ DOMAIN m = DOMAIN l
    /\ \A i \in DOMAIN l : SameBut(l[i], m[i])

LEMMA FewerIs ==
    ASSUME NEW l, LogTyped(l), NEW m, Fewer(l, m)
    PROVE  /\ LogTyped(m) /\ l \in Seq(Txn) /\ m \in Seq(Txn) /\ Len(m) = Len(l)
           /\ Live(m) \subseteq Live(l) /\ LotsIn(m) \subseteq LotsIn(l)
           /\ Disposals(m) \subseteq Disposals(l)
           /\ \A i \in DOMAIN l : Open(l, i) <= Open(m, i)
<1>1. /\ l \in Seq(Txn) /\ m \in Seq(Txn) /\ DOMAIN m = DOMAIN l
      /\ \A i \in DOMAIN l : SameBut(l[i], m[i])
    BY DEF LogTyped, Fewer
<1>2. Len(m) = Len(l)
    <2>1. DOMAIN m = 1..Len(m) /\ DOMAIN l = 1..Len(l) /\ Len(l) \in Nat /\ Len(m) \in Nat
        BY <1>1, LogBasics
    <2> DEFINE p == Len(l)
    <2> DEFINE q == Len(m)
    <2>2. p \in Nat /\ q \in Nat /\ 1..p = 1..q
        BY <1>1, <2>1
    <2> HIDE DEF p, q
    <2>3. \A k \in Nat : k \in 1..p <=> k \in 1..q
        BY <2>2
    <2>4. ~(p < q) /\ ~(q < p)
        BY <2>2, <2>3
    <2>5. p = q
        BY <2>2, <2>4
    <2> QED
        BY <2>5 DEF p, q
<1>3. LogTyped(m)
    BY <1>1 DEF LogTyped, SameBut
<1>4. /\ Live(m) \subseteq Live(l)
      /\ LotsIn(m) \subseteq LotsIn(l)
      /\ Disposals(m) \subseteq Disposals(l)
    BY <1>1 DEF Live, LotsIn, Disposals, SameBut
<1>5. ASSUME NEW i \in DOMAIN l PROVE Open(l, i) <= Open(m, i)
    <2>1. ASSUME NEW t \in DOMAIN l \cup DOMAIN m PROVE Draws(m, t, i) <= Draws(l, t, i)
        <3>1. t \in DOMAIN l /\ TakenBy(m[t], i) = TakenBy(l[t], i) /\ l[t] \in Txn
            BY <1>1, LogBasics DEF SameBut, TakenBy
        <3>2. TakenBy(l[t], i) \in Nat
            BY <3>1, RowTyped
        <3> QED
            BY <1>4, <3>1, <3>2 DEF Draws
    <2>2. Taken(m, i, Disposals(m)) <= Taken(l, i, Disposals(l))
        BY <1>1, <2>1, TakenLess
    <2>3. /\ Open(l, i) = l[i].shares - Taken(l, i, Disposals(l))
          /\ Open(m, i) = m[i].shares - Taken(m, i, Disposals(m))
          /\ l[i].shares \in Nat /\ Taken(l, i, Disposals(l)) \in Nat
          /\ Taken(m, i, Disposals(m)) \in Nat
        BY <1>1, OpenTyped
    <2>4. m[i].shares = l[i].shares
        BY <1>1 DEF SameBut
    <2> QED
        BY <2>2, <2>3, <2>4
<1> QED
    BY <1>1, <1>2, <1>3, <1>4, <1>5

LEMMA FewerOK ==
    ASSUME NEW l, LogOK(l), NEW m, Fewer(l, m)
    PROVE  LogOK(m)
<1>1. LogTyped(l) /\ OpenOK(l) /\ OwnOK(l)
    BY DEF LogOK
<1>2. /\ LogTyped(m) /\ l \in Seq(Txn) /\ m \in Seq(Txn)
      /\ LotsIn(m) \subseteq LotsIn(l) /\ Disposals(m) \subseteq Disposals(l)
      /\ \A i \in DOMAIN l : Open(l, i) <= Open(m, i)
    BY <1>1, FewerIs
<1>3. /\ LotsIn(l) \subseteq DOMAIN l /\ Disposals(l) \subseteq DOMAIN l
      /\ \A i \in DOMAIN l : SameBut(l[i], m[i]) /\ i \in DOMAIN m
    BY <1>2, LogBasics DEF Fewer
<1>4. OpenOK(m)
    <2>1. ASSUME NEW i \in LotsIn(m) PROVE Open(m, i) >= 0
        <3>1. i \in DOMAIN l /\ Open(l, i) >= 0 /\ Open(l, i) <= Open(m, i)
            BY <1>1, <1>2, <1>3 DEF OpenOK
        <3>2. Open(l, i) \in Int /\ Open(m, i) \in Int
            BY <1>2, <1>3, <3>1, OpenTyped
        <3> QED
            BY <3>1, <3>2
    <2> QED
        BY <2>1 DEF OpenOK
<1>5. OwnOK(m)
    <2>1. ASSUME NEW t \in Disposals(m), NEW i \in DOMAIN m[t].takes
          PROVE  m[i].account = m[t].account
        <3>1. t \in Disposals(l) /\ t \in DOMAIN l /\ i \in DOMAIN l[t].takes
            BY <1>2, <1>3 DEF SameBut
        <3>2. i \in DOMAIN l
            BY <1>1, <3>1 DEF LogTyped
        <3>3. l[i].account = l[t].account
            BY <1>1, <3>1 DEF OwnOK
        <3> QED
            BY <1>3, <3>1, <3>2, <3>3 DEF SameBut
    <2> QED
        BY <2>1 DEF OwnOK
<1> QED
    BY <1>2, <1>4, <1>5 DEF LogOK

LEMMA ReleaseFewer ==
    ASSUME NEW l, LogTyped(l), NEW S
    PROVE  Fewer(l, Release(l, S))
<1> DEFINE m == Release(l, S)
<1>1. l \in Seq(Txn) /\ DOMAIN l = 1..Len(l) /\ Len(l) \in Nat /\ \A i \in DOMAIN l : l[i] \in Txn
    BY LogBasics DEF LogTyped
<1>2. /\ DOMAIN m = DOMAIN l
      /\ \A i \in DOMAIN l :
            m[i] = IF i \in S THEN [l[i] EXCEPT !.active = FALSE, !.activity = None] ELSE l[i]
    BY DEF Release
<1> HIDE DEF m
<1>3. ASSUME NEW i \in DOMAIN l PROVE m[i] \in Txn /\ SameBut(l[i], m[i])
    <2>1. CASE i \in S
        <3> DEFINE r == l[i]
        <3>1. r \in Txn /\ m[i] = [r EXCEPT !.active = FALSE, !.activity = None]
            BY <1>1, <1>2, <2>1
        <3> HIDE DEF r
        <3>2. m[i] \in Txn
            BY <3>1 DEF Txn
        <3>3. SameBut(r, m[i])
            BY <3>1 DEF Txn, SameBut
        <3> QED
            BY <3>2, <3>3 DEF r
    <2>2. CASE i \notin S
        BY <1>1, <1>2, <2>2 DEF SameBut
    <2> QED
        BY <2>1, <2>2
<1>4. m = [i \in 1..Len(l) |-> m[i]]
    BY <1>1, <1>2 DEF m, Release
<1>5. m \in Seq(Txn)
    <2>1. m \in [1..Len(l) -> Txn]
        BY <1>1, <1>3, <1>4
    <2> QED
        BY <1>1, <2>1, SeqDef
<1> QED
    BY <1>2, <1>3, <1>5 DEF Fewer, m

LEMMA VoidedFewer ==
    ASSUME NEW l, LogTyped(l), NEW i \in DOMAIN l
    PROVE  /\ Fewer(l, Voided(l, i))
           /\ Live(Voided(l, i)) = Live(l) \ {i}
           /\ LotsIn(Voided(l, i)) = LotsIn(l) \ {i}
           /\ Disposals(Voided(l, i)) = Disposals(l) \ {i}
           /\ \A k \in DOMAIN l \ {i} : Voided(l, i)[k] = l[k]
           /\ Voided(l, i)[i] = [l[i] EXCEPT !.active = FALSE]
<1> DEFINE m == Voided(l, i)
<1>1. l \in Seq(Txn) /\ DOMAIN l = 1..Len(l) /\ Len(l) \in Nat /\ \A k \in DOMAIN l : l[k] \in Txn
    BY LogBasics DEF LogTyped
<1>2. /\ DOMAIN m = DOMAIN l /\ m[i] = [l[i] EXCEPT !.active = FALSE]
      /\ \A k \in DOMAIN l \ {i} : m[k] = l[k]
      /\ m = [k \in DOMAIN l |-> m[k]]
    BY <1>1 DEF Voided
<1> HIDE DEF m
<1>3. ASSUME NEW k \in DOMAIN l PROVE m[k] \in Txn /\ SameBut(l[k], m[k])
    <2>1. CASE k = i
        BY <1>1, <1>2, <2>1 DEF Txn, SameBut
    <2>2. CASE k # i
        BY <1>1, <1>2, <2>2 DEF SameBut
    <2> QED
        BY <2>1, <2>2
<1>5. m \in Seq(Txn)
    <2>1. m \in [1..Len(l) -> Txn]
        BY <1>1, <1>2, <1>3
    <2> QED
        BY <1>1, <2>1, SeqDef
<1>6. ~m[i].active
    BY <1>1, <1>2 DEF Txn
<1>7. Live(m) = Live(l) \ {i}
    BY <1>2, <1>6 DEF Live
<1>8. LotsIn(m) = LotsIn(l) \ {i} /\ Disposals(m) = Disposals(l) \ {i}
    BY <1>2, <1>7 DEF LotsIn, Disposals, Live
<1> QED
    BY <1>2, <1>3, <1>5, <1>7, <1>8 DEF Fewer, m

----------------------------------------------------------------------------
(* Many lots at once.                                                      *)

LEMMA MoreLotsRefl ==
    ASSUME NEW l, LogTyped(l)
    PROVE  MoreLots(l, l)
<1>1. Len(l) \in Nat
    BY LogBasics DEF LogTyped
<1> QED
    BY <1>1 DEF MoreLots

LEMMA MoreLotsTrans ==
    ASSUME NEW l, LogTyped(l), NEW m, MoreLots(l, m), NEW k, MoreLots(m, k)
    PROVE  MoreLots(l, k)
<1>1. LogTyped(m) /\ LogTyped(k)
    BY DEF MoreLots
<1>2. /\ DOMAIN l \subseteq DOMAIN m /\ DOMAIN m \subseteq DOMAIN k
      /\ Len(l) \in Nat /\ Len(m) \in Nat /\ Len(k) \in Nat
    BY <1>1, MoreLotsIs, LogBasics DEF LogTyped
<1>3. Len(l) <= Len(k)
    BY <1>2 DEF MoreLots
<1>4. \A i \in DOMAIN l : k[i] = l[i]
    BY <1>2 DEF MoreLots
<1>5. \A i \in DOMAIN k \ DOMAIN l : FreshLot(k[i])
    <2>1. ASSUME NEW i \in DOMAIN k \ DOMAIN l PROVE FreshLot(k[i])
        <3>1. CASE i \in DOMAIN m
            BY <3>1 DEF MoreLots
        <3>2. CASE i \notin DOMAIN m
            BY <3>2 DEF MoreLots
        <3> QED
            BY <3>1, <3>2
    <2> QED
        BY <2>1
<1> QED
    BY <1>1, <1>3, <1>4, <1>5 DEF MoreLots

(* What is true of the log and kept by appending one of the rows is true   *)
(* when all are appended, in whatever order.                               *)
LEMMA AppendEachKeeps ==
    ASSUME NEW l \in Seq(Txn), NEW rows, IsFiniteSet(DOMAIN rows),
           \A x \in DOMAIN rows : rows[x] \in Txn,
           NEW R, <<{}, l>> \in R,
           \A s \in SUBSET DOMAIN rows : \A v \in Seq(Txn) : \A x \in DOMAIN rows \ s :
               <<s, v>> \in R => <<s \cup {x}, Append(v, rows[x])>> \in R
    PROVE  AppendEach(l, rows) \in Seq(Txn) /\ <<DOMAIN rows, AppendEach(l, rows)>> \in R
<1> DEFINE V == Seq(Txn)
<1> DEFINE S == DOMAIN rows
<1> DEFINE step == [p \in V \X S |-> Append(p[1], rows[p[2]])]
<1> DEFINE Folds(I) ==
        I = [s \in SUBSET S |->
                IF s = {} THEN l ELSE Append(I[s \ {Pick(s)}], rows[Pick(s)])]
<1> DEFINE J == CHOOSE I : Folds(I)
<1>1. AppendEach(l, rows) = J[S]
    BY DEF AppendEach, FoldSet, MapThenFoldSet, Pick
<1>2. \A v \in V, x \in S : step[<<v, x>>] = Append(v, rows[x]) /\ Append(v, rows[x]) \in V
    BY AppendProperties
<1>3. SetStepsIn(step, V, S)
    <2>1. \A p \in V \X S : Append(p[1], rows[p[2]]) \in V
        BY <1>2
    <2>2. step \in [V \X S -> V]
        BY <2>1
    <2> HIDE DEF step, V
    <2> QED
        BY <2>2 DEF SetStepsIn
<1> HIDE DEF step, V, S
<1>4. IsFiniteSet(S) /\ l \in V
    BY DEF S, V
<1>5. \E I : Folds(I)
    <2>1. PICK I : SetFoldsIn(I, V, S, l, step)
        BY <1>3, <1>4, SetFoldExists
    <2>2. \A s \in SUBSET S :
              I[s] = IF s = {} THEN l ELSE Append(I[s \ {Pick(s)}], rows[Pick(s)])
        <3> TAKE s \in SUBSET S
        <3>1. CASE s = {}
            BY <2>1, <3>1 DEF SetFoldsIn
        <3>2. CASE s # {}
            <4>1. Pick(s) \in S /\ s \ {Pick(s)} \in SUBSET S
                BY <1>4, <3>2, PickOne
            <4>2. I[s \ {Pick(s)}] \in V
                BY <2>1, <4>1 DEF SetFoldsIn
            <4>3. I[s] = step[<<I[s \ {Pick(s)}], Pick(s)>>]
                BY <2>1, <3>2 DEF SetFoldsIn, PickStep
            <4> QED
                BY <1>2, <3>2, <4>1, <4>2, <4>3
        <3> QED
            BY <3>1, <3>2
    <2>3. I = [s \in SUBSET S |-> I[s]]
        BY <2>1 DEF SetFoldsIn
    <2>4. Folds(I)
        BY <2>2, <2>3
    <2> HIDE DEF Folds
    <2> QED
        BY <2>4
<1> HIDE DEF Folds
<1>6. Folds(J)
    BY <1>5
<1> HIDE DEF J
<1>7. SetFoldsWithin(J, V, S, l, step)
    <2>1. J[{}] = l
        BY <1>6 DEF Folds
    <2>2. ASSUME NEW s \in SUBSET S, s # {}, J[s \ {Pick(s)}] \in V
          PROVE  J[s] = PickStep(J, step, s)
        <3>1. Pick(s) \in S
            BY <1>4, <2>2, PickOne
        <3>2. J[s] = Append(J[s \ {Pick(s)}], rows[Pick(s)])
            BY <1>6, <2>2 DEF Folds
        <3> QED
            BY <1>2, <2>2, <3>1, <3>2 DEF PickStep
    <2> QED
        BY <2>1, <2>2 DEF SetFoldsWithin
<1>8. SetStepsKeep(R, step, V, S)
    BY <1>2 DEF V, S, SetStepsKeep
<1>9. J[S] \in V /\ <<S, J[S]>> \in R
    BY <1>3, <1>4, <1>7, <1>8, SetFoldKeeps
<1> QED
    BY <1>1, <1>9 DEF S, V

(* Each row is appended once. *)
Places(l, m, s, rows, at) ==
    /\ at \in [DOMAIN m \ DOMAIN l -> s]
    /\ \A i \in DOMAIN m \ DOMAIN l : m[i] = rows[at[i]]
    /\ \A i, j \in DOMAIN m \ DOMAIN l : at[i] = at[j] => i = j
EachOnce(l, m, s, rows) == \E at : Places(l, m, s, rows, at)

LEMMA EachOnceStep ==
    ASSUME NEW l, LogTyped(l), NEW m, MoreLots(l, m), NEW s, NEW rows, EachOnce(l, m, s, rows),
           NEW x, x \notin s, FreshLot(rows[x])
    PROVE  EachOnce(l, Append(m, rows[x]), s \cup {x}, rows)
<1> DEFINE r == rows[x]
<1> DEFINE k == Append(m, r)
<1> DEFINE n == Len(m) + 1
<1>1. LogTyped(m) /\ RowFits(m, r) /\ DOMAIN l \subseteq DOMAIN m
    BY LotAppended, MoreLotsIs DEF MoreLots
<1>2. /\ n \in DOMAIN k /\ n \notin DOMAIN m
      /\ \A i \in DOMAIN k : i \in DOMAIN m \/ i = n
      /\ k[n] = r /\ \A i \in DOMAIN m : k[i] = m[i] /\ i \in DOMAIN k
    BY <1>1, AppendIs
<1>3. PICK at : Places(l, m, s, rows, at)
    BY DEF EachOnce
<1> DEFINE new == DOMAIN m \ DOMAIN l
<1> DEFINE at2 == [i \in DOMAIN k \ DOMAIN l |-> IF i = n THEN x ELSE at[i]]
<1> HIDE DEF k, n, r
<1>4. n \notin DOMAIN l /\ \A i \in DOMAIN k \ DOMAIN l : i = n \/ (i # n /\ i \in new)
    BY <1>1, <1>2
<1>5. \A i \in new : at[i] \in s /\ m[i] = rows[at[i]] /\ at[i] # x
    BY <1>3 DEF Places
<1>6. at2 \in [DOMAIN k \ DOMAIN l -> s \cup {x}]
    BY <1>4, <1>5
<1>7. \A i \in DOMAIN k \ DOMAIN l : k[i] = rows[at2[i]]
    BY <1>2, <1>4, <1>5 DEF r
<1>8. \A i, j \in DOMAIN k \ DOMAIN l : at2[i] = at2[j] => i = j
    BY <1>3, <1>4, <1>5 DEF Places
<1>9. Places(l, k, s \cup {x}, rows, at2)
    BY <1>6, <1>7, <1>8 DEF Places
<1> QED
    BY <1>9 DEF EachOnce, k, r

LEMMA EachAppended ==
    ASSUME NEW l, LogTyped(l), NEW rows, IsFiniteSet(DOMAIN rows),
           \A x \in DOMAIN rows : FreshLot(rows[x])
    PROVE  /\ MoreLots(l, AppendEach(l, rows))
           /\ EachOnce(l, AppendEach(l, rows), DOMAIN rows, rows)
<1> DEFINE S == DOMAIN rows
<1> DEFINE R == {p \in (SUBSET S) \X Seq(Txn) : MoreLots(l, p[2]) /\ EachOnce(l, p[2], p[1], rows)}
<1>1. l \in Seq(Txn) /\ \A x \in S : rows[x] \in Txn
    BY DEF LogTyped, FreshLot
<1>2. <<{}, l>> \in R
    <2>1. MoreLots(l, l)
        BY MoreLotsRefl
    <2>2. Places(l, l, {}, rows, [i \in {} |-> 0])
        BY DEF Places
    <2>3. EachOnce(l, l, {}, rows)
        BY <2>2 DEF EachOnce
    <2> QED
        BY <1>1, <2>1, <2>3
<1>3. ASSUME NEW s \in SUBSET S, NEW v \in Seq(Txn), NEW x \in S \ s, <<s, v>> \in R
      PROVE  <<s \cup {x}, Append(v, rows[x])>> \in R
    <2>1. MoreLots(l, v) /\ EachOnce(l, v, s, rows)
        BY <1>3
    <2>2. LogTyped(v) /\ FreshLot(rows[x])
        BY <2>1 DEF MoreLots
    <2>3. MoreLots(v, Append(v, rows[x]))
        BY <2>2, LotAppended
    <2>4. MoreLots(l, Append(v, rows[x]))
        BY <2>1, <2>3, MoreLotsTrans
    <2>5. EachOnce(l, Append(v, rows[x]), s \cup {x}, rows)
        BY <2>1, <2>2, EachOnceStep
    <2>6. Append(v, rows[x]) \in Seq(Txn)
        BY <1>1, AppendProperties
    <2> QED
        BY <2>4, <2>5, <2>6
<1> HIDE DEF R
<1>4. <<S, AppendEach(l, rows)>> \in R
    BY <1>1, <1>2, <1>3, AppendEachKeeps
<1> QED
    BY <1>4 DEF R

----------------------------------------------------------------------------
(* The lots the backfill adds.                                             *)

LEMMA LotRowIs ==
    ASSUME NEW a \in Accounts, NEW d \in Dates, NEW n \in Nat \ {0},
           NEW x \in Activities \cup {None}
    PROVE  LET r == LotRow(a, d, n, x) IN
           /\ FreshLot(r) /\ r.account = a /\ Since(r) = d /\ r.shares = n /\ r.activity = x
<1> DEFINE r == LotRow(a, d, n, x)
<1>1. r = [kind |-> "lot", account |-> a, date |-> d, shares |-> n, since |-> 0,
           takes |-> NoLots, activity |-> x, order |-> None, revises |-> 0, active |-> TRUE]
    BY DEF LotRow, Row
<1> HIDE DEF r
<1>2. "lot" \in Kinds /\ 0 \in 0..MaxDate /\ NoLots \in TakesSet
    BY Sizes DEF Kinds
<1>3. r \in Txn
    BY <1>1, <1>2 DEF Txn
<1>4. Since(r) = d
    BY <1>1 DEF Since
<1> QED
    BY <1>1, <1>3, <1>4 DEF FreshLot, r

Explains(l, m, s, missing) ==
    \A a \in Accounts, d \in Dates :
        Logged(m, a, d) = Logged(l, a, d) + (IF <<a, d>> \in s THEN missing[<<a, d>>] ELSE 0)

LEMMA ExplainsStep ==
    ASSUME NEW l \in Seq(Txn), NEW m, LogTyped(m), NEW s, NEW missing, Explains(l, m, s, missing),
           NEW x \in Keys, x \notin s, missing[x] \in Nat \ {0}
    PROVE  Explains(l, Append(m, LotRow(x[1], x[2], missing[x], None)), s \cup {x}, missing)
<1> DEFINE r == LotRow(x[1], x[2], missing[x], None)
<1> DEFINE k == Append(m, r)
<1>1. x[1] \in Accounts /\ x[2] \in Dates /\ x = <<x[1], x[2]>>
    BY DEF Keys
<1>2. FreshLot(r) /\ r.account = x[1] /\ Since(r) = x[2] /\ r.shares = missing[x]
    BY <1>1, LotRowIs
<1> HIDE DEF r
<1>3. \A a, d : Logged(k, a, d) = Logged(m, a, d)
                   + (IF r.account = a /\ Since(r) = d THEN r.shares ELSE 0)
    BY <1>2, LotAppended
<1> HIDE DEF k
<1>4. ASSUME NEW a \in Accounts, NEW d \in Dates
      PROVE  Logged(k, a, d) = Logged(l, a, d)
                 + (IF <<a, d>> \in s \cup {x} THEN missing[<<a, d>>] ELSE 0)
    <2>1. Logged(l, a, d) \in Int /\ Logged(m, a, d) \in Int
        BY LoggedTyped DEF LogTyped
    <2>2. Logged(m, a, d) = Logged(l, a, d)
              + (IF <<a, d>> \in s THEN missing[<<a, d>>] ELSE 0)
        BY DEF Explains
    <2>3. CASE <<a, d>> = x
        <3>1. a = x[1] /\ d = x[2]
            BY <2>3
        <3>2. Logged(m, a, d) = Logged(l, a, d)
            BY <2>1, <2>2, <2>3
        <3>3. Logged(k, a, d) = Logged(m, a, d) + missing[x]
            BY <1>2, <1>3, <3>1
        <3> QED
            BY <2>3, <3>2, <3>3
    <2>4. CASE <<a, d>> # x
        <3>1. ~(r.account = a /\ Since(r) = d)
            BY <1>1, <1>2, <2>4
        <3>2. Logged(k, a, d) = Logged(m, a, d)
            BY <1>3, <2>1, <3>1
        <3> QED
            BY <2>2, <2>4, <3>2
    <2> QED
        BY <2>3, <2>4
<1> QED
    BY <1>4 DEF Explains, k, r

LEMMA OpenForAdds ==
    ASSUME NEW l, LogTyped(l), NEW missing \in [Keys -> Int]
    PROVE  LET m == OpenFor(l, missing) IN
           /\ MoreLots(l, m)
           /\ \A i \in DOMAIN m \ DOMAIN l : m[i].activity = None
           /\ \A a \in Accounts, d \in Dates :
                 Logged(m, a, d) = Logged(l, a, d)
                     + (IF missing[<<a, d>>] > 0 THEN missing[<<a, d>>] ELSE 0)
<1> DEFINE S == {x \in Keys : missing[x] > 0}
<1> DEFINE rows == [k \in S |-> LotRow(k[1], k[2], missing[k], None)]
<1> DEFINE m == OpenFor(l, missing)
<1>1. m = AppendEach(l, rows)
    BY DEF OpenFor
<1>2. \A x \in S : x \in Keys /\ missing[x] \in Nat \ {0}
    OBVIOUS
<1>3. \A x \in S : rows[x] = LotRow(x[1], x[2], missing[x], None)
                   /\ FreshLot(rows[x]) /\ rows[x].activity = None
    <2> TAKE x \in S
    <2>1. x[1] \in Accounts /\ x[2] \in Dates
        BY DEF Keys
    <2> QED
        BY <1>2, <2>1, LotRowIs
<1>4. IsFiniteSet(S) /\ DOMAIN rows = S
    <2>1. S \in SUBSET Keys
        OBVIOUS
    <2> QED
        BY <2>1, Sizes, FS_Subset
<1>k. \A a \in Accounts, d \in Dates : <<a, d>> \in S <=> missing[<<a, d>>] > 0
    BY DEF Keys
<1> HIDE DEF S, rows, m
<1>5. MoreLots(l, m) /\ EachOnce(l, m, S, rows)
    BY <1>1, <1>3, <1>4, EachAppended
<1>6. \A i \in DOMAIN m \ DOMAIN l : m[i].activity = None
    BY <1>3, <1>5 DEF EachOnce, Places
<1> DEFINE R == {p \in (SUBSET S) \X Seq(Txn) : LogTyped(p[2]) /\ Explains(l, p[2], p[1], missing)}
<1>7. l \in Seq(Txn) /\ \A x \in S : rows[x] \in Txn
    BY <1>3 DEF LogTyped, FreshLot
<1>8. <<{}, l>> \in R
    <2>1. \A a, d : Logged(l, a, d) \in Int
        BY <1>7, LoggedTyped
    <2>2. Explains(l, l, {}, missing)
        BY <2>1 DEF Explains
    <2> QED
        BY <1>7, <2>2
<1>9. ASSUME NEW s \in SUBSET S, NEW v \in Seq(Txn), NEW x \in S \ s, <<s, v>> \in R
      PROVE  <<s \cup {x}, Append(v, rows[x])>> \in R
    <2>1. LogTyped(v) /\ Explains(l, v, s, missing)
        BY <1>9
    <2>2. Explains(l, Append(v, rows[x]), s \cup {x}, missing)
        BY <1>2, <1>3, <1>7, <2>1, ExplainsStep
    <2>3. LogTyped(Append(v, rows[x]))
        BY <1>3, <2>1, LotAppended DEF MoreLots
    <2>4. Append(v, rows[x]) \in Seq(Txn)
        BY <1>7, AppendProperties
    <2> QED
        BY <2>2, <2>3, <2>4
<1> HIDE DEF R
<1>10. <<S, m>> \in R
    BY <1>1, <1>4, <1>7, <1>8, <1>9, AppendEachKeeps
<1>11. Explains(l, m, S, missing)
    BY <1>10 DEF R
<1> QED
    BY <1>5, <1>6, <1>11, <1>k DEF Explains, m

LEMMA BuysLogged ==
    ASSUME NEW l, LogTyped(l), NEW imp
    PROVE  LET m == LogBuys(l, imp) IN
           /\ MoreLots(l, m)
           /\ \A i \in DOMAIN m \ DOMAIN l : m[i].activity \in Buys \ Done(l)
           /\ \A i, j \in DOMAIN m \ DOMAIN l : m[i].activity = m[j].activity => i = j
<1> DEFINE S == {x \in Buys : imp[x] # "no"} \ Done(l)
<1> DEFINE rows == [b \in S |-> LotRow(b.account, b.date, b.shares, b)]
<1> DEFINE m == LogBuys(l, imp)
<1>1. m = AppendEach(l, rows)
    BY DEF LogBuys
<1>2. \A b \in S : b \in Buys \ Done(l)
    OBVIOUS
<1>3. \A b \in S : FreshLot(rows[b]) /\ rows[b].activity = b
    <2> TAKE b \in S
    <2>1. b \in Activities
        BY DEF Activities
    <2>2. b.account \in Accounts /\ b.date \in Dates /\ b.shares \in Nat \ {0}
        BY <2>1, Sizes
    <2> QED
        BY <2>1, <2>2, LotRowIs
<1>4. IsFiniteSet(S) /\ DOMAIN rows = S
    <2>1. S \in SUBSET Buys
        OBVIOUS
    <2> QED
        BY <2>1, Sizes, FS_Subset
<1> HIDE DEF S, rows, m
<1>5. MoreLots(l, m) /\ EachOnce(l, m, S, rows)
    BY <1>1, <1>3, <1>4, EachAppended
<1>6. PICK at : Places(l, m, S, rows, at)
    BY <1>5 DEF EachOnce
<1>7. \A i \in DOMAIN m \ DOMAIN l : at[i] \in S /\ m[i].activity = at[i]
    BY <1>3, <1>6 DEF Places
<1>8. \A i, j \in DOMAIN m \ DOMAIN l : m[i].activity = m[j].activity => i = j
    BY <1>6, <1>7 DEF Places
<1> QED
    BY <1>2, <1>5, <1>7, <1>8 DEF m

----------------------------------------------------------------------------
(* The first row of a chain of revisions.                                  *)

LEMMA RootIs ==
    ASSUME NEW l, LogTyped(l)
    PROVE  \A i \in DOMAIN l :
              /\ Root(l)[i] = IF l[i].revises = 0 THEN i ELSE Root(l)[l[i].revises]
              /\ Root(l)[i] \in DOMAIN l
<1> DEFINE n == Len(l)
<1> DEFINE Root1(f) == f = [i \in DOMAIN l |-> IF l[i].revises = 0 THEN i ELSE f[l[i].revises]]
<1> DEFINE J == CHOOSE f : Root1(f)
<1> DEFINE Upto(f, k) ==
        /\ f \in [1..k -> 1..n]
        /\ \A i \in 1..k : f[i] = IF l[i].revises = 0 THEN i ELSE f[l[i].revises]
<1> DEFINE N == {k \in Nat : k <= n => \E f : Upto(f, k)}
<1>1. /\ n \in Nat /\ DOMAIN l = 1..n
      /\ \A i \in 1..n : l[i].revises \in 0..(i - 1)
    BY LogBasics DEF LogTyped
<1>2. Root(l) = J
    BY DEF Root
<1> HIDE DEF n
<1>3. 0 \in N
    <2> DEFINE f == [i \in {} |-> 1]
    <2>1. 1..0 = {}
        OBVIOUS
    <2>2. f \in [1..0 -> 1..n]
        BY <2>1
    <2> HIDE DEF f
    <2>3. Upto(f, 0)
        BY <2>1, <2>2
    <2> HIDE DEF Upto
    <2> QED
        BY <2>3
<1>4. ASSUME NEW k \in Nat, k \in N PROVE k + 1 \in N
    <2>1. CASE k + 1 <= n
        <3>0. \E f : Upto(f, k)
            <4> HIDE DEF Upto
            <4> QED
                BY <1>1, <1>4, <2>1
        <3> HIDE DEF Upto
        <3>1. PICK f : Upto(f, k)
            BY <3>0
        <3> USE DEF Upto
        <3> DEFINE p == l[k + 1].revises
        <3> DEFINE g == [i \in 1..(k + 1) |-> IF i # k + 1 THEN f[i] ELSE
                            IF p = 0 THEN k + 1 ELSE f[p]]
        <3>2. p \in 0..k /\ k + 1 \in 1..n
            BY <1>1, <2>1
        <3> HIDE DEF p
        <3>3. \A i \in 1..(k + 1) : i # k + 1 => i \in 1..k
            OBVIOUS
        <3>4. p # 0 => p \in 1..k
            BY <3>2
        <3>5. g \in [1..(k + 1) -> 1..n]
            BY <3>1, <3>2, <3>3, <3>4
        <3>6. \A i \in 1..k : g[i] = f[i]
            OBVIOUS
        <3>7. ASSUME NEW i \in 1..(k + 1)
              PROVE  g[i] = IF l[i].revises = 0 THEN i ELSE g[l[i].revises]
            <4>1. CASE i = k + 1
                BY <3>2, <3>4, <3>6, <4>1 DEF p
            <4>2. CASE i # k + 1
                <5>1. i \in 1..k /\ g[i] = f[i]
                    BY <3>3, <4>2
                <5>2. l[i].revises \in 0..(i - 1)
                    BY <1>1, <2>1, <5>1
                <5>3. l[i].revises # 0 => l[i].revises \in 1..k
                    BY <5>1, <5>2
                <5> HIDE DEF g
                <5> QED
                    BY <3>1, <3>6, <5>1, <5>3
            <4> QED
                BY <4>1, <4>2
        <3> HIDE DEF g
        <3>8. Upto(g, k + 1)
            BY <3>5, <3>7
        <3> HIDE DEF Upto
        <3> QED
            BY <3>8
    <2>2. CASE ~(k + 1 <= n)
        <3> HIDE DEF Upto
        <3> QED
            BY <2>2
    <2> QED
        BY <2>1, <2>2
<1> HIDE DEF N
<1>5. n \in N
    BY <1>1, <1>3, <1>4, NatSet
<1>6. \E f : Upto(f, n)
    <2> HIDE DEF Upto
    <2> QED
        BY <1>1, <1>5 DEF N
<1> HIDE DEF Upto
<1>7. PICK f : Upto(f, n)
    BY <1>6
<1>8. /\ f = [i \in 1..n |-> f[i]]
      /\ \A i \in 1..n : f[i] = IF l[i].revises = 0 THEN i ELSE f[l[i].revises]
    BY <1>7 DEF Upto
<1>9. Root1(f)
    BY <1>1, <1>8
<1> HIDE DEF Root1
<1>10. Root1(J)
    BY <1>9
<1> HIDE DEF J
<1>11. \A i \in DOMAIN l : J[i] = IF l[i].revises = 0 THEN i ELSE J[l[i].revises]
    BY <1>10 DEF Root1
<1> DEFINE M == {k \in Nat : \A i \in DOMAIN l : i <= k => J[i] \in DOMAIN l}
<1>12. 0 \in M
    BY <1>1
<1>13. ASSUME NEW k \in Nat, k \in M PROVE k + 1 \in M
    <2>1. ASSUME NEW i \in DOMAIN l, i <= k + 1 PROVE J[i] \in DOMAIN l
        <3>1. CASE l[i].revises = 0
            BY <1>11, <3>1
        <3>2. CASE l[i].revises # 0
            <4>1. l[i].revises \in 0..(i - 1) /\ i \in Nat
                BY <1>1
            <4>2. l[i].revises \in DOMAIN l /\ l[i].revises <= k
                BY <1>1, <2>1, <3>2, <4>1
            <4> QED
                BY <1>11, <1>13, <3>2, <4>2
        <3> QED
            BY <3>1, <3>2
    <2> QED
        BY <2>1
<1> HIDE DEF M
<1>14. n \in M
    BY <1>1, <1>12, <1>13, NatSet
<1>15. \A i \in DOMAIN l : J[i] \in DOMAIN l
    BY <1>1, <1>14 DEF M
<1> QED
    BY <1>2, <1>11, <1>15

LEMMA RootSame ==
    ASSUME NEW l, LogTyped(l), NEW m, LogTyped(m), DOMAIN l \subseteq DOMAIN m,
           \A i \in DOMAIN l : m[i].revises = l[i].revises
    PROVE  \A i \in DOMAIN l : Root(m)[i] = Root(l)[i]
<1> DEFINE N == {k \in Nat : \A i \in DOMAIN l : i <= k => Root(m)[i] = Root(l)[i]}
<1>1. /\ Len(l) \in Nat /\ DOMAIN l = 1..Len(l)
      /\ \A i \in DOMAIN l : l[i].revises \in 0..(i - 1)
    BY LogBasics DEF LogTyped
<1>2. 0 \in N
    BY <1>1
<1>3. ASSUME NEW k \in Nat, k \in N PROVE k + 1 \in N
    <2>1. ASSUME NEW i \in DOMAIN l, i <= k + 1 PROVE Root(m)[i] = Root(l)[i]
        <3> DEFINE p == l[i].revises
        <3>1. /\ Root(l)[i] = IF p = 0 THEN i ELSE Root(l)[p]
              /\ Root(m)[i] = IF p = 0 THEN i ELSE Root(m)[p]
            BY RootIs
        <3>2. p \in 0..(i - 1) /\ i \in Nat
            BY <1>1
        <3>3. p # 0 => p \in DOMAIN l /\ p <= k
            BY <1>1, <2>1, <3>2
        <3> HIDE DEF p
        <3>4. p # 0 => Root(m)[p] = Root(l)[p]
            BY <1>3, <3>3
        <3> QED
            BY <3>1, <3>4
    <2> QED
        BY <2>1
<1> HIDE DEF N
<1>4. Len(l) \in N
    BY <1>1, <1>2, <1>3, NatSet
<1> QED
    BY <1>1, <1>4 DEF N

----------------------------------------------------------------------------
(* The broker row that a row of the log, or the row it corrects, was       *)
(* written for.                                                            *)
MirrorOf(l, i) == l[Root(l)[i]].activity
ChainOK(l) ==
    \A i, j \in Live(l) : MirrorOf(l, i) = MirrorOf(l, j) => i = j \/ MirrorOf(l, i) = None
(* A sale in the log is the sale of an order that is confirmed.            *)
ToldOK(l, sold) ==
    \A i \in Live(l) : \A s \in Sells :
        MirrorOf(l, i) = s => l[i].kind = "sell" /\ l[i].order = s /\ sold[s] # None
Linked(l, sold) == ChainOK(l) /\ ToldOK(l, sold)

LEMMA MirrorTyped ==
    ASSUME NEW l, LogTyped(l), NEW i \in DOMAIN l
    PROVE  MirrorOf(l, i) \in Done(l) \cup {None} /\ MirrorOf(l, i) \in Activities \cup {None}
<1>1. Root(l)[i] \in DOMAIN l
    BY RootIs
<1>2. l[Root(l)[i]] \in Txn
    BY <1>1, LogBasics DEF LogTyped
<1>3. l[Root(l)[i]].activity \in Activities \cup {None}
    BY <1>2, RowTyped
<1> QED
    BY <1>1, <1>3 DEF MirrorOf, Done

LEMMA NoneIsNoActivity == None \notin Activities /\ None \notin Buys /\ None \notin Sells /\ None \notin Sales
BY ActivityAssumption DEF Activities

LEMMA ChainIsOneRow ==
    ASSUME LogTyped(log), ChainOK(log)
    PROVE  OneRowPerActivity
<1>1. ASSUME NEW r \in Activities, NEW i \in Live(log), NEW j \in Live(log),
             log[Root(log)[i]].activity = r, log[Root(log)[j]].activity = r
      PROVE  i = j
    <2>1. MirrorOf(log, i) = r /\ MirrorOf(log, j) = r
        BY <1>1 DEF MirrorOf
    <2> QED
        BY <2>1, NoneIsNoActivity DEF ChainOK
<1> QED
    BY <1>1 DEF OneRowPerActivity

(* A row of its own. *)
LEMMA AppendLinked ==
    ASSUME NEW l, LogTyped(l), NEW sold, Linked(l, sold), NEW r, RowFits(l, r), r.revises = 0,
           \A i \in Live(l) : MirrorOf(l, i) = r.activity => r.activity = None,
           NEW after, \A s \in Sells : sold[s] # None => after[s] # None,
           r.activity \in Sells =>
               r.kind = "sell" /\ r.order = r.activity /\ after[r.activity] # None
    PROVE  Linked(Append(l, r), after)
<1> DEFINE m == Append(l, r)
<1> DEFINE n == Len(l) + 1
<1>1. /\ LogTyped(m) /\ n \in DOMAIN m /\ n \notin DOMAIN l /\ m[n] = r
      /\ DOMAIN l \subseteq DOMAIN m
      /\ \A i \in DOMAIN l : m[i] = l[i]
      /\ \A i : i \in Live(m) <=> i \in Live(l) \/ (i = n /\ r.active)
    BY AppendIs
<1>2. \A i \in Live(l) : i \in DOMAIN l
    BY DEF Live
<1> HIDE DEF m, n
<1>3. \A i \in DOMAIN l : Root(m)[i] = Root(l)[i] /\ Root(l)[i] \in DOMAIN l
    <2>1. \A i \in DOMAIN l : m[i].revises = l[i].revises
        BY <1>1
    <2> QED
        BY <1>1, <2>1, RootSame, RootIs
<1>4. \A i \in DOMAIN l : MirrorOf(m, i) = MirrorOf(l, i)
    BY <1>1, <1>3 DEF MirrorOf
<1>5. MirrorOf(m, n) = r.activity
    <2>1. Root(m)[n] = n
        BY <1>1, RootIs
    <2> QED
        BY <1>1, <2>1 DEF MirrorOf
<1>6. ChainOK(m)
    BY <1>1, <1>2, <1>4, <1>5 DEF ChainOK, Linked
<1>7. ToldOK(m, after)
    <2>1. ASSUME NEW i \in Live(m), NEW s \in Sells, MirrorOf(m, i) = s
          PROVE  m[i].kind = "sell" /\ m[i].order = s /\ after[s] # None
        <3>1. CASE i \in Live(l)
            BY <1>1, <1>2, <1>4, <2>1, <3>1 DEF ToldOK, Linked
        <3>2. CASE i = n
            BY <1>1, <1>5, <2>1, <3>2
        <3> QED
            BY <1>1, <3>1, <3>2
    <2> QED
        BY <2>1 DEF ToldOK
<1> QED
    BY <1>6, <1>7 DEF Linked, m

(* Lots without an activity, or with purchases the log does not know yet.  *)
LEMMA MoreLotsLinked ==
    ASSUME NEW l, LogTyped(l), NEW sold, Linked(l, sold), NEW m, MoreLots(l, m),
           \A i \in DOMAIN m \ DOMAIN l : m[i].activity \in (Buys \ Done(l)) \cup {None},
           \A i, j \in DOMAIN m \ DOMAIN l :
               m[i].activity = m[j].activity => i = j \/ m[i].activity = None
    PROVE  Linked(m, sold)
<1>1. /\ LogTyped(m) /\ DOMAIN l \subseteq DOMAIN m
      /\ \A i \in DOMAIN l : m[i] = l[i]
      /\ \A i \in DOMAIN m \ DOMAIN l : m[i].revises = 0
    BY MoreLotsIs DEF MoreLots, FreshLot
<1>2. \A i \in Live(m) : i \in DOMAIN m /\ (i \in DOMAIN l => i \in Live(l))
    BY <1>1 DEF Live
<1>3. \A i \in DOMAIN l : Root(m)[i] = Root(l)[i] /\ Root(l)[i] \in DOMAIN l
    <2>1. \A i \in DOMAIN l : m[i].revises = l[i].revises
        BY <1>1
    <2>2. \A i \in DOMAIN l : Root(m)[i] = Root(l)[i]
        BY <1>1, <2>1, RootSame
    <2>3. \A i \in DOMAIN l : Root(l)[i] \in DOMAIN l
        BY RootIs
    <2> QED
        BY <2>2, <2>3
<1>4. \A i \in DOMAIN l : MirrorOf(m, i) = MirrorOf(l, i) /\ MirrorOf(l, i) \in Done(l) \cup {None}
    BY <1>1, <1>3, MirrorTyped DEF MirrorOf
<1>5. \A i \in DOMAIN m \ DOMAIN l : MirrorOf(m, i) = m[i].activity
    <2> TAKE i \in DOMAIN m \ DOMAIN l
    <2>1. Root(m)[i] = i
        BY <1>1, RootIs
    <2> QED
        BY <2>1 DEF MirrorOf
<1>6. ChainOK(m)
    <2>1. ASSUME NEW i \in Live(m), NEW j \in Live(m), MirrorOf(m, i) = MirrorOf(m, j)
          PROVE  i = j \/ MirrorOf(m, i) = None
        <3>1. CASE i \in DOMAIN l /\ j \in DOMAIN l
            BY <1>2, <1>4, <2>1, <3>1 DEF Linked, ChainOK
        <3>2. CASE i \notin DOMAIN l /\ j \notin DOMAIN l
            BY <1>2, <1>5, <2>1, <3>2
        <3>3. CASE i \in DOMAIN l /\ j \notin DOMAIN l
            BY <1>2, <1>4, <1>5, <2>1, <3>3
        <3>4. CASE i \notin DOMAIN l /\ j \in DOMAIN l
            BY <1>2, <1>4, <1>5, <2>1, <3>4
        <3> QED
            BY <3>1, <3>2, <3>3, <3>4
    <2> QED
        BY <2>1 DEF ChainOK
<1>7. ToldOK(m, sold)
    <2>1. ASSUME NEW i \in Live(m), NEW s \in Sells, MirrorOf(m, i) = s
          PROVE  m[i].kind = "sell" /\ m[i].order = s /\ sold[s] # None
        <3>1. CASE i \in DOMAIN l
            BY <1>1, <1>2, <1>4, <2>1, <3>1 DEF ToldOK, Linked
        <3>2. CASE i \notin DOMAIN l
            <4>1. s \in Buys \cup {None}
                BY <1>2, <1>5, <2>1, <3>2
            <4> QED
                BY <4>1, ActivityAssumption, NoneIsNoActivity
        <3> QED
            BY <3>1, <3>2
    <2> QED
        BY <2>1 DEF ToldOK
<1> QED
    BY <1>6, <1>7 DEF Linked

(* Rows that lose their activity or are live no more. *)
FewerLinks(l, m) ==
    /\ LogTyped(m) /\ DOMAIN m = DOMAIN l
    /\ \A i \in DOMAIN l : /\ m[i].kind = l[i].kind /\ m[i].order = l[i].order
                           /\ m[i].revises = l[i].revises
                           /\ m[i].activity \in {l[i].activity, None}
                           /\ m[i].active => l[i].active

LEMMA FewerLinked ==
    ASSUME NEW l, LogTyped(l), NEW sold, Linked(l, sold), NEW m, FewerLinks(l, m)
    PROVE  /\ Linked(m, sold)
           /\ Live(m) \subseteq Live(l)
           /\ \A i \in DOMAIN l : MirrorOf(m, i) \in {MirrorOf(l, i), None}
<1>1. /\ LogTyped(m) /\ DOMAIN m = DOMAIN l
      /\ \A i \in DOMAIN l : /\ m[i].kind = l[i].kind /\ m[i].order = l[i].order
                             /\ m[i].revises = l[i].revises
                             /\ m[i].activity \in {l[i].activity, None}
                             /\ m[i].active => l[i].active
    BY DEF FewerLinks
<1>2. \A i \in Live(m) : i \in DOMAIN l /\ i \in Live(l)
    BY <1>1 DEF Live
<1>3. \A i \in DOMAIN l : Root(m)[i] = Root(l)[i] /\ Root(l)[i] \in DOMAIN l
    <2>1. DOMAIN l \subseteq DOMAIN m /\ \A i \in DOMAIN l : m[i].revises = l[i].revises
        BY <1>1
    <2>2. \A i \in DOMAIN l : Root(m)[i] = Root(l)[i]
        BY <1>1, <2>1, RootSame
    <2> QED
        BY <2>2, RootIs
<1>4. \A i \in DOMAIN l : MirrorOf(m, i) \in {MirrorOf(l, i), None}
    BY <1>1, <1>3 DEF MirrorOf
<1>5. ChainOK(m)
    BY <1>2, <1>4 DEF Linked, ChainOK
<1>6. ToldOK(m, sold)
    BY <1>1, <1>2, <1>4, NoneIsNoActivity DEF Linked, ToldOK
<1> QED
    BY <1>2, <1>4, <1>5, <1>6 DEF Linked

LEMMA FewerIsFewerLinks ==
    ASSUME NEW l, LogTyped(l), NEW m, Fewer(l, m)
    PROVE  FewerLinks(l, m)
BY FewerIs DEF Fewer, SameBut, FewerLinks

----------------------------------------------------------------------------
(* The sales the backfill adds.                                            *)

LEMMA LeastOfTwo ==
    ASSUME NEW a \in Int, NEW b \in Int
    PROVE  Min({a, b}) \in {a, b} /\ Min({a, b}) <= a /\ Min({a, b}) <= b
<1>1. \E x \in {a, b} : \A y \in {a, b} : x <= y
    <2>1. CASE a <= b
        BY <2>1
    <2>2. CASE ~(a <= b)
        BY <2>2
    <2> QED
        BY <2>1, <2>2
<1> QED
    BY <1>1 DEF Min

LEMMA NatDiffIs ==
    ASSUME NEW m \in Int, NEW n \in Int
    PROVE  NatDiff(m, n) \in Nat /\ NatDiff(m, n) = IF m >= n THEN m - n ELSE 0
<1> DEFINE d == m - n
<1>1. d \in Int
    OBVIOUS
<1> HIDE DEF d
<1>2. \E x \in {d, 0} : \A y \in {d, 0} : x >= y
    <2>1. CASE d >= 0
        BY <1>1, <2>1
    <2>2. CASE ~(d >= 0)
        BY <1>1, <2>2
    <2> QED
        BY <2>1, <2>2
<1>3. Max({d, 0}) \in {d, 0} /\ Max({d, 0}) >= d /\ Max({d, 0}) >= 0
    BY <1>2 DEF Max
<1>4. NatDiff(m, n) = Max({d, 0})
    BY DEF NatDiff, d
<1>5. NatDiff(m, n) \in {d, 0} /\ NatDiff(m, n) >= d /\ NatDiff(m, n) >= 0
    BY <1>3, <1>4
<1> QED
    BY <1>1, <1>5 DEF d

LEMMA SpareIs ==
    ASSUME NEW l \in Seq(Txn), NEW i \in DOMAIN l
    PROVE  Spare(l, i) \in Nat /\ (Open(l, i) >= 0 => Spare(l, i) <= Open(l, i))
<1> DEFINE n == l[i].shares
<1> DEFINE t == Taken(l, i, DOMAIN l)
<1> DEFINE u == Taken(l, i, Disposals(l))
<1>1. t \in Nat /\ u <= t
    BY TakenByAll
<1>2. n \in Nat /\ u \in Nat /\ Open(l, i) = n - u
    BY OpenTyped
<1>3. Spare(l, i) = NatDiff(n, t)
    BY DEF Spare
<1> HIDE DEF n, t, u
<1>4. NatDiff(n, t) \in Nat /\ NatDiff(n, t) = IF n >= t THEN n - t ELSE 0
    <2>1. n \in Int /\ t \in Int
        BY <1>1, <1>2
    <2> QED
        BY <2>1, NatDiffIs
<1> QED
    BY <1>1, <1>2, <1>3, <1>4

LEMMA FirstFromIs ==
    ASSUME NEW l \in Seq(Txn), NEW S \in SUBSET DOMAIN l, NEW n \in Nat, NEW i \in S
    PROVE  FirstFrom(l, S, n, i) \in Nat /\ FirstFrom(l, S, n, i) <= Spare(l, i)
<1> DEFINE f == [j \in S |-> Spare(l, j)]
<1> DEFINE E == {j \in S : j < i}
<1> DEFINE sum == SumFunctionOnSet(f, E)
<1>1. IsFiniteSet(E)
    <2>1. E \in SUBSET DOMAIN l
        OBVIOUS
    <2> QED
        BY <2>1, LogBasics, FS_Subset
<1>2. NatOn(f, E)
    BY SpareIs DEF NatOn
<1> HIDE DEF f, E
<1>3. sum \in Nat
    BY <1>1, <1>2, SumIsNat
<1>4. FirstFrom(l, S, n, i) = Min({Spare(l, i), NatDiff(n, sum)})
    BY DEF FirstFrom, f, E
<1> HIDE DEF sum
<1>5. NatDiff(n, sum) \in Nat
    <2>1. n \in Int /\ sum \in Int
        BY <1>3
    <2> QED
        BY <2>1, NatDiffIs
<1>6. Spare(l, i) \in Nat
    BY SpareIs
<1> DEFINE x == Spare(l, i)
<1> DEFINE y == NatDiff(n, sum)
<1>7. x \in Nat /\ y \in Nat /\ x \in Int /\ y \in Int /\ FirstFrom(l, S, n, i) = Min({x, y})
    BY <1>4, <1>5, <1>6
<1> HIDE DEF x, y
<1>8. Min({x, y}) \in {x, y} /\ Min({x, y}) <= x
    BY <1>7, LeastOfTwo
<1>9. FirstFrom(l, S, n, i) \in Nat /\ FirstFrom(l, S, n, i) <= x
    BY <1>7, <1>8
<1> QED
    BY <1>9 DEF x

LEMMA SaleLots ==
    ASSUME NEW l \in Seq(Txn), NEW a, NEW lots \in LotShares
    PROVE  LET f == LotsFor(l, a, lots) IN
           /\ f \in TakesSet /\ IsFiniteSet(DOMAIN f)
           /\ \A i \in DOMAIN f : /\ i \in LotsIn(l) /\ i \in DOMAIN l
                                  /\ l[i].account = a
                                  /\ f[i] \in Nat \ {0} /\ f[i] <= Spare(l, i)
<1> DEFINE take(i) == FirstFrom(l, KeyLots(l, a, Since(l[i])), lots[Since(l[i])], i)
<1> DEFINE mine == {i \in LotsIn(l) : l[i].account = a}
<1> DEFINE D == {j \in mine : take(j) > 0}
<1> DEFINE f == LotsFor(l, a, lots)
<1>1. LotsIn(l) \subseteq DOMAIN l /\ IsFiniteSet(DOMAIN l) /\ DOMAIN l \subseteq Nat
    BY LogBasics
<1>2. \A i \in mine : take(i) \in Nat /\ take(i) <= Spare(l, i)
    <2> TAKE i \in mine
    <2>1. i \in KeyLots(l, a, Since(l[i])) /\ l[i] \in Txn
        BY <1>1, LogBasics DEF KeyLots
    <2>2. KeyLots(l, a, Since(l[i])) \in SUBSET DOMAIN l
        BY LogBasics
    <2>3. lots[Since(l[i])] \in Nat
        BY <2>1, RowTyped DEF LotShares
    <2> QED
        BY <2>1, <2>2, <2>3, FirstFromIs
<1>3. f = [i \in D |-> take(i)]
    BY DEF LotsFor
<1> HIDE DEF take, f
<1>4. \A i \in D : take(i) \in Nat \ {0} /\ i \in LotsIn(l) /\ l[i].account = a
    BY <1>2
<1>5. D \in SUBSET DOMAIN l /\ D \in SUBSET Nat
    BY <1>1
<1>6. IsFiniteSet(D)
    BY <1>1, <1>5, FS_Subset
<1>7. \A i \in D : f[i] = take(i) /\ take(i) <= Spare(l, i)
    BY <1>2, <1>3
<1> HIDE DEF D
<1>8. f \in TakesSet
    <2>1. f \in [D -> Nat \ {0}]
        BY <1>3, <1>4
    <2> QED
        BY <1>5, <2>1 DEF TakesSet
<1>9. DOMAIN f = D
    BY <1>3
<1> QED
    BY <1>1, <1>4, <1>6, <1>7, <1>8, <1>9 DEF f

LEMMA TotalIs ==
    ASSUME NEW f, IsFiniteSet(DOMAIN f), \A i \in DOMAIN f : f[i] \in Nat
    PROVE  /\ Total(f) \in Nat
           /\ \A i \in DOMAIN f : f[i] > 0 => Total(f) \in Nat \ {0}
<1> DEFINE D == DOMAIN f
<1>1. NatOn(f, D) /\ IntOn(f, D)
    BY NatIsInt DEF NatOn
<1>2. Total(f) = SumFunctionOnSet(f, D)
    BY DEF Total, SumFunction
<1> HIDE DEF D
<1>3. IsFiniteSet(D)
    BY DEF D
<1>4. SumFunctionOnSet(f, D) \in Nat
    BY <1>1, <1>3, SumIsNat
<1>5. ASSUME NEW i \in D, f[i] > 0 PROVE SumFunctionOnSet(f, D) # 0
    <2>1. SumFunctionOnSet(f, D) = f[i] + SumFunctionOnSet(f, D \ {i})
        BY <1>1, <1>3, SumPick
    <2>2. IsFiniteSet(D \ {i})
        <3>1. D \ {i} \in SUBSET D
            OBVIOUS
        <3> QED
            BY <1>3, <3>1, FS_Subset
    <2>3. NatOn(f, D \ {i})
        BY <1>1 DEF NatOn
    <2>4. SumFunctionOnSet(f, D \ {i}) \in Nat
        BY <2>2, <2>3, SumIsNat
    <2>5. f[i] \in Nat
        BY <1>1 DEF NatOn
    <2> QED
        BY <1>5, <2>1, <2>4, <2>5
<1> QED
    BY <1>2, <1>4, <1>5 DEF D

LEMMA DisposalOK ==
    ASSUME NEW l, LogOK(l), NEW r, RowFits(l, r), r.active, r.kind # "lot",
           \A i \in DOMAIN r.takes : l[i].account = r.account /\ r.takes[i] <= Open(l, i)
    PROVE  LogOK(Append(l, r))
<1> DEFINE m == Append(l, r)
<1> DEFINE n == Len(l) + 1
<1>1. LogTyped(l) /\ OpenOK(l) /\ OwnOK(l)
    BY DEF LogOK
<1>2. /\ LogTyped(m) /\ l \in Seq(Txn) /\ m[n] = r
      /\ \A i \in DOMAIN l : m[i] = l[i]
      /\ \A i : i \in Disposals(m) => i \in Disposals(l) \/ i = n
    BY <1>1, AppendIs
<1>3. LotsIn(m) = LotsIn(l) /\ \A i \in DOMAIN l : Open(m, i) = Open(l, i) - TakenBy(r, i)
    BY <1>1, DisposalAppended
<1> HIDE DEF m, n
<1>4. ASSUME NEW i \in LotsIn(m) PROVE Open(m, i) >= 0
    <2>1. i \in LotsIn(l) /\ i \in DOMAIN l /\ Open(m, i) = Open(l, i) - TakenBy(r, i)
        BY <1>2, <1>3, LogBasics
    <2>2. Open(l, i) \in Int /\ Open(l, i) >= 0
        BY <1>1, <1>2, <2>1, OpenTyped DEF OpenOK
    <2>3. TakenBy(r, i) \in Nat /\ TakenBy(r, i) <= Open(l, i)
        <3>1. TakenBy(r, i) \in Nat
            BY RowTyped DEF RowFits
        <3>2. CASE i \in DOMAIN r.takes
            BY <3>1, <3>2 DEF TakenBy
        <3>3. CASE i \notin DOMAIN r.takes
            BY <2>2, <3>3 DEF TakenBy
        <3> QED
            BY <3>1, <3>2, <3>3
    <2> QED
        BY <2>1, <2>2, <2>3
<1>5. ASSUME NEW t \in Disposals(m), NEW i \in DOMAIN m[t].takes
      PROVE  m[i].account = m[t].account
    <2>1. CASE t \in Disposals(l)
        <3>1. t \in DOMAIN l
            BY <1>2, <2>1, LogBasics
        <3>2. m[t] = l[t] /\ i \in DOMAIN l[t].takes
            BY <1>2, <3>1
        <3>3. i \in DOMAIN l
            BY <1>1, <3>1, <3>2 DEF LogTyped
        <3> QED
            BY <1>1, <1>2, <2>1, <3>2, <3>3 DEF OwnOK
    <2>2. CASE t = n
        <3>1. m[t] = r /\ i \in DOMAIN r.takes
            BY <1>2, <2>2
        <3>2. i \in DOMAIN l
            BY <3>1 DEF RowFits
        <3> QED
            BY <1>2, <3>1, <3>2
    <2> QED
        BY <1>2, <2>1, <2>2
<1> QED
    BY <1>2, <1>4, <1>5 DEF LogOK, OpenOK, OwnOK, m

LEMMA RowIsTxn ==
    ASSUME NEW kind \in Kinds, NEW a \in Accounts, NEW d \in Dates, NEW n \in Nat \ {0},
           NEW takes \in TakesSet, NEW x \in Activities \cup {None}, NEW o \in Sells \cup {None}
    PROVE  LET r == Row(kind, a, d, n, 0, takes, x, o) IN
           /\ r \in Txn /\ r.kind = kind /\ r.account = a /\ r.date = d /\ r.shares = n
           /\ r.since = 0 /\ r.takes = takes /\ r.activity = x /\ r.order = o
           /\ r.revises = 0 /\ r.active
<1> DEFINE r == Row(kind, a, d, n, 0, takes, x, o)
<1>1. r = [kind |-> kind, account |-> a, date |-> d, shares |-> n, since |-> 0,
           takes |-> takes, activity |-> x, order |-> o, revises |-> 0, active |-> TRUE]
    BY DEF Row
<1>2. 0 \in 0..MaxDate
    BY Sizes
<1> HIDE DEF r
<1>3. r \in Txn
    BY <1>1, <1>2 DEF Txn
<1> QED
    BY <1>1, <1>3 DEF r

(* The row of a sale, if there is a lot for it. *)
LEMMA SaleRow ==
    ASSUME NEW l \in Seq(Txn), NEW s \in Sells, NEW lots \in LotShares,
           LotsFor(l, s.account, lots) # NoLots
    PROVE  LET f == LotsFor(l, s.account, lots)
               r == Row("sell", s.account, s.date, Total(f), 0, f, s, s)
           IN  /\ RowFits(l, r) /\ LogSale(l, s, lots) = Append(l, r)
               /\ r.kind = "sell" /\ r.account = s.account /\ r.takes = f
               /\ r.activity = s /\ r.order = s /\ r.revises = 0 /\ r.active
               /\ \A i \in DOMAIN f : l[i].account = s.account /\ f[i] <= Spare(l, i)
                                      /\ i \in DOMAIN l
<1> DEFINE f == LotsFor(l, s.account, lots)
<1> DEFINE r == Row("sell", s.account, s.date, Total(f), 0, f, s, s)
<1>1. /\ f \in TakesSet /\ IsFiniteSet(DOMAIN f)
      /\ \A i \in DOMAIN f : /\ i \in DOMAIN l /\ l[i].account = s.account
                             /\ f[i] \in Nat \ {0} /\ f[i] <= Spare(l, i)
    BY SaleLots
<1>2. LogSale(l, s, lots) = Append(l, r)
    BY DEF LogSale
<1>3. f # NoLots
    OBVIOUS
<1> HIDE DEF f
<1>4. DOMAIN f # {}
    <2>1. f = [i \in DOMAIN f |-> f[i]]
        BY <1>1 DEF TakesSet
    <2>2. DOMAIN f = {} => f = NoLots
        BY <2>1 DEF NoLots
    <2> QED
        BY <1>3, <2>2
<1>5. Total(f) \in Nat \ {0}
    <2>1. PICK i \in DOMAIN f : f[i] \in Nat \ {0}
        BY <1>1, <1>4
    <2>2. f[i] > 0 /\ \A j \in DOMAIN f : f[j] \in Nat
        BY <1>1, <2>1
    <2> QED
        BY <1>1, <2>1, <2>2, TotalIs
<1>6. s \in Activities /\ s.account \in Accounts /\ s.date \in Dates /\ "sell" \in Kinds
    BY Sizes DEF Activities, Kinds
<1>7. /\ r \in Txn /\ r.kind = "sell" /\ r.account = s.account /\ r.takes = f
      /\ r.activity = s /\ r.order = s /\ r.revises = 0 /\ r.active
    <2>1. s \in Activities \cup {None} /\ s \in Sells \cup {None}
        BY <1>6
    <2> HIDE DEF r
    <2> QED
        BY <1>1, <1>5, <1>6, <2>1, RowIsTxn DEF r
<1>8. RowFits(l, r)
    <2>1. DOMAIN f \subseteq DOMAIN l /\ Len(l) \in Nat
        BY <1>1, LogBasics
    <2> HIDE DEF r
    <2> QED
        BY <1>7, <2>1 DEF RowFits
<1> HIDE DEF r
<1> QED
    BY <1>1, <1>2, <1>7, <1>8 DEF r, f

LEMMA LogSaleKeeps ==
    ASSUME NEW l \in Seq(Txn), NEW s \in Sells, NEW lots \in LotShares
    PROVE  /\ LogSale(l, s, lots) \in Seq(Txn)
           /\ LogOK(l) => LogOK(LogSale(l, s, lots))
           /\ LogOK(l) => Done(LogSale(l, s, lots)) \subseteq Done(l) \cup {s}
           /\ \A sold : LogOK(l) /\ Linked(l, sold) /\ s \notin Done(l) /\ sold[s] # None
                            => Linked(LogSale(l, s, lots), sold)
<1>1. CASE LotsFor(l, s.account, lots) = NoLots
    <2>1. LogSale(l, s, lots) = l
        BY <1>1 DEF LogSale
    <2> QED
        BY <2>1
<1>2. CASE LotsFor(l, s.account, lots) # NoLots
    <2> DEFINE f == LotsFor(l, s.account, lots)
    <2> DEFINE r == Row("sell", s.account, s.date, Total(f), 0, f, s, s)
    <2> DEFINE m == LogSale(l, s, lots)
    <2>1. /\ RowFits(l, r) /\ m = Append(l, r)
          /\ r.kind = "sell" /\ r.account = s.account /\ r.takes = f
          /\ r.activity = s /\ r.order = s /\ r.revises = 0 /\ r.active
          /\ \A i \in DOMAIN f : l[i].account = s.account /\ f[i] <= Spare(l, i) /\ i \in DOMAIN l
          /\ \A i \in DOMAIN f : i \in LotsIn(l) /\ f[i] \in Nat
        BY <1>2, SaleRow, SaleLots
    <2> HIDE DEF f, r, m
    <2>2. m \in Seq(Txn)
        BY <2>1, AppendProperties DEF RowFits
    <2>3. ASSUME LogOK(l) PROVE LogOK(m)
        <3>1. \A i \in DOMAIN r.takes : l[i].account = r.account /\ r.takes[i] <= Open(l, i)
            <4> TAKE i \in DOMAIN r.takes
            <4>1. i \in DOMAIN l /\ i \in LotsIn(l) /\ f[i] \in Nat /\ f[i] <= Spare(l, i)
                BY <2>1
            <4>2. Open(l, i) >= 0 /\ Open(l, i) \in Int
                BY <2>3, <4>1, OpenTyped DEF LogOK, OpenOK
            <4>3. Spare(l, i) \in Nat /\ Spare(l, i) <= Open(l, i)
                BY <4>1, <4>2, SpareIs
            <4> QED
                BY <2>1, <4>1, <4>2, <4>3
        <3> QED
            BY <2>1, <2>3, <3>1, DisposalOK
    <2>4. ASSUME LogOK(l) PROVE Done(m) \subseteq Done(l) \cup {s}
        <3>1. /\ m[Len(l) + 1] = r /\ \A i \in DOMAIN l : m[i] = l[i]
              /\ \A i \in DOMAIN m : i \in DOMAIN l \/ i = Len(l) + 1
            BY <2>1, <2>4, AppendIs DEF LogOK
        <3> QED
            BY <2>1, <3>1 DEF Done
    <2>5. ASSUME NEW sold, LogOK(l), Linked(l, sold), s \notin Done(l), sold[s] # None
          PROVE  Linked(m, sold)
        <3>1. LogTyped(l)
            BY <2>5 DEF LogOK
        <3>2. ASSUME NEW i \in Live(l) PROVE MirrorOf(l, i) # r.activity
            <4>1. i \in DOMAIN l
                BY DEF Live
            <4> QED
                BY <2>1, <2>5, <3>1, <4>1, MirrorTyped, NoneIsNoActivity
        <3> QED
            BY <2>1, <2>5, <3>1, <3>2, AppendLinked
    <2> QED
        BY <2>2, <2>3, <2>4, <2>5 DEF m
<1> QED
    BY <1>1, <1>2

LEMMA LogSellsKeeps ==
    ASSUME NEW l, LogOK(l), NEW sold \in [Sells -> Sales \cup {None}], Linked(l, sold)
    PROVE  LogOK(LogSells(l, sold)) /\ Linked(LogSells(l, sold), sold)
<1> DEFINE V == Seq(Txn)
<1> DEFINE S == Pending(l, sold)
<1> DEFINE step == [p \in V \X S |-> LogSale(p[1], p[2], sold[p[2]].lots)]
<1> DEFINE Folds(I) ==
        I = [s \in SUBSET S |->
                IF s = {} THEN l ELSE LogSale(I[s \ {Pick(s)}], Pick(s), sold[Pick(s)].lots)]
<1> DEFINE J == CHOOSE I : Folds(I)
<1>1. LogSells(l, sold) = J[S]
    BY DEF LogSells, FoldSet, MapThenFoldSet, Pick
<1>2. \A s \in S : s \in Sells /\ s \notin Done(l) /\ sold[s] # None /\ sold[s].lots \in LotShares
    BY DEF Pending, Sales
<1>3. \A v \in V, x \in S : /\ step[<<v, x>>] = LogSale(v, x, sold[x].lots)
                            /\ LogSale(v, x, sold[x].lots) \in V
    BY <1>2, LogSaleKeeps
<1>4. SetStepsIn(step, V, S)
    <2>1. \A p \in V \X S : LogSale(p[1], p[2], sold[p[2]].lots) \in V
        BY <1>3
    <2>2. step \in [V \X S -> V]
        BY <2>1
    <2> HIDE DEF step, V
    <2> QED
        BY <2>2 DEF SetStepsIn
<1> HIDE DEF step, V
<1>5. IsFiniteSet(S) /\ l \in V
    <2>1. S \in SUBSET Sells
        BY DEF Pending
    <2> QED
        BY <2>1, Sizes, FS_Subset DEF V, LogOK, LogTyped
<1> HIDE DEF S
<1>6. \E I : Folds(I)
    <2>1. PICK I : SetFoldsIn(I, V, S, l, step)
        BY <1>4, <1>5, SetFoldExists
    <2>2. \A s \in SUBSET S :
              I[s] = IF s = {} THEN l
                     ELSE LogSale(I[s \ {Pick(s)}], Pick(s), sold[Pick(s)].lots)
        <3> TAKE s \in SUBSET S
        <3>1. CASE s = {}
            BY <2>1, <3>1 DEF SetFoldsIn
        <3>2. CASE s # {}
            <4>1. Pick(s) \in S /\ s \ {Pick(s)} \in SUBSET S
                BY <1>5, <3>2, PickOne
            <4>2. I[s \ {Pick(s)}] \in V
                BY <2>1, <4>1 DEF SetFoldsIn
            <4>3. I[s] = step[<<I[s \ {Pick(s)}], Pick(s)>>]
                BY <2>1, <3>2 DEF SetFoldsIn, PickStep
            <4> QED
                BY <1>3, <3>2, <4>1, <4>2, <4>3
        <3> QED
            BY <3>1, <3>2
    <2>3. I = [s \in SUBSET S |-> I[s]]
        BY <2>1 DEF SetFoldsIn
    <2>4. Folds(I)
        BY <2>2, <2>3
    <2> HIDE DEF Folds
    <2> QED
        BY <2>4
<1> HIDE DEF Folds
<1>7. Folds(J)
    BY <1>6
<1> HIDE DEF J
<1>8. SetFoldsWithin(J, V, S, l, step)
    <2>1. J[{}] = l
        BY <1>7 DEF Folds
    <2>2. ASSUME NEW s \in SUBSET S, s # {}, J[s \ {Pick(s)}] \in V
          PROVE  J[s] = PickStep(J, step, s)
        <3>1. Pick(s) \in S
            BY <1>5, <2>2, PickOne
        <3>2. J[s] = LogSale(J[s \ {Pick(s)}], Pick(s), sold[Pick(s)].lots)
            BY <1>7, <2>2 DEF Folds
        <3> QED
            BY <1>3, <2>2, <3>1, <3>2 DEF PickStep
    <2> QED
        BY <2>1, <2>2 DEF SetFoldsWithin
<1> DEFINE R == {p \in (SUBSET S) \X V : /\ LogOK(p[2]) /\ Linked(p[2], sold)
                                         /\ Done(p[2]) \subseteq Done(l) \cup p[1]}
<1>9. <<{}, l>> \in R
    BY <1>5
<1>10. ASSUME NEW s \in SUBSET S, NEW v \in V, NEW x \in S \ s, <<s, v>> \in R
       PROVE  <<s \cup {x}, step[<<v, x>>]>> \in R
    <2> DEFINE m == LogSale(v, x, sold[x].lots)
    <2>1. LogOK(v) /\ Linked(v, sold) /\ Done(v) \subseteq Done(l) \cup s
        BY <1>10
    <2>2. x \in Sells /\ x \notin Done(v) /\ sold[x] # None /\ sold[x].lots \in LotShares
        BY <1>2, <2>1
    <2>3. m \in V /\ LogOK(m) /\ Linked(m, sold) /\ Done(m) \subseteq Done(v) \cup {x}
        BY <2>1, <2>2, LogSaleKeeps DEF V
    <2>4. step[<<v, x>>] = m
        BY <1>3
    <2> HIDE DEF m
    <2> QED
        BY <2>1, <2>3, <2>4
<1> HIDE DEF R
<1>11. SetStepsKeep(R, step, V, S)
    BY <1>10 DEF SetStepsKeep
<1>12. <<S, J[S]>> \in R
    BY <1>4, <1>5, <1>8, <1>9, <1>11, SetFoldKeeps
<1> QED
    BY <1>1, <1>12 DEF R

Explained(l, h) == \A a \in Accounts, d \in Dates : h[a][d] <= Logged(l, a, d)

LEMMA OpenForKeeps ==
    ASSUME NEW l, LogOK(l), NEW sold, Linked(l, sold), NEW missing \in [Keys -> Int]
    PROVE  LogOK(OpenFor(l, missing)) /\ Linked(OpenFor(l, missing), sold)
<1> DEFINE m == OpenFor(l, missing)
<1>1. LogTyped(l)
    BY DEF LogOK
<1>2. MoreLots(l, m) /\ \A i \in DOMAIN m \ DOMAIN l : m[i].activity = None
    BY <1>1, OpenForAdds
<1> HIDE DEF m
<1>3. LogOK(m)
    BY <1>2, MoreLotsOK
<1>4. Linked(m, sold)
    BY <1>1, <1>2, MoreLotsLinked
<1> QED
    BY <1>3, <1>4 DEF m

LEMMA NeededTyped ==
    ASSUME NEW l, NEW sold \in [Sells -> Sales \cup {None}], NEW a, NEW d \in Dates
    PROVE  Needed(Pending(l, sold), sold, a, d) \in Nat
<1> DEFINE P == Pending(l, sold)
<1> DEFINE f == [s \in P |-> sold[s].lots[d]]
<1> DEFINE S == {s \in P : s.account = a}
<1>1. S \in SUBSET Sells /\ \A s \in P : sold[s] \in Sales
    BY DEF Pending
<1>2. \A s \in S : f[s] \in Nat
    BY <1>1 DEF Sales, LotShares
<1>3. IsFiniteSet(S)
    BY <1>1, Sizes, FS_Subset
<1> HIDE DEF f, S
<1>4. NatOn(f, S)
    BY <1>2 DEF NatOn
<1>5. SumFunctionOnSet(f, S) \in Nat
    BY <1>3, <1>4, SumIsNat
<1> QED
    BY <1>5 DEF Needed, f, S

LEMMA BackfillKeeps ==
    ASSUME NEW l, LogOK(l), NEW sold \in [Sells -> Sales \cup {None}], Linked(l, sold),
           NEW imp, NEW h \in [Accounts -> LotShares]
    PROVE  LET m == Backfill(l, h, imp, sold) IN
           LogOK(m) /\ Linked(m, sold) /\ Explained(m, h)
<1> DEFINE l1 == LogBuys(l, imp)
<1> DEFINE l2 == LogSoldLots(l1, h, sold)
<1> DEFINE l3 == LogSells(l2, sold)
<1> DEFINE l4 == LogUnexplained(l3, h)
<1>1. LogTyped(l)
    BY DEF LogOK
<1>2. \A a \in Accounts, d \in Dates : h[a][d] \in Nat
    BY DEF LotShares
<1>3. \A k \in Keys : k[1] \in Accounts /\ k[2] \in Dates
    BY DEF Keys
<1>4. LogOK(l1) /\ Linked(l1, sold)
    <2> DEFINE m == l1
    <2>1. /\ MoreLots(l, m)
          /\ \A i \in DOMAIN m \ DOMAIN l : m[i].activity \in Buys \ Done(l)
          /\ \A i, j \in DOMAIN m \ DOMAIN l : m[i].activity = m[j].activity => i = j
        BY <1>1, BuysLogged
    <2> HIDE DEF m
    <2>2. LogOK(m)
        BY <2>1, MoreLotsOK
    <2>3. Linked(m, sold)
        BY <1>1, <2>1, MoreLotsLinked
    <2> QED
        BY <2>2, <2>3 DEF m
<1> HIDE DEF l1
<1>5. LogOK(l2) /\ Linked(l2, sold)
    <2> DEFINE n(k) == Needed(Pending(l1, sold), sold, k[1], k[2])
    <2> DEFINE missing == [k \in Keys |->
                IF n(k) = 0 THEN 0 ELSE h[k[1]][k[2]] + n(k) - Logged(l1, k[1], k[2])]
    <2>1. l2 = OpenFor(l1, missing)
        BY DEF LogSoldLots
    <2>2. ASSUME NEW k \in Keys
          PROVE  (IF n(k) = 0 THEN 0 ELSE h[k[1]][k[2]] + n(k) - Logged(l1, k[1], k[2])) \in Int
        <3>1. n(k) \in Nat
            BY <1>3, NeededTyped
        <3>2. Logged(l1, k[1], k[2]) \in Int
            BY <1>4, LoggedTyped DEF LogOK, LogTyped
        <3>3. h[k[1]][k[2]] \in Nat
            BY <1>2, <1>3
        <3> HIDE DEF n
        <3> QED
            BY <3>1, <3>2, <3>3
    <2>3. missing \in [Keys -> Int]
        BY <2>2
    <2> HIDE DEF missing, l2
    <2> QED
        BY <1>4, <2>1, <2>3, OpenForKeeps
<1> HIDE DEF l2
<1>6. LogOK(l3) /\ Linked(l3, sold)
    BY <1>5, LogSellsKeeps
<1> HIDE DEF l3
<1>7. LogOK(l4) /\ Linked(l4, sold) /\ Explained(l4, h)
    <2> DEFINE missing == [k \in Keys |-> h[k[1]][k[2]] - Logged(l3, k[1], k[2])]
    <2>1. l4 = OpenFor(l3, missing)
        BY DEF LogUnexplained
    <2>2. LogTyped(l3) /\ \A a, d : Logged(l3, a, d) \in Int
        BY <1>6, LoggedTyped DEF LogOK, LogTyped
    <2>3. missing \in [Keys -> Int]
        BY <1>2, <1>3, <2>2
    <2>4. \A a \in Accounts, d \in Dates :
              missing[<<a, d>>] = h[a][d] - Logged(l3, a, d)
        BY DEF Keys
    <2> HIDE DEF missing, l4
    <2>5. LogOK(l4) /\ Linked(l4, sold)
        BY <1>6, <2>1, <2>3, OpenForKeeps
    <2>6. \A a \in Accounts, d \in Dates :
              Logged(l4, a, d) = Logged(l3, a, d)
                  + (IF missing[<<a, d>>] > 0 THEN missing[<<a, d>>] ELSE 0)
        BY <2>1, <2>2, <2>3, OpenForAdds
    <2>7. ASSUME NEW a \in Accounts, NEW d \in Dates PROVE h[a][d] <= Logged(l4, a, d)
        <3> DEFINE x == h[a][d]
        <3> DEFINE y == Logged(l3, a, d)
        <3>1. x \in Int /\ y \in Int
            BY <1>2, <2>2
        <3>2. Logged(l4, a, d) = y + (IF x - y > 0 THEN x - y ELSE 0)
            BY <2>4, <2>6
        <3> HIDE DEF x, y
        <3>3. x <= Logged(l4, a, d)
            BY <3>1, <3>2
        <3> QED
            BY <3>3 DEF x
    <2> QED
        BY <2>5, <2>7 DEF Explained
<1>8. Backfill(l, h, imp, sold) = l4
    BY DEF Backfill, l4, l3, l2, l1
<1> HIDE DEF l4
<1> QED
    BY <1>7, <1>8

LEMMA SyncedKeeps ==
    ASSUME NEW l, LogOK(l), NEW sold \in [Sells -> Sales \cup {None}], Linked(l, sold),
           NEW imp, NEW h \in [Accounts -> LotShares]
    PROVE  LET m == Synced(l, h, imp, sold) IN
           /\ LogOK(m) /\ Linked(m, sold)
           /\ Started(l) => Explained(m, h)
           /\ ~Started(l) => m = l
<1> DEFINE m == Synced(l, h, imp, sold)
<1>1. CASE Started(l)
    <2> DEFINE k == Release(l, {i \in Live(l) : l[i].activity \in Gone(imp, sold)})
    <2>1. m = Backfill(k, h, imp, sold)
        BY <1>1 DEF Synced
    <2>2. LogTyped(l)
        BY DEF LogOK
    <2>3. Fewer(l, k)
        BY <2>2, ReleaseFewer
    <2> HIDE DEF k, m
    <2>4. LogOK(k) /\ Linked(k, sold)
        BY <2>2, <2>3, FewerOK, FewerIsFewerLinks, FewerLinked
    <2>5. LogOK(m) /\ Linked(m, sold) /\ Explained(m, h)
        BY <2>1, <2>4, BackfillKeeps
    <2> QED
        BY <1>1, <2>5 DEF m
<1>2. CASE ~Started(l)
    <2>1. m = l
        BY <1>2 DEF Synced
    <2> QED
        BY <1>2, <2>1
<1> QED
    BY <1>1, <1>2

----------------------------------------------------------------------------
(* Corrections.                                                            *)

LEMMA AllocationIs ==
    ASSUME NEW l \in Seq(Txn), NEW n \in Nat, NEW takes \in Allocations(LotsIn(l), n)
    PROVE  /\ takes \in TakesSet /\ IsFiniteSet(DOMAIN takes)
           /\ DOMAIN takes \subseteq DOMAIN l /\ DOMAIN takes \subseteq LotsIn(l)
           /\ \A i \in DOMAIN takes : takes[i] \in Nat \ {0}
           /\ Total(takes) = n
<1>1. PICK T \in SUBSET LotsIn(l) \ {{}} : takes \in [T -> 1..n]
    BY DEF Allocations
<1>2. LotsIn(l) \subseteq DOMAIN l /\ IsFiniteSet(LotsIn(l)) /\ DOMAIN l \subseteq Nat
    BY LogBasics
<1>3. T \in SUBSET Nat /\ IsFiniteSet(T)
    <2>1. T \in SUBSET LotsIn(l)
        BY <1>1
    <2> QED
        BY <1>2, <2>1, FS_Subset
<1>4. 1..n \subseteq Nat \ {0}
    OBVIOUS
<1>5. takes \in [T -> Nat \ {0}]
    BY <1>1, <1>4
<1>6. takes \in TakesSet
    BY <1>3, <1>5 DEF TakesSet
<1>7. DOMAIN takes = T /\ \A i \in DOMAIN takes : takes[i] \in Nat \ {0}
    BY <1>5
<1>8. Total(takes) = n
    BY DEF Allocations
<1> QED
    BY <1>1, <1>2, <1>3, <1>6, <1>7, <1>8

LEMMA MovedIs ==
    ASSUME NEW takes \in TakesSet, NEW i, NEW j \in Nat
    PROVE  /\ Moved(takes, i, j) \in TakesSet
           /\ i \notin DOMAIN takes => Moved(takes, i, j) = takes
           /\ i \in DOMAIN takes =>
                /\ DOMAIN Moved(takes, i, j) = (DOMAIN takes \ {i}) \cup {j}
                /\ Moved(takes, i, j)[j] = takes[i]
                /\ \A k \in DOMAIN takes \ {i, j} : Moved(takes, i, j)[k] = takes[k]
<1>1. PICK T \in SUBSET Nat : takes \in [T -> Nat \ {0}]
    BY DEF TakesSet
<1>2. CASE i \in DOMAIN takes
    <2> DEFINE D == (T \ {i}) \cup {j}
    <2> DEFINE f == [k \in D |-> IF k = j THEN takes[i] ELSE takes[k]]
    <2>1. Moved(takes, i, j) = f
        BY <1>1, <1>2 DEF Moved
    <2>2. D \in SUBSET Nat
        OBVIOUS
    <2>3. f \in [D -> Nat \ {0}]
        BY <1>1, <1>2
    <2>4. f \in TakesSet
        BY <2>2, <2>3 DEF TakesSet
    <2>5. /\ DOMAIN f = (DOMAIN takes \ {i}) \cup {j}
          /\ f[j] = takes[i]
          /\ \A k \in DOMAIN takes \ {i, j} : f[k] = takes[k]
        BY <1>1
    <2> HIDE DEF f
    <2> QED
        BY <1>2, <2>1, <2>4, <2>5
<1>3. CASE i \notin DOMAIN takes
    BY <1>3 DEF Moved
<1> QED
    BY <1>2, <1>3

LEMMA RepointedIs ==
    ASSUME NEW l, LogTyped(l), NEW i, NEW j \in DOMAIN l
    PROVE  LET m == Repointed(l, i, j) IN
           /\ LogTyped(m) /\ DOMAIN m = DOMAIN l
           /\ \A k \in DOMAIN l :
                /\ m[k].kind = l[k].kind /\ m[k].account = l[k].account /\ m[k].date = l[k].date
                /\ m[k].shares = l[k].shares /\ m[k].since = l[k].since
                /\ m[k].order = l[k].order /\ m[k].revises = l[k].revises
                /\ m[k].activity = l[k].activity /\ m[k].active = l[k].active
                /\ m[k].takes = Moved(l[k].takes, i, j)
<1> DEFINE m == Repointed(l, i, j)
<1>1. /\ l \in Seq(Txn) /\ DOMAIN l = 1..Len(l) /\ Len(l) \in Nat
      /\ \A k \in DOMAIN l : l[k] \in Txn
    BY LogBasics DEF LogTyped
<1>2. /\ DOMAIN m = DOMAIN l /\ m = [k \in DOMAIN l |-> m[k]]
      /\ \A k \in DOMAIN l : m[k] = [l[k] EXCEPT !.takes = Moved(l[k].takes, i, j)]
    BY DEF Repointed
<1> HIDE DEF m
<1>3. ASSUME NEW k \in DOMAIN l
      PROVE  /\ m[k] \in Txn
             /\ m[k].kind = l[k].kind /\ m[k].account = l[k].account /\ m[k].date = l[k].date
             /\ m[k].shares = l[k].shares /\ m[k].since = l[k].since
             /\ m[k].order = l[k].order /\ m[k].revises = l[k].revises
             /\ m[k].activity = l[k].activity /\ m[k].active = l[k].active
             /\ m[k].takes = Moved(l[k].takes, i, j)
             /\ DOMAIN m[k].takes \subseteq DOMAIN l
    <2> DEFINE r == l[k]
    <2> DEFINE f == Moved(l[k].takes, i, j)
    <2>a. r \in Txn /\ m[k] = [r EXCEPT !.takes = f] /\ j \in Nat
        BY <1>1, <1>2
    <2>b. l[k].takes \in TakesSet
        BY <2>a, RowTyped
    <2>1. r \in Txn /\ m[k] = [r EXCEPT !.takes = f] /\ r.takes \in TakesSet /\ j \in Nat
        BY <2>a, <2>b
    <2> DEFINE q == l[k].takes
    <2>c. /\ q \in TakesSet /\ f = Moved(q, i, j)
        BY <2>b
    <2> HIDE DEF q
    <2>e. j \in Nat /\ q \in TakesSet
        BY <2>a, <2>c
    <2>d. /\ Moved(q, i, j) \in TakesSet
          /\ i \notin DOMAIN q => Moved(q, i, j) = q
          /\ i \in DOMAIN q => DOMAIN Moved(q, i, j) = (DOMAIN q \ {i}) \cup {j}
        BY <2>e, MovedIs
    <2>2. f \in TakesSet /\ DOMAIN f \subseteq DOMAIN r.takes \cup {j}
        BY <2>c, <2>d DEF q
    <2>3. DOMAIN r.takes \subseteq DOMAIN l
        BY DEF LogTyped
    <2> HIDE DEF f, r
    <2>4. /\ m[k] \in Txn /\ m[k].kind = r.kind /\ m[k].account = r.account /\ m[k].date = r.date
          /\ m[k].shares = r.shares /\ m[k].since = r.since
          /\ m[k].order = r.order /\ m[k].revises = r.revises
          /\ m[k].activity = r.activity /\ m[k].active = r.active /\ m[k].takes = f
        BY <2>1, <2>2 DEF Txn
    <2> QED
        BY <2>2, <2>3, <2>4 DEF f, r
<1>4. m \in Seq(Txn)
    <2>1. m \in [1..Len(l) -> Txn]
        BY <1>1, <1>2, <1>3
    <2> QED
        BY <1>1, <2>1, SeqDef
<1>5. LogTyped(m)
    <2>1. \A t \in DOMAIN l : l[t].revises \in 0..(t - 1)
        BY DEF LogTyped
    <2> QED
        BY <1>2, <1>3, <1>4, <2>1 DEF LogTyped
<1> QED
    BY <1>2, <1>3, <1>5 DEF m

(* A row that replaces row i keeps what it is about. *)
LEMMA ReviseLinked ==
    ASSUME NEW l, LogTyped(l), NEW sold, Linked(l, sold), NEW i \in Live(l),
           NEW r, RowFits(Voided(l, i), r), r.revises = i,
           r.kind = l[i].kind, r.order = l[i].order
    PROVE  Linked(Append(Voided(l, i), r), sold)
<1> DEFINE v == Voided(l, i)
<1> DEFINE m == Append(v, r)
<1> DEFINE n == Len(v) + 1
<1>1. i \in DOMAIN l
    BY DEF Live
<1>2. /\ Fewer(l, v) /\ Live(v) = Live(l) \ {i}
      /\ \A k \in DOMAIN l \ {i} : v[k] = l[k]
      /\ v[i] = [l[i] EXCEPT !.active = FALSE]
    BY <1>1, VoidedFewer
<1>3. LogTyped(v) /\ DOMAIN v = DOMAIN l /\ \A k \in DOMAIN l : l[k] \in Txn
    BY <1>2, FewerIs, LogBasics DEF LogTyped, Fewer
<1>4. /\ LogTyped(m) /\ n \in DOMAIN m /\ n \notin DOMAIN v /\ m[n] = r
      /\ DOMAIN v \subseteq DOMAIN m
      /\ \A k \in DOMAIN v : m[k] = v[k]
      /\ \A k : k \in Live(m) => k \in Live(v) \/ k = n
    BY <1>3, AppendIs
<1>5. \A k \in DOMAIN l : /\ v[k].activity = l[k].activity /\ v[k].revises = l[k].revises
                          /\ v[k].kind = l[k].kind /\ v[k].order = l[k].order
    <2> TAKE k \in DOMAIN l
    <2>1. CASE k = i
        BY <1>1, <1>2, <1>3, <2>1 DEF Txn
    <2>2. CASE k # i
        BY <1>2, <2>2
    <2> QED
        BY <2>1, <2>2
<1>6. \A k \in Live(m) : k = n \/ (k \in Live(l) /\ k # i /\ k \in DOMAIN l)
    BY <1>2, <1>4 DEF Live
<1> HIDE DEF v, m, n
<1>7. \A k \in DOMAIN l : Root(m)[k] = Root(l)[k] /\ Root(l)[k] \in DOMAIN l
    <2>1. DOMAIN l \subseteq DOMAIN m /\ \A k \in DOMAIN l : m[k].revises = l[k].revises
        BY <1>3, <1>4, <1>5
    <2>2. \A k \in DOMAIN l : Root(m)[k] = Root(l)[k]
        BY <1>4, <2>1, RootSame
    <2> QED
        BY <2>2, RootIs
<1>8. \A k \in DOMAIN l : MirrorOf(m, k) = MirrorOf(l, k)
    BY <1>3, <1>4, <1>5, <1>7 DEF MirrorOf
<1>9. MirrorOf(m, n) = MirrorOf(l, i)
    <2>1. Root(m)[n] = IF r.revises = 0 THEN n ELSE Root(m)[r.revises]
        BY <1>4, RootIs
    <2>2. i # 0
        BY <1>1, <1>3, LogBasics DEF LogTyped
    <2>3. Root(m)[n] = Root(m)[i]
        BY <2>1, <2>2
    <2>4. MirrorOf(m, n) = MirrorOf(m, i)
        BY <2>3 DEF MirrorOf
    <2> QED
        BY <1>1, <1>8, <2>4
<1>10. ChainOK(m)
    <2>1. ASSUME NEW j \in Live(m), NEW k \in Live(m), MirrorOf(m, j) = MirrorOf(m, k)
          PROVE  j = k \/ MirrorOf(m, j) = None
        BY <1>6, <1>8, <1>9, <2>1 DEF Linked, ChainOK
    <2> QED
        BY <2>1 DEF ChainOK
<1>11. ToldOK(m, sold)
    <2>1. ASSUME NEW k \in Live(m), NEW s \in Sells, MirrorOf(m, k) = s
          PROVE  m[k].kind = "sell" /\ m[k].order = s /\ sold[s] # None
        <3>1. CASE k = n
            <4>1. MirrorOf(l, i) = s
                BY <1>9, <2>1, <3>1
            <4> QED
                BY <1>4, <3>1, <4>1 DEF Linked, ToldOK
        <3>2. CASE k # n
            <4>1. k \in Live(l) /\ k \in DOMAIN l /\ MirrorOf(l, k) = s
                BY <1>6, <1>8, <2>1, <3>2
            <4>2. m[k].kind = l[k].kind /\ m[k].order = l[k].order
                BY <1>3, <1>4, <1>5, <4>1
            <4> QED
                BY <4>1, <4>2 DEF Linked, ToldOK
        <3> QED
            BY <3>1, <3>2
    <2> QED
        BY <2>1 DEF ToldOK
<1> QED
    BY <1>10, <1>11 DEF Linked, m, v

----------------------------------------------------------------------------
(* The accounts a change does not touch.                                   *)

LEMMA Untouched ==
    ASSUME NEW l \in Seq(Txn), NEW m \in Seq(Txn), NEW b,
           \A i : i \in LotsIn(m) /\ m[i].account = b <=> i \in LotsIn(l) /\ l[i].account = b,
           \A i \in LotsIn(l) : l[i].account = b =>
               /\ m[i].shares = l[i].shares /\ Since(m[i]) = Since(l[i])
               /\ \A t \in DOMAIN l \cup DOMAIN m : Draws(l, t, i) = Draws(m, t, i)
    PROVE  OpenOf(m, b) = OpenOf(l, b)
<1>1. ASSUME NEW d PROVE KeyLots(m, b, d) = KeyLots(l, b, d)
    BY DEF KeyLots
<1>2. ASSUME NEW d, NEW i \in KeyLots(l, b, d) PROVE Open(m, i) = Open(l, i)
    <2>1. /\ m[i].shares = l[i].shares
          /\ \A t \in DOMAIN l \cup DOMAIN m : Draws(l, t, i) = Draws(m, t, i)
        BY DEF KeyLots
    <2>2. Taken(l, i, Disposals(l)) = Taken(m, i, Disposals(m))
        BY <2>1, TakenSame
    <2> QED
        BY <2>1, <2>2 DEF Open
<1> QED
    BY <1>1, <1>2, LoggedSame

LEMMA MoreLotsElsewhere ==
    ASSUME NEW l, LogTyped(l), NEW m, MoreLots(l, m), NEW b,
           \A i \in DOMAIN m \ DOMAIN l : m[i].account # b
    PROVE  OpenOf(m, b) = OpenOf(l, b)
<1>1. /\ l \in Seq(Txn) /\ m \in Seq(Txn) /\ DOMAIN l \subseteq DOMAIN m
      /\ Disposals(m) = Disposals(l)
      /\ \A i \in DOMAIN l : i \in LotsIn(m) <=> i \in LotsIn(l)
    BY MoreLotsIs
<1>2. \A i \in DOMAIN l : m[i] = l[i]
    BY DEF MoreLots
<1>3. LotsIn(l) \subseteq DOMAIN l /\ LotsIn(m) \subseteq DOMAIN m /\ Disposals(l) \subseteq DOMAIN l
    BY <1>1, LogBasics
<1>4. \A i : i \in LotsIn(m) /\ m[i].account = b <=> i \in LotsIn(l) /\ l[i].account = b
    BY <1>1, <1>2, <1>3
<1>5. \A i, t : Draws(l, t, i) = Draws(m, t, i)
    BY <1>1, <1>2, <1>3 DEF Draws
<1> QED
    BY <1>1, <1>2, <1>3, <1>4, <1>5, Untouched

LEMMA DisposalElsewhere ==
    ASSUME NEW l, LogTyped(l), NEW r, RowFits(l, r), r.active, r.kind # "lot",
           NEW b, \A i \in DOMAIN r.takes : l[i].account # b
    PROVE  OpenOf(Append(l, r), b) = OpenOf(l, b)
<1> DEFINE m == Append(l, r)
<1> DEFINE n == Len(l) + 1
<1>1. /\ LogTyped(m) /\ m \in Seq(Txn) /\ l \in Seq(Txn)
      /\ n \notin DOMAIN l /\ m[n] = r
      /\ \A i \in DOMAIN m : i \in DOMAIN l \/ i = n
      /\ \A i \in DOMAIN l : m[i] = l[i] /\ i \in DOMAIN m
      /\ \A i : i \in LotsIn(m) <=>
             i \in LotsIn(l) \/ (i = n /\ r.active /\ r.kind = "lot")
      /\ \A i : i \in Disposals(m) <=>
             i \in Disposals(l) \/ (i = n /\ r.active /\ r.kind # "lot")
    BY AppendIs
<1> HIDE DEF m, n
<1>2. LotsIn(l) \subseteq DOMAIN l /\ Disposals(l) \subseteq DOMAIN l
    BY <1>1, LogBasics
<1>3. \A i : i \in LotsIn(m) /\ m[i].account = b <=> i \in LotsIn(l) /\ l[i].account = b
    BY <1>1, <1>2
<1>4. ASSUME NEW i \in LotsIn(l), l[i].account = b, NEW t \in DOMAIN l \cup DOMAIN m
      PROVE  Draws(l, t, i) = Draws(m, t, i)
    <2>1. CASE t = n
        <3>1. i \notin DOMAIN r.takes /\ t \notin Disposals(l)
            BY <1>1, <1>2, <1>4, <2>1
        <3> QED
            BY <1>1, <2>1, <3>1 DEF Draws, TakenBy
    <2>2. CASE t # n
        <3>1. t \in DOMAIN l
            BY <1>1, <2>2
        <3> QED
            BY <1>1, <2>2, <3>1 DEF Draws
    <2> QED
        BY <2>1, <2>2
<1>5. OpenOf(m, b) = OpenOf(l, b)
    BY <1>1, <1>2, <1>3, <1>4, Untouched
<1> QED
    BY <1>5 DEF m

LEMMA VoidedElsewhere ==
    ASSUME NEW l, LogOK(l), NEW i \in Live(l), NEW b, l[i].account # b
    PROVE  OpenOf(Voided(l, i), b) = OpenOf(l, b)
<1> DEFINE m == Voided(l, i)
<1>1. LogTyped(l) /\ OwnOK(l) /\ i \in DOMAIN l
    BY DEF LogOK, Live
<1>2. /\ m \in Seq(Txn) /\ DOMAIN m = DOMAIN l
      /\ LotsIn(m) = LotsIn(l) \ {i} /\ Disposals(m) = Disposals(l) \ {i}
      /\ \A k \in DOMAIN l \ {i} : m[k] = l[k]
    BY <1>1, VoidedFewer DEF Fewer
<1>3. l \in Seq(Txn) /\ LotsIn(l) \subseteq DOMAIN l /\ Disposals(l) \subseteq DOMAIN l
    BY <1>1, LogBasics DEF LogTyped
<1> HIDE DEF m
<1>4. \A k : k \in LotsIn(m) /\ m[k].account = b <=> k \in LotsIn(l) /\ l[k].account = b
    BY <1>1, <1>2, <1>3
<1>5. ASSUME NEW k \in LotsIn(l), l[k].account = b, NEW t \in DOMAIN l \cup DOMAIN m
      PROVE  Draws(l, t, k) = Draws(m, t, k)
    <2>1. CASE t = i
        <3>1. t \notin Disposals(m)
            BY <1>2, <2>1
        <3>2. t \in Disposals(l) => TakenBy(l[t], k) = 0
            BY <1>1, <1>5, <2>1 DEF OwnOK, TakenBy
        <3> QED
            BY <3>1, <3>2 DEF Draws
    <2>2. CASE t # i
        BY <1>2, <2>2 DEF Draws
    <2> QED
        BY <2>1, <2>2
<1>6. OpenOf(m, b) = OpenOf(l, b)
    <2>1. \A k \in LotsIn(l) : l[k].account = b => m[k] = l[k]
        BY <1>1, <1>2, <1>3
    <2> QED
        BY <1>2, <1>3, <1>4, <1>5, <2>1, Untouched
<1> QED
    BY <1>6 DEF m

(* A lot replaced by another, with its sales. *)
LEMMA ReviseElsewhere ==
    ASSUME NEW l, LogTyped(l), NEW i \in LotsIn(l), NEW r, RowFits(Voided(l, i), r),
           r.active, r.kind = "lot", r.takes = l[i].takes,
           NEW b, l[i].account # b, r.account # b
    PROVE  OpenOf(Repointed(Append(Voided(l, i), r), i, Len(l) + 1), b) = OpenOf(l, b)
<1> DEFINE v == Voided(l, i)
<1> DEFINE w == Append(v, r)
<1> DEFINE n == Len(l) + 1
<1> DEFINE m == Repointed(w, i, n)
<1>1. i \in DOMAIN l /\ l \in Seq(Txn) /\ LotsIn(l) \subseteq DOMAIN l /\ Disposals(l) \subseteq DOMAIN l
    BY LogBasics DEF LogTyped
<1>2. /\ LogTyped(v) /\ DOMAIN v = DOMAIN l /\ Len(v) = Len(l)
      /\ LotsIn(v) = LotsIn(l) \ {i} /\ Disposals(v) = Disposals(l) \ {i}
      /\ \A k \in DOMAIN l \ {i} : v[k] = l[k]
    <2>1. /\ Fewer(l, v) /\ LotsIn(v) = LotsIn(l) \ {i} /\ Disposals(v) = Disposals(l) \ {i}
          /\ \A k \in DOMAIN l \ {i} : v[k] = l[k]
        BY <1>1, VoidedFewer, ZenonT(60)
    <2> HIDE DEF v
    <2>2. LogTyped(v) /\ Len(v) = Len(l) /\ DOMAIN v = DOMAIN l
        BY <2>1, FewerIs DEF Fewer
    <2> QED
        BY <2>1, <2>2
<1>3. /\ LogTyped(w) /\ n \in DOMAIN w /\ n \notin DOMAIN v /\ w[n] = r
      /\ \A k \in DOMAIN w : k \in DOMAIN v \/ k = n
      /\ \A k \in DOMAIN v : w[k] = v[k] /\ k \in DOMAIN w
      /\ \A k : k \in LotsIn(w) <=>
             k \in LotsIn(v) \/ (k = n /\ r.active /\ r.kind = "lot")
      /\ \A k : k \in Disposals(w) <=>
             k \in Disposals(v) \/ (k = n /\ r.active /\ r.kind # "lot")
    BY <1>2, AppendIs
<1> HIDE DEF v, n, w, m
<1>4. /\ LogTyped(m) /\ DOMAIN m = DOMAIN w
      /\ \A k \in DOMAIN w :
             /\ m[k].kind = w[k].kind /\ m[k].account = w[k].account /\ m[k].date = w[k].date
             /\ m[k].shares = w[k].shares /\ m[k].since = w[k].since
             /\ m[k].active = w[k].active
             /\ m[k].takes = Moved(w[k].takes, i, n)
    BY <1>3, RepointedIs DEF m
<1>5. LotsIn(m) = LotsIn(w) /\ Disposals(m) = Disposals(w)
    BY <1>4 DEF LotsIn, Disposals, Live
<1>6. LotsIn(w) \subseteq DOMAIN w
    BY <1>3, LogBasics DEF LogTyped
<1>7. \A k : k \in LotsIn(m) /\ m[k].account = b <=> k \in LotsIn(l) /\ l[k].account = b
    BY <1>1, <1>2, <1>3, <1>4, <1>5, <1>6
<1>8. \A k \in LotsIn(l) : l[k].account = b =>
          k \in DOMAIN l /\ k # i /\ k # n
          /\ m[k].shares = l[k].shares /\ Since(m[k]) = Since(l[k])
    <2> TAKE k \in LotsIn(l)
    <2> HAVE l[k].account = b
    <2>1. k \in DOMAIN l /\ k # i /\ k # n /\ w[k] = l[k] /\ k \in DOMAIN w
        BY <1>1, <1>2, <1>3
    <2> QED
        BY <1>4, <2>1 DEF Since
<1>9. ASSUME NEW k \in LotsIn(l), l[k].account = b, NEW t \in DOMAIN l \cup DOMAIN m
      PROVE  Draws(l, t, k) = Draws(m, t, k)
    <2>0. k # i /\ k # n
        BY <1>8, <1>9
    <2>1. CASE t = i
        <3>1. t \notin Disposals(l) /\ t \notin Disposals(m)
            BY <1>2, <1>3, <1>5, <2>1, <1>1 DEF LotsIn, Disposals
        <3> QED
            BY <3>1 DEF Draws
    <2>2. CASE t = n
        <3>1. t \notin Disposals(l) /\ t \notin Disposals(m)
            BY <1>1, <1>2, <1>3, <1>5, <2>2
        <3> QED
            BY <3>1 DEF Draws
    <2>3. CASE t # i /\ t # n
        <3>1. t \in DOMAIN l /\ t \in DOMAIN w /\ w[t] = l[t] /\ l[t].takes \in TakesSet
            <4>1. t \in DOMAIN l /\ t \in DOMAIN w /\ w[t] = l[t]
                BY <1>2, <1>3, <1>4, <2>3
            <4>2. l[t] \in Txn
                BY <1>1, <4>1, LogBasics
            <4> QED
                BY <4>1, <4>2, RowTyped
        <3>2. t \in Disposals(m) <=> t \in Disposals(l)
            BY <1>2, <1>3, <1>5, <2>3
        <3>3. TakenBy(m[t], k) = TakenBy(l[t], k)
            <4> DEFINE q == l[t].takes
            <4>1. m[t].takes = Moved(q, i, n) /\ q \in TakesSet
                BY <1>4, <3>1
            <4>2. n \in Nat
                BY <1>3, LogBasics DEF LogTyped
            <4> HIDE DEF q
            <4>3. /\ i \notin DOMAIN q => Moved(q, i, n) = q
                  /\ i \in DOMAIN q =>
                       /\ DOMAIN Moved(q, i, n) = (DOMAIN q \ {i}) \cup {n}
                       /\ \A j \in DOMAIN q \ {i, n} : Moved(q, i, n)[j] = q[j]
                BY <4>1, <4>2, MovedIs
            <4>4. k \in DOMAIN Moved(q, i, n) <=> k \in DOMAIN q
                BY <2>0, <4>3
            <4>5. k \in DOMAIN q => Moved(q, i, n)[k] = q[k]
                BY <2>0, <4>3
            <4> QED
                BY <4>1, <4>4, <4>5 DEF TakenBy, q
        <3> QED
            BY <3>2, <3>3 DEF Draws
    <2> QED
        BY <2>1, <2>2, <2>3
<1>10. OpenOf(m, b) = OpenOf(l, b)
    <2>1. m \in Seq(Txn)
        BY <1>4 DEF LogTyped
    <2> QED
        BY <1>1, <1>7, <1>8, <1>9, <2>1, Untouched
<1> QED
    BY <1>10 DEF m, n, w, v

----------------------------------------------------------------------------
(* The invariant.                                                          *)

Outcomes == {"no", "present", "created", "queued"}
TxnInv ==
    /\ held \in [Accounts -> LotShares]
    /\ LogOK(log) /\ Len(log) <= MaxTxns
    /\ Linked(log, sales)
    /\ managed \subseteq Accounts
    /\ imported \in [Activities -> Outcomes]
    /\ sales \in [Sells -> Sales \cup {None}]

LEMMA MaterializedTyped ==
    ASSUME NEW h \in [Accounts -> LotShares], NEW l, LogOK(l), NEW A
    PROVE  /\ Materialized(h, l, A) \in [Accounts -> LotShares]
           /\ \A a \in Accounts : a \in A \cap managed => Materialized(h, l, A)[a] = OpenOf(l, a)
           /\ \A a \in Accounts : a \notin A \cap managed => Materialized(h, l, A)[a] = h[a]
BY OpenOfTyped DEF Materialized

LEMMA InvTyped ==
    ASSUME TxnInv
    PROVE  TypeOK
<1>1. /\ log \in Seq(Txn) /\ Len(log) \in Nat /\ DOMAIN log = 1..Len(log)
      /\ \A i \in DOMAIN log : /\ log[i] \in Txn
                               /\ DOMAIN log[i].takes \subseteq DOMAIN log
                               /\ log[i].revises \in 0..(i - 1)
    BY LogBasics DEF TxnInv, LogOK, LogTyped
<1>2. Len(log) \in 0..MaxTxns
    BY <1>1, Sizes DEF TxnInv
<1>3. \A i \in DOMAIN log :
        /\ log[i].kind \in Kinds /\ log[i].account \in Accounts
        /\ log[i].date \in Dates /\ log[i].since \in 0..MaxDate
        /\ log[i].shares \in Nat \ {0}
        /\ log[i].activity \in Activities \cup {None}
        /\ log[i].order \in Sells \cup {None}
    BY <1>1, RowTyped
<1> QED
    BY <1>1, <1>2, <1>3 DEF TypeOK, TxnInv, Outcomes

----------------------------------------------------------------------------
(* A change by hand: the new log, and the accounts it may touch.           *)
Edit(l, A) ==
    /\ LogOK(l) /\ Linked(l, sales)
    /\ ReplayOK(log) => ReplayOK(l)
    /\ \A b \in Accounts \ A : OpenOf(l, b) = OpenOf(log, b)
EditStep ==
    /\ \E l, A : Write(l, A) /\ Edit(l, A)
    /\ UNCHANGED <<managed, imported, sales>>

LEMMA EditKeeps ==
    ASSUME TxnInv, EditStep
    PROVE  TxnInv'
<1>1. PICK l, A : Write(l, A) /\ Edit(l, A)
    BY DEF EditStep
<1>2. log' = l /\ Len(l) <= MaxTxns /\ held' = Materialized(held, l, A)
      /\ LogOK(l) /\ Linked(l, sales)
    BY <1>1 DEF Write, Edit
<1>3. held' \in [Accounts -> LotShares]
    BY <1>2, MaterializedTyped DEF TxnInv
<1>4. managed' = managed /\ imported' = imported /\ sales' = sales
    BY DEF EditStep
<1> QED
    BY <1>2, <1>3, <1>4 DEF TxnInv

LEMMA HandValues ==
    /\ \A n \in 1..MaxShares : n \in Nat \ {0} /\ n \in Nat
    /\ \A d \in SaleDates : d \in Dates
    /\ \A k \in HandLots : k[1] \in Accounts /\ k[2] \in Dates
<1>1. \A n \in 1..MaxShares : n \in Nat \ {0} /\ n \in Nat
    BY Sizes
<1> QED
    BY <1>1, HandAssumption

LEMMA AddLotEdits ==
    ASSUME TxnInv, NEW k \in HandLots, NEW n \in 1..MaxShares, AddLot(k[1], k[2], n)
    PROVE  EditStep
<1> DEFINE a == k[1]
<1> DEFINE r == LotRow(a, k[2], n, None)
<1> DEFINE l == Append(log, r)
<1>1. LogTyped(log) /\ Linked(log, sales)
    BY DEF TxnInv, LogOK
<1>2. FreshLot(r) /\ r.account = a /\ r.activity = None
    <2>1. a \in Accounts /\ k[2] \in Dates /\ n \in Nat \ {0}
        BY HandValues
    <2> QED
        BY <2>1, LotRowIs
<1>3. ReplayOK(l) /\ Write(l, {a}) /\ UNCHANGED <<managed, imported, sales>>
    BY DEF AddLot
<1> HIDE DEF r
<1>4. MoreLots(log, l) /\ RowFits(log, r)
    BY <1>1, <1>2, LotAppended
<1>5. \A i \in DOMAIN l \ DOMAIN log : l[i] = r
    BY <1>1, <1>4, AppendIs
<1> HIDE DEF l
<1>6. LogOK(l)
    BY <1>4, MoreLotsOK DEF TxnInv
<1>7. Linked(l, sales)
    BY <1>1, <1>2, <1>4, <1>5, MoreLotsLinked
<1>8. ASSUME NEW b \in Accounts \ {a} PROVE OpenOf(l, b) = OpenOf(log, b)
    BY <1>1, <1>2, <1>4, <1>5, MoreLotsElsewhere
<1>9. Edit(l, {a})
    BY <1>3, <1>6, <1>7, <1>8 DEF Edit
<1> QED
    BY <1>3, <1>9 DEF EditStep

(* A row that takes shares of lots, when the log replays with it. *)
LEMMA TakingRow ==
    ASSUME NEW l, LogOK(l), NEW r, RowFits(l, r), r.active, r.kind # "lot",
           ReplayOK(Append(l, r)), NEW b, b # r.account
    PROVE  OpenOf(Append(l, r), b) = OpenOf(l, b)
<1> DEFINE m == Append(l, r)
<1>1. LogTyped(l)
    BY DEF LogOK
<1>2. /\ m[Len(l) + 1] = r /\ Len(l) + 1 \in Disposals(m)
      /\ \A i \in DOMAIN l : m[i] = l[i]
    BY <1>1, AppendIs
<1>0. ReplayOK(m)
    OBVIOUS
<1> HIDE DEF m
<1>3. \A i \in DOMAIN r.takes : m[i].account = r.account
    BY <1>0, <1>2 DEF ReplayOK
<1>4. \A i \in DOMAIN r.takes : l[i].account # b
    BY <1>2, <1>3 DEF RowFits
<1> QED
    BY <1>1, <1>4, DisposalElsewhere

LEMMA AddSaleEdits ==
    ASSUME TxnInv, NEW a \in Accounts, NEW d \in SaleDates, NEW n \in 1..MaxShares,
           AddSale(a, d, n)
    PROVE  EditStep
<1>1. LogTyped(log) /\ Linked(log, sales) /\ log \in Seq(Txn) /\ LogOK(log)
    BY DEF TxnInv, LogOK, LogTyped
<1>2. PICK takes \in Allocations(LotsIn(log), n) :
        LET l == Append(log, Row("sell", a, d, n, 0, takes, None, None)) IN
        ReplayOK(l) /\ Write(l, {a}) /\ UNCHANGED <<managed, imported, sales>>
    BY DEF AddSale
<1> DEFINE r == Row("sell", a, d, n, 0, takes, None, None)
<1> DEFINE l == Append(log, r)
<1>3. ReplayOK(l) /\ Write(l, {a}) /\ UNCHANGED <<managed, imported, sales>>
    BY <1>2
<1>4. takes \in TakesSet /\ DOMAIN takes \subseteq DOMAIN log
    <2>1. n \in Nat
        BY HandValues
    <2> QED
        BY <1>1, <2>1, AllocationIs
<1>5. /\ r \in Txn /\ r.kind = "sell" /\ r.account = a /\ r.takes = takes
      /\ r.activity = None /\ r.revises = 0 /\ r.active
    <2>1. /\ d \in Dates /\ n \in Nat \ {0} /\ "sell" \in Kinds
          /\ None \in Activities \cup {None} /\ None \in Sells \cup {None}
        BY HandValues DEF Kinds
    <2> QED
        BY <1>4, <2>1, RowIsTxn
<1> HIDE DEF r
<1>6. RowFits(log, r)
    <2>1. Len(log) \in Nat
        BY <1>1, LogBasics
    <2> QED
        BY <1>4, <1>5, <2>1 DEF RowFits
<1>7. LogTyped(l)
    BY <1>1, <1>6, AppendIs
<1>8. Linked(l, sales)
    <2>1. r.activity \notin Sells
        BY <1>5, NoneIsNoActivity
    <2> QED
        BY <1>1, <1>5, <1>6, <2>1, AppendLinked
<1>9. ASSUME NEW b \in Accounts \ {a} PROVE OpenOf(l, b) = OpenOf(log, b)
    BY <1>1, <1>3, <1>5, <1>6, TakingRow
<1> HIDE DEF l
<1>10. Edit(l, {a})
    BY <1>3, <1>7, <1>8, <1>9, ReplayIsOK DEF Edit
<1> QED
    BY <1>3, <1>10 DEF EditStep

LEMMA ReviseLotEdits ==
    ASSUME TxnInv, NEW i \in DOMAIN log, NEW a \in Accounts, NEW d \in Dates,
           NEW n \in 1..MaxShares, ReviseLot(i, a, d, n)
    PROVE  EditStep
<1> DEFINE v == Voided(log, i)
<1> DEFINE r == Revision(i, a, d, n)
<1> DEFINE w == Append(v, r)
<1> DEFINE l == Repointed(w, i, Len(log) + 1)
<1> DEFINE A == {log[i].account, a}
<1>1. LogTyped(log) /\ Linked(log, sales) /\ log \in Seq(Txn) /\ LogOK(log)
    BY DEF TxnInv, LogOK, LogTyped
<1>2. i \in LotsIn(log) /\ ReplayOK(l) /\ Write(l, A) /\ UNCHANGED <<managed, imported, sales>>
    BY DEF ReviseLot
<1>3. i \in Live(log) /\ log[i].kind = "lot" /\ log[i].active /\ log[i] \in Txn
    BY <1>1, <1>2, LogBasics DEF LotsIn, Live
<1>4. /\ LogTyped(v) /\ DOMAIN v = DOMAIN log /\ Len(v) = Len(log)
    <2>1. Fewer(log, v)
        BY <1>1, VoidedFewer
    <2> HIDE DEF v
    <2> QED
        BY <1>1, <2>1, FewerIs DEF Fewer
<1>5. /\ r \in Txn /\ r.kind = "lot" /\ r.account = a /\ r.takes = log[i].takes
      /\ r.order = log[i].order /\ r.activity = None /\ r.revises = i /\ r.active
    <2>1. n \in Nat \ {0} /\ i \in Nat
        BY <1>1, HandValues, LogBasics
    <2> DEFINE q == log[i]
    <2>2. q \in Txn /\ q.kind = "lot" /\ q.active
        BY <1>3
    <2>3. r = [q EXCEPT !.account = a, !.date = d, !.shares = n, !.activity = None, !.revises = i]
        BY DEF Revision
    <2> HIDE DEF q, r
    <2>4. /\ r \in Txn /\ r.kind = "lot" /\ r.account = a /\ r.takes = q.takes
          /\ r.order = q.order /\ r.activity = None /\ r.revises = i /\ r.active
        BY <2>1, <2>2, <2>3 DEF Txn
    <2> QED
        BY <2>4 DEF q
<1> HIDE DEF r
<1>6. RowFits(v, r)
    <2>1. DOMAIN log[i].takes \subseteq DOMAIN log
        BY <1>1 DEF LogTyped
    <2>2. i \in 0..Len(log)
        BY <1>1, LogBasics
    <2> HIDE DEF v
    <2> QED
        BY <1>4, <1>5, <2>1, <2>2 DEF RowFits
<1>7. Linked(w, sales)
    BY <1>1, <1>3, <1>5, <1>6, ReviseLinked
<1>8. LogTyped(w) /\ Len(log) + 1 \in DOMAIN w
    <2> HIDE DEF v
    <2> QED
        BY <1>4, <1>6, AppendIs
<1>9. /\ LogTyped(l) /\ DOMAIN l = DOMAIN w
      /\ \A k \in DOMAIN w :
           /\ l[k].kind = w[k].kind /\ l[k].order = w[k].order /\ l[k].revises = w[k].revises
           /\ l[k].activity = w[k].activity /\ l[k].active = w[k].active
    <2> HIDE DEF w
    <2> QED
        BY <1>8, RepointedIs
<1>10. Linked(l, sales)
    <2> HIDE DEF w, l
    <2>1. FewerLinks(w, l)
        BY <1>9 DEF FewerLinks
    <2> QED
        BY <1>7, <1>8, <2>1, FewerLinked
<1>11. ASSUME NEW b \in Accounts \ A PROVE OpenOf(l, b) = OpenOf(log, b)
    BY <1>1, <1>2, <1>5, <1>6, ReviseElsewhere
<1> HIDE DEF l, A
<1>12. Edit(l, A)
    BY <1>2, <1>9, <1>10, <1>11, ReplayIsOK DEF Edit
<1> QED
    BY <1>2, <1>12 DEF EditStep

LEMMA ReviseDisposalEdits ==
    ASSUME TxnInv, NEW i \in DOMAIN log, NEW d \in SaleDates, NEW n \in 1..MaxShares,
           ReviseDisposal(i, d, n)
    PROVE  EditStep
<1>1. LogTyped(log) /\ Linked(log, sales) /\ log \in Seq(Txn) /\ LogOK(log)
    BY DEF TxnInv, LogOK, LogTyped
<1>2. i \in Disposals(log) /\ UNCHANGED <<managed, imported, sales>>
    BY DEF ReviseDisposal
<1>3. PICK takes \in Allocations(LotsIn(log), n) :
        LET new == [Revision(i, log[i].account, d, n) EXCEPT !.takes = takes]
            l == Append(Voided(log, i), new)
        IN  ReplayOK(l) /\ Write(l, {log[i].account})
    BY DEF ReviseDisposal
<1> DEFINE v == Voided(log, i)
<1> DEFINE a == log[i].account
<1> DEFINE r == [Revision(i, a, d, n) EXCEPT !.takes = takes]
<1> DEFINE l == Append(v, r)
<1>4. ReplayOK(l) /\ Write(l, {a})
    BY <1>3
<1>5. i \in Live(log) /\ log[i].kind # "lot" /\ log[i].active /\ log[i] \in Txn
    BY <1>1, <1>2, LogBasics DEF Disposals, Live
<1>6. LogTyped(v) /\ DOMAIN v = DOMAIN log /\ Len(v) = Len(log) /\ LogOK(v)
    <2>1. Fewer(log, v)
        BY <1>1, VoidedFewer
    <2> HIDE DEF v
    <2> QED
        BY <1>1, <2>1, FewerIs, FewerOK DEF Fewer
<1>7. takes \in TakesSet /\ DOMAIN takes \subseteq DOMAIN log
    <2>1. n \in Nat
        BY HandValues
    <2> QED
        BY <1>1, <2>1, AllocationIs
<1>8. /\ r \in Txn /\ r.kind = log[i].kind /\ r.kind # "lot" /\ r.account = a /\ r.takes = takes
      /\ r.order = log[i].order /\ r.activity = None /\ r.revises = i /\ r.active
    <2>1. n \in Nat \ {0} /\ i \in Nat /\ d \in Dates
        BY <1>1, HandValues, LogBasics
    <2> DEFINE q == log[i]
    <2>2. q \in Txn /\ q.kind # "lot" /\ q.active
        BY <1>5
    <2>3. r = [q EXCEPT !.account = q.account, !.date = d, !.shares = n, !.activity = None,
                        !.revises = i, !.takes = takes]
        BY <1>5 DEF Revision, Txn
    <2> HIDE DEF q, r
    <2>4. /\ r \in Txn /\ r.kind = q.kind /\ r.account = q.account /\ r.takes = takes
          /\ r.order = q.order /\ r.activity = None /\ r.revises = i /\ r.active
        BY <1>7, <2>1, <2>2, <2>3 DEF Txn
    <2> QED
        BY <2>2, <2>4 DEF q
<1> HIDE DEF r
<1>9. RowFits(v, r)
    <2>1. i \in 0..Len(log)
        BY <1>1, LogBasics
    <2> HIDE DEF v
    <2> QED
        BY <1>6, <1>7, <1>8, <2>1 DEF RowFits
<1>10. Linked(l, sales)
    BY <1>1, <1>5, <1>8, <1>9, ReviseLinked
<1>11. LogTyped(l)
    <2> HIDE DEF v
    <2> QED
        BY <1>6, <1>9, AppendIs
<1>12. ASSUME NEW b \in Accounts \ {a} PROVE OpenOf(l, b) = OpenOf(log, b)
    <2>1. OpenOf(v, b) = OpenOf(log, b)
        BY <1>1, <1>5, VoidedElsewhere
    <2> HIDE DEF v
    <2>2. OpenOf(l, b) = OpenOf(v, b)
        BY <1>4, <1>6, <1>8, <1>9, TakingRow
    <2> QED
        BY <2>1, <2>2
<1> HIDE DEF l
<1>13. Edit(l, {a})
    BY <1>4, <1>10, <1>11, <1>12, ReplayIsOK DEF Edit
<1> QED
    BY <1>2, <1>4, <1>13 DEF EditStep

LEMMA VoidEdits ==
    ASSUME TxnInv, NEW i \in DOMAIN log, Void(i)
    PROVE  EditStep
<1> DEFINE l == Voided(log, i)
<1> DEFINE a == log[i].account
<1>1. LogTyped(log) /\ Linked(log, sales) /\ log \in Seq(Txn) /\ LogOK(log)
    BY DEF TxnInv, LogOK, LogTyped
<1>2. /\ i \in Live(log) /\ \A t \in Disposals(log) : i \notin DOMAIN log[t].takes
      /\ Write(l, {a}) /\ UNCHANGED <<managed, imported, sales>>
    BY DEF Void
<1>3. /\ Fewer(log, l)
      /\ LotsIn(l) = LotsIn(log) \ {i} /\ Disposals(l) = Disposals(log) \ {i}
    BY <1>1, VoidedFewer
<1>4. ASSUME NEW b \in Accounts \ {a} PROVE OpenOf(l, b) = OpenOf(log, b)
    BY <1>1, <1>2, VoidedElsewhere
<1>k. \A k \in DOMAIN log \ {i} : l[k] = log[k]
    BY <1>1, VoidedFewer
<1> HIDE DEF l
<1>5. LogOK(l) /\ Linked(l, sales)
    BY <1>1, <1>3, FewerOK, FewerIsFewerLinks, FewerLinked
<1>6. \A k \in DOMAIN log : Open(log, k) <= Open(l, k)
    BY <1>1, <1>3, FewerIs
<1>7. ASSUME ReplayOK(log) PROVE ReplayOK(l)
    <2>1. LotsIn(log) \subseteq DOMAIN log /\ Disposals(log) \subseteq DOMAIN log
        BY <1>1, LogBasics
    <2>2. ASSUME NEW t \in Disposals(l)
          PROVE  /\ \A k \in DOMAIN l[t].takes :
                      k \in LotsIn(l) /\ l[k].account = l[t].account /\ l[k].date <= l[t].date
                 /\ Total(l[t].takes) = l[t].shares
        <3>1. t \in Disposals(log) /\ t # i /\ l[t] = log[t]
            BY <1>3, <1>k, <2>1
        <3>2. \A k \in DOMAIN log[t].takes :
                  k \in LotsIn(log) /\ log[k].account = log[t].account /\ log[k].date <= log[t].date
            BY <1>7, <3>1 DEF ReplayOK
        <3>3. Total(log[t].takes) = log[t].shares
            BY <1>7, <3>1 DEF ReplayOK
        <3>4. \A k \in DOMAIN log[t].takes : k \in LotsIn(log) /\ k # i /\ l[k] = log[k]
            BY <1>2, <1>k, <2>1, <3>1, <3>2
        <3> QED
            BY <1>3, <3>1, <3>2, <3>3, <3>4
    <2>3. \A k \in LotsIn(l) : Open(l, k) >= 0
        BY <1>5 DEF LogOK, OpenOK
    <2> QED
        BY <2>2, <2>3 DEF ReplayOK
<1> HIDE DEF a
<1>8. Edit(l, {a})
    BY <1>4, <1>5, <1>7 DEF Edit
<1> QED
    BY <1>2, <1>8 DEF EditStep

LEMMA TransferEdits ==
    ASSUME TxnInv, NEW a \in Accounts, NEW b \in Accounts, NEW d \in SaleDates,
           NEW n \in 1..MaxShares, Transfer(a, b, d, n)
    PROVE  EditStep
<1>1. LogTyped(log) /\ Linked(log, sales) /\ log \in Seq(Txn) /\ LogOK(log)
    BY DEF TxnInv, LogOK, LogTyped
<1>2. UNCHANGED <<managed, imported, sales>>
    BY DEF Transfer
<1>3. PICK takes \in Allocations(LotsIn(log), n) :
        LET out == Append(log, Row("out", a, d, n, 0, takes, None, None))
            In(i) == [LotRow(b, d, takes[i], None) EXCEPT !.since = Since(log[i])]
            l == AppendEach(out, [i \in DOMAIN takes |-> In(i)])
        IN  ReplayOK(out) /\ Write(l, {a, b})
    BY DEF Transfer
<1> DEFINE r == Row("out", a, d, n, 0, takes, None, None)
<1> DEFINE out == Append(log, r)
<1> DEFINE In(i) == [LotRow(b, d, takes[i], None) EXCEPT !.since = Since(log[i])]
<1> DEFINE rows == [i \in DOMAIN takes |-> In(i)]
<1> DEFINE l == AppendEach(out, rows)
<1>4. ReplayOK(out) /\ Write(l, {a, b})
    BY <1>3
<1>5. /\ takes \in TakesSet /\ IsFiniteSet(DOMAIN takes) /\ DOMAIN takes \subseteq DOMAIN log
      /\ \A i \in DOMAIN takes : takes[i] \in Nat \ {0}
    <2>1. n \in Nat
        BY HandValues
    <2> QED
        BY <1>1, <2>1, AllocationIs
<1>6. /\ r \in Txn /\ r.kind = "out" /\ r.account = a /\ r.takes = takes
      /\ r.activity = None /\ r.revises = 0 /\ r.active
    <2>1. /\ d \in Dates /\ n \in Nat \ {0} /\ "out" \in Kinds
          /\ None \in Activities \cup {None} /\ None \in Sells \cup {None}
        BY HandValues DEF Kinds
    <2> QED
        BY <1>5, <2>1, RowIsTxn
<1> HIDE DEF r
<1>7. RowFits(log, r)
    <2>1. Len(log) \in Nat
        BY <1>1, LogBasics
    <2> QED
        BY <1>5, <1>6, <2>1 DEF RowFits
<1>8. LogTyped(out)
    BY <1>1, <1>7, AppendIs
<1>9. Linked(out, sales)
    <2>1. r.activity \notin Sells
        BY <1>6, NoneIsNoActivity
    <2> QED
        BY <1>1, <1>6, <1>7, <2>1, AppendLinked
<1>10. ASSUME NEW x \in Accounts \ {a} PROVE OpenOf(out, x) = OpenOf(log, x)
    BY <1>1, <1>4, <1>6, <1>7, TakingRow
<1> HIDE DEF out
<1>11. LogOK(out)
    BY <1>4, <1>8, ReplayIsOK
<1>12. ASSUME NEW i \in DOMAIN takes
       PROVE  FreshLot(In(i)) /\ In(i).account = b /\ In(i).activity = None
    <2> DEFINE q == LotRow(b, d, takes[i], None)
    <2>1. FreshLot(q) /\ q.account = b /\ q.activity = None
        <3>1. d \in Dates /\ takes[i] \in Nat \ {0}
            BY <1>5, HandValues
        <3> QED
            BY <3>1, LotRowIs
    <2>2. Since(log[i]) \in 0..MaxDate
        <3>1. log[i] \in Txn
            BY <1>1, <1>5, LogBasics
        <3>2. Since(log[i]) \in Dates
            BY <3>1, RowTyped
        <3> QED
            BY <3>2, Sizes
    <2> DEFINE x == Since(log[i])
    <2> HIDE DEF q, x
    <2>3. [q EXCEPT !.since = x] \in Txn
        BY <2>1, <2>2 DEF FreshLot, Txn, x
    <2>4. /\ [q EXCEPT !.since = x].kind = q.kind /\ [q EXCEPT !.since = x].active = q.active
          /\ [q EXCEPT !.since = x].takes = q.takes /\ [q EXCEPT !.since = x].revises = q.revises
          /\ [q EXCEPT !.since = x].account = q.account
          /\ [q EXCEPT !.since = x].activity = q.activity
        BY <2>1 DEF FreshLot, Txn
    <2>5. FreshLot([q EXCEPT !.since = x]) /\ [q EXCEPT !.since = x].account = b
          /\ [q EXCEPT !.since = x].activity = None
        BY <2>1, <2>3, <2>4 DEF FreshLot
    <2> QED
        BY <2>5 DEF q, x
<1>13. /\ DOMAIN rows = DOMAIN takes
       /\ \A i \in DOMAIN rows : FreshLot(rows[i]) /\ rows[i].account = b
                                 /\ rows[i].activity = None
    <2> HIDE DEF In
    <2> QED
        BY <1>12
<1> HIDE DEF rows
<1>14. MoreLots(out, l) /\ EachOnce(out, l, DOMAIN rows, rows)
    BY <1>5, <1>8, <1>13, EachAppended
<1> HIDE DEF l
<1>15. \A i \in DOMAIN l \ DOMAIN out : l[i].account = b /\ l[i].activity = None
    BY <1>13, <1>14 DEF EachOnce, Places
<1>16. LogOK(l)
    BY <1>11, <1>14, MoreLotsOK
<1>17. Linked(l, sales)
    BY <1>8, <1>9, <1>14, <1>15, MoreLotsLinked
<1>18. ASSUME NEW x \in Accounts \ {a, b} PROVE OpenOf(l, x) = OpenOf(log, x)
    <2>1. OpenOf(l, x) = OpenOf(out, x)
        BY <1>8, <1>14, <1>15, MoreLotsElsewhere
    <2> QED
        BY <1>10, <2>1
<1>19. ReplayOK(l)
    <2>1. /\ Disposals(l) = Disposals(out) /\ Disposals(out) \subseteq DOMAIN out
          /\ LotsIn(out) \subseteq DOMAIN out
          /\ \A i \in DOMAIN out : i \in LotsIn(l) <=> i \in LotsIn(out)
          /\ \A i \in DOMAIN out : l[i] = out[i]
        BY <1>8, <1>14, MoreLotsIs, LogBasics DEF LogTyped, MoreLots
    <2>2. ASSUME NEW t \in Disposals(l)
          PROVE  /\ \A k \in DOMAIN l[t].takes :
                      k \in LotsIn(l) /\ l[k].account = l[t].account /\ l[k].date <= l[t].date
                 /\ Total(l[t].takes) = l[t].shares
        <3>1. t \in Disposals(out) /\ l[t] = out[t]
            BY <2>1
        <3>2. \A k \in DOMAIN out[t].takes :
                  k \in LotsIn(out) /\ out[k].account = out[t].account /\ out[k].date <= out[t].date
            BY <1>4, <3>1 DEF ReplayOK
        <3>3. Total(out[t].takes) = out[t].shares
            BY <1>4, <3>1 DEF ReplayOK
        <3>4. \A k \in DOMAIN out[t].takes : k \in LotsIn(l) /\ l[k] = out[k]
            BY <2>1, <3>2
        <3> QED
            BY <3>1, <3>2, <3>3, <3>4
    <2>3. \A k \in LotsIn(l) : Open(l, k) >= 0
        BY <1>16 DEF LogOK, OpenOK
    <2> QED
        BY <2>2, <2>3 DEF ReplayOK
<1>20. Edit(l, {a, b})
    BY <1>16, <1>17, <1>18, <1>19 DEF Edit
<1> QED
    BY <1>2, <1>4, <1>20 DEF EditStep

----------------------------------------------------------------------------
(* An operation that ends by syncing the log: h is what it left of the     *)
(* holdings.                                                               *)
SyncedOver(h) ==
    /\ h \in [Accounts -> LotShares]
    /\ LogOK(log') /\ Len(log') <= MaxTxns /\ Linked(log', sales')
    /\ Started(log) => Explained(log', h) /\ held' = Materialized(h, log', Accounts)
    /\ ~Started(log) => log' = log /\ held' = h
SyncStep ==
    /\ \E h : SyncedOver(h)
    /\ imported' \in [Activities -> Outcomes]
    /\ sales' \in [Sells -> Sales \cup {None}]
    /\ imported' # imported \/ sales' # sales
    /\ managed' = managed

LEMMA SyncStepKeeps ==
    ASSUME TxnInv, SyncStep
    PROVE  TxnInv'
<1>1. PICK h : SyncedOver(h)
    BY DEF SyncStep
<1>2. /\ h \in [Accounts -> LotShares]
      /\ LogOK(log') /\ Len(log') <= MaxTxns /\ Linked(log', sales')
      /\ held' = Materialized(h, log', Accounts) \/ held' = h
    BY <1>1 DEF SyncedOver
<1>3. held' \in [Accounts -> LotShares]
    BY <1>2, MaterializedTyped
<1> QED
    BY <1>2, <1>3 DEF TxnInv, SyncStep

LEMMA SyncIs ==
    ASSUME TxnInv, NEW h \in [Accounts -> LotShares],
           sales' \in [Sells -> Sales \cup {None}], Linked(log, sales'), Sync(h)
    PROVE  SyncedOver(h)
<1> DEFINE l == Synced(log, h, imported', sales')
<1>1. /\ Len(l) <= MaxTxns /\ log' = l
      /\ held' = IF Started(log) THEN Materialized(h, l, Accounts) ELSE h
    BY DEF Sync
<1>2. /\ LogOK(l) /\ Linked(l, sales')
      /\ Started(log) => Explained(l, h)
      /\ ~Started(log) => l = log
    BY SyncedKeeps DEF TxnInv
<1> HIDE DEF l
<1> QED
    BY <1>1, <1>2 DEF SyncedOver

LEMMA SalesMore ==
    ASSUME NEW l, NEW sold, Linked(l, sold), NEW after,
           \A s \in Sells : sold[s] # None => after[s] # None
    PROVE  Linked(l, after)
BY DEF Linked, ToldOK

LEMMA ImportSyncs ==
    ASSUME TxnInv, NEW r \in Activities, Import(r)
    PROVE  SyncStep
<1> DEFINE present == held[r.account][r.date] = r.shares
<1> DEFINE outcome == IF r \in Sells THEN "queued" ELSE IF present THEN "present" ELSE "created"
<1> DEFINE h == IF outcome = "created" THEN [held EXCEPT ![r.account][r.date] = @ + r.shares]
                ELSE held
<1>1. /\ imported[r] = "no" /\ imported' = [imported EXCEPT ![r] = outcome]
      /\ managed' = managed /\ sales' = sales /\ Sync(h)
    BY DEF Import
<1>2. outcome \in Outcomes /\ outcome # "no"
    BY DEF Outcomes
<1>3. r.account \in Accounts /\ r.date \in Dates /\ r.shares \in Nat
    BY Sizes
<1>4. h \in [Accounts -> LotShares]
    <2>1. held \in [Accounts -> LotShares]
        BY DEF TxnInv
    <2> DEFINE x == held[r.account][r.date] + r.shares
    <2>2. x \in Nat
        BY <1>3, <2>1 DEF LotShares
    <2>3. h = held \/ h = [held EXCEPT ![r.account][r.date] = x]
        OBVIOUS
    <2> HIDE DEF x, h
    <2> QED
        BY <1>3, <2>1, <2>2, <2>3 DEF LotShares
<1> HIDE DEF outcome, h
<1>5. imported' \in [Activities -> Outcomes] /\ imported' # imported
    BY <1>1, <1>2 DEF TxnInv
<1>6. sales' \in [Sells -> Sales \cup {None}] /\ Linked(log, sales')
    BY <1>1 DEF TxnInv
<1>7. SyncedOver(h)
    BY <1>1, <1>4, <1>6, SyncIs
<1> QED
    BY <1>1, <1>5, <1>6, <1>7 DEF SyncStep

(* The rows of a reverted broker row that are voided forget it. *)
Forgotten(r) ==
    [i \in DOMAIN log |->
        IF log[i].activity = r /\ ~log[i].active
        THEN [log[i] EXCEPT !.activity = None] ELSE log[i]]

LEMMA ForgottenFewer ==
    ASSUME LogTyped(log), NEW r
    PROVE  Fewer(log, Forgotten(r))
<1> DEFINE m == Forgotten(r)
<1>1. /\ log \in Seq(Txn) /\ DOMAIN log = 1..Len(log) /\ Len(log) \in Nat
      /\ \A i \in DOMAIN log : log[i] \in Txn
    BY LogBasics DEF LogTyped
<1>2. /\ DOMAIN m = DOMAIN log /\ m = [i \in DOMAIN log |-> m[i]]
      /\ \A i \in DOMAIN log : m[i] = log[i] \/ m[i] = [log[i] EXCEPT !.activity = None]
    BY DEF Forgotten
<1> HIDE DEF m
<1>3. ASSUME NEW i \in DOMAIN log PROVE m[i] \in Txn /\ SameBut(log[i], m[i])
    <2> DEFINE q == log[i]
    <2>1. q \in Txn /\ (m[i] = q \/ m[i] = [q EXCEPT !.activity = None])
        BY <1>1, <1>2
    <2> HIDE DEF q
    <2>2. m[i] \in Txn /\ SameBut(q, m[i])
        BY <2>1 DEF Txn, SameBut
    <2> QED
        BY <2>2 DEF q
<1>4. m \in Seq(Txn)
    <2>1. m \in [1..Len(log) -> Txn]
        BY <1>1, <1>2, <1>3
    <2> QED
        BY <1>1, <2>1, SeqDef
<1> QED
    BY <1>2, <1>3, <1>4 DEF Fewer, m

LEMMA NotStarted ==
    ASSUME NEW l \in Seq(Txn), NEW m \in Seq(Txn), Len(m) = Len(l)
    PROVE  /\ Started(m) <=> Started(l)
           /\ ~Started(l) => m = l
BY EmptySeq DEF Started

(* A sync of a log that lost nothing but rows or activities. *)
LEMMA SyncedFewer ==
    ASSUME TxnInv, NEW l, Fewer(log, l), Linked(l, sales'),
           sales' \in [Sells -> Sales \cup {None}],
           NEW h \in [Accounts -> LotShares], NEW imp,
           LET m == Synced(l, h, imp, sales') IN
           /\ Len(m) <= MaxTxns /\ log' = m
           /\ held' = IF Started(log) THEN Materialized(h, m, Accounts) ELSE h
    PROVE  SyncedOver(h)
<1> DEFINE m == Synced(l, h, imp, sales')
<1>0. /\ Len(m) <= MaxTxns /\ log' = m
      /\ held' = IF Started(log) THEN Materialized(h, m, Accounts) ELSE h
    OBVIOUS
<1>1. LogOK(log) /\ LogTyped(log)
    BY DEF TxnInv, LogOK
<1>2. LogOK(l)
    BY <1>1, FewerOK
<1>3. (Started(l) <=> Started(log)) /\ (~Started(log) => l = log)
    <2>1. log \in Seq(Txn) /\ l \in Seq(Txn) /\ Len(l) = Len(log)
        BY <1>1, FewerIs
    <2> QED
        BY <2>1, NotStarted
<1>4. /\ LogOK(m) /\ Linked(m, sales')
      /\ Started(l) => Explained(m, h)
      /\ ~Started(l) => m = l
    BY <1>2, SyncedKeeps
<1> HIDE DEF m
<1> QED
    BY <1>0, <1>3, <1>4 DEF SyncedOver

LEMMA RevertSyncs ==
    ASSUME TxnInv, NEW r \in Activities, Revert(r)
    PROVE  SyncStep
<1> DEFINE l == Forgotten(r)
<1> DEFINE h == IF imported[r] = "created"
                THEN [held EXCEPT ![r.account][r.date] = @ - r.shares] ELSE held
<1> DEFINE m == Synced(l, h, imported', sales)
<1>1. /\ imported[r] # "no" /\ imported' = [imported EXCEPT ![r] = "no"]
      /\ imported[r] = "created" => held[r.account][r.date] = r.shares
      /\ Len(m) <= MaxTxns /\ log' = m
      /\ held' = IF Started(log) THEN Materialized(h, m, Accounts) ELSE h
      /\ managed' = managed /\ sales' = sales
    BY DEF Revert, Forgotten
<1>2. r.account \in Accounts /\ r.date \in Dates /\ r.shares \in Nat
    BY Sizes
<1>3. h \in [Accounts -> LotShares]
    <2>1. held \in [Accounts -> LotShares]
        BY DEF TxnInv
    <2> DEFINE x == held[r.account][r.date] - r.shares
    <2>2. h = held \/ (h = [held EXCEPT ![r.account][r.date] = x] /\ imported[r] = "created")
        OBVIOUS
    <2>3. imported[r] = "created" => x = 0
        BY <1>1, <1>2
    <2> HIDE DEF x, h
    <2>4. h = held \/ h = [held EXCEPT ![r.account][r.date] = 0]
        BY <2>2, <2>3
    <2> QED
        BY <1>2, <2>1, <2>4 DEF LotShares
<1>4. LogTyped(log) /\ Linked(log, sales) /\ sales \in [Sells -> Sales \cup {None}]
    BY DEF TxnInv, LogOK
<1>5. Fewer(log, l)
    BY <1>4, ForgottenFewer
<1> HIDE DEF l, h
<1>6. Linked(l, sales')
    BY <1>1, <1>4, <1>5, FewerIsFewerLinks, FewerLinked
<1>7. SyncedOver(h)
    <2>1. sales' \in [Sells -> Sales \cup {None}] /\ m = Synced(l, h, imported', sales')
        BY <1>1, <1>4
    <2> HIDE DEF m
    <2> QED
        BY <1>1, <1>3, <1>5, <1>6, <2>1, SyncedFewer
<1>8. imported' \in [Activities -> Outcomes] /\ imported' # imported
    BY <1>1 DEF TxnInv, Outcomes
<1>9. sales' \in [Sells -> Sales \cup {None}]
    BY <1>1, <1>4
<1> QED
    BY <1>1, <1>7, <1>8, <1>9 DEF SyncStep

LEMMA ConfirmFromHoldingsSyncs ==
    ASSUME TxnInv, NEW s \in Sells, ConfirmFromHoldings(s)
    PROVE  SyncStep
<1>1. sales[s] = None /\ managed' = managed /\ imported' = imported
    BY DEF ConfirmFromHoldings
<1>2. PICK lots \in [Dates -> 0..s.shares] :
        /\ \A d \in Dates : lots[d] <= held[s.account][d]
        /\ sales' = [sales EXCEPT ![s] = [lots |-> lots, logged |-> FALSE]]
        /\ Sync([held EXCEPT ![s.account] = [d \in Dates |-> @[d] - lots[d]]])
    BY DEF ConfirmFromHoldings
<1> DEFINE h == [held EXCEPT ![s.account] = [d \in Dates |-> @[d] - lots[d]]]
<1> DEFINE sale == [lots |-> lots, logged |-> FALSE]
<1>3. s \in Activities /\ s.account \in Accounts /\ s.shares \in Nat
    BY Sizes DEF Activities
<1>4. \A d \in Dates : lots[d] \in Nat
    BY <1>2, <1>3
<1>5. h \in [Accounts -> LotShares]
    <2>1. held \in [Accounts -> LotShares]
        BY DEF TxnInv
    <2> DEFINE x == [d \in Dates |-> held[s.account][d] - lots[d]]
    <2>2. \A d \in Dates : held[s.account][d] \in Nat
        BY <1>3, <2>1 DEF LotShares
    <2>3. \A d \in Dates : held[s.account][d] - lots[d] \in Nat
        BY <1>2, <1>4, <2>2
    <2>4. x \in LotShares
        BY <2>3 DEF LotShares
    <2>5. h = [held EXCEPT ![s.account] = x]
        OBVIOUS
    <2> HIDE DEF x, h
    <2> QED
        BY <1>3, <2>1, <2>4, <2>5
<1>6. sale \in Sales
    BY <1>4 DEF Sales, LotShares
<1>7. sales \in [Sells -> Sales \cup {None}] /\ Linked(log, sales)
    BY DEF TxnInv
<1>8. sales' = [sales EXCEPT ![s] = sale] /\ Sync(h)
    BY <1>2
<1> HIDE DEF h, sale
<1>9. /\ sales' \in [Sells -> Sales \cup {None}]
      /\ sales'[s] = sale /\ sale # None
      /\ \A x \in Sells \ {s} : sales'[x] = sales[x]
    BY <1>6, <1>7, <1>8, NoneIsNoActivity
<1>10. Linked(log, sales')
    <2>1. \A x \in Sells : sales[x] # None => sales'[x] # None
        BY <1>9
    <2> QED
        BY <1>7, <2>1, SalesMore
<1>11. SyncedOver(h)
    BY <1>5, <1>8, <1>9, <1>10, SyncIs
<1>12. imported' \in [Activities -> Outcomes] /\ sales' # sales
    BY <1>1, <1>9 DEF TxnInv
<1> QED
    BY <1>1, <1>9, <1>11, <1>12 DEF SyncStep

LEMMA ConfirmInLogSyncs ==
    ASSUME TxnInv, NEW s \in Sells, ConfirmInLog(s)
    PROVE  SyncStep
<1>1. sales[s] = None
    BY DEF ConfirmInLog
<1>2. PICK takes \in Allocations(LotsIn(log), s.shares) :
        LET l == Append(log, Row("sell", s.account, s.date, s.shares, 0, takes, s, s))
            from(d) == {i \in DOMAIN takes : Since(log[i]) = d}
            lots == [d \in Dates |-> SumFunctionOnSet(takes, from(d))]
            after == [sales EXCEPT ![s] = [lots |-> lots, logged |-> TRUE]]
            h == Materialized(held, l, {s.account})
            synced == Synced(l, h, imported, after)
        IN  /\ ReplayOK(l)
            /\ sales' = after
            /\ Len(synced) <= MaxTxns
            /\ log' = synced
            /\ held' = Materialized(h, synced, Accounts)
            /\ UNCHANGED <<managed, imported>>
    BY DEF ConfirmInLog
<1> DEFINE r == Row("sell", s.account, s.date, s.shares, 0, takes, s, s)
<1> DEFINE l == Append(log, r)
<1> DEFINE lots == [d \in Dates |->
                       SumFunctionOnSet(takes, {i \in DOMAIN takes : Since(log[i]) = d})]
<1> DEFINE sale == [lots |-> lots, logged |-> TRUE]
<1> DEFINE h == Materialized(held, l, {s.account})
<1> DEFINE m == Synced(l, h, imported, sales')
<1>3. /\ ReplayOK(l) /\ sales' = [sales EXCEPT ![s] = sale]
      /\ Len(m) <= MaxTxns /\ log' = m /\ held' = Materialized(h, m, Accounts)
      /\ managed' = managed /\ imported' = imported
    BY <1>2
<1>4. LogTyped(log) /\ Linked(log, sales) /\ log \in Seq(Txn)
      /\ sales \in [Sells -> Sales \cup {None}] /\ held \in [Accounts -> LotShares]
    BY DEF TxnInv, LogOK, LogTyped
<1>5. s \in Activities /\ s.account \in Accounts /\ s.date \in Dates /\ s.shares \in Nat \ {0}
    BY Sizes DEF Activities
<1>6. /\ takes \in TakesSet /\ IsFiniteSet(DOMAIN takes) /\ DOMAIN takes \subseteq DOMAIN log
      /\ \A i \in DOMAIN takes : takes[i] \in Nat \ {0}
    BY <1>4, <1>5, AllocationIs
<1>7. sale \in Sales
    <2>1. ASSUME NEW d \in Dates
          PROVE  SumFunctionOnSet(takes, {i \in DOMAIN takes : Since(log[i]) = d}) \in Nat
        <3> DEFINE S == {i \in DOMAIN takes : Since(log[i]) = d}
        <3>1. S \in SUBSET DOMAIN takes
            OBVIOUS
        <3>2. IsFiniteSet(S) /\ NatOn(takes, S)
            BY <1>6, <3>1, FS_Subset DEF NatOn
        <3> HIDE DEF S
        <3>3. SumFunctionOnSet(takes, S) \in Nat
            BY <3>2, SumIsNat
        <3> QED
            BY <3>3 DEF S
    <2>2. lots \in LotShares
        BY <2>1 DEF LotShares
    <2> HIDE DEF lots
    <2> QED
        BY <2>2 DEF Sales
<1>8. /\ r \in Txn /\ r.kind = "sell" /\ r.account = s.account /\ r.takes = takes
      /\ r.activity = s /\ r.order = s /\ r.revises = 0 /\ r.active
    <2>1. "sell" \in Kinds /\ s \in Activities \cup {None} /\ s \in Sells \cup {None}
        BY <1>5 DEF Kinds
    <2> QED
        BY <1>5, <1>6, <2>1, RowIsTxn
<1> HIDE DEF r, sale
<1>9. RowFits(log, r)
    <2>1. Len(log) \in Nat
        BY <1>4, LogBasics
    <2> QED
        BY <1>6, <1>8, <2>1 DEF RowFits
<1>10. LogOK(l)
    <2>1. LogTyped(l)
        BY <1>4, <1>9, AppendIs
    <2> HIDE DEF l
    <2> QED
        BY <1>3, <2>1, ReplayIsOK
<1>11. /\ sales' \in [Sells -> Sales \cup {None}]
       /\ sales'[s] = sale /\ sale # None
       /\ \A x \in Sells \ {s} : sales'[x] = sales[x]
    BY <1>3, <1>4, <1>7, NoneIsNoActivity
<1>12. Linked(l, sales')
    <2>1. \A x \in Sells : sales[x] # None => sales'[x] # None
        BY <1>11
    <2>2. \A i \in Live(log) : MirrorOf(log, i) # s
        BY <1>1, <1>4 DEF Linked, ToldOK
    <2> QED
        BY <1>4, <1>8, <1>9, <1>11, <2>1, <2>2, AppendLinked
<1>13. Started(l)
    <2>1. Len(l) = Len(log) + 1 /\ Len(log) \in Nat
        BY <1>4, <1>9, AppendIs
    <2>2. Len(<<>>) = 0
        OBVIOUS
    <2> HIDE DEF l
    <2> QED
        BY <2>1, <2>2 DEF Started
<1>s. Started(log)
    <2>1. DOMAIN takes # {}
        <3>1. ASSUME DOMAIN takes = {} PROVE FALSE
            <4>1. Total(takes) = SumFunctionOnSet(takes, {})
                BY <3>1 DEF Total, SumFunction
            <4>2. Total(takes) = 0
                BY <4>1, SumEmpty
            <4> QED
                BY <1>2, <1>5, <4>2 DEF Allocations
        <3> QED
            BY <3>1
    <2>2. DOMAIN log # {}
        BY <1>6, <2>1
    <2>3. DOMAIN <<>> = {}
        OBVIOUS
    <2> QED
        BY <2>2, <2>3 DEF Started
<1> HIDE DEF l
<1>14. h \in [Accounts -> LotShares]
    BY <1>4, <1>10, MaterializedTyped
<1> HIDE DEF h
<1>15. LogOK(m) /\ Linked(m, sales') /\ Explained(m, h)
    BY <1>10, <1>11, <1>12, <1>13, <1>14, SyncedKeeps
<1> HIDE DEF m
<1>16. SyncedOver(h)
    BY <1>3, <1>14, <1>15, <1>s DEF SyncedOver
<1>17. imported' \in [Activities -> Outcomes] /\ sales' # sales
    BY <1>1, <1>3, <1>11 DEF TxnInv
<1> QED
    BY <1>3, <1>11, <1>16, <1>17 DEF SyncStep

LEMMA UndoSyncs ==
    ASSUME TxnInv, NEW s \in Sells, Undo(s)
    PROVE  SyncStep
<1> DEFINE sale == sales[s]
<1> DEFINE back == [d \in Dates |-> held[s.account][d] + sale.lots[d]]
<1> DEFINE h == IF sale.logged /\ s.account \in managed THEN held
                ELSE [held EXCEPT ![s.account] = back]
<1> DEFINE S == {i \in Live(log) : log[i].kind = "sell" /\ log[i].order = s}
<1> DEFINE l == Release(log, S)
<1> DEFINE g == Materialized(h, l, {s.account})
<1> DEFINE m == Synced(l, g, imported, sales')
<1>1. /\ sale # None /\ sales' = [sales EXCEPT ![s] = None]
      /\ Len(m) <= MaxTxns /\ log' = m
      /\ held' = IF Started(l) THEN Materialized(h, m, Accounts) ELSE h
      /\ managed' = managed /\ imported' = imported
    BY DEF Undo
<1>2. LogTyped(log) /\ Linked(log, sales) /\ log \in Seq(Txn) /\ LogOK(log)
      /\ sales \in [Sells -> Sales \cup {None}] /\ held \in [Accounts -> LotShares]
    BY DEF TxnInv, LogOK, LogTyped
<1>3. h \in [Accounts -> LotShares]
    <2>1. s.account \in Accounts
        BY Sizes DEF Activities
    <2>2. sale \in Sales
        BY <1>1, <1>2
    <2> HIDE DEF sale
    <2>3. \A d \in Dates : sale.lots[d] \in Nat /\ held[s.account][d] \in Nat
        BY <1>2, <2>1, <2>2 DEF Sales, LotShares
    <2>4. back \in LotShares
        BY <2>3 DEF LotShares
    <2> HIDE DEF back
    <2> QED
        BY <1>2, <2>1, <2>4
<1> HIDE DEF h
<1>4. Fewer(log, l)
    BY <1>2, ReleaseFewer
<1>5. \A i \in Live(l) : i \in Live(log) /\ i \in DOMAIN log /\ i \notin S
    <2>1. \A i \in DOMAIN log : l[i] = IF i \in S
                THEN [log[i] EXCEPT !.active = FALSE, !.activity = None] ELSE log[i]
        BY DEF Release
    <2>2. DOMAIN l = DOMAIN log /\ \A i \in DOMAIN log : log[i] \in Txn
        BY <1>2, <1>4, LogBasics DEF Fewer
    <2> HIDE DEF l, S
    <2>3. \A i \in DOMAIN log : i \in S => ~l[i].active
        BY <2>1, <2>2 DEF Txn
    <2> QED
        BY <2>1, <2>2, <2>3 DEF Live
<1>6. LogOK(l) /\ Linked(l, sales)
      /\ \A i \in DOMAIN log : MirrorOf(l, i) \in {MirrorOf(log, i), None}
    <2> HIDE DEF l
    <2> QED
        BY <1>2, <1>4, FewerOK, FewerIsFewerLinks, FewerLinked
<1>7. /\ sales' \in [Sells -> Sales \cup {None}] /\ sales'[s] = None
      /\ \A x \in Sells \ {s} : sales'[x] = sales[x]
    BY <1>1, <1>2
<1>8. Linked(l, sales')
    <2>1. ASSUME NEW i \in Live(l), NEW x \in Sells, MirrorOf(l, i) = x
          PROVE  l[i].kind = "sell" /\ l[i].order = x /\ sales'[x] # None
        <3>1. l[i].kind = "sell" /\ l[i].order = x /\ sales[x] # None
            BY <1>6, <2>1 DEF Linked, ToldOK
        <3>2. MirrorOf(log, i) = x
            BY <1>5, <1>6, <2>1, NoneIsNoActivity
        <3>3. log[i].kind = "sell" /\ log[i].order = x
            BY <1>2, <1>5, <3>2 DEF Linked, ToldOK
        <3>4. x # s
            BY <1>5, <3>3
        <3> QED
            BY <1>7, <3>1, <3>4
    <2> QED
        BY <1>6, <2>1 DEF Linked, ToldOK
<1> HIDE DEF l, S
<1>9. g \in [Accounts -> LotShares]
    BY <1>3, <1>6, MaterializedTyped
<1>10. /\ LogOK(m) /\ Linked(m, sales')
       /\ Started(l) => Explained(m, g)
       /\ ~Started(l) => m = l
    BY <1>6, <1>7, <1>8, <1>9, SyncedKeeps
<1>11. (Started(l) <=> Started(log)) /\ (~Started(log) => l = log)
    <2>1. l \in Seq(Txn) /\ Len(l) = Len(log)
        BY <1>2, <1>4, FewerIs
    <2> QED
        BY <1>2, <2>1, NotStarted
<1>12. Materialized(g, m, Accounts) = Materialized(h, m, Accounts)
    <2>1. \A a \in Accounts : a \notin managed => g[a] = h[a]
        BY <1>3, <1>6, MaterializedTyped DEF g
    <2> HIDE DEF g, m
    <2> QED
        BY <2>1 DEF Materialized
<1> HIDE DEF g, m
<1>13. ASSUME Started(log) PROVE SyncedOver(g)
    BY <1>1, <1>9, <1>10, <1>11, <1>12, <1>13 DEF SyncedOver
<1>14. ASSUME ~Started(log) PROVE SyncedOver(h)
    BY <1>1, <1>3, <1>10, <1>11, <1>14 DEF SyncedOver
<1>15. \E x : SyncedOver(x)
    BY <1>13, <1>14
<1>16. imported' \in [Activities -> Outcomes] /\ sales' # sales
    BY <1>1, <1>7 DEF TxnInv
<1> QED
    BY <1>1, <1>7, <1>15, <1>16 DEF SyncStep

-----------------------------------------------------------------------------
(* The other steps: starting the log, managing an account, editing the     *)
(* holdings by hand.                                                       *)

LEMMA StartLogKeeps ==
    ASSUME TxnInv, StartLog
    PROVE  TxnInv'
<1>1. /\ log' = Backfill(log, held, imported, sales) /\ Len(log') <= MaxTxns
      /\ held' = held /\ managed' = managed /\ imported' = imported /\ sales' = sales
    BY DEF StartLog
<1>2. LogOK(log) /\ Linked(log, sales) /\ held \in [Accounts -> LotShares]
      /\ sales \in [Sells -> Sales \cup {None}]
    BY DEF TxnInv
<1>3. LogOK(log') /\ Linked(log', sales)
    BY <1>1, <1>2, BackfillKeeps
<1> QED
    BY <1>1, <1>3 DEF TxnInv

(* A step that leaves the log, the broker rows and the sales alone. *)
QuietStep ==
    /\ log' = log /\ imported' = imported /\ sales' = sales
    /\ held' \in [Accounts -> LotShares]
    /\ managed' \subseteq Accounts

LEMMA QuietKeeps ==
    ASSUME TxnInv, QuietStep
    PROVE  TxnInv'
BY DEF TxnInv, QuietStep

LEMMA ManageQuiet ==
    ASSUME TxnInv, NEW a \in Accounts, Manage(a) \/ Unmanage(a)
    PROVE  QuietStep
BY DEF TxnInv, QuietStep, Manage, Unmanage

LEMMA EditHoldingsQuiet ==
    ASSUME TxnInv, NEW k \in HandLots, NEW n \in 0..MaxShares, EditHoldings(k[1], k[2], n)
    PROVE  QuietStep
<1>1. k[1] \in Accounts /\ k[2] \in Dates /\ n \in Nat
    BY HandAssumption, SizeAssumption
<1>2. held' = [held EXCEPT ![k[1]][k[2]] = n]
    BY DEF EditHoldings
<1>3. held \in [Accounts -> [Dates -> Nat]]
    BY DEF TxnInv, LotShares
<1>4. held' \in [Accounts -> [Dates -> Nat]]
    BY <1>1, <1>2, <1>3
<1> QED
    BY <1>4 DEF TxnInv, QuietStep, EditHoldings, LotShares

-----------------------------------------------------------------------------
(* Every step is of one of four kinds.                                     *)

LEMMA StepKinds ==
    ASSUME TxnInv, [Next]_vars
    PROVE  EditStep \/ SyncStep \/ StartLog \/ QuietStep
<1>1. ASSUME NEW a \in Accounts, NEW n \in 1..MaxShares, NEW d \in SaleDates, AddSale(a, d, n)
      PROVE  EditStep
    BY <1>1, AddSaleEdits
<1>2. ASSUME NEW a \in Accounts, NEW n \in 1..MaxShares, NEW d \in SaleDates,
             NEW b \in Accounts, Transfer(a, b, d, n)
      PROVE  EditStep
    BY <1>2, TransferEdits
<1>3. ASSUME NEW a \in Accounts, NEW n \in 1..MaxShares, NEW i \in DOMAIN log,
             NEW d \in Dates, ReviseLot(i, a, d, n)
      PROVE  EditStep
    BY <1>3, ReviseLotEdits
<1>4. ASSUME NEW i \in DOMAIN log, NEW d \in SaleDates, NEW n \in 1..MaxShares,
             ReviseDisposal(i, d, n)
      PROVE  EditStep
    BY <1>4, ReviseDisposalEdits
<1>5. ASSUME NEW i \in DOMAIN log, Void(i) PROVE EditStep
    BY <1>5, VoidEdits
<1>6. ASSUME NEW a \in Accounts, Manage(a) \/ Unmanage(a) PROVE QuietStep
    BY <1>6, ManageQuiet
<1>7. ASSUME NEW k \in HandLots, NEW n \in 1..MaxShares, AddLot(k[1], k[2], n)
      PROVE  EditStep
    BY <1>7, AddLotEdits
<1>8. ASSUME NEW k \in HandLots, NEW n \in 0..MaxShares, EditHoldings(k[1], k[2], n)
      PROVE  QuietStep
    BY <1>8, EditHoldingsQuiet
<1>9. ASSUME NEW r \in Activities, Import(r) PROVE SyncStep
    BY <1>9, ImportSyncs
<1>10. ASSUME NEW r \in Activities, Revert(r) PROVE SyncStep
    BY <1>10, RevertSyncs
<1>11. ASSUME NEW s \in Sells, ConfirmFromHoldings(s) PROVE SyncStep
    BY <1>11, ConfirmFromHoldingsSyncs
<1>12. ASSUME NEW s \in Sells, ConfirmInLog(s) PROVE SyncStep
    BY <1>12, ConfirmInLogSyncs
<1>13. ASSUME NEW s \in Sells, Undo(s) PROVE SyncStep
    BY <1>13, UndoSyncs
<1>14. CASE UNCHANGED vars
    BY <1>14 DEF vars, QuietStep, TxnInv
<1>15. CASE Next
    BY <1>1, <1>2, <1>3, <1>4, <1>5, <1>6, <1>7, <1>8, <1>9, <1>10, <1>11, <1>12, <1>13,
       <1>15, ZenonT(60) DEF Next
<1> QED
    BY <1>14, <1>15

LEMMA InitKeeps ==
    ASSUME Init
    PROVE  TxnInv
<1>1. /\ held \in [Accounts -> [Dates -> 0..MaxShares]] /\ log = <<>> /\ managed = {}
      /\ imported = [r \in Activities |-> "no"] /\ sales = [s \in Sells |-> None]
    BY DEF Init
<1>2. held \in [Accounts -> LotShares]
    <2>1. \A a \in Accounts : held[a] \in [Dates -> Nat]
        BY <1>1, SizeAssumption
    <2> QED
        BY <1>1, <2>1 DEF LotShares
<1>3. DOMAIN log = {} /\ log \in Seq(Txn) /\ Len(log) = 0
    BY <1>1
<1>4. Live(log) = {} /\ LotsIn(log) = {} /\ Disposals(log) = {}
    BY <1>3 DEF Live, LotsIn, Disposals
<1>5. LogOK(log)
    BY <1>3, <1>4 DEF LogOK, LogTyped, OpenOK, OwnOK
<1>6. Linked(log, sales)
    BY <1>4 DEF Linked, ChainOK, ToldOK
<1>7. Len(log) <= MaxTxns
    BY <1>3, SizeAssumption
<1>8. imported \in [Activities -> Outcomes] /\ sales \in [Sells -> Sales \cup {None}]
    BY <1>1 DEF Outcomes
<1> QED
    BY <1>1, <1>2, <1>5, <1>6, <1>7, <1>8 DEF TxnInv

-----------------------------------------------------------------------------
(* The theorems.                                                           *)

(* However edits, imports, reverts, sales and their undoing follow each    *)
(* other, the log stays well formed, no live lot has given more shares     *)
(* than it has, a live disposal draws on lots of its own account, the      *)
(* chains of corrections mirror a broker row at most once, and a row that  *)
(* mirrors a queued order is the sale of an order that is confirmed.       *)
THEOREM LogInvariant == Spec => []TxnInv
<1>1. TxnInv /\ [Next]_vars => TxnInv'
    BY StepKinds, EditKeeps, SyncStepKeeps, StartLogKeeps, QuietKeeps
<1> QED
    BY <1>1, InitKeeps, PTL DEF Spec

(* The variables keep their types: in particular a row takes from rows of  *)
(* the log and revises an earlier one, and holdings never go negative.     *)
THEOREM LedgerTyped == Spec => []TypeOK
BY LogInvariant, InvTyped, PTL

(* However often the log is rebuilt, released, corrected or restarted, a   *)
(* broker row is logged once: backfill skips whatever a live or a voided   *)
(* row already mirrors.                                                    *)
THEOREM BrokerRowLoggedOnce == Spec => []OneRowPerActivity
<1>1. TxnInv => OneRowPerActivity
    BY ChainIsOneRow DEF TxnInv, LogOK, Linked
<1> QED
    BY <1>1, LogInvariant, PTL

(* No addition, revision, void or transfer by hand breaks a log that       *)
(* replays.                                                                *)
THEOREM EditsReplay == Spec => HandEditsReplay
<1>1. ASSUME TxnInv, [Next]_vars
      PROVE  [UNCHANGED <<imported, sales>> /\ log' # log /\ LogReplays
                => LogReplays' \/ StartLog]_vars
    <2>1. CASE EditStep
        <3>1. PICK l, A : Write(l, A) /\ Edit(l, A)
            BY <2>1 DEF EditStep
        <3>2. log' = l /\ (ReplayOK(log) => ReplayOK(l))
            BY <3>1 DEF Write, Edit
        <3> QED
            BY <3>2 DEF LogReplays
    <2>2. CASE SyncStep
        BY <2>2 DEF SyncStep
    <2>3. CASE QuietStep
        BY <2>3 DEF QuietStep
    <2> QED
        BY <1>1, <2>1, <2>2, <2>3, StepKinds
<1> QED
    BY <1>1, LogInvariant, PTL DEF Spec, HandEditsReplay

(* The holdings of a managed account are rewritten by every step that      *)
(* changes what is open in it, except a log start.                         *)
THEOREM HoldingsFollowLog == Spec => ManagedFollowsLog
<1>1. ASSUME TxnInv, [Next]_vars
      PROVE  [\A a \in managed :
                 log' # log /\ OpenOf(log, a)' # OpenOf(log, a)
                    => held'[a] = OpenOf(log, a)' \/ StartLog]_vars
    <2>1. ASSUME NEW a \in managed, log' # log, OpenOf(log', a) # OpenOf(log, a), EditStep
          PROVE  held'[a] = OpenOf(log', a)
        <3>1. PICK l, A : Write(l, A) /\ Edit(l, A)
            BY <2>1 DEF EditStep
        <3>2. /\ log' = l /\ held' = Materialized(held, l, A) /\ LogOK(l)
              /\ \A b \in Accounts \ A : OpenOf(l, b) = OpenOf(log, b)
            BY <3>1 DEF Write, Edit
        <3>3. a \in Accounts /\ held \in [Accounts -> LotShares]
            BY <1>1 DEF TxnInv
        <3>4. a \in A
            BY <2>1, <3>2, <3>3
        <3> QED
            BY <3>2, <3>3, <3>4, MaterializedTyped
    <2>2. ASSUME NEW a \in managed, log' # log, SyncStep
          PROVE  held'[a] = OpenOf(log', a)
        <3>1. PICK h : SyncedOver(h)
            BY <2>2 DEF SyncStep
        <3>2. h \in [Accounts -> LotShares] /\ LogOK(log') /\ held' = Materialized(h, log', Accounts)
            BY <2>2, <3>1 DEF SyncedOver
        <3>3. a \in Accounts
            BY <1>1 DEF TxnInv
        <3> QED
            BY <3>2, <3>3, MaterializedTyped
    <2>3. CASE QuietStep
        BY <2>3 DEF QuietStep
    <2> QED
        BY <1>1, <2>1, <2>2, <2>3, StepKinds
<1> QED
    BY <1>1, LogInvariant, PTL DEF Spec, ManagedFollowsLog

(* After an import, a revert, a confirmed or an undone sale into a started *)
(* log, no account and date holds more shares than the log has open for    *)
(* them.                                                                   *)
THEOREM SyncsExplain == Spec => SyncExplains
<1>1. ASSUME TxnInv, [Next]_vars
      PROVE  [(imported' # imported \/ sales' # sales) /\ Started(log)
                => \A a \in Accounts, d \in Dates : held'[a][d] <= Logged(log', a, d)]_vars
    <2>1. ASSUME SyncStep, Started(log), NEW a \in Accounts, NEW d \in Dates
          PROVE  held'[a][d] <= Logged(log', a, d)
        <3>1. PICK h : SyncedOver(h)
            BY <2>1 DEF SyncStep
        <3>2. /\ h \in [Accounts -> LotShares] /\ LogOK(log')
              /\ held' = Materialized(h, log', Accounts) /\ h[a][d] <= Logged(log', a, d)
            BY <2>1, <3>1 DEF SyncedOver, Explained
        <3>3. held'[a] = OpenOf(log', a) \/ held'[a] = h[a]
            BY <3>2, MaterializedTyped
        <3>4. OpenOf(log', a)[d] = Logged(log', a, d) /\ Logged(log', a, d) \in Nat
            BY <3>2, LoggedTyped DEF OpenOf, LogOK, LogTyped
        <3> QED
            BY <3>2, <3>3, <3>4
    <2>2. EditStep \/ StartLog \/ QuietStep => imported' = imported /\ sales' = sales
        BY DEF EditStep, StartLog, QuietStep
    <2> QED
        BY <1>1, <2>1, <2>2, StepKinds
<1> QED
    BY <1>1, LogInvariant, PTL DEF Spec, SyncExplains

=============================================================================
