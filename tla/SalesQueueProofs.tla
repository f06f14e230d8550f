--------------------------- MODULE SalesQueueProofs ---------------------------
(***************************************************************************)
(* Proofs about SalesQueue: the lists of rows it is made of, then what     *)
(* confirming and undoing keep, alone and in a batch.                      *)
(***************************************************************************)
EXTENDS SalesQueue, SumsAndFolds, SequenceTheorems

----------------------------------------------------------------------------
(* Row indexes in ascending order                                          *)

Rank(S, i) == Cardinality({j \in S : j < i})
Increasing(f, n) == \A k, l \in 1..n : k < l => f[k] < f[l]

(* Different indexes of a set have different ranks, from 0 up. *)
LEMMA Ranks ==
    ASSUME NEW S \in SUBSET Nat, IsFiniteSet(S)
    PROVE  /\ Cardinality(S) \in Nat
           /\ \A i \in S : Rank(S, i) \in 0..(Cardinality(S) - 1)
           /\ \A i, j \in S : i < j => Rank(S, i) < Rank(S, j)
           /\ \A k \in 1..Cardinality(S) : \E i \in S : Rank(S, i) = k - 1
<1> DEFINE Below(i) == {j \in S : j < i}
<1> DEFINE n == Cardinality(S)
<1>1. n \in Nat
    BY FS_CardinalityType
<1>2. \A i : IsFiniteSet(Below(i)) /\ Cardinality(Below(i)) \in Nat
    <2> TAKE i
    <2>1. Below(i) \in SUBSET S
        OBVIOUS
    <2> QED
        BY <2>1, FS_Subset, FS_CardinalityType
<1>3. \A i \in S : \A T \in SUBSET S :
          Below(i) \cup {i} \subseteq T => Cardinality(Below(i)) + 1 <= Cardinality(T)
    <2> TAKE i \in S
    <2> TAKE T \in SUBSET S
    <2> HAVE Below(i) \cup {i} \subseteq T
    <2>1. i \notin Below(i)
        OBVIOUS
    <2>2. IsFiniteSet(T)
        BY FS_Subset
    <2>3. Cardinality(Below(i) \cup {i}) = Cardinality(Below(i)) + 1
        <3> HIDE DEF Below
        <3> QED
            BY <1>2, <2>1, FS_AddElement
    <2>4. Cardinality(Below(i) \cup {i}) <= Cardinality(T)
        BY <2>2, FS_Subset
    <2> QED
        BY <2>3, <2>4
<1>4. \A i \in S : Cardinality(Below(i)) \in 0..(n - 1)
    <2> TAKE i \in S
    <2>1. Below(i) \cup {i} \subseteq S
        OBVIOUS
    <2>2. Cardinality(Below(i)) + 1 <= n
        BY <1>3, <2>1
    <2> QED
        BY <1>1, <1>2, <2>2
<1>5. \A i, j \in S : i < j => Cardinality(Below(i)) < Cardinality(Below(j))
    <2> TAKE i, j \in S
    <2> HAVE i < j
    <2>0. \A x \in Below(i) : x \in S /\ x < j
        OBVIOUS
    <2>1. Below(i) \cup {i} \subseteq Below(j) /\ Below(j) \in SUBSET S
        BY <2>0
    <2>2. Cardinality(Below(i)) + 1 <= Cardinality(Below(j))
        BY <1>3, <2>1
    <2> QED
        BY <1>2, <2>2
<1>6. \A k \in 1..n : \E i \in S : Cardinality(Below(i)) = k - 1
    <2> DEFINE r == [i \in S |-> Cardinality(Below(i)) + 1]
    <2>0. \A i \in S : r[i] \in 1..n
        <3> TAKE i \in S
        <3> HIDE DEF Below, n
        <3>1. Cardinality(Below(i)) \in 0..(n - 1)
            BY <1>4
        <3>2. r[i] = Cardinality(Below(i)) + 1
            OBVIOUS
        <3> QED
            BY <1>1, <3>1, <3>2
    <2>1. r \in [S -> 1..n]
        BY <2>0
    <2>2. \A i, j \in S : r[i] = r[j] => i = j
        <3> TAKE i, j \in S
        <3> HAVE r[i] = r[j]
        <3>1. Cardinality(Below(i)) = Cardinality(Below(j))
            <4> HIDE DEF Below
            <4>1. Cardinality(Below(i)) \in Nat /\ Cardinality(Below(j)) \in Nat
                BY <1>2
            <4> QED
                BY <4>1
        <3>2. ~(i < j) /\ ~(j < i)
            <4> HIDE DEF Below
            <4>1. Cardinality(Below(i)) \in Nat
                BY <1>2
            <4> QED
                BY <1>5, <3>1, <4>1
        <3>3. i \in Nat /\ j \in Nat
            OBVIOUS
        <3> QED
            BY <3>2, <3>3
    <2>3. r \in Injection(S, 1..n)
        BY <2>1, <2>2 DEF Injection, IsInjective
    <2>4. IsFiniteSet(1..n) /\ Cardinality(1..n) = n
        BY <1>1, FS_Interval
    <2>5. r \in Surjection(S, 1..n)
        BY <2>3, <2>4, FS_Injection
    <2>6. \A k \in 1..n : \E i \in S : r[i] = k
        BY <2>5 DEF Surjection
    <2>7. ASSUME NEW k \in 1..n PROVE \E i \in S : Cardinality(Below(i)) = k - 1
        <3>1. PICK i \in S : r[i] = k
            BY <2>6
        <3> HIDE DEF Below
        <3>2. Cardinality(Below(i)) \in Nat /\ Cardinality(Below(i)) + 1 = k
            BY <1>2, <3>1
        <3>3. Cardinality(Below(i)) = k - 1
            BY <3>2
        <3> QED
            BY <3>3
    <2> QED
        BY <2>7
<1> QED
    BY <1>1, <1>4, <1>5, <1>6 DEF Rank

(* Ascending(S) lists S, each index once and in order. *)
LEMMA AscendingLists ==
    ASSUME NEW S \in SUBSET Nat, IsFiniteSet(S)
    PROVE  /\ Cardinality(S) \in Nat
           /\ DOMAIN Ascending(S) = 1..Cardinality(S)
           /\ Ascending(S) \in Bijection(1..Cardinality(S), S)
           /\ Increasing(Ascending(S), Cardinality(S))
           /\ \A k \in 1..Cardinality(S) : Rank(S, Ascending(S)[k]) = k - 1
<1> DEFINE n == Cardinality(S)
<1> DEFINE at == Ascending(S)
<1>0. n \in Nat
    BY Ranks
<1>1. at = [k \in 1..n |-> CHOOSE i \in S : Rank(S, i) = k - 1]
    BY DEF Ascending, Rank
<1>2. \A k \in 1..n : at[k] \in S /\ Rank(S, at[k]) = k - 1
    <2> TAKE k \in 1..n
    <2>1. \E i \in S : Rank(S, i) = k - 1
        BY Ranks
    <2>2. at[k] = CHOOSE i \in S : Rank(S, i) = k - 1
        BY <1>1
    <2> QED
        BY <2>1, <2>2
<1>3. at \in [1..n -> S]
    BY <1>1, <1>2
<1>4. \A k, l \in 1..n : k < l => at[k] < at[l]
    <2> TAKE k, l \in 1..n
    <2> HAVE k < l
    <2>1. at[k] \in S /\ at[l] \in S /\ Rank(S, at[k]) = k - 1 /\ Rank(S, at[l]) = l - 1
        BY <1>2
    <2>2. at[l] < at[k] => Rank(S, at[l]) < Rank(S, at[k])
        BY <2>1, Ranks
    <2>3. at[l] # at[k]
        BY <2>1
    <2> HIDE DEF at
    <2>4. ~(at[l] < at[k])
        BY <2>1, <2>2
    <2>5. at[k] \in Nat /\ at[l] \in Nat
        BY <2>1
    <2> QED
        BY <2>3, <2>4, <2>5
<1>5. \A i \in S : \E k \in 1..n : at[k] = i
    <2> TAKE i \in S
    <2>1. Rank(S, i) \in 0..(n - 1)
        BY Ranks
    <2>2. Rank(S, i) + 1 \in 1..n /\ (Rank(S, i) + 1) - 1 = Rank(S, i)
        BY <1>0, <2>1
    <2>3. at[Rank(S, i) + 1] \in S /\ Rank(S, at[Rank(S, i) + 1]) = Rank(S, i)
        BY <1>2, <2>2
    <2>4. ASSUME NEW j \in S, Rank(S, j) = Rank(S, i) PROVE j = i
        <3>1. ~(i < j) /\ ~(j < i)
            BY <2>1, <2>4, Ranks
        <3>2. i \in Nat /\ j \in Nat
            OBVIOUS
        <3> QED
            BY <3>1, <3>2
    <2>5. at[Rank(S, i) + 1] = i
        BY <2>3, <2>4
    <2> QED
        BY <2>2, <2>5
<1> HIDE DEF at
<1>6. \A k, l \in 1..n : at[k] = at[l] => k = l
    <2> TAKE k, l \in 1..n
    <2> HAVE at[k] = at[l]
    <2>1. Rank(S, at[k]) = k - 1 /\ Rank(S, at[k]) = l - 1
        BY <1>2
    <2> QED
        BY <2>1
<1>7. at \in Bijection(1..n, S)
    BY <1>3, <1>5, <1>6 DEF Bijection, Injection, Surjection, IsInjective
<1> QED
    BY <1>0, <1>2, <1>3, <1>4, <1>7 DEF Increasing, at

(* Any list of S in ascending order is Ascending(S). *)
LEMMA AscendingIs ==
    ASSUME NEW S \in SUBSET Nat, NEW n \in Nat, NEW f \in [1..n -> S], Increasing(f, n),
           \A i \in S : \E k \in 1..n : f[k] = i
    PROVE  IsFiniteSet(S) /\ Cardinality(S) = n /\ Ascending(S) = f
<1>1. \A k \in 1..n : f[k] \in S /\ f[k] \in Nat
    OBVIOUS
<1>2. \A k, l \in 1..n : f[k] = f[l] => k = l
    <2> TAKE k, l \in 1..n
    <2> HAVE f[k] = f[l]
    <2>1. ~(k < l) /\ ~(l < k)
        BY <1>1 DEF Increasing
    <2> QED
        BY <2>1
<1>3. \A m \in 0..n : \A T : (\A x : x \in T <=> \E l \in 1..m : x = f[l])
                            => IsFiniteSet(T) /\ Cardinality(T) = m
    <2> TAKE m \in 0..n
    <2> TAKE T
    <2> HAVE \A x : x \in T <=> \E l \in 1..m : x = f[l]
    <2> DEFINE b == [l \in 1..m |-> f[l]]
    <2>1. b \in Bijection(1..m, T)
        BY <1>2 DEF Bijection, Injection, Surjection, IsInjective
    <2>2. IsFiniteSet(1..m) /\ Cardinality(1..m) = m
        BY FS_Interval
    <2>3. ExistsBijection(1..m, T)
        BY <2>1 DEF ExistsBijection
    <2> QED
        BY <2>2, <2>3, FS_Bijection
<1>4. IsFiniteSet(S) /\ Cardinality(S) = n
    <2>1. \A x : x \in S <=> \E l \in 1..n : x = f[l]
        OBVIOUS
    <2>2. n \in 0..n
        OBVIOUS
    <2> QED
        BY <1>3, <2>1, <2>2
<1>5. \A k \in 1..n : Rank(S, f[k]) = k - 1
    <2> TAKE k \in 1..n
    <2> DEFINE T == {j \in S : j < f[k]}
    <2>1. \A l \in 1..n : f[l] < f[k] <=> l <= k - 1
        <3> TAKE l \in 1..n
        <3>1. l < k => f[l] < f[k]
            BY DEF Increasing
        <3>2. k < l => f[k] < f[l]
            BY DEF Increasing
        <3> QED
            BY <1>1, <3>1, <3>2
    <2>2. \A x : x \in T => \E l \in 1..(k - 1) : x = f[l]
        <3> TAKE x
        <3> HAVE x \in T
        <3>1. PICK l \in 1..n : f[l] = x
            OBVIOUS
        <3>2. l \in 1..(k - 1)
            BY <2>1, <3>1
        <3> QED
            BY <3>1, <3>2
    <2>3. \A l \in 1..(k - 1) : f[l] \in T
        <3> TAKE l \in 1..(k - 1)
        <3>1. l \in 1..n /\ l <= k - 1
            OBVIOUS
        <3> QED
            BY <2>1, <3>1
    <2>4. \A x : x \in T <=> \E l \in 1..(k - 1) : x = f[l]
        <3> HIDE DEF T
        <3> QED
            BY <2>2, <2>3
    <2> HIDE DEF T
    <2>5. k - 1 \in 0..n
        OBVIOUS
    <2>6. Cardinality(T) = k - 1
        BY <1>3, <2>4, <2>5
    <2> QED
        BY <2>6 DEF Rank, T
<1>6. /\ Ascending(S) \in [1..n -> S]
      /\ \A k \in 1..n : Rank(S, Ascending(S)[k]) = k - 1
    <2>1. Ascending(S) \in Bijection(1..n, S)
        BY <1>4, AscendingLists
    <2> QED
        BY <1>4, <2>1, AscendingLists DEF Bijection, Injection
<1>7. \A k \in 1..n : Ascending(S)[k] = f[k]
    <2> TAKE k \in 1..n
    <2> DEFINE i == Ascending(S)[k]
    <2> DEFINE j == f[k]
    <2>1. i \in S /\ j \in S /\ Rank(S, i) = k - 1 /\ Rank(S, j) = k - 1
        BY <1>1, <1>5, <1>6
    <2> HIDE DEF i, j
    <2>2. ~(i < j) /\ ~(j < i)
        BY <1>4, <2>1, Ranks
    <2>3. i = j
        BY <2>1, <2>2
    <2> QED
        BY <2>3 DEF i, j
<1> QED
    BY <1>4, <1>6, <1>7

----------------------------------------------------------------------------
(* The shares of a lot                                                     *)

Counts(s) == \A i \in DOMAIN s : s[i].shares \in Nat
LotWeight(s, lot) == [i \in DOMAIN s |-> IF s[i].lot = lot THEN s[i].shares ELSE 0]

(* The shares of a lot, as a sum over all the rows. *)
LEMMA LotShareSum ==
    ASSUME NEW s, IsFiniteSet(DOMAIN s), Counts(s), NEW lot
    PROVE  /\ LotShares(s, lot) = SumFunctionOnSet(LotWeight(s, lot), DOMAIN s)
           /\ LotShares(s, lot) \in Nat
           /\ NatOn(LotWeight(s, lot), DOMAIN s)
           /\ IntOn(LotWeight(s, lot), DOMAIN s)
<1> DEFINE D == DOMAIN s
<1> DEFINE of == {i \in D : s[i].lot = lot}
<1> DEFINE w == LotWeight(s, lot)
<1> DEFINE shares == [i \in D |-> s[i].shares]
<1>1. NatOn(w, D)
    BY DEF NatOn, LotWeight, Counts
<1>2. \A i \in D \ of : w[i] = 0
    BY DEF LotWeight
<1>3. SameOn(shares, w, of)
    BY DEF SameOn, LotWeight
<1>4. of \in SUBSET D
    OBVIOUS
<1>5. LotShares(s, lot) = SumFunctionOnSet(shares, of)
    BY DEF LotShares
<1> HIDE DEF D, of, w, shares
<1>6. IsFiniteSet(D) /\ IsFiniteSet(of) /\ IsFiniteSet(D \ of) /\ IntOn(w, D)
    <2>1. D \ of \in SUBSET D
        OBVIOUS
    <2>2. IsFiniteSet(D)
        BY DEF D
    <2> QED
        BY <1>1, <1>4, <2>1, <2>2, FS_Subset, NatIsInt
<1>7. SumFunctionOnSet(shares, of) = SumFunctionOnSet(w, of)
    BY <1>3, <1>6, SumEqual
<1>8. SumFunctionOnSet(w, D \ of) = 0
    BY <1>2, <1>6, SumZero
<1>9. /\ SumFunctionOnSet(w, D) = SumFunctionOnSet(w, of) + SumFunctionOnSet(w, D \ of)
      /\ SumFunctionOnSet(w, of) \in Int
    BY <1>4, <1>6, SumWithout
<1>10. SumFunctionOnSet(w, D) \in Nat
    BY <1>1, <1>6, SumIsNat
<1>11. SumFunctionOnSet(w, D) = SumFunctionOnSet(w, of)
    BY <1>8, <1>9
<1>12. LotShares(s, lot) = SumFunctionOnSet(w, D)
    BY <1>5, <1>7, <1>11
<1> QED
    BY <1>1, <1>6, <1>10, <1>12 DEF w, D

(* Rows may move, and rows without shares may come or go. *)
LEMMA LotSharesMoved ==
    ASSUME NEW s, IsFiniteSet(DOMAIN s), Counts(s),
           NEW t, IsFiniteSet(DOMAIN t), Counts(t),
           NEW P \in SUBSET DOMAIN t, NEW b \in Bijection(DOMAIN s, P),
           \A k \in DOMAIN s : t[b[k]].lot = s[k].lot /\ t[b[k]].shares = s[k].shares,
           \A i \in DOMAIN t \ P : t[i].shares = 0,
           NEW lot
    PROVE  LotShares(s, lot) = LotShares(t, lot)
<1> DEFINE D == DOMAIN t
<1> DEFINE v == LotWeight(s, lot)
<1> DEFINE w == LotWeight(t, lot)
<1>1. LotShares(s, lot) = SumFunctionOnSet(v, DOMAIN s) /\ IntOn(v, DOMAIN s)
    BY LotShareSum
<1>2. LotShares(t, lot) = SumFunctionOnSet(w, D) /\ IntOn(w, D)
    BY LotShareSum
<1>3. \A k \in DOMAIN s : b[k] \in P
    BY DEF Bijection, Injection
<1>4. RenamedBy(b, v, w, DOMAIN s)
    BY <1>3 DEF RenamedBy, LotWeight
<1>5. \A i \in D \ P : w[i] = 0
    BY DEF LotWeight
<1>6. IsFiniteSet(D) /\ P \in SUBSET D /\ D \ P \in SUBSET D
    OBVIOUS
<1> HIDE DEF D, v, w
<1>7. SumFunctionOnSet(w, P) = SumFunctionOnSet(v, DOMAIN s)
    BY <1>1, <1>4, SumRenamed
<1>8. SumFunctionOnSet(w, D \ P) = 0
    BY <1>5, <1>6, SumZero, FS_Subset
<1>9. /\ SumFunctionOnSet(w, D) = SumFunctionOnSet(w, P) + SumFunctionOnSet(w, D \ P)
      /\ SumFunctionOnSet(w, P) \in Int
    BY <1>2, <1>6, SumWithout
<1>10. SumFunctionOnSet(w, D) = SumFunctionOnSet(w, P)
    BY <1>8, <1>9
<1> QED
    BY <1>1, <1>2, <1>7, <1>10

(* The rows of a sequence have the shares of its parts. *)
LEMMA LotSharesConcat ==
    ASSUME NEW V, NEW s \in Seq(V), NEW t \in Seq(V), Counts(s), Counts(t), NEW lot
    PROVE  /\ s \o t \in Seq(V)
           /\ Counts(s \o t)
           /\ LotShares(s \o t, lot) = LotShares(s, lot) + LotShares(t, lot)
<1> DEFINE u == s \o t
<1> DEFINE m == Len(s)
<1> DEFINE n == Len(t)
<1>1. /\ u \in Seq(V)
      /\ Len(u) = m + n
      /\ \A i \in 1..(m + n) : u[i] = IF i <= m THEN s[i] ELSE t[i - m]
    BY ConcatProperties
<1>2. m \in Nat /\ n \in Nat /\ DOMAIN s = 1..m /\ DOMAIN t = 1..n /\ DOMAIN u = 1..(m + n)
    <2>1. DOMAIN u = 1..Len(u)
        BY <1>1, LenProperties
    <2> QED
        BY <1>1, <2>1, LenProperties
<1> HIDE DEF u, m, n
<1>3. /\ \A i \in 1..m : i \in 1..(m + n) /\ u[i] = s[i]
      /\ \A i \in 1..n : i + m \in 1..(m + n) /\ u[i + m] = t[i]
    <2>1. \A i \in 1..m : i \in 1..(m + n) /\ u[i] = s[i]
        BY <1>1, <1>2
    <2>2. ASSUME NEW i \in 1..n PROVE i + m \in 1..(m + n) /\ u[i + m] = t[i]
        <3>1. i + m \in 1..(m + n) /\ ~(i + m <= m) /\ (i + m) - m = i
            BY <1>2
        <3> QED
            BY <1>1, <3>1
    <2> QED
        BY <2>1, <2>2
<1>4. \A i \in (m + 1)..(m + n) : i - m \in 1..n /\ u[i] = t[i - m]
    <2> TAKE i \in (m + 1)..(m + n)
    <2>1. i - m \in 1..n /\ i \in 1..(m + n) /\ ~(i <= m)
        BY <1>2
    <2> QED
        BY <1>1, <2>1
<1>5. Counts(u)
    <2>1. ASSUME NEW i \in 1..(m + n) PROVE u[i].shares \in Nat
        <3>1. CASE i <= m
            <4>1. i \in 1..m
                BY <1>2, <3>1
            <4> QED
                BY <1>2, <1>3, <4>1 DEF Counts
        <3>2. CASE ~(i <= m)
            <4>1. i \in (m + 1)..(m + n)
                BY <1>2, <3>2
            <4> QED
                BY <1>2, <1>4, <4>1 DEF Counts
        <3> QED
            BY <3>1, <3>2
    <2> QED
        BY <1>2, <2>1 DEF Counts
<1> DEFINE w == LotWeight(u, lot)
<1> DEFINE second == (m + 1)..(m + n)
<1>6. /\ IsFiniteSet(1..m) /\ IsFiniteSet(1..n) /\ IsFiniteSet(second)
      /\ IsFiniteSet(1..(m + n)) /\ (1..m) \cap second = {} /\ (1..m) \cup second = 1..(m + n)
    <2>1. m + 1 \in Int /\ m + n \in Int /\ m \in Int /\ n \in Int
        BY <1>2
    <2>2. (1..m) \cap second = {} /\ (1..m) \cup second = 1..(m + n)
        BY <1>2
    <2> QED
        BY <2>1, <2>2, FS_Interval
<1>7. LotShares(u, lot) = SumFunctionOnSet(w, 1..(m + n)) /\ IntOn(w, 1..(m + n))
    BY <1>2, <1>5, <1>6, LotShareSum
<1>8. /\ LotShares(s, lot) = SumFunctionOnSet(LotWeight(s, lot), 1..m)
      /\ LotShares(t, lot) = SumFunctionOnSet(LotWeight(t, lot), 1..n)
      /\ IntOn(LotWeight(t, lot), 1..n)
    BY <1>2, <1>6, LotShareSum
<1>9. SameOn(LotWeight(s, lot), w, 1..m)
    BY <1>2, <1>3 DEF SameOn, LotWeight
<1> DEFINE b == [i \in 1..n |-> i + m]
<1>10. b \in Bijection(1..n, second)
    <2>1. b \in [1..n -> second]
        BY <1>2
    <2>2. \A i, j \in 1..n : b[i] = b[j] => i = j
        BY <1>2
    <2>3. \A k \in second : \E i \in 1..n : b[i] = k
        <3> TAKE k \in second
        <3>1. k - m \in 1..n /\ (k - m) + m = k
            BY <1>2
        <3> QED
            BY <3>1
    <2> QED
        BY <2>1, <2>2, <2>3 DEF Bijection, Injection, Surjection, IsInjective
<1>11. RenamedBy(b, LotWeight(t, lot), w, 1..n)
    BY <1>2, <1>3 DEF RenamedBy, LotWeight
<1> HIDE DEF w, second, b
<1>12. SumFunctionOnSet(LotWeight(s, lot), 1..m) = SumFunctionOnSet(w, 1..m)
    BY <1>6, <1>9, SumEqual
<1>13. SumFunctionOnSet(w, second) = SumFunctionOnSet(LotWeight(t, lot), 1..n)
    BY <1>6, <1>8, <1>10, <1>11, SumRenamed
<1>14. IntOn(w, (1..m) \cup second)
    BY <1>6, <1>7
<1>15. SumFunctionOnSet(w, (1..m) \cup second)
          = SumFunctionOnSet(w, 1..m) + SumFunctionOnSet(w, second)
    BY <1>6, <1>14, SumDisjoint
<1>16. LotShares(u, lot) = LotShares(s, lot) + LotShares(t, lot)
    BY <1>6, <1>7, <1>8, <1>12, <1>13, <1>15
<1> QED
    BY <1>1, <1>5, <1>16 DEF u

(* One row more or fewer shares. *)
LEMMA LotSharesChanged ==
    ASSUME NEW s, IsFiniteSet(DOMAIN s), Counts(s), NEW t, DOMAIN t = DOMAIN s, Counts(t),
           NEW p \in DOMAIN s, NEW n \in Int,
           t[p].lot = s[p].lot, t[p].shares = s[p].shares + n,
           \A i \in DOMAIN s \ {p} : t[i].lot = s[i].lot /\ t[i].shares = s[i].shares,
           NEW lot
    PROVE  LotShares(t, lot) = LotShares(s, lot) + (IF s[p].lot = lot THEN n ELSE 0)
<1> DEFINE D == DOMAIN s
<1> DEFINE v == LotWeight(s, lot)
<1> DEFINE w == LotWeight(t, lot)
<1>1. LotShares(s, lot) = SumFunctionOnSet(v, D) /\ IntOn(v, D)
    BY LotShareSum
<1>2. LotShares(t, lot) = SumFunctionOnSet(w, D) /\ IntOn(w, D)
    <2>1. IsFiniteSet(DOMAIN t)
        OBVIOUS
    <2> QED
        BY <2>1, LotShareSum
<1>3. w[p] = v[p] + (IF s[p].lot = lot THEN n ELSE 0)
    <2>1. s[p].shares \in Nat
        BY DEF Counts
    <2>2. v[p] = IF s[p].lot = lot THEN s[p].shares ELSE 0
        BY DEF LotWeight
    <2>3. w[p] = IF s[p].lot = lot THEN s[p].shares + n ELSE 0
        BY DEF LotWeight
    <2> QED
        BY <2>1, <2>2, <2>3
<1>4. SameOn(w, v, D \ {p})
    BY DEF SameOn, LotWeight
<1>5. p \in D /\ IsFiniteSet(D) /\ D \ {p} \in SUBSET D
    OBVIOUS
<1> HIDE DEF D, v, w
<1>6. SumFunctionOnSet(v, D) = v[p] + SumFunctionOnSet(v, D \ {p})
    BY <1>1, <1>5, SumPick
<1>7. SumFunctionOnSet(w, D) = w[p] + SumFunctionOnSet(w, D \ {p})
    BY <1>2, <1>5, SumPick
<1>8. SumFunctionOnSet(w, D \ {p}) = SumFunctionOnSet(v, D \ {p})
    BY <1>4, <1>5, SumEqual, FS_Subset
<1>9. v[p] \in Int /\ SumFunctionOnSet(v, D \ {p}) \in Int
    <2>1. v[p] \in Int
        BY <1>1, <1>5 DEF IntOn
    <2>2. SumFunctionOnSet(v, D \ {p}) \in Int
        BY <1>1, <1>5, SumWithout
    <2> QED
        BY <2>1, <2>2
<1> QED
    BY <1>1, <1>2, <1>3, <1>6, <1>7, <1>8, <1>9

(* One row. *)
LEMMA LotSharesOne ==
    ASSUME NEW V, NEW e \in V, e.shares \in Nat, NEW lot
    PROVE  /\ <<e>> \in Seq(V) /\ Len(<<e>>) = 1 /\ <<e>>[1] = e
           /\ Counts(<<e>>)
           /\ LotShares(<<e>>, lot) = IF e.lot = lot THEN e.shares ELSE 0
<1> DEFINE s == <<e>>
<1> DEFINE w == LotWeight(s, lot)
<1>1. s \in Seq(V) /\ Len(s) = 1 /\ s[1] = e /\ DOMAIN s = 1..1 /\ 1..1 = {1} /\ DOMAIN s = {1}
    OBVIOUS
<1>2. Counts(s)
    BY <1>1 DEF Counts
<1>3. w[1] = IF e.lot = lot THEN e.shares ELSE 0
    BY <1>1 DEF LotWeight
<1> HIDE DEF s
<1>4. LotShares(s, lot) = SumFunctionOnSet(w, {1}) /\ IntOn(w, {1})
    <2>1. IsFiniteSet(DOMAIN s)
        BY <1>1, FS_Singleton
    <2> QED
        BY <1>1, <1>2, <2>1, LotShareSum
<1> HIDE DEF w
<1>5. SumFunctionOnSet(w, {1}) = w[1]
    <2>1. {1} \ {1} = {} /\ 1 \in {1}
        OBVIOUS
    <2>2. SumFunctionOnSet(w, {1}) = w[1] + SumFunctionOnSet(w, {1} \ {1})
        BY <1>4, <2>1, FS_Singleton, SumPick
    <2>3. SumFunctionOnSet(w, {1} \ {1}) = 0
        BY <2>1, SumEmpty
    <2>4. w[1] \in Int
        BY <1>4 DEF IntOn
    <2> QED
        BY <2>2, <2>3, <2>4
<1> QED
    BY <1>1, <1>2, <1>3, <1>4, <1>5 DEF s

(* The rows up to the k-th, and the rows after it. *)
LEMMA LotSharesNat ==
    ASSUME NEW V, NEW s \in Seq(V), Counts(s), NEW lot
    PROVE  LotShares(s, lot) \in Nat /\ IsFiniteSet(DOMAIN s)
<1>1. DOMAIN s = 1..Len(s) /\ Len(s) \in Nat
    BY LenProperties
<1>2. IsFiniteSet(DOMAIN s)
    BY <1>1, FS_Interval
<1> QED
    BY <1>2, LotShareSum

LEMMA LotSharesParts ==
    ASSUME NEW V, NEW s \in Seq(V), Counts(s), NEW k \in 0..Len(s)
    PROVE  /\ SubSeq(s, 1, k) \in Seq(V) /\ Counts(SubSeq(s, 1, k))
           /\ SubSeq(s, k + 1, Len(s)) \in Seq(V) /\ Counts(SubSeq(s, k + 1, Len(s)))
           /\ s = SubSeq(s, 1, k) \o SubSeq(s, k + 1, Len(s))
<1>1. DOMAIN s = 1..Len(s) /\ Len(s) \in Nat /\ \A i \in 1..Len(s) : s[i] \in V
    BY LenProperties, ElementOfSeq
<1>2. ASSUME NEW m \in Int, NEW n \in Int, 1 <= m, n <= Len(s)
      PROVE  SubSeq(s, m, n) \in Seq(V) /\ Counts(SubSeq(s, m, n))
    <2> DEFINE t == SubSeq(s, m, n)
    <2>1. \A i \in m..n : i \in 1..Len(s)
        BY <1>1, <1>2
    <2>2. /\ t \in Seq(V)
          /\ Len(t) = IF m <= n THEN n - m + 1 ELSE 0
          /\ \A i \in 1..(n - m + 1) : t[i] = s[m + i - 1]
        BY <1>1, <2>1, SubSeqProperties
    <2> HIDE DEF t
    <2>3. DOMAIN t = 1..Len(t)
        BY <2>2, LenProperties
    <2>4. ASSUME NEW i \in DOMAIN t PROVE t[i].shares \in Nat
        <3>1. i \in 1..(n - m + 1) /\ m + i - 1 \in 1..Len(s)
            BY <1>1, <1>2, <2>2, <2>3
        <3>2. t[i] = s[m + i - 1] /\ s[m + i - 1].shares \in Nat
            BY <1>1, <2>2, <3>1 DEF Counts
        <3> QED
            BY <3>2
    <2>5. Counts(t)
        BY <2>4 DEF Counts
    <2> QED
        BY <2>2, <2>5 DEF t
<1>3. s = SubSeq(s, 1, k) \o SubSeq(s, k + 1, Len(s))
    <2>1. 1 \in 1..(Len(s) + 1) /\ k \in (1 - 1)..Len(s) /\ Len(s) \in k..Len(s)
        BY <1>1
    <2>2. SubSeq(s, 1, k) \o SubSeq(s, k + 1, Len(s)) = SubSeq(s, 1, Len(s))
        BY <2>1, ConcatAdjacentSubSeq
    <2> QED
        BY <2>2, SubSeqFull
<1>4. SubSeq(s, 1, k) \in Seq(V) /\ Counts(SubSeq(s, 1, k))
    <2>1. 1 \in Int /\ k \in Int /\ 1 <= 1 /\ k <= Len(s)
        BY <1>1
    <2> QED
        BY <1>2, <2>1
<1>5. SubSeq(s, k + 1, Len(s)) \in Seq(V) /\ Counts(SubSeq(s, k + 1, Len(s)))
    <2>1. k + 1 \in Int /\ Len(s) \in Int /\ 1 <= k + 1 /\ Len(s) <= Len(s)
        BY <1>1
    <2> QED
        BY <1>2, <2>1
<1> QED
    BY <1>3, <1>4, <1>5

(* A row put in, and a row taken out. *)
LEMMA LotSharesInserted ==
    ASSUME NEW V, NEW s \in Seq(V), Counts(s), NEW at \in 1..(Len(s) + 1),
           NEW e \in V, e.shares \in Nat, NEW lot
    PROVE  /\ InsertAt(s, at, e) \in Seq(V)
           /\ LotShares(InsertAt(s, at, e), lot)
                 = LotShares(s, lot) + (IF e.lot = lot THEN e.shares ELSE 0)
<1> DEFINE a == SubSeq(s, 1, at - 1)
<1> DEFINE b == SubSeq(s, at, Len(s))
<1> DEFINE d == <<e>>
<1>1. a \in Seq(V) /\ b \in Seq(V) /\ Counts(a) /\ Counts(b) /\ s = a \o b
    <2>1. at - 1 \in 0..Len(s) /\ (at - 1) + 1 = at
        BY LenProperties
    <2> QED
        BY <2>1, LotSharesParts
<1>2. d \in Seq(V) /\ Counts(d)
      /\ LotShares(d, lot) = IF e.lot = lot THEN e.shares ELSE 0
    BY LotSharesOne DEF d
<1> HIDE DEF a, b, d
<1>3. LotShares(s, lot) = LotShares(a, lot) + LotShares(b, lot)
    BY <1>1, LotSharesConcat
<1>4. /\ a \o d \in Seq(V) /\ Counts(a \o d)
      /\ LotShares(a \o d, lot) = LotShares(a, lot) + LotShares(d, lot)
    BY <1>1, <1>2, LotSharesConcat
<1>5. /\ (a \o d) \o b \in Seq(V)
      /\ LotShares((a \o d) \o b, lot) = LotShares(a \o d, lot) + LotShares(b, lot)
    <2> DEFINE c == a \o d
    <2>1. c \in Seq(V) /\ Counts(c)
        BY <1>4
    <2> HIDE DEF c
    <2>2. c \o b \in Seq(V) /\ LotShares(c \o b, lot) = LotShares(c, lot) + LotShares(b, lot)
        BY <1>1, <2>1, LotSharesConcat
    <2> QED
        BY <2>2 DEF c
<1>6. LotShares(a, lot) \in Nat /\ LotShares(b, lot) \in Nat
    BY <1>1, LotSharesNat
<1>7. InsertAt(s, at, e) = (a \o d) \o b
    BY DEF InsertAt, a, b, d
<1> QED
    BY <1>2, <1>3, <1>4, <1>5, <1>6, <1>7

LEMMA LotSharesRemoved ==
    ASSUME NEW V, NEW s \in Seq(V), Counts(s), NEW p \in DOMAIN s, NEW lot
    PROVE  /\ RemoveAt(s, p) \in Seq(V)
           /\ LotShares(s, lot) = LotShares(RemoveAt(s, p), lot)
                                  + (IF s[p].lot = lot THEN s[p].shares ELSE 0)
           /\ LotShares(RemoveAt(s, p), lot) \in Nat
<1> DEFINE a == SubSeq(s, 1, p - 1)
<1> DEFINE b == SubSeq(s, p + 1, Len(s))
<1> DEFINE c == SubSeq(s, 1, p)
<1> DEFINE e == s[p]
<1> DEFINE d == <<e>>
<1>0. /\ p \in 1..Len(s) /\ DOMAIN s = 1..Len(s) /\ Len(s) \in Nat
      /\ p \in 0..Len(s) /\ p - 1 \in 0..Len(s)
    BY LenProperties
<1>1. e \in V /\ e.shares \in Nat
    BY <1>0, ElementOfSeq DEF Counts
<1>2. b \in Seq(V) /\ Counts(b) /\ c \in Seq(V) /\ Counts(c) /\ s = c \o b
    BY <1>0, LotSharesParts
<1>3. a \in Seq(V) /\ Counts(a)
    BY <1>0, LotSharesParts
<1>4. c = a \o d
    <2>1. 1 \in 1..Len(s) /\ p \in 1..Len(s)
        BY <1>0
    <2> QED
        BY <2>1, SubSeqRecursiveSecond
<1>5. RemoveAt(s, p) = a \o b
    BY DEF RemoveAt
<1> HIDE DEF a, b, c, d
<1>6. d \in Seq(V) /\ Counts(d)
      /\ LotShares(d, lot) = IF e.lot = lot THEN e.shares ELSE 0
    BY <1>1, LotSharesOne DEF d
<1> HIDE DEF e
<1>7. LotShares(s, lot) = LotShares(c, lot) + LotShares(b, lot)
    BY <1>2, LotSharesConcat
<1>8. LotShares(c, lot) = LotShares(a, lot) + LotShares(d, lot)
    BY <1>3, <1>4, <1>6, LotSharesConcat
<1>9. a \o b \in Seq(V) /\ LotShares(a \o b, lot) = LotShares(a, lot) + LotShares(b, lot)
    BY <1>2, <1>3, LotSharesConcat
<1>10. LotShares(a, lot) \in Nat /\ LotShares(b, lot) \in Nat
    BY <1>2, <1>3, LotSharesNat
<1>11. LotShares(s, lot) = LotShares(a \o b, lot) + (IF e.lot = lot THEN e.shares ELSE 0)
    <2> DEFINE x == IF e.lot = lot THEN e.shares ELSE 0
    <2>1. x \in Nat
        BY <1>1
    <2> HIDE DEF x
    <2>2. LotShares(d, lot) = x
        BY <1>6 DEF x
    <2>3. LotShares(s, lot) = LotShares(a \o b, lot) + x
        BY <1>7, <1>8, <1>9, <1>10, <2>1, <2>2
    <2> QED
        BY <2>3 DEF x
<1>12. LotShares(a \o b, lot) \in Nat
    BY <1>9, <1>10
<1> QED
    BY <1>5, <1>9, <1>11, <1>12 DEF e

----------------------------------------------------------------------------
(* Giving shares back                                                      *)

HeldRow == [lot : Lots, shares : Nat \ {0}]
LedgerRow == [lot : Lots, index : Nat \ {0}, shares : Nat \ {0},
              live : BOOLEAN, official : BOOLEAN]

LEMMA RowsCount ==
    /\ \A s \in Seq(HeldRow) : Counts(s)
    /\ \A s \in Seq(LedgerRow) : Counts(s)
<1>1. ASSUME NEW s \in Seq(HeldRow) PROVE Counts(s)
    <2>1. \A i \in DOMAIN s : s[i] \in HeldRow
        BY LenProperties, ElementOfSeq
    <2> QED
        BY <2>1 DEF Counts, HeldRow
<1>2. ASSUME NEW s \in Seq(LedgerRow) PROVE Counts(s)
    <2>1. \A i \in DOMAIN s : s[i] \in LedgerRow
        BY LenProperties, ElementOfSeq
    <2> QED
        BY <2>1 DEF Counts, LedgerRow
<1> QED
    BY <1>1, <1>2

(* A ledger row goes to the first row of its lot, or back in as a new one. *)
LEMMA GiveBackCases ==
    ASSUME NEW h \in Seq(HeldRow), NEW sale \in LedgerRow
    PROVE  \/ /\ \A i \in DOMAIN h : h[i].lot # sale.lot
              /\ \E at \in 1..(Len(h) + 1) :
                    /\ at = IF sale.index <= Len(h) THEN sale.index ELSE Len(h) + 1
                    /\ GiveBack(h, sale)
                          = InsertAt(h, at, [lot |-> sale.lot, shares |-> sale.shares])
           \/ \E p \in DOMAIN h :
                    /\ h[p].lot = sale.lot
                    /\ \A i \in DOMAIN h : h[i].lot = sale.lot => p <= i
                    /\ GiveBack(h, sale) = [h EXCEPT ![p].shares = @ + sale.shares]
<1> DEFINE spots == {i \in DOMAIN h : h[i].lot = sale.lot}
<1> DEFINE first == CHOOSE i \in spots : \A j \in spots : i <= j
<1> DEFINE at == IF sale.index <= Len(h) THEN sale.index ELSE Len(h) + 1
<1> DEFINE new == InsertAt(h, at, [lot |-> sale.lot, shares |-> sale.shares])
<1> DEFINE more == [h EXCEPT ![first].shares = @ + sale.shares]
<1>0. DOMAIN h = 1..Len(h) /\ Len(h) \in Nat /\ sale.index \in Nat \ {0}
    BY LenProperties DEF LedgerRow
<1>1. GiveBack(h, sale) = IF spots = {} THEN new ELSE more
    BY DEF GiveBack
<1>2. CASE spots = {}
    <2>1. at \in 1..(Len(h) + 1)
        BY <1>0
    <2>2. GiveBack(h, sale) = new
        BY <1>1, <1>2
    <2>3. \A i \in DOMAIN h : h[i].lot # sale.lot
        BY <1>2
    <2> QED
        BY <2>1, <2>2, <2>3
<1>3. CASE spots # {}
    <2>1. spots \in SUBSET Nat
        BY <1>0
    <2>2. \E m \in spots : \A i \in spots : m <= i
        <3> HIDE DEF spots
        <3> QED
            BY <1>3, <2>1, LeastNat
    <2>3. first \in spots /\ \A j \in spots : first <= j
        <3> HIDE DEF spots
        <3> QED
            BY <2>2
    <2>4. GiveBack(h, sale) = more
        BY <1>1, <1>3
    <2> HIDE DEF first
    <2>5. /\ first \in DOMAIN h /\ h[first].lot = sale.lot
          /\ \A i \in DOMAIN h : h[i].lot = sale.lot => first <= i
        BY <2>3
    <2> QED
        BY <2>4, <2>5
<1> QED
    BY <1>2, <1>3

(* Giving one ledger row back adds its shares to its lot. *)
LEMMA GiveBackAdds ==
    ASSUME NEW h \in Seq(HeldRow), NEW sale \in LedgerRow
    PROVE  /\ GiveBack(h, sale) \in Seq(HeldRow)
           /\ \A lot : LotShares(GiveBack(h, sale), lot)
                          = LotShares(h, lot) + (IF sale.lot = lot THEN sale.shares ELSE 0)
<1> DEFINE e == [lot |-> sale.lot, shares |-> sale.shares]
<1>0. sale.lot \in Lots /\ sale.shares \in Nat \ {0}
    BY DEF LedgerRow
<1>1. e \in HeldRow /\ e.shares \in Nat /\ e.lot = sale.lot /\ e.shares = sale.shares
    BY <1>0 DEF HeldRow
<1>2. Counts(h)
    BY RowsCount
<1>3. CASE \E at \in 1..(Len(h) + 1) : GiveBack(h, sale) = InsertAt(h, at, e)
    <2>1. PICK at \in 1..(Len(h) + 1) : GiveBack(h, sale) = InsertAt(h, at, e)
        BY <1>3
    <2> HIDE DEF e
    <2>2. ASSUME NEW lot
          PROVE  /\ InsertAt(h, at, e) \in Seq(HeldRow)
                 /\ LotShares(InsertAt(h, at, e), lot)
                       = LotShares(h, lot) + (IF e.lot = lot THEN e.shares ELSE 0)
        BY <1>1, <1>2, LotSharesInserted
    <2> QED
        BY <1>1, <2>1, <2>2
<1>4. CASE \E p \in DOMAIN h :
              h[p].lot = sale.lot /\ GiveBack(h, sale) = [h EXCEPT ![p].shares = @ + sale.shares]
    <2>1. PICK p \in DOMAIN h :
              h[p].lot = sale.lot /\ GiveBack(h, sale) = [h EXCEPT ![p].shares = @ + sale.shares]
        BY <1>4
    <2> DEFINE r == [h[p] EXCEPT !.shares = @ + sale.shares]
    <2> DEFINE t == [h EXCEPT ![p] = r]
    <2>2. p \in 1..Len(h) /\ DOMAIN h = 1..Len(h) /\ h[p] \in HeldRow
        BY LenProperties, ElementOfSeq
    <2>3. r \in HeldRow /\ r.lot = h[p].lot /\ r.shares = h[p].shares + sale.shares
        BY <1>0, <2>2 DEF HeldRow
    <2>4. GiveBack(h, sale) = t
        BY <2>1
    <2> HIDE DEF r
    <2>5. t \in Seq(HeldRow) /\ DOMAIN t = DOMAIN h
        BY <2>2, <2>3, ExceptSeq
    <2>6. t[p] = r /\ \A i \in DOMAIN h \ {p} : t[i] = h[i]
        BY <2>2
    <2> HIDE DEF t
    <2>7. Counts(t) /\ IsFiniteSet(DOMAIN h)
        BY <2>2, <2>5, RowsCount, LotSharesNat, <1>2
    <2>8. sale.shares \in Int /\ t[p].lot = h[p].lot /\ t[p].shares = h[p].shares + sale.shares
          /\ \A i \in DOMAIN h \ {p} : t[i].lot = h[i].lot /\ t[i].shares = h[i].shares
        BY <1>0, <2>3, <2>6
    <2>9. ASSUME NEW lot
          PROVE  LotShares(t, lot)
                    = LotShares(h, lot) + (IF h[p].lot = lot THEN sale.shares ELSE 0)
        BY <1>2, <2>5, <2>7, <2>8, LotSharesChanged
    <2> QED
        BY <2>1, <2>4, <2>5, <2>9
<1> QED
    BY <1>3, <1>4, GiveBackCases, ZenonT(60)

(* Giving several back, one after another. *)
GivesBack(g, h, rows) ==
    /\ g \in [0..Len(rows) -> Seq(HeldRow)]
    /\ g[0] = h
    /\ \A k \in 1..Len(rows) : g[k] = GiveBack(g[k - 1], rows[k])

LEMMA GivingBack ==
    ASSUME NEW h \in Seq(HeldRow), NEW rows \in Seq(LedgerRow)
    PROVE  \E g : GivesBack(g, h, rows) /\ g[Len(rows)] = FoldLeft(GiveBack, h, rows)
<1> DEFINE n == Len(rows)
<1> DEFINE V == Seq(HeldRow)
<1> DEFINE step == [p \in V \X (1..n) |-> GiveBack(p[1], rows[p[2]])]
<1> DEFINE Folds(I) ==
        I = [s \in SUBSET (1..n) |->
                IF s = {} THEN h ELSE GiveBack(I[s \ {Max(s)}], rows[Max(s)])]
<1> DEFINE J == CHOOSE I : Folds(I)
<1>1. n \in Nat /\ DOMAIN rows = 1..n /\ h \in V /\ \A k \in 1..n : rows[k] \in LedgerRow
    BY LenProperties, ElementOfSeq
<1>2. FoldLeft(GiveBack, h, rows) = J[1..n]
    BY <1>1 DEF FoldLeft, MapThenFoldSet
<1> HIDE DEF n
<1>3. \A v \in V, k \in 1..n : step[<<v, k>>] = GiveBack(v, rows[k])
    OBVIOUS
<1>4. StepsIn(step, V, n)
    <2>1. \A p \in V \X (1..n) : GiveBack(p[1], rows[p[2]]) \in V
        BY <1>1, GiveBackAdds
    <2>2. step \in [V \X (1..n) -> V]
        BY <2>1
    <2> HIDE DEF step, V
    <2> QED
        BY <2>2 DEF StepsIn
<1> HIDE DEF step, V
<1>5. \E I : Folds(I)
    <2>1. PICK I : FoldsIn(I, V, n, h, step)
        BY <1>1, <1>4, FoldExists
    <2>2. \A s \in SUBSET (1..n) :
              I[s] = IF s = {} THEN h ELSE GiveBack(I[s \ {Max(s)}], rows[Max(s)])
        <3> TAKE s \in SUBSET (1..n)
        <3>1. CASE s = {}
            BY <2>1, <3>1 DEF FoldsIn
        <3>2. CASE s # {}
            <4>1. Max(s) \in 1..n
                BY <1>1, <3>2, GreatestIn
            <4>2. \A m : I[s \ {m}] \in V
                BY <2>1 DEF FoldsIn
            <4>3. I[s] = step[<<I[s \ {Max(s)}], Max(s)>>]
                BY <2>1, <3>2 DEF FoldsIn, LastStep
            <4> QED
                BY <1>3, <3>2, <4>1, <4>2, <4>3
        <3> QED
            BY <3>1, <3>2
    <2>3. I = [s \in SUBSET (1..n) |-> I[s]]
        BY <2>1 DEF FoldsIn
    <2>4. Folds(I)
        BY <2>2, <2>3
    <2> HIDE DEF Folds
    <2> QED
        BY <2>4
<1> HIDE DEF Folds
<1>6. Folds(J)
    BY <1>5
<1> HIDE DEF J
<1>7. FoldsWithin(J, V, n, h, step)
    <2>1. J[{}] = h
        BY <1>6 DEF Folds
    <2>2. ASSUME NEW s \in SUBSET (1..n), s # {}, J[s \ {Max(s)}] \in V
          PROVE  J[s] = LastStep(J, step, s)
        <3>1. Max(s) \in 1..n
            BY <1>1, <2>2, GreatestIn
        <3>2. J[s] = GiveBack(J[s \ {Max(s)}], rows[Max(s)])
            BY <1>6, <2>2 DEF Folds
        <3> QED
            BY <1>3, <2>2, <3>1, <3>2 DEF LastStep
    <2> QED
        BY <2>1, <2>2 DEF FoldsWithin
<1>8. PICK g : Passes(g, V, n, h, step) /\ g[n] = J[1..n]
    BY <1>1, <1>4, <1>7, FoldSteps
<1>9. \A k \in 1..n : g[k] = GiveBack(g[k - 1], rows[k])
    <2> TAKE k \in 1..n
    <2>1. k - 1 \in 0..n
        BY <1>1
    <2>2. g[k - 1] \in V
        BY <1>8, <2>1 DEF Passes
    <2> QED
        BY <1>3, <1>8, <2>2 DEF Passes
<1>10. GivesBack(g, h, rows)
    BY <1>8, <1>9 DEF GivesBack, Passes, n, V
<1> QED
    BY <1>2, <1>8, <1>10 DEF n

(* What comes back is what the ledger rows hold. *)
LEMMA AllGivenBack ==
    ASSUME NEW h \in Seq(HeldRow), NEW rows \in Seq(LedgerRow)
    PROVE  /\ FoldLeft(GiveBack, h, rows) \in Seq(HeldRow)
           /\ \A lot : LotShares(FoldLeft(GiveBack, h, rows), lot)
                          = LotShares(h, lot) + LotShares(rows, lot)
<1> DEFINE n == Len(rows)
<1>1. PICK g : GivesBack(g, h, rows) /\ g[Len(rows)] = FoldLeft(GiveBack, h, rows)
    BY GivingBack
<1>2. n \in Nat /\ DOMAIN rows = 1..n /\ \A k \in 1..n : rows[k] \in LedgerRow
    BY LenProperties, ElementOfSeq
<1>3. /\ \A k \in 0..n : g[k] \in Seq(HeldRow)
      /\ g[0] = h
      /\ \A k \in 1..n : g[k] = GiveBack(g[k - 1], rows[k])
    BY <1>1 DEF GivesBack
<1>4. ASSUME NEW lot
      PROVE  LotShares(g[n], lot) = LotShares(h, lot) + LotShares(rows, lot)
    <2> DEFINE w == LotWeight(rows, lot)
    <2> DEFINE N == {k \in Nat : k <= n =>
                        LotShares(g[k], lot) = LotShares(h, lot) + SumFunctionOnSet(w, 1..k)}
    <2>1. /\ IsFiniteSet(1..n)
          /\ LotShares(rows, lot) = SumFunctionOnSet(w, 1..n)
          /\ IntOn(w, 1..n)
        <3>1. IsFiniteSet(1..n)
            BY <1>2, FS_Interval
        <3>2. Counts(rows)
            BY RowsCount
        <3> QED
            BY <1>2, <3>1, <3>2, LotShareSum
    <2>2. LotShares(h, lot) \in Nat
        BY RowsCount, LotSharesNat
    <2>3. \A k \in 1..n : w[k] = IF rows[k].lot = lot THEN rows[k].shares ELSE 0
        BY <1>2 DEF LotWeight
    <2> HIDE DEF n, w
    <2>4. 0 \in N
        <3>1. 1..0 = {}
            OBVIOUS
        <3>2. SumFunctionOnSet(w, 1..0) = 0
            BY <3>1, SumEmpty
        <3> QED
            BY <1>3, <2>2, <3>2
    <2>5. ASSUME NEW k \in Nat, k \in N PROVE k + 1 \in N
        <3>1. SUFFICES ASSUME k + 1 <= n
              PROVE  LotShares(g[k + 1], lot)
                        = LotShares(h, lot) + SumFunctionOnSet(w, 1..(k + 1))
            OBVIOUS
        <3>2. LotShares(g[k], lot) = LotShares(h, lot) + SumFunctionOnSet(w, 1..k)
            BY <1>2, <2>5, <3>1
        <3>3. k + 1 \in 1..n /\ (k + 1) - 1 = k /\ k \in 0..n
            BY <1>2, <3>1
        <3>4. g[k + 1] = GiveBack(g[k], rows[k + 1])
            BY <1>3, <3>3
        <3>5. LotShares(GiveBack(g[k], rows[k + 1]), lot) = LotShares(g[k], lot) + w[k + 1]
            <4>1. g[k] \in Seq(HeldRow) /\ rows[k + 1] \in LedgerRow
                BY <1>2, <1>3, <3>3
            <4>2. LotShares(GiveBack(g[k], rows[k + 1]), lot) = LotShares(g[k], lot)
                     + (IF rows[k + 1].lot = lot THEN rows[k + 1].shares ELSE 0)
                BY <4>1, GiveBackAdds
            <4>3. w[k + 1] = IF rows[k + 1].lot = lot THEN rows[k + 1].shares ELSE 0
                BY <2>3, <3>3
            <4> QED
                BY <4>2, <4>3
        <3>6. (1..k) \cup {k + 1} = 1..(k + 1) /\ k + 1 \notin 1..k /\ 1..(k + 1) \subseteq 1..n
            BY <1>2, <3>1
        <3>7. IsFiniteSet(1..k) /\ IntOn(w, (1..k) \cup {k + 1})
            BY <2>1, <3>6, FS_Interval DEF IntOn
        <3>8. /\ SumFunctionOnSet(w, (1..k) \cup {k + 1}) = SumFunctionOnSet(w, 1..k) + w[k + 1]
              /\ SumFunctionOnSet(w, 1..k) \in Int
              /\ w[k + 1] \in Int
            BY <3>6, <3>7, SumAdd
        <3>9. SumFunctionOnSet(w, 1..(k + 1)) = SumFunctionOnSet(w, 1..k) + w[k + 1]
            BY <3>6, <3>8
        <3>10. LotShares(g[k + 1], lot) = LotShares(g[k], lot) + w[k + 1]
            BY <3>4, <3>5
        <3> QED
            BY <2>2, <3>2, <3>8, <3>9, <3>10
    <2> HIDE DEF N
    <2>6. \A k \in Nat : k \in N
        BY <2>4, <2>5, NatSet
    <2>7. LotShares(g[n], lot) = LotShares(h, lot) + SumFunctionOnSet(w, 1..n)
        <3>1. n \in N
            BY <1>2, <2>6
        <3> QED
            BY <1>2, <3>1 DEF N
    <2> QED
        BY <2>1, <2>7
<1>5. g[n] \in Seq(HeldRow)
    BY <1>2, <1>3
<1> QED
    BY <1>1, <1>4, <1>5

----------------------------------------------------------------------------
(* The queue                                                               *)

Entry == [state : States, rows : Seq(LedgerRow)]
QueueOK(q) ==
    /\ q \in [Orders -> Entry]
    /\ \A o \in Orders : q[o].rows # <<>> <=> q[o].state = "confirmed"
BookOK(b) ==
    /\ b = Book(b.held, b.queue)
    /\ b.held \in Seq(HeldRow)
    /\ QueueOK(b.queue)

Taken(q, lot) == SumFunction([o \in Orders |-> LotShares(q[o].rows, lot)])
Kept(b, lot) == LotShares(b.held, lot) + Taken(b.queue, lot)

(* What the orders took of a lot changes with the rows of one order. *)
LEMMA TakenChanged ==
    ASSUME NEW q \in [Orders -> Entry], NEW o \in Orders, NEW e \in Entry, NEW lot
    PROVE  /\ [q EXCEPT ![o] = e] \in [Orders -> Entry]
           /\ Taken([q EXCEPT ![o] = e], lot) + LotShares(q[o].rows, lot)
                 = Taken(q, lot) + LotShares(e.rows, lot)
           /\ Taken([q EXCEPT ![o] = e], lot) \in Int
<1> DEFINE r == [q EXCEPT ![o] = e]
<1> DEFINE v == [x \in Orders |-> LotShares(q[x].rows, lot)]
<1> DEFINE w == [x \in Orders |-> LotShares(r[x].rows, lot)]
<1>0. IsFiniteSet(Orders)
    BY SoldAssumption
<1>1. r \in [Orders -> Entry] /\ r[o] = e /\ \A x \in Orders \ {o} : r[x] = q[x]
    OBVIOUS
<1>2. Taken(q, lot) = SumFunctionOnSet(v, Orders) /\ Taken(r, lot) = SumFunctionOnSet(w, Orders)
    BY DEF Taken, SumFunction
<1> HIDE DEF r
<1>3. \A z \in Entry : LotShares(z.rows, lot) \in Int
    <2> TAKE z \in Entry
    <2>1. z.rows \in Seq(LedgerRow)
        BY DEF Entry
    <2>2. LotShares(z.rows, lot) \in Nat
        BY <2>1, RowsCount, LotSharesNat
    <2> QED
        BY <2>2
<1>4. IntOn(v, Orders) /\ IntOn(w, Orders)
    BY <1>1, <1>3 DEF IntOn
<1>5. SameOn(w, v, Orders \ {o})
    BY <1>1 DEF SameOn
<1>6. v[o] = LotShares(q[o].rows, lot) /\ w[o] = LotShares(e.rows, lot)
    BY <1>1
<1> HIDE DEF v, w
<1>7. SumFunctionOnSet(v, Orders) = v[o] + SumFunctionOnSet(v, Orders \ {o})
    BY <1>0, <1>4, SumPick
<1>8. SumFunctionOnSet(w, Orders) = w[o] + SumFunctionOnSet(w, Orders \ {o})
    BY <1>0, <1>4, SumPick
<1>9. Orders \ {o} \in SUBSET Orders
    OBVIOUS
<1>10. SumFunctionOnSet(w, Orders \ {o}) = SumFunctionOnSet(v, Orders \ {o})
    BY <1>0, <1>5, <1>9, SumEqual, FS_Subset
<1>11. SumFunctionOnSet(v, Orders \ {o}) \in Int
    BY <1>0, <1>4, <1>9, SumWithout
<1>12. v[o] \in Int /\ w[o] \in Int
    BY <1>4 DEF IntOn
<1>13. /\ Taken(r, lot) + v[o] = Taken(q, lot) + w[o]
       /\ Taken(r, lot) \in Int
    BY <1>2, <1>7, <1>8, <1>10, <1>11, <1>12
<1> QED
    BY <1>1, <1>6, <1>13 DEF r

LEMMA TakenIsNat ==
    ASSUME NEW q \in [Orders -> Entry], NEW lot
    PROVE  Taken(q, lot) \in Nat
<1> DEFINE v == [x \in Orders |-> LotShares(q[x].rows, lot)]
<1>1. \A x \in Orders : LotShares(q[x].rows, lot) \in Nat
    <2> TAKE x \in Orders
    <2>1. q[x].rows \in Seq(LedgerRow)
        BY DEF Entry
    <2> QED
        BY <2>1, RowsCount, LotSharesNat
<1>2. NatOn(v, Orders)
    BY <1>1 DEF NatOn
<1>3. Taken(q, lot) = SumFunctionOnSet(v, Orders)
    BY DEF Taken, SumFunction
<1> HIDE DEF v
<1> QED
    BY <1>2, <1>3, SumIsNat, SoldAssumption

(* Undoing an order keeps every share, and leaves it without rows. *)
LEMMA UndoneKeeps ==
    ASSUME NEW b, BookOK(b), NEW o \in Orders
    PROVE  BookOK(Undone(b, o)) /\ \A lot : Kept(Undone(b, o), lot) = Kept(b, lot)
<1> DEFINE rows == b.queue[o].rows
<1> DEFINE h == FoldLeft(GiveBack, b.held, rows)
<1> DEFINE e == [state |-> "unmatched", rows |-> <<>>]
<1> DEFINE q == [b.queue EXCEPT ![o] = e]
<1>0. /\ b.held \in Seq(HeldRow) /\ b.queue \in [Orders -> Entry]
      /\ rows \in Seq(LedgerRow)
      /\ \A x \in Orders : b.queue[x].rows # <<>> <=> b.queue[x].state = "confirmed"
    BY DEF BookOK, QueueOK, Entry
<1>1. h \in Seq(HeldRow)
      /\ \A lot : LotShares(h, lot) = LotShares(b.held, lot) + LotShares(rows, lot)
    <2> HIDE DEF rows
    <2> QED
        BY <1>0, AllGivenBack
<1>2. e \in Entry /\ e.rows = <<>> /\ e.state = "unmatched"
    BY EmptySeq DEF Entry, States
<1>3. Undone(b, o) = Book(h, q)
    BY DEF Undone, Returned
<1>4. Book(h, q).held = h /\ Book(h, q).queue = q
    BY DEF Book
<1>5. \A lot : LotShares(<<>>, lot) = 0
    <2> TAKE lot
    <2>1. DOMAIN <<>> = {} /\ {i \in DOMAIN <<>> : <<>>[i].lot = lot} = {}
        OBVIOUS
    <2> QED
        BY <2>1, SumEmpty DEF LotShares
<1> HIDE DEF e, h
<1>6. q \in [Orders -> Entry] /\ q[o] = e /\ \A x \in Orders \ {o} : q[x] = b.queue[x]
    BY <1>0, <1>2
<1>7. QueueOK(q)
    <2>1. \A x \in Orders : q[x].rows # <<>> <=> q[x].state = "confirmed"
        BY <1>0, <1>2, <1>6
    <2> QED
        BY <1>6, <2>1 DEF QueueOK
<1>8. ASSUME NEW lot
      PROVE  /\ Taken(q, lot) + LotShares(rows, lot) = Taken(b.queue, lot) + LotShares(e.rows, lot)
             /\ Taken(q, lot) \in Int
    BY <1>0, <1>2, TakenChanged
<1> HIDE DEF q, rows
<1>9. ASSUME NEW lot PROVE LotShares(h, lot) + Taken(q, lot)
                              = LotShares(b.held, lot) + Taken(b.queue, lot)
    <2>1. LotShares(b.held, lot) \in Nat /\ LotShares(rows, lot) \in Nat
        BY <1>0, RowsCount, LotSharesNat
    <2>2. Taken(b.queue, lot) \in Int
        BY <1>0, TakenIsNat
    <2> QED
        BY <1>1, <1>2, <1>5, <1>8, <2>1, <2>2
<1> QED
    BY <1>1, <1>3, <1>4, <1>7, <1>9 DEF BookOK, Kept

----------------------------------------------------------------------------
(* Confirming                                                              *)

(* RowsAt(s, S) has the rows of s at S, in their order. *)
LEMMA RowsAtLists ==
    ASSUME NEW n \in Nat, NEW s, DOMAIN s = 1..n, NEW S \in SUBSET (1..n)
    PROVE  /\ S \in SUBSET Nat /\ IsFiniteSet(S)
           /\ Cardinality(S) \in Nat
           /\ DOMAIN RowsAt(s, S) = 1..Cardinality(S)
           /\ RowsAt(s, S) = [k \in 1..Cardinality(S) |-> s[Ascending(S)[k]]]
           /\ \A k \in 1..Cardinality(S) : Ascending(S)[k] \in S
           /\ \A i \in S : \E k \in 1..Cardinality(S) : Ascending(S)[k] = i
<1>1. S \in SUBSET Nat /\ IsFiniteSet(S)
    <2>1. IsFiniteSet(1..n)
        BY FS_Interval
    <2>2. IsFiniteSet(S)
        BY <2>1, FS_Subset
    <2>3. S \in SUBSET Nat
        OBVIOUS
    <2> QED
        BY <2>2, <2>3
<1>2. /\ Cardinality(S) \in Nat
      /\ DOMAIN Ascending(S) = 1..Cardinality(S)
      /\ Ascending(S) \in Bijection(1..Cardinality(S), S)
    BY <1>1, AscendingLists
<1>3. /\ \A k \in 1..Cardinality(S) : Ascending(S)[k] \in S
      /\ \A i \in S : \E k \in 1..Cardinality(S) : Ascending(S)[k] = i
    BY <1>2 DEF Bijection, Injection, Surjection
<1>4. RowsAt(s, S) = [k \in 1..Cardinality(S) |-> s[Ascending(S)[k]]]
    BY <1>2 DEF RowsAt
<1> QED
    BY <1>1, <1>2, <1>3, <1>4

LEMMA RowsAtTyped ==
    ASSUME NEW n \in Nat, NEW s, DOMAIN s = 1..n, NEW S \in SUBSET (1..n),
           NEW V, \A i \in S : s[i] \in V
    PROVE  RowsAt(s, S) \in Seq(V) /\ Len(RowsAt(s, S)) = Cardinality(S)
<1> DEFINE m == Cardinality(S)
<1> DEFINE t == RowsAt(s, S)
<1>1. /\ m \in Nat
      /\ t = [k \in 1..m |-> s[Ascending(S)[k]]]
      /\ \A k \in 1..m : Ascending(S)[k] \in S
    BY RowsAtLists
<1> HIDE DEF m, t
<1>2. t \in [1..m -> V]
    BY <1>1
<1> QED
    BY <1>1, <1>2 DEF m, t

(* RowsAt keeps the shares when the rows it leaves out have none. *)
LEMMA RowsAtShares ==
    ASSUME NEW n \in Nat, NEW s, DOMAIN s = 1..n, Counts(s), NEW S \in SUBSET (1..n),
           \A i \in (1..n) \ S : s[i].shares = 0, NEW lot
    PROVE  LotShares(RowsAt(s, S), lot) = LotShares(s, lot)
<1> DEFINE m == Cardinality(S)
<1> DEFINE t == RowsAt(s, S)
<1> DEFINE b == Ascending(S)
<1>1. /\ S \in SUBSET Nat /\ IsFiniteSet(S) /\ m \in Nat /\ DOMAIN t = 1..m
      /\ \A k \in 1..m : b[k] \in S /\ t[k] = s[b[k]]
    BY RowsAtLists
<1>2. b \in Bijection(1..m, S)
    BY <1>1, AscendingLists
<1> HIDE DEF m, t, b
<1>3. IsFiniteSet(DOMAIN t) /\ IsFiniteSet(DOMAIN s)
    <2>1. IsFiniteSet(1..m) /\ IsFiniteSet(1..n)
        BY <1>1, FS_Interval
    <2> QED
        BY <1>1, <2>1
<1>4. Counts(t)
    BY <1>1 DEF Counts
<1>5. /\ S \in SUBSET DOMAIN s
      /\ b \in Bijection(DOMAIN t, S)
      /\ \A k \in DOMAIN t : s[b[k]].lot = t[k].lot /\ s[b[k]].shares = t[k].shares
      /\ \A i \in DOMAIN s \ S : s[i].shares = 0
    BY <1>1, <1>2
<1>6. LotShares(t, lot) = LotShares(s, lot)
    BY <1>3, <1>4, <1>5, LotSharesMoved, ZenonT(60)
<1> QED
    BY <1>6 DEF t

LeftRow == [lot : Lots, shares : Nat]
PickOK(alloc) == \A i \in DOMAIN alloc : alloc[i] \in Nat \ {0}
Fits(h, alloc) == DOMAIN alloc \subseteq DOMAIN h /\ \A i \in DOMAIN alloc : alloc[i] <= h[i].shares
TakenAt(alloc, i) == IF i \in DOMAIN alloc THEN alloc[i] ELSE 0

LEMMA ReducedRows ==
    ASSUME NEW h \in Seq(HeldRow), NEW alloc, PickOK(alloc), Fits(h, alloc)
    PROVE  /\ Reduced(h, alloc) \in Seq(LeftRow)
           /\ DOMAIN Reduced(h, alloc) = 1..Len(h)
           /\ \A i \in 1..Len(h) :
                 /\ TakenAt(alloc, i) \in Nat /\ TakenAt(alloc, i) <= h[i].shares
                 /\ Reduced(h, alloc)[i] \in LeftRow
                 /\ Reduced(h, alloc)[i].lot = h[i].lot
                 /\ Reduced(h, alloc)[i].shares = h[i].shares - TakenAt(alloc, i)
<1> DEFINE r == Reduced(h, alloc)
<1>1. DOMAIN h = 1..Len(h) /\ Len(h) \in Nat /\ \A i \in 1..Len(h) : h[i] \in HeldRow
    BY LenProperties, ElementOfSeq
<1>2. r = [i \in 1..Len(h) |-> [h[i] EXCEPT !.shares = @ - TakenAt(alloc, i)]]
    BY <1>1 DEF Reduced, TakenAt
<1> HIDE DEF r
<1>3. ASSUME NEW i \in 1..Len(h)
      PROVE  /\ TakenAt(alloc, i) \in Nat /\ TakenAt(alloc, i) <= h[i].shares
             /\ r[i] \in LeftRow
             /\ r[i].lot = h[i].lot /\ r[i].shares = h[i].shares - TakenAt(alloc, i)
    <2> DEFINE a == TakenAt(alloc, i)
    <2>1. h[i] \in HeldRow /\ h[i].shares \in Nat
        BY <1>1 DEF HeldRow
    <2>2. a \in Nat /\ a <= h[i].shares
        BY <2>1 DEF TakenAt, PickOK, Fits
    <2>3. r[i] = [h[i] EXCEPT !.shares = @ - a]
        BY <1>2
    <2> HIDE DEF a
    <2>4. r[i] \in LeftRow /\ r[i].lot = h[i].lot /\ r[i].shares = h[i].shares - a
        BY <2>1, <2>2, <2>3 DEF HeldRow, LeftRow
    <2> QED
        BY <2>2, <2>4 DEF a
<1>4. r \in Seq(LeftRow) /\ DOMAIN r = 1..Len(h)
    <2>1. r \in [1..Len(h) -> LeftRow]
        BY <1>2, <1>3
    <2> QED
        BY <1>1, <2>1
<1> QED
    BY <1>3, <1>4 DEF r

(* The ledger rows of an order: one for each row it takes shares from. *)
LedgerRows(h, alloc) ==
    [k \in DOMAIN Ascending(DOMAIN alloc) |->
        [lot |-> h[Ascending(DOMAIN alloc)[k]].lot, index |-> Ascending(DOMAIN alloc)[k],
         shares |-> alloc[Ascending(DOMAIN alloc)[k]], live |-> TRUE, official |-> FALSE]]
Emptied(h, alloc) == {i \in DOMAIN alloc : alloc[i] = h[i].shares}

LEMMA ConfirmedIs ==
    ASSUME NEW b, b.held \in Seq(HeldRow), NEW alloc, PickOK(alloc), Fits(b.held, alloc), NEW o
    PROVE  Confirmed(b, o, alloc) =
              Book(RowsAt(Reduced(b.held, alloc), (1..Len(b.held)) \ Emptied(b.held, alloc)),
                   [b.queue EXCEPT ![o] =
                       [state |-> "confirmed", rows |-> LedgerRows(b.held, alloc)]])
<1> DEFINE h == b.held
<1> DEFINE left == Reduced(h, alloc)
<1> DEFINE some == {i \in DOMAIN left : left[i].shares > 0}
<1>1. /\ DOMAIN left = 1..Len(h)
      /\ \A i \in 1..Len(h) : left[i].shares = h[i].shares - TakenAt(alloc, i)
    BY ReducedRows
<1>2. \A i \in 1..Len(h) : h[i].shares \in Nat \ {0}
    <2>1. \A i \in 1..Len(h) : h[i] \in HeldRow
        BY ElementOfSeq
    <2> QED
        BY <2>1 DEF HeldRow
<1>3. \A i \in 1..Len(h) : left[i].shares > 0 <=> i \notin Emptied(h, alloc)
    <2> HIDE DEF left, h
    <2> TAKE i \in 1..Len(h)
    <2>1. CASE i \in DOMAIN alloc
        <3>1. left[i].shares = h[i].shares - alloc[i] /\ alloc[i] \in Nat /\ alloc[i] <= h[i].shares
            BY <1>1, <2>1 DEF TakenAt, PickOK, Fits, h
        <3>2. left[i].shares > 0 <=> alloc[i] # h[i].shares
            BY <1>2, <3>1
        <3> QED
            BY <2>1, <3>2 DEF Emptied
    <2>2. CASE i \notin DOMAIN alloc
        <3>1. left[i].shares = h[i].shares - 0
            BY <1>1, <2>2 DEF TakenAt
        <3>2. left[i].shares > 0
            BY <1>2, <3>1
        <3> QED
            BY <2>2, <3>2 DEF Emptied
    <2> QED
        BY <2>1, <2>2
<1> HIDE DEF left, h
<1>4. some = (1..Len(h)) \ Emptied(h, alloc)
    BY <1>1, <1>3
<1>5. Confirmed(b, o, alloc) = Book(RowsAt(left, some),
                                  [b.queue EXCEPT ![o] =
                                      [state |-> "confirmed", rows |-> LedgerRows(h, alloc)]])
    BY DEF Confirmed, Recorded, LedgerRows, h, left
<1> HIDE DEF some
<1> QED
    BY <1>4, <1>5 DEF h, left

LEMMA LedgerRowsTyped ==
    ASSUME NEW h \in Seq(HeldRow), NEW alloc, PickOK(alloc), Fits(h, alloc)
    PROVE  LET m == Cardinality(DOMAIN alloc)
               at == Ascending(DOMAIN alloc)
               rows == LedgerRows(h, alloc)
           IN  /\ m \in Nat /\ (DOMAIN alloc # {} => m > 0)
               /\ DOMAIN alloc \in SUBSET (1..Len(h)) /\ IsFiniteSet(DOMAIN alloc)
               /\ DOMAIN alloc \in SUBSET Nat
               /\ at \in Bijection(1..m, DOMAIN alloc)
               /\ Increasing(at, m)
               /\ rows \in Seq(LedgerRow) /\ Len(rows) = m /\ DOMAIN rows = 1..m
               /\ \A k \in 1..m :
                     /\ at[k] \in DOMAIN alloc
                     /\ rows[k].lot = h[at[k]].lot
                     /\ rows[k].index = at[k]
                     /\ rows[k].shares = alloc[at[k]]
                     /\ rows[k].official = FALSE
<1> DEFINE P == DOMAIN alloc
<1> DEFINE m == Cardinality(P)
<1> DEFINE at == Ascending(P)
<1> DEFINE rows == LedgerRows(h, alloc)
<1>1. DOMAIN h = 1..Len(h) /\ Len(h) \in Nat /\ \A i \in 1..Len(h) : h[i] \in HeldRow
    BY LenProperties, ElementOfSeq
<1>2. P \in SUBSET (1..Len(h)) /\ P \in SUBSET Nat /\ IsFiniteSet(P)
    <2>1. P \in SUBSET (1..Len(h))
        BY <1>1 DEF Fits
    <2>2. P \in SUBSET Nat
        BY <1>1, <2>1
    <2>3. IsFiniteSet(1..Len(h))
        BY <1>1, FS_Interval
    <2> HIDE DEF P
    <2> QED
        BY <2>1, <2>2, <2>3, FS_Subset
<1>3. /\ m \in Nat
      /\ DOMAIN at = 1..m
      /\ at \in Bijection(1..m, P)
      /\ Increasing(at, m)
    BY <1>2, AscendingLists
<1>4. \A k \in 1..m : at[k] \in P
    BY <1>3 DEF Bijection, Injection
<1>5. P # {} => m > 0
    <2> HIDE DEF P
    <2>1. P # {} => m # 0
        BY <1>2, FS_EmptySet
    <2> QED
        BY <1>3, <2>1
<1>6. rows = [k \in 1..m |-> [lot |-> h[at[k]].lot, index |-> at[k],
                              shares |-> alloc[at[k]], live |-> TRUE, official |-> FALSE]]
    BY <1>3 DEF LedgerRows
<1> HIDE DEF rows, at, m
<1>7. \A k \in 1..m : rows[k] \in LedgerRow
    <2> TAKE k \in 1..m
    <2>1. at[k] \in P /\ alloc[at[k]] \in Nat \ {0}
        BY <1>4 DEF PickOK
    <2>2. at[k] \in 1..Len(h)
        BY <1>2, <2>1
    <2>3. h[at[k]].lot \in Lots /\ at[k] \in Nat \ {0}
        BY <1>1, <2>2 DEF HeldRow
    <2> QED
        BY <1>6, <2>1, <2>3 DEF LedgerRow
<1>8. rows \in Seq(LedgerRow) /\ Len(rows) = m /\ DOMAIN rows = 1..m
    <2>1. rows \in [1..m -> LedgerRow]
        BY <1>6, <1>7
    <2> QED
        BY <1>3, <2>1
<1>9. \A k \in 1..m : /\ rows[k].lot = h[at[k]].lot
                      /\ rows[k].index = at[k]
                      /\ rows[k].shares = alloc[at[k]]
                      /\ rows[k].official = FALSE
    BY <1>6
<1> QED
    BY <1>2, <1>3, <1>4, <1>5, <1>8, <1>9 DEF rows, at, m

(* What the ledger rows hold of a lot is what the rows left have lost. *)
LEMMA LedgerShares ==
    ASSUME NEW h \in Seq(HeldRow), NEW alloc, PickOK(alloc), Fits(h, alloc), NEW lot
    PROVE  LotShares(h, lot) = LotShares(Reduced(h, alloc), lot)
                               + LotShares(LedgerRows(h, alloc), lot)
<1> DEFINE n == Len(h)
<1> DEFINE left == Reduced(h, alloc)
<1> DEFINE rows == LedgerRows(h, alloc)
<1> DEFINE P == DOMAIN alloc
<1> DEFINE m == Cardinality(P)
<1> DEFINE at == Ascending(P)
<1> DEFINE taken == [i \in 1..n |-> [lot |-> h[i].lot, shares |-> TakenAt(alloc, i)]]
<1>1. n \in Nat /\ DOMAIN h = 1..n /\ Counts(h)
    BY LenProperties, RowsCount
<1>2. /\ left \in Seq(LeftRow) /\ DOMAIN left = 1..n
      /\ \A i \in 1..n : /\ TakenAt(alloc, i) \in Nat /\ TakenAt(alloc, i) <= h[i].shares
                         /\ left[i].lot = h[i].lot
                         /\ left[i].shares = h[i].shares - TakenAt(alloc, i)
                         /\ left[i] \in LeftRow
    BY ReducedRows
<1>3. /\ m \in Nat /\ P \in SUBSET (1..n)
      /\ at \in Bijection(1..m, P)
      /\ rows \in Seq(LedgerRow) /\ DOMAIN rows = 1..m
      /\ \A k \in 1..m : at[k] \in P /\ rows[k].lot = h[at[k]].lot
                         /\ rows[k].shares = alloc[at[k]]
    BY LedgerRowsTyped
<1>p. P = DOMAIN alloc
    OBVIOUS
<1> HIDE DEF n, left, rows, P, m, at
<1>4. IsFiniteSet(1..n) /\ IsFiniteSet(1..m)
    BY <1>1, <1>3, FS_Interval, SMTT(20)
<1>5. DOMAIN taken = 1..n /\ Counts(taken) /\ Counts(left) /\ Counts(rows)
    <2>1. Counts(left)
        BY <1>2 DEF Counts, LeftRow
    <2>2. Counts(taken)
        BY <1>2 DEF Counts
    <2>3. Counts(rows)
        BY <1>3, RowsCount
    <2> QED
        BY <2>1, <2>2, <2>3
<1>6. LotShares(rows, lot) = LotShares(taken, lot)
    <2>1. /\ IsFiniteSet(DOMAIN rows) /\ IsFiniteSet(DOMAIN taken)
          /\ P \in SUBSET DOMAIN taken /\ at \in Bijection(DOMAIN rows, P)
        BY <1>3, <1>4
    <2>2. \A k \in DOMAIN rows : taken[at[k]].lot = rows[k].lot
                                 /\ taken[at[k]].shares = rows[k].shares
        BY <1>3, <1>p DEF TakenAt
    <2>3. \A i \in DOMAIN taken \ P : taken[i].shares = 0
        BY <1>p DEF TakenAt
    <2> HIDE DEF taken
    <2> QED
        BY <1>5, <2>1, <2>2, <2>3, LotSharesMoved
<1>7. /\ LotShares(h, lot) = SumFunctionOnSet(LotWeight(h, lot), 1..n)
      /\ LotShares(left, lot) = SumFunctionOnSet(LotWeight(left, lot), 1..n)
      /\ LotShares(taken, lot) = SumFunctionOnSet(LotWeight(taken, lot), 1..n)
      /\ IntOn(LotWeight(left, lot), 1..n)
      /\ IntOn(LotWeight(taken, lot), 1..n)
    <2> HIDE DEF taken
    <2>1. IsFiniteSet(DOMAIN h) /\ IsFiniteSet(DOMAIN left) /\ IsFiniteSet(DOMAIN taken)
        BY <1>1, <1>2, <1>4, <1>5
    <2> QED
        BY <1>1, <1>2, <1>5, <2>1, LotShareSum
<1>8. PlusOn(LotWeight(h, lot), LotWeight(left, lot), LotWeight(taken, lot), 1..n)
    <2> SUFFICES ASSUME NEW i \in 1..n
                 PROVE  LotWeight(h, lot)[i] = LotWeight(left, lot)[i] + LotWeight(taken, lot)[i]
        BY DEF PlusOn
    <2>1. h[i].shares \in Nat
        BY <1>1 DEF Counts
    <2>2. LotWeight(h, lot)[i] = IF h[i].lot = lot THEN h[i].shares ELSE 0
        BY <1>1 DEF LotWeight
    <2>3. LotWeight(left, lot)[i] = IF h[i].lot = lot THEN h[i].shares - TakenAt(alloc, i) ELSE 0
        BY <1>2 DEF LotWeight
    <2>4. LotWeight(taken, lot)[i] = IF h[i].lot = lot THEN TakenAt(alloc, i) ELSE 0
        BY DEF LotWeight
    <2>5. TakenAt(alloc, i) \in Nat
        BY <1>2
    <2> QED
        BY <2>1, <2>2, <2>3, <2>4, <2>5
<1> HIDE DEF taken
<1>9. SumFunctionOnSet(LotWeight(h, lot), 1..n)
        = SumFunctionOnSet(LotWeight(left, lot), 1..n) + SumFunctionOnSet(LotWeight(taken, lot), 1..n)
    BY <1>4, <1>7, <1>8, SumPlus
<1>10. LotShares(h, lot) = LotShares(left, lot) + LotShares(rows, lot)
    BY <1>6, <1>7, <1>9
<1> QED
    BY <1>10 DEF left, rows

(* Confirming an order keeps every share. *)
LEMMA ConfirmedKeeps ==
    ASSUME NEW b, BookOK(b), NEW o \in Orders, NEW alloc, PickOK(alloc), CanConfirm(b, o, alloc)
    PROVE  /\ Fits(b.held, alloc)
           /\ BookOK(Confirmed(b, o, alloc))
           /\ \A lot : Kept(Confirmed(b, o, alloc), lot) = Kept(b, lot)
<1> DEFINE h == b.held
<1> DEFINE n == Len(h)
<1> DEFINE left == Reduced(h, alloc)
<1> DEFINE rest == (1..n) \ Emptied(h, alloc)
<1> DEFINE held2 == RowsAt(left, rest)
<1> DEFINE rows == LedgerRows(h, alloc)
<1> DEFINE e == [state |-> "confirmed", rows |-> rows]
<1> DEFINE q == [b.queue EXCEPT ![o] = e]
<1>0. /\ h \in Seq(HeldRow) /\ b.queue \in [Orders -> Entry] /\ n \in Nat
      /\ \A x \in Orders : b.queue[x].rows # <<>> <=> b.queue[x].state = "confirmed"
      /\ b.queue[o].state = "unmatched"
      /\ Fits(h, alloc)
      /\ Shares(alloc) = Sold[o]
    <2>1. h \in Seq(HeldRow) /\ QueueOK(b.queue)
        BY DEF BookOK
    <2>2. n \in Nat
        BY <2>1, LenProperties
    <2> QED
        BY <2>1, <2>2 DEF QueueOK, CanConfirm, Fits
<1>1. Confirmed(b, o, alloc) = Book(held2, q)
    BY <1>0, ConfirmedIs
<1>2. /\ left \in Seq(LeftRow) /\ DOMAIN left = 1..n /\ Counts(left)
      /\ \A i \in 1..n : /\ TakenAt(alloc, i) \in Nat /\ TakenAt(alloc, i) <= h[i].shares
                         /\ left[i].lot = h[i].lot
                         /\ left[i].shares = h[i].shares - TakenAt(alloc, i)
                         /\ left[i] \in LeftRow
    <2>1. /\ left \in Seq(LeftRow) /\ DOMAIN left = 1..n
          /\ \A i \in 1..n : /\ TakenAt(alloc, i) \in Nat /\ TakenAt(alloc, i) <= h[i].shares
                             /\ left[i].lot = h[i].lot
                             /\ left[i].shares = h[i].shares - TakenAt(alloc, i)
                             /\ left[i] \in LeftRow
        BY <1>0, ReducedRows
    <2> HIDE DEF left
    <2>2. Counts(left)
        BY <2>1 DEF Counts, LeftRow
    <2> QED
        BY <2>1, <2>2
<1>3. /\ rows \in Seq(LedgerRow) /\ rows # <<>>
    <2>1. DOMAIN alloc # {}
        <3>1. DOMAIN alloc = {} => Shares(alloc) = 0
            BY SumEmpty DEF Shares, SumFunction
        <3>2. Sold[o] \in Nat \ {0}
            BY SoldAssumption
        <3> QED
            BY <1>0, <3>1, <3>2
    <2>2. rows \in Seq(LedgerRow) /\ Len(rows) > 0
        BY <1>0, <2>1, LedgerRowsTyped, ZenonT(60)
    <2> HIDE DEF rows
    <2>3. Len(<<>>) = 0
        OBVIOUS
    <2> QED
        BY <2>2, <2>3
<1>4. \A i \in rest : left[i] \in HeldRow
    <2> TAKE i \in rest
    <2>1. i \in 1..n /\ i \notin Emptied(h, alloc)
        OBVIOUS
    <2>2. h[i].shares \in Nat \ {0}
        <3>1. h[i] \in HeldRow
            BY <1>0, <2>1, ElementOfSeq
        <3> QED
            BY <3>1 DEF HeldRow
    <2>3. TakenAt(alloc, i) # h[i].shares
        BY <2>1, <2>2 DEF TakenAt, Emptied
    <2> HIDE DEF left, h
    <2>4. left[i].shares # 0 /\ left[i] \in LeftRow
        BY <1>2, <2>1, <2>2, <2>3
    <2> QED
        BY <2>4 DEF LeftRow, HeldRow
<1>5. \A i \in (1..n) \ rest : left[i].shares = 0
    <2> TAKE i \in (1..n) \ rest
    <2>1. i \in DOMAIN alloc /\ alloc[i] = h[i].shares /\ i \in 1..n
        BY DEF Emptied
    <2>2. TakenAt(alloc, i) = h[i].shares
        BY <2>1 DEF TakenAt
    <2> HIDE DEF left, h
    <2> QED
        BY <1>2, <2>1, <2>2
<1>6. /\ held2 \in Seq(HeldRow)
      /\ \A lot : LotShares(held2, lot) = LotShares(left, lot)
    <2>1. rest \in SUBSET (1..n)
        OBVIOUS
    <2> HIDE DEF left, rest, n
    <2> QED
        BY <1>0, <1>2, <1>4, <1>5, <2>1, RowsAtTyped, RowsAtShares
<1>7. \A lot : LotShares(h, lot) = LotShares(left, lot) + LotShares(rows, lot)
    BY <1>0, LedgerShares
<1>8. e \in Entry /\ e.rows = rows /\ e.state = "confirmed"
    BY <1>3 DEF Entry, States
<1> HIDE DEF held2, rows, e, left, h
<1>9. /\ q \in [Orders -> Entry] /\ q[o] = e /\ \A x \in Orders \ {o} : q[x] = b.queue[x]
    BY <1>0, <1>8
<1>10. QueueOK(q)
    <2> HIDE DEF q
    <2>1. \A x \in Orders : q[x].rows # <<>> <=> q[x].state = "confirmed"
        BY <1>0, <1>3, <1>8, <1>9
    <2> QED
        BY <1>9, <2>1 DEF QueueOK
<1>11. ASSUME NEW lot PROVE LotShares(held2, lot) + Taken(q, lot)
                               = LotShares(h, lot) + Taken(b.queue, lot)
    <2>1. /\ Taken(q, lot) + LotShares(b.queue[o].rows, lot) = Taken(b.queue, lot) + LotShares(rows, lot)
          /\ Taken(q, lot) \in Int
        BY <1>0, <1>8, TakenChanged
    <2>2. LotShares(b.queue[o].rows, lot) = 0
        <3>1. b.queue[o].rows = <<>>
            BY <1>0
        <3>2. DOMAIN <<>> = {} /\ {i \in DOMAIN <<>> : <<>>[i].lot = lot} = {}
            OBVIOUS
        <3> QED
            BY <3>1, <3>2, SumEmpty DEF LotShares
    <2>3. LotShares(left, lot) \in Nat /\ LotShares(rows, lot) \in Nat
        BY <1>2, <1>3, RowsCount, LotSharesNat
    <2>4. Taken(b.queue, lot) \in Nat
        BY <1>0, TakenIsNat
    <2> HIDE DEF q
    <2> QED
        BY <1>6, <1>7, <2>1, <2>2, <2>3, <2>4
<1>12. Book(held2, q).held = held2 /\ Book(held2, q).queue = q
    BY DEF Book
<1> HIDE DEF q
<1>13. BookOK(Book(held2, q)) /\ \A lot : Kept(Book(held2, q), lot) = Kept(b, lot)
    BY <1>6, <1>10, <1>11, <1>12 DEF BookOK, Kept, h
<1> QED
    BY <1>0, <1>1, <1>13 DEF h

----------------------------------------------------------------------------
(* Undoing several orders                                                  *)

Books == {b \in [held : Seq(HeldRow), queue : [Orders -> Entry]] : QueueOK(b.queue)}

LEMMA BooksAreOK ==
    \A b : b \in Books <=> BookOK(b)
<1>1. ASSUME NEW b \in Books PROVE BookOK(b)
    <2>1. b \in [held : Seq(HeldRow), queue : [Orders -> Entry]] /\ QueueOK(b.queue)
        BY DEF Books
    <2>2. b = [held |-> b.held, queue |-> b.queue] /\ b.held \in Seq(HeldRow)
        BY <2>1
    <2> QED
        BY <2>1, <2>2 DEF BookOK, Book
<1>2. ASSUME NEW b, BookOK(b) PROVE b \in Books
    <2>1. b = [held |-> b.held, queue |-> b.queue]
        BY <1>2 DEF BookOK, Book
    <2>2. b.held \in Seq(HeldRow) /\ b.queue \in [Orders -> Entry] /\ QueueOK(b.queue)
        BY <1>2 DEF BookOK, QueueOK
    <2>3. b \in [held : Seq(HeldRow), queue : [Orders -> Entry]]
        BY <2>1, <2>2
    <2> QED
        BY <2>2, <2>3 DEF Books
<1> QED
    BY <1>1, <1>2

LEMMA UndoIfCanKeeps ==
    ASSUME NEW b \in Books, NEW o \in Orders
    PROVE  UndoIfCan(b, o) \in Books /\ \A lot : Kept(UndoIfCan(b, o), lot) = Kept(b, lot)
<1>1. BookOK(b)
    BY BooksAreOK
<1>2. BookOK(Undone(b, o)) /\ \A lot : Kept(Undone(b, o), lot) = Kept(b, lot)
    BY <1>1, UndoneKeeps
<1>3. Undone(b, o) \in Books
    BY <1>2, BooksAreOK
<1>4. UndoIfCan(b, o) = Undone(b, o) \/ UndoIfCan(b, o) = b
    BY DEF UndoIfCan
<1> QED
    BY <1>2, <1>3, <1>4

UndoesEach(g, b, os) ==
    /\ g \in [0..Len(os) -> Books]
    /\ g[0] = b
    /\ \A k \in 1..Len(os) : g[k] = UndoIfCan(g[k - 1], os[k])

LEMMA UndoingEach ==
    ASSUME NEW b \in Books, NEW os \in Seq(Orders)
    PROVE  \E g : UndoesEach(g, b, os) /\ g[Len(os)] = UndoEach(b, os)
<1> DEFINE n == Len(os)
<1> DEFINE V == Books
<1> DEFINE step == [p \in V \X (1..n) |-> UndoIfCan(p[1], os[p[2]])]
<1> DEFINE Folds(I) ==
        I = [s \in SUBSET (1..n) |->
                IF s = {} THEN b ELSE UndoIfCan(I[s \ {Max(s)}], os[Max(s)])]
<1> DEFINE J == CHOOSE I : Folds(I)
<1>1. n \in Nat /\ DOMAIN os = 1..n /\ b \in V /\ \A k \in 1..n : os[k] \in Orders
    BY LenProperties, ElementOfSeq
<1>2. UndoEach(b, os) = J[1..n]
    BY <1>1 DEF UndoEach, FoldLeft, MapThenFoldSet
<1> HIDE DEF n
<1>3. \A v \in V, k \in 1..n : step[<<v, k>>] = UndoIfCan(v, os[k])
    OBVIOUS
<1>4. StepsIn(step, V, n)
    <2>1. \A p \in V \X (1..n) : UndoIfCan(p[1], os[p[2]]) \in V
        BY <1>1, UndoIfCanKeeps
    <2>2. step \in [V \X (1..n) -> V]
        BY <2>1
    <2> HIDE DEF step, V
    <2> QED
        BY <2>2 DEF StepsIn
<1> HIDE DEF step, V
<1>5. \E I : Folds(I)
    <2>1. PICK I : FoldsIn(I, V, n, b, step)
        BY <1>1, <1>4, FoldExists
    <2>2. \A s \in SUBSET (1..n) :
              I[s] = IF s = {} THEN b ELSE UndoIfCan(I[s \ {Max(s)}], os[Max(s)])
        <3> TAKE s \in SUBSET (1..n)
        <3>1. CASE s = {}
            BY <2>1, <3>1 DEF FoldsIn
        <3>2. CASE s # {}
            <4>1. Max(s) \in 1..n
                BY <1>1, <3>2, GreatestIn
            <4>2. \A m : I[s \ {m}] \in V
                BY <2>1 DEF FoldsIn
            <4>3. I[s] = step[<<I[s \ {Max(s)}], Max(s)>>]
                BY <2>1, <3>2 DEF FoldsIn, LastStep
            <4> QED
                BY <1>3, <3>2, <4>1, <4>2, <4>3
        <3> QED
            BY <3>1, <3>2
    <2>3. I = [s \in SUBSET (1..n) |-> I[s]]
        BY <2>1 DEF FoldsIn
    <2>4. Folds(I)
        BY <2>2, <2>3
    <2> HIDE DEF Folds
    <2> QED
        BY <2>4
<1> HIDE DEF Folds
<1>6. Folds(J)
    BY <1>5
<1> HIDE DEF J
<1>7. FoldsWithin(J, V, n, b, step)
    <2>1. J[{}] = b
        BY <1>6 DEF Folds
    <2>2. ASSUME NEW s \in SUBSET (1..n), s # {}, J[s \ {Max(s)}] \in V
          PROVE  J[s] = LastStep(J, step, s)
        <3>1. Max(s) \in 1..n
            BY <1>1, <2>2, GreatestIn
        <3>2. J[s] = UndoIfCan(J[s \ {Max(s)}], os[Max(s)])
            BY <1>6, <2>2 DEF Folds
        <3> QED
            BY <1>3, <2>2, <3>1, <3>2 DEF LastStep
    <2> QED
        BY <2>1, <2>2 DEF FoldsWithin
<1>8. PICK g : Passes(g, V, n, b, step) /\ g[n] = J[1..n]
    BY <1>1, <1>4, <1>7, FoldSteps
<1>9. \A k \in 1..n : g[k] = UndoIfCan(g[k - 1], os[k])
    <2> TAKE k \in 1..n
    <2>1. k - 1 \in 0..n
        BY <1>1
    <2>2. g[k - 1] \in V
        BY <1>8, <2>1 DEF Passes
    <2> QED
        BY <1>3, <1>8, <2>2 DEF Passes
<1>10. UndoesEach(g, b, os)
    BY <1>8, <1>9 DEF UndoesEach, Passes, n, V
<1> QED
    BY <1>2, <1>8, <1>10 DEF n

(* Undoing several orders keeps every share. *)
LEMMA UndoEachKeeps ==
    ASSUME NEW b \in Books, NEW os \in Seq(Orders)
    PROVE  UndoEach(b, os) \in Books /\ \A lot : Kept(UndoEach(b, os), lot) = Kept(b, lot)
<1> DEFINE n == Len(os)
<1>1. PICK g : UndoesEach(g, b, os) /\ g[Len(os)] = UndoEach(b, os)
    BY UndoingEach
<1>2. n \in Nat /\ \A k \in 1..n : os[k] \in Orders
    BY LenProperties, ElementOfSeq
<1>3. /\ \A k \in 0..n : g[k] \in Books
      /\ g[0] = b
      /\ \A k \in 1..n : g[k] = UndoIfCan(g[k - 1], os[k])
    BY <1>1 DEF UndoesEach
<1> HIDE DEF n
<1> DEFINE N == {k \in Nat : k <= n => \A lot : Kept(g[k], lot) = Kept(b, lot)}
<1>4. 0 \in N
    BY <1>3
<1>5. ASSUME NEW k \in Nat, k \in N PROVE k + 1 \in N
    <2>1. SUFFICES ASSUME k + 1 <= n, NEW lot PROVE Kept(g[k + 1], lot) = Kept(b, lot)
        OBVIOUS
    <2>2. k + 1 \in 1..n /\ (k + 1) - 1 = k /\ k \in 0..n /\ k <= n
        BY <1>2, <2>1
    <2>3. g[k + 1] = UndoIfCan(g[k], os[k + 1]) /\ g[k] \in Books /\ os[k + 1] \in Orders
        BY <1>2, <1>3, <2>2
    <2>4. Kept(g[k + 1], lot) = Kept(g[k], lot)
        BY <2>3, UndoIfCanKeeps
    <2>5. Kept(g[k], lot) = Kept(b, lot)
        BY <1>5, <2>2
    <2> QED
        BY <2>4, <2>5
<1> HIDE DEF N
<1>6. n \in N
    BY <1>2, <1>4, <1>5, NatSet
<1>7. \A lot : Kept(g[n], lot) = Kept(b, lot)
    BY <1>2, <1>6 DEF N
<1>8. g[n] \in Books
    BY <1>2, <1>3
<1> QED
    BY <1>1, <1>7, <1>8 DEF n

----------------------------------------------------------------------------
(* Undoing what was just confirmed                                         *)

Distinct(h) == \A i, j \in DOMAIN h : h[i].lot = h[j].lot => i = j

InsertedAt(t, s, p, e) ==
    \A k \in 1..(Len(s) + 1) : t[k] = IF k < p THEN s[k] ELSE IF k = p THEN e ELSE s[k - 1]

LEMMA InsertAtIs ==
    ASSUME NEW V, NEW s \in Seq(V), NEW p \in 1..(Len(s) + 1), NEW e \in V
    PROVE  /\ InsertAt(s, p, e) \in Seq(V)
           /\ Len(InsertAt(s, p, e)) = Len(s) + 1
           /\ InsertedAt(InsertAt(s, p, e), s, p, e)
<1> DEFINE n == Len(s)
<1> DEFINE a == SubSeq(s, 1, p - 1)
<1> DEFINE b == SubSeq(s, p, n)
<1> DEFINE d == <<e>>
<1> DEFINE c == a \o d
<1>0. n \in Nat /\ p \in 1..(n + 1) /\ \A i \in 1..n : s[i] \in V
    BY LenProperties, ElementOfSeq
<1>1. a \in Seq(V) /\ Len(a) = p - 1 /\ \A i \in 1..(p - 1) : a[i] = s[i]
    <2>1. \A i \in 1..(p - 1) : s[i] \in V
        BY <1>0
    <2>2. p - 1 \in Int /\ 1 \in Int
        BY <1>0
    <2>3. /\ a \in Seq(V)
          /\ Len(a) = IF 1 <= p - 1 THEN p - 1 - 1 + 1 ELSE 0
          /\ \A i \in 1..(p - 1 - 1 + 1) : a[i] = s[1 + i - 1]
        BY <2>1, <2>2, SubSeqProperties
    <2> HIDE DEF a
    <2> QED
        BY <1>0, <2>3
<1>2. b \in Seq(V) /\ Len(b) = n - p + 1 /\ \A i \in 1..(n - p + 1) : b[i] = s[p + i - 1]
    <2>1. \A i \in p..n : s[i] \in V
        BY <1>0
    <2>2. p \in Int /\ n \in Int
        BY <1>0
    <2> HIDE DEF n
    <2>3. /\ b \in Seq(V)
          /\ Len(b) = IF p <= n THEN n - p + 1 ELSE 0
          /\ \A i \in 1..(n - p + 1) : b[i] = s[p + i - 1]
        BY <2>1, <2>2, SubSeqProperties
    <2> HIDE DEF b
    <2> QED
        BY <1>0, <2>3
<1>3. d \in Seq(V) /\ Len(d) = 1 /\ d[1] = e
    OBVIOUS
<1> HIDE DEF a, b, d, n
<1>4. /\ c \in Seq(V) /\ Len(c) = p
      /\ \A i \in 1..p : c[i] = IF i < p THEN s[i] ELSE e
    <2>1. /\ c \in Seq(V)
          /\ Len(c) = Len(a) + Len(d)
          /\ \A i \in 1..(Len(a) + Len(d)) : c[i] = IF i <= Len(a) THEN a[i] ELSE d[i - Len(a)]
        BY <1>1, <1>3, ConcatProperties
    <2> HIDE DEF c
    <2>2. Len(a) + Len(d) = p
        BY <1>0, <1>1, <1>3
    <2>3. ASSUME NEW i \in 1..p PROVE c[i] = IF i < p THEN s[i] ELSE e
        <3>1. c[i] = IF i <= p - 1 THEN a[i] ELSE d[i - (p - 1)]
            BY <1>1, <2>1, <2>2
        <3>2. CASE i < p
            BY <1>0, <1>1, <3>1, <3>2
        <3>3. CASE ~(i < p)
            <4>1. i = p /\ i - (p - 1) = 1 /\ ~(i <= p - 1)
                BY <1>0, <3>3
            <4> QED
                BY <1>3, <3>1, <4>1
        <3> QED
            BY <3>2, <3>3
    <2> QED
        BY <2>1, <2>2, <2>3
<1> HIDE DEF c
<1>5. /\ c \o b \in Seq(V)
      /\ Len(c \o b) = Len(c) + Len(b)
      /\ \A k \in 1..(Len(c) + Len(b)) : (c \o b)[k] = IF k <= Len(c) THEN c[k] ELSE b[k - Len(c)]
    BY <1>2, <1>4, ConcatProperties
<1>6. Len(c) + Len(b) = n + 1
    BY <1>0, <1>2, <1>4
<1>7. ASSUME NEW k \in 1..(n + 1)
      PROVE  (c \o b)[k] = IF k < p THEN s[k] ELSE IF k = p THEN e ELSE s[k - 1]
    <2>1. (c \o b)[k] = IF k <= p THEN c[k] ELSE b[k - p]
        BY <1>4, <1>5, <1>6
    <2>2. CASE k <= p
        BY <1>0, <1>4, <2>1, <2>2
    <2>3. CASE ~(k <= p)
        <3>1. k - p \in 1..(n - p + 1) /\ p + (k - p) - 1 = k - 1 /\ ~(k < p) /\ k # p
            BY <1>0, <2>3
        <3>2. b[k - p] = s[p + (k - p) - 1]
            BY <1>2, <3>1
        <3> QED
            BY <2>1, <2>3, <3>1, <3>2
    <2> QED
        BY <2>2, <2>3
<1>8. InsertAt(s, p, e) = c \o b
    BY DEF InsertAt, a, b, c, d, n
<1> QED
    BY <1>5, <1>6, <1>7, <1>8 DEF n, InsertedAt

(* All indexes, in order. *)
LEMMA AscendingAll ==
    ASSUME NEW n \in Nat, NEW s, DOMAIN s = 1..n, s = [i \in 1..n |-> s[i]]
    PROVE  RowsAt(s, 1..n) = s
<1> DEFINE f == [k \in 1..n |-> k]
<1>1. f \in [1..n -> 1..n] /\ Increasing(f, n) /\ \A i \in 1..n : \E k \in 1..n : f[k] = i
    BY DEF Increasing
<1>2. 1..n \in SUBSET Nat
    OBVIOUS
<1>3. Ascending(1..n) = f
    BY <1>1, <1>2, AscendingIs
<1>4. RowsAt(s, 1..n) = [k \in 1..n |-> s[f[k]]]
    BY <1>3 DEF RowsAt
<1> QED
    BY <1>4

(* The indexes below one that is missing, when none else below it is. *)
LEMMA AscendingGap ==
    ASSUME NEW n \in Nat, NEW K \in SUBSET (1..n), NEW p \in (1..n) \ K, 1..(p - 1) \subseteq K
    PROVE  LET c == Cardinality(K)
               at == Ascending(K)
               f == [k \in 1..(c + 1) |-> IF k < p THEN k ELSE IF k = p THEN p ELSE at[k - 1]]
           IN  /\ c \in Nat /\ p <= c + 1
               /\ \A k \in 1..c : k < p => at[k] = k
               /\ Cardinality(K \cup {p}) = c + 1
               /\ Ascending(K \cup {p}) = f
<1> DEFINE c == Cardinality(K)
<1> DEFINE at == Ascending(K)
<1> DEFINE f == [k \in 1..(c + 1) |-> IF k < p THEN k ELSE IF k = p THEN p ELSE at[k - 1]]
<1>0. K \in SUBSET Nat /\ IsFiniteSet(K) /\ K \cup {p} \in SUBSET Nat
    <2>1. IsFiniteSet(1..n)
        BY FS_Interval
    <2>2. IsFiniteSet(K)
        BY <2>1, FS_Subset
    <2> QED
        BY <2>2
<1>1. /\ c \in Nat /\ at \in Bijection(1..c, K) /\ Increasing(at, c)
      /\ \A k \in 1..c : Rank(K, at[k]) = k - 1
    BY <1>0, AscendingLists
<1>2. /\ at \in [1..c -> K]
      /\ \A i \in K : \E k \in 1..c : at[k] = i
    BY <1>1 DEF Bijection, Injection, Surjection
<1>3. p - 1 <= c
    <2>1. Cardinality(1..(p - 1)) = p - 1
        BY FS_Interval
    <2>2. Cardinality(1..(p - 1)) <= Cardinality(K)
        BY <1>0, FS_Subset
    <2> QED
        BY <2>1, <2>2
<1>4. ASSUME NEW k \in 1..c, k < p PROVE at[k] = k
    <2>0. k \in Nat /\ k \in 1..(p - 1)
        BY <1>1, <1>4
    <2>1. k \in K /\ at[k] \in K /\ k \in Nat /\ at[k] \in Nat
        <3>1. k \in K
            BY <2>0
        <3>2. at[k] \in K
            BY <1>2
        <3> QED
            BY <1>0, <2>0, <3>1, <3>2
    <2>2. Rank(K, k) = k - 1
        <3>1. {j \in K : j < k} = 1..(k - 1)
            <4>1. \A j \in 1..(k - 1) : j \in 1..(p - 1) /\ j < k
                BY <1>4, <2>0
            <4>2. \A j \in 1..(k - 1) : j \in K /\ j < k
                BY <4>1
            <4>3. \A j \in K : j < k => j \in 1..(k - 1)
                BY <2>0
            <4> QED
                BY <4>2, <4>3
        <3>2. Cardinality(1..(k - 1)) = k - 1
            BY FS_Interval
        <3> QED
            BY <3>1, <3>2 DEF Rank
    <2>3. Rank(K, at[k]) = k - 1
        BY <1>1
    <2> HIDE DEF at
    <2>4. ~(at[k] < k) /\ ~(k < at[k])
        BY <1>0, <2>1, <2>2, <2>3, Ranks
    <2> QED
        BY <2>1, <2>4
<1>5. ASSUME NEW k \in 1..c, p <= k PROVE at[k] > p /\ at[k] \in K
    <2>1. at[k] \in K /\ at[k] \in 1..n /\ at[k] # p
        BY <1>2
    <2>2. CASE p = 1
        BY <2>1, <2>2
    <2>3. CASE p # 1
        <3>1. p - 1 \in 1..c /\ p - 1 < p /\ p - 1 < k
            BY <1>1, <1>3, <1>5, <2>3
        <3>2. at[p - 1] = p - 1
            BY <1>4, <3>1
        <3>3. at[p - 1] < at[k]
            BY <1>1, <3>1 DEF Increasing
        <3> HIDE DEF at
        <3> QED
            BY <2>1, <3>2, <3>3
    <2> QED
        BY <2>2, <2>3
<1> HIDE DEF at, c
<1>6. \A k \in 1..(c + 1) : f[k] = IF k < p THEN k ELSE IF k = p THEN p ELSE at[k - 1]
    OBVIOUS
<1>7. ASSUME NEW k \in 1..(c + 1)
      PROVE  /\ k < p => f[k] = k /\ k \in K
             /\ k = p => f[k] = p
             /\ k > p => k - 1 \in 1..c /\ f[k] = at[k - 1] /\ at[k - 1] \in K /\ at[k - 1] > p
    <2>1. k < p => f[k] = k /\ k \in K
        <3>1. k < p => k \in 1..(p - 1)
            OBVIOUS
        <3> QED
            BY <1>6, <3>1
    <2>2. k > p => k - 1 \in 1..c /\ p <= k - 1
        BY <1>1
    <2>3. k > p => f[k] = at[k - 1]
        BY <1>6
    <2>4. k > p => at[k - 1] \in K /\ at[k - 1] > p
        BY <1>5, <2>2
    <2> QED
        BY <1>6, <2>1, <2>2, <2>3, <2>4
<1> HIDE DEF f
<1>8. f \in [1..(c + 1) -> K \cup {p}]
    <2>1. \A k \in 1..(c + 1) : f[k] \in K \cup {p}
        BY <1>7
    <2> QED
        BY <2>1 DEF f
<1>9. \A k, l \in 1..(c + 1) : k < l => f[k] < f[l]
    <2> TAKE k, l \in 1..(c + 1)
    <2> HAVE k < l
    <2>1. CASE l < p
        BY <1>7, <2>1
    <2>2. CASE l = p
        BY <1>7, <2>2
    <2>3. CASE l > p
        <3>1. f[l] = at[l - 1] /\ at[l - 1] > p /\ at[l - 1] \in Nat
            BY <1>0, <1>7, <2>3
        <3>2. CASE k <= p
            <4>1. f[k] = k
                BY <1>7, <3>2
            <4> QED
                BY <3>1, <3>2, <4>1
        <3>3. CASE k > p
            <4>1. f[k] = at[k - 1] /\ k - 1 \in 1..c /\ l - 1 \in 1..c /\ k - 1 < l - 1
                BY <1>7, <2>3, <3>3
            <4> QED
                BY <1>1, <3>1, <4>1 DEF Increasing
        <3> QED
            BY <3>2, <3>3
    <2> QED
        BY <2>1, <2>2, <2>3
<1>10. \A i \in K \cup {p} : \E k \in 1..(c + 1) : f[k] = i
    <2> TAKE i \in K \cup {p}
    <2>1. CASE i = p
        <3>1. p \in 1..(c + 1)
            BY <1>1, <1>3
        <3> QED
            BY <1>7, <2>1, <3>1
    <2>2. CASE i < p
        <3>1. i \in 1..(c + 1)
            BY <1>1, <1>3, <2>2
        <3> QED
            BY <1>7, <2>2, <3>1
    <2>3. CASE i > p
        <3>1. PICK k \in 1..c : at[k] = i
            BY <1>2, <2>3
        <3>2. ~(k < p)
            BY <1>4, <2>3, <3>1
        <3>3. k + 1 \in 1..(c + 1) /\ k + 1 > p /\ (k + 1) - 1 = k
            BY <1>1, <3>2
        <3>4. f[k + 1] = at[k]
            BY <1>7, <3>3
        <3> QED
            BY <3>1, <3>3, <3>4
    <2>4. i \in Nat
        BY <1>0
    <2> QED
        BY <2>1, <2>2, <2>3, <2>4
<1>11. Ascending(K \cup {p}) = f /\ Cardinality(K \cup {p}) = c + 1
    <2>1. c + 1 \in Nat /\ Increasing(f, c + 1)
        BY <1>1, <1>9 DEF Increasing
    <2> DEFINE S == K \cup {p}
    <2>2. S \in SUBSET Nat /\ f \in [1..(c + 1) -> S] /\ \A i \in S : \E k \in 1..(c + 1) : f[k] = i
        BY <1>0, <1>8, <1>10
    <2> HIDE DEF S
    <2>3. Ascending(S) = f /\ Cardinality(S) = c + 1
        BY <2>1, <2>2, AscendingIs
    <2> QED
        BY <2>3 DEF S
<1> QED
    BY <1>1, <1>3, <1>4, <1>11 DEF c, at, f

(* A ledger row gives its shares back to the row they came from, when rows *)
(* do not look alike and, if that row was emptied, all rows before it are  *)
(* there.  H are the rows as they are, K those in the dataset, p the row.   *)
BackAt(h, H, K, sale, p) ==
    /\ Distinct(h)
    /\ K \in SUBSET (1..Len(h))
    /\ p \in 1..Len(h)
    /\ DOMAIN H = 1..Len(h)
    /\ \A i \in 1..Len(h) : H[i].lot = h[i].lot
    /\ \A i \in K : H[i] \in HeldRow
    /\ sale.lot = h[p].lot
    /\ sale.index = p
    /\ p \in K => h[p] = [H[p] EXCEPT !.shares = @ + sale.shares]
    /\ p \notin K => sale.shares = h[p].shares /\ 1..(p - 1) \subseteq K

PutBack(H2, H, h, p) == H2 = [H EXCEPT ![p] = h[p]]

LEMMA GiveBackToRow ==
    ASSUME NEW h \in Seq(HeldRow), NEW H, NEW K, NEW sale \in LedgerRow, NEW p,
           BackAt(h, H, K, sale, p), NEW H2, PutBack(H2, H, h, p)
    PROVE  GiveBack(RowsAt(H, K), sale) = RowsAt(H2, K \cup {p})
<1> DEFINE n == Len(h)
<1> DEFINE c == Cardinality(K)
<1> DEFINE at == Ascending(K)
<1> DEFINE t == RowsAt(H, K)
<1>0. /\ n \in Nat /\ DOMAIN h = 1..n
      /\ \A i \in 1..n : h[i] \in HeldRow
      /\ K \in SUBSET (1..n) /\ p \in 1..n /\ DOMAIN H = 1..n
      /\ \A i \in 1..n : H[i].lot = h[i].lot
      /\ \A i \in K : H[i] \in HeldRow
      /\ sale.lot = h[p].lot /\ sale.index = p
    BY LenProperties, ElementOfSeq DEF BackAt
<1> HIDE DEF n
<1>1. /\ K \in SUBSET Nat /\ IsFiniteSet(K) /\ c \in Nat
      /\ DOMAIN t = 1..c
      /\ t = [k \in 1..c |-> H[at[k]]]
      /\ \A k \in 1..c : at[k] \in K
      /\ \A i \in K : \E k \in 1..c : at[k] = i
    BY <1>0, RowsAtLists
<1>2. t \in Seq(HeldRow) /\ Len(t) = c
    BY <1>0, RowsAtTyped
<1>3. \A k, l \in 1..c : at[k] = at[l] => k = l
    <2>1. at \in Bijection(1..c, K)
        BY <1>1, AscendingLists
    <2> QED
        BY <2>1 DEF Bijection, Injection, IsInjective
<1> HIDE DEF c, at, t
<1>4. \A k \in 1..c : at[k] \in K /\ t[k] = H[at[k]] /\ (t[k].lot = sale.lot <=> at[k] = p)
    <2> TAKE k \in 1..c
    <2>1. at[k] \in K /\ at[k] \in 1..n /\ t[k] = H[at[k]]
        BY <1>0, <1>1
    <2>2. t[k].lot = h[at[k]].lot
        BY <1>0, <2>1
    <2>3. h[at[k]].lot = h[p].lot <=> at[k] = p
        BY <1>0, <2>1 DEF BackAt, Distinct
    <2> QED
        BY <1>0, <2>1, <2>2, <2>3
<1>5. H2[p] = h[p] /\ DOMAIN H2 = 1..n /\ \A i \in (1..n) \ {p} : H2[i] = H[i]
    BY <1>0 DEF PutBack
<1>6. CASE p \in K
    <2>1. PICK q \in 1..c : at[q] = p
        BY <1>1, <1>6
    <2>2. ~ \A i \in DOMAIN t : t[i].lot # sale.lot
        BY <1>1, <1>4, <2>1
    <2>3. PICK r \in DOMAIN t : t[r].lot = sale.lot
                                /\ GiveBack(t, sale) = [t EXCEPT ![r].shares = @ + sale.shares]
        BY <1>2, <2>2, GiveBackCases
    <2>4. r = q
        BY <1>1, <1>3, <1>4, <2>1, <2>3
    <2>5. K \cup {p} = K
        BY <1>6
    <2>6. RowsAt(H2, K) = [k \in 1..c |-> H2[at[k]]]
        BY <1>0, <1>5, RowsAtLists DEF c, at
    <2> DEFINE u == [t EXCEPT ![q] = [t[q] EXCEPT !.shares = @ + sale.shares]]
    <2>7. GiveBack(t, sale) = u
        BY <2>3, <2>4
    <2>8. t[q] = H[p] /\ h[p] = [H[p] EXCEPT !.shares = @ + sale.shares]
        BY <1>4, <1>6, <2>1 DEF BackAt
    <2>9. u = [k \in 1..c |-> IF k = q THEN h[p] ELSE t[k]]
        BY <1>1, <2>8
    <2>10. \A k \in 1..c : H2[at[k]] = IF k = q THEN h[p] ELSE t[k]
        <3> TAKE k \in 1..c
        <3>1. CASE k = q
            BY <1>5, <2>1, <3>1
        <3>2. CASE k # q
            <4>1. at[k] # p /\ at[k] \in 1..n
                BY <1>0, <1>1, <1>3, <2>1, <3>2
            <4> QED
                BY <1>4, <1>5, <3>2, <4>1
        <3> QED
            BY <3>1, <3>2
    <2>11. u = RowsAt(H2, K)
        BY <2>6, <2>9, <2>10
    <2> QED
        BY <2>5, <2>7, <2>11 DEF t
<1>7. CASE p \notin K
    <2> DEFINE f == [k \in 1..(c + 1) |-> IF k < p THEN k ELSE IF k = p THEN p ELSE at[k - 1]]
    <2> DEFINE e == [lot |-> sale.lot, shares |-> sale.shares]
    <2>1. 1..(p - 1) \subseteq K /\ sale.shares = h[p].shares
        BY <1>7 DEF BackAt
    <2>2. /\ p <= c + 1
          /\ \A k \in 1..c : k < p => at[k] = k
          /\ Cardinality(K \cup {p}) = c + 1
          /\ Ascending(K \cup {p}) = f
        <3>1. K \in SUBSET (1..n) /\ p \in (1..n) \ K
            BY <1>0, <1>7
        <3> QED
            BY <1>0, <2>1, <3>1, AscendingGap DEF c, at
    <2>3. \A i \in DOMAIN t : t[i].lot # sale.lot
        BY <1>1, <1>4, <1>7
    <2>4. PICK pos \in 1..(Len(t) + 1) :
              /\ pos = IF sale.index <= Len(t) THEN sale.index ELSE Len(t) + 1
              /\ GiveBack(t, sale) = InsertAt(t, pos, e)
        BY <1>2, <2>3, GiveBackCases
    <2>5. pos = p
        BY <1>0, <1>1, <1>2, <2>2, <2>4
    <2>6. e = h[p] /\ e \in HeldRow
        <3>1. h[p] \in HeldRow
            BY <1>0
        <3>2. h[p] = [lot |-> h[p].lot, shares |-> h[p].shares]
            BY <3>1 DEF HeldRow
        <3> QED
            BY <1>0, <2>1, <3>1, <3>2
    <2> DEFINE u == InsertAt(t, p, e)
    <2> HIDE DEF e
    <2>7. /\ u \in Seq(HeldRow) /\ Len(u) = c + 1
          /\ \A k \in 1..(c + 1) : u[k] = IF k < p THEN t[k] ELSE IF k = p THEN e ELSE t[k - 1]
        <3>1. p \in 1..(Len(t) + 1)
            BY <2>4, <2>5
        <3>2. /\ u \in Seq(HeldRow) /\ Len(u) = Len(t) + 1
              /\ \A k \in 1..(Len(t) + 1) :
                    u[k] = IF k < p THEN t[k] ELSE IF k = p THEN e ELSE t[k - 1]
            <4>1. u \in Seq(HeldRow) /\ Len(u) = Len(t) + 1 /\ InsertedAt(u, t, p, e)
                BY <1>2, <2>6, <3>1, InsertAtIs
            <4> HIDE DEF u, f
            <4> QED
                BY <4>1 DEF InsertedAt
        <3> HIDE DEF u
        <3> QED
            BY <1>2, <3>2
    <2> HIDE DEF u
    <2>8. u = [k \in 1..(c + 1) |-> u[k]]
        BY <2>7, LenProperties
    <2>9. RowsAt(H2, K \cup {p}) = [k \in 1..(c + 1) |-> H2[f[k]]]
        <3>1. DOMAIN f = 1..(c + 1)
            OBVIOUS
        <3> HIDE DEF f
        <3> QED
            BY <2>2, <3>1 DEF RowsAt
    <2>10. \A k \in 1..(c + 1) : H2[f[k]] = u[k]
        <3> TAKE k \in 1..(c + 1)
        <3>0. f[k] = IF k < p THEN k ELSE IF k = p THEN p ELSE at[k - 1]
            OBVIOUS
        <3> HIDE DEF f
        <3>1. CASE k < p
            <4>1. k \in 1..c /\ k \in (1..n) \ {p}
                BY <1>0, <1>1, <2>2, <3>1
            <4>2. H2[k] = H[k] /\ H[k] = t[k]
                BY <1>4, <1>5, <2>2, <3>1, <4>1
            <4> QED
                BY <2>7, <3>0, <3>1, <4>2
        <3>2. CASE k = p
            <4>1. f[k] = p /\ u[k] = e
                BY <2>7, <3>0, <3>2
            <4> QED
                BY <1>5, <2>6, <4>1
        <3>3. CASE k > p
            <4>1. k - 1 \in 1..c /\ ~(k < p) /\ k # p
                BY <1>0, <1>1, <3>3
            <4>2. at[k - 1] \in K /\ t[k - 1] = H[at[k - 1]]
                BY <1>4, <4>1
            <4>3. at[k - 1] \in (1..n) \ {p}
                BY <1>0, <1>7, <4>2
            <4> QED
                BY <1>5, <2>7, <3>0, <4>1, <4>2, <4>3
        <3> QED
            BY <1>0, <3>1, <3>2, <3>3
    <2> HIDE DEF f
    <2>11. u = RowsAt(H2, K \cup {p})
        BY <2>8, <2>9, <2>10
    <2> QED
        BY <2>4, <2>5, <2>11 DEF t, u
<1> QED
    BY <1>6, <1>7

(* Giving the ledger rows of an order back restores every row. *)
LEMMA GiveBackAll ==
    ASSUME NEW h \in Seq(HeldRow), Distinct(h), NEW alloc, PickOK(alloc), Fits(h, alloc)
    PROVE  FoldLeft(GiveBack, RowsAt(Reduced(h, alloc), (1..Len(h)) \ Emptied(h, alloc)),
                    LedgerRows(h, alloc)) = h
<1> DEFINE n == Len(h)
<1> DEFINE left == Reduced(h, alloc)
<1> DEFINE rest == (1..n) \ Emptied(h, alloc)
<1> DEFINE rows == LedgerRows(h, alloc)
<1> DEFINE P == DOMAIN alloc
<1> DEFINE m == Cardinality(P)
<1> DEFINE at == Ascending(P)
<1>0. n \in Nat /\ DOMAIN h = 1..n /\ \A i \in 1..n : h[i] \in HeldRow
    BY LenProperties, ElementOfSeq
<1>1. /\ left \in Seq(LeftRow) /\ DOMAIN left = 1..n
      /\ \A i \in 1..n : /\ TakenAt(alloc, i) \in Nat /\ TakenAt(alloc, i) <= h[i].shares
                         /\ left[i].lot = h[i].lot
                         /\ left[i].shares = h[i].shares - TakenAt(alloc, i)
                         /\ left[i] \in LeftRow
    BY ReducedRows
<1>2. /\ m \in Nat /\ P \in SUBSET (1..n)
      /\ at \in Bijection(1..m, P)
      /\ Increasing(at, m)
      /\ rows \in Seq(LedgerRow) /\ Len(rows) = m /\ DOMAIN rows = 1..m
      /\ \A k \in 1..m : at[k] \in P /\ rows[k].lot = h[at[k]].lot
                         /\ rows[k].index = at[k] /\ rows[k].shares = alloc[at[k]]
    BY LedgerRowsTyped
<1>3. /\ \A i \in P : \E k \in 1..m : at[k] = i
      /\ \A k, l \in 1..m : at[k] = at[l] => k = l
    BY <1>2 DEF Bijection, Injection, Surjection, IsInjective
<1>4. \A i \in P : alloc[i] \in Nat \ {0} /\ TakenAt(alloc, i) = alloc[i]
    BY DEF PickOK, TakenAt
<1>5. \A i \in (1..n) \ P : left[i] = h[i]
    <2> TAKE i \in (1..n) \ P
    <2>1. TakenAt(alloc, i) = 0
        BY DEF TakenAt
    <2>2. h[i] \in HeldRow /\ h[i].shares \in Nat
        BY <1>0 DEF HeldRow
    <2> HIDE DEF left
    <2>3. left[i].lot = h[i].lot /\ left[i].shares = h[i].shares
        BY <1>1, <2>1, <2>2
    <2>4. left[i] \in LeftRow
        BY <1>1
    <2>5. left[i] = [lot |-> left[i].lot, shares |-> left[i].shares]
        BY <2>4 DEF LeftRow
    <2>6. h[i] = [lot |-> h[i].lot, shares |-> h[i].shares]
        BY <2>2 DEF HeldRow
    <2> QED
        BY <2>3, <2>5, <2>6
<1>6. rest \in SUBSET (1..n) /\ \A i \in (1..n) \ rest : i \in P /\ alloc[i] = h[i].shares
    BY DEF Emptied
<1>7. \A i \in rest : left[i] \in HeldRow
    <2> TAKE i \in rest
    <2>1. i \in 1..n /\ i \notin Emptied(h, alloc)
        OBVIOUS
    <2>2. h[i].shares \in Nat \ {0}
        BY <1>0, <2>1 DEF HeldRow
    <2>3. TakenAt(alloc, i) # h[i].shares
        BY <2>1, <2>2 DEF TakenAt, Emptied
    <2> HIDE DEF left
    <2>4. left[i].shares # 0 /\ left[i] \in LeftRow
        BY <1>1, <2>1, <2>2, <2>3
    <2> QED
        BY <2>4 DEF LeftRow, HeldRow
<1>p. P \in SUBSET (1..n)
    BY <1>2
<1> HIDE DEF n, left, rest, rows, P, m, at
<1> DEFINE back(k) == {at[l] : l \in 1..k}
<1> DEFINE H(k) == [i \in 1..n |-> IF i \in back(k) THEN h[i] ELSE left[i]]
<1> DEFINE K(k) == rest \cup back(k)
<1>8. PICK g : /\ GivesBack(g, RowsAt(left, rest), rows)
               /\ g[Len(rows)] = FoldLeft(GiveBack, RowsAt(left, rest), rows)
    <2>1. RowsAt(left, rest) \in Seq(HeldRow)
        BY <1>0, <1>1, <1>6, <1>7, RowsAtTyped
    <2> QED
        BY <1>2, <2>1, GivingBack
<1>9. /\ g[0] = RowsAt(left, rest)
      /\ \A k \in 1..m : g[k] = GiveBack(g[k - 1], rows[k])
    BY <1>2, <1>8 DEF GivesBack
<1> DEFINE N == {k \in Nat : k <= m => g[k] = RowsAt(H(k), K(k))}
<1>10. 0 \in N
    <2>1. back(0) = {}
        OBVIOUS
    <2> HIDE DEF back
    <2>2. K(0) = rest
        BY <2>1
    <2>3. H(0) = [i \in 1..n |-> left[i]]
        BY <2>1
    <2>4. left = [i \in 1..n |-> left[i]]
        BY <1>1, LenProperties
    <2> HIDE DEF H, K
    <2>5. RowsAt(H(0), K(0)) = RowsAt(left, rest)
        BY <2>2, <2>3, <2>4
    <2> QED
        BY <1>9, <2>5
<1>11. ASSUME NEW k \in Nat, k \in N PROVE k + 1 \in N
    <2>1. SUFFICES ASSUME k + 1 <= m PROVE g[k + 1] = RowsAt(H(k + 1), K(k + 1))
        OBVIOUS
    <2> DEFINE p == at[k + 1]
    <2> DEFINE sale == rows[k + 1]
    <2>2. k + 1 \in 1..m /\ (k + 1) - 1 = k /\ k <= m
        BY <1>2, <2>1
    <2>3. g[k] = RowsAt(H(k), K(k))
        BY <1>11, <2>2
    <2>4. /\ p \in P /\ p \in 1..n /\ sale \in LedgerRow /\ sale.lot = h[p].lot
          /\ sale.index = p /\ sale.shares = alloc[p]
        <3>1. sale \in LedgerRow
            BY <1>2, <2>2, ElementOfSeq
        <3> QED
            BY <1>2, <1>p, <2>2, <3>1
    <2>5. back(k + 1) = back(k) \cup {p} /\ p \notin back(k) /\ back(k) \in SUBSET (1..n)
        <3>1. 1..(k + 1) = (1..k) \cup {k + 1} /\ k + 1 \notin 1..k /\ 1..k \in SUBSET (1..m)
            <4>1. \A l \in 1..k : l \in 1..m
                BY <1>2, <2>2
            <4>2. 1..(k + 1) = (1..k) \cup {k + 1} /\ k + 1 \notin 1..k
                OBVIOUS
            <4> QED
                BY <4>1, <4>2
        <3>2. back(k + 1) = back(k) \cup {p}
            BY <3>1
        <3>3. p \notin back(k)
            BY <1>3, <2>2, <3>1
        <3>4. back(k) \in SUBSET (1..n)
            BY <1>2, <1>p, <3>1
        <3> QED
            BY <3>2, <3>3, <3>4
    <2>6. ASSUME p \notin rest, NEW j \in 1..(p - 1) PROVE j \in rest \cup back(k)
        <3>1. SUFFICES ASSUME j \notin rest PROVE j \in back(k)
            OBVIOUS
        <3>2. j \in 1..n /\ j < p
            BY <1>0, <2>4
        <3>3. j \in P
            BY <1>6, <3>1, <3>2
        <3>4. PICK l \in 1..m : at[l] = j
            BY <1>3, <3>3
        <3>5. ~(k + 1 < l) /\ l # k + 1
            <4>1. k + 1 < l => at[k + 1] < at[l]
                BY <1>2, <2>2 DEF Increasing
            <4>2. at[l] \in Nat /\ at[k + 1] \in Nat /\ at[l] < at[k + 1]
                BY <1>0, <2>4, <3>2, <3>4
            <4> QED
                BY <4>1, <4>2
        <3>6. l \in 1..k
            BY <2>2, <3>5
        <3> QED
            BY <3>4, <3>6
    <2> HIDE DEF back
    <2>7. H(k)[p] = left[p]
        BY <2>4, <2>5
    <2>8. p \in rest => h[p] = [H(k)[p] EXCEPT !.shares = @ + sale.shares]
        <3>1. left[p] \in LeftRow /\ left[p].lot = h[p].lot /\ left[p].shares = h[p].shares - alloc[p]
              /\ h[p] \in HeldRow
            BY <1>0, <1>1, <1>4, <2>4
        <3>2. h[p].shares \in Nat /\ alloc[p] \in Nat
            BY <1>4, <2>4, <3>1 DEF HeldRow
        <3>3. (h[p].shares - alloc[p]) + alloc[p] = h[p].shares
            BY <3>2
        <3>4. h[p] = [lot |-> h[p].lot, shares |-> h[p].shares]
            BY <3>1 DEF HeldRow
        <3>5. left[p] = [lot |-> h[p].lot, shares |-> h[p].shares - alloc[p]]
            BY <3>1 DEF LeftRow
        <3>6. [left[p] EXCEPT !.shares = @ + alloc[p]]
                 = [lot |-> h[p].lot, shares |-> (h[p].shares - alloc[p]) + alloc[p]]
            BY <3>5
        <3> HIDE DEF p, sale, H
        <3> QED
            BY <2>4, <2>7, <3>3, <3>4, <3>6
    <2>9. BackAt(h, H(k), K(k), sale, p)
        <3>1. K(k) \in SUBSET (1..n)
            BY <1>6, <2>5
        <3>2. DOMAIN H(k) = 1..n /\ \A i \in 1..n : H(k)[i].lot = h[i].lot
            BY <1>1
        <3>3. \A i \in K(k) : H(k)[i] \in HeldRow
            <4> TAKE i \in K(k)
            <4>0. i \in 1..n
                BY <3>1
            <4>1. CASE i \in back(k)
                BY <1>0, <4>0, <4>1
            <4>2. CASE i \notin back(k)
                <5>1. i \in rest
                    BY <4>2
                <5> QED
                    BY <1>7, <4>0, <4>2, <5>1
            <4> QED
                BY <4>1, <4>2
        <3>4. p \in K(k) <=> p \in rest
            BY <2>5
        <3>5. p \notin rest => sale.shares = h[p].shares
            BY <1>6, <2>4
        <3>6. p \notin rest => 1..(p - 1) \subseteq K(k)
            BY <2>6
        <3> HIDE DEF H, K, p, sale
        <3> QED
            BY <2>4, <2>8, <3>1, <3>2, <3>3, <3>4, <3>5, <3>6 DEF BackAt, n
    <2>10. PutBack(H(k + 1), H(k), h, p)
        <3>1. \A i \in 1..n : i \in back(k + 1) <=> i \in back(k) \/ i = p
            BY <2>5
        <3> HIDE DEF p
        <3> QED
            BY <2>4, <3>1 DEF PutBack
    <2>11. GiveBack(RowsAt(H(k), K(k)), sale) = RowsAt(H(k + 1), K(k) \cup {p})
        <3> HIDE DEF H, K, p, sale
        <3> QED
            BY <2>4, <2>9, <2>10, GiveBackToRow
    <2>12. K(k) \cup {p} = K(k + 1)
        BY <2>5
    <2>13. g[k + 1] = GiveBack(g[k], sale)
        BY <1>9, <2>2
    <2> HIDE DEF H, K, p, sale
    <2> QED
        BY <2>3, <2>10, <2>11, <2>12, <2>13
<1> HIDE DEF N
<1>12. m \in N
    BY <1>2, <1>10, <1>11, NatSet
<1>13. g[m] = RowsAt(H(m), K(m))
    BY <1>2, <1>12 DEF N
<1>14. back(m) = P
    BY <1>2, <1>3
<1> HIDE DEF back
<1>15. H(m) = h
    <2>1. \A i \in 1..n : (IF i \in back(m) THEN h[i] ELSE left[i]) = h[i]
        BY <1>5, <1>14
    <2>2. h = [i \in 1..n |-> h[i]]
        BY <1>0, LenProperties
    <2>3. H(m) = [i \in 1..n |-> h[i]]
        BY <2>1
    <2> QED
        BY <2>2, <2>3
<1>16. K(m) = 1..n
    BY <1>6, <1>14, <1>p
<1>17. RowsAt(h, 1..n) = h
    <2>1. h = [i \in 1..n |-> h[i]]
        BY <1>0, LenProperties
    <2> QED
        BY <1>0, <2>1, AscendingAll
<1> HIDE DEF H, K
<1>18. g[Len(rows)] = h
    BY <1>2, <1>13, <1>15, <1>16, <1>17
<1>19. FoldLeft(GiveBack, RowsAt(left, rest), rows) = h
    BY <1>8, <1>18
<1> QED
    BY <1>19 DEF left, rest, rows, n

(* An order that was just confirmed can be undone, and then all is as it   *)
(* was, unless rows look alike.                                            *)
LEMMA ConfirmThenUndo ==
    ASSUME NEW b, BookOK(b), NEW o \in Orders, NEW alloc, PickOK(alloc), CanConfirm(b, o, alloc),
           Distinct(b.held)
    PROVE  /\ UndoIfCan(Confirmed(b, o, alloc), o) = b
           /\ Distinct(Confirmed(b, o, alloc).held)
<1> DEFINE h == b.held
<1> DEFINE n == Len(h)
<1> DEFINE left == Reduced(h, alloc)
<1> DEFINE rest == (1..n) \ Emptied(h, alloc)
<1> DEFINE held2 == RowsAt(left, rest)
<1> DEFINE rows == LedgerRows(h, alloc)
<1> DEFINE e == [state |-> "confirmed", rows |-> rows]
<1> DEFINE f == [state |-> "unmatched", rows |-> <<>>]
<1> DEFINE q == [b.queue EXCEPT ![o] = e]
<1> DEFINE d == Confirmed(b, o, alloc)
<1>0. /\ h \in Seq(HeldRow) /\ b.queue \in [Orders -> Entry] /\ b = Book(h, b.queue)
      /\ Fits(h, alloc) /\ b.queue[o] = f
    <2>1. /\ h \in Seq(HeldRow) /\ b.queue \in [Orders -> Entry] /\ b = Book(h, b.queue)
          /\ b.queue[o].rows # <<>> <=> b.queue[o].state = "confirmed"
        BY DEF BookOK, QueueOK
    <2>2. b.queue[o].state = "unmatched" /\ Fits(h, alloc)
        BY DEF CanConfirm, Fits
    <2>3. b.queue[o] = [state |-> b.queue[o].state, rows |-> b.queue[o].rows]
        <3>1. b.queue[o] \in Entry
            BY <2>1
        <3> QED
            BY <3>1 DEF Entry
    <2> QED
        BY <2>1, <2>2, <2>3
<1>1. d = Book(held2, q)
    BY <1>0, ConfirmedIs
<1>2. d.held = held2 /\ d.queue = q
    BY <1>1 DEF Book
<1>3. FoldLeft(GiveBack, held2, rows) = h
    BY <1>0, GiveBackAll
<1>4. \A k \in DOMAIN rows : rows[k].official = FALSE
    BY DEF LedgerRows
<1>5. /\ left \in Seq(LeftRow) /\ DOMAIN left = 1..n
      /\ \A i \in 1..n : left[i].lot = h[i].lot
    BY <1>0, ReducedRows
<1>6. Distinct(held2)
    <2>1. /\ DOMAIN held2 = 1..Cardinality(rest)
          /\ held2 = [k \in 1..Cardinality(rest) |-> left[Ascending(rest)[k]]]
          /\ \A k \in 1..Cardinality(rest) : Ascending(rest)[k] \in rest
          /\ rest \in SUBSET Nat /\ IsFiniteSet(rest)
        <3>1. n \in Nat /\ rest \in SUBSET (1..n)
            BY <1>0, LenProperties
        <3>2. DOMAIN left = 1..n
            BY <1>5
        <3> HIDE DEF rest, left, n, held2
        <3>3. /\ rest \in SUBSET Nat /\ IsFiniteSet(rest)
              /\ DOMAIN RowsAt(left, rest) = 1..Cardinality(rest)
              /\ RowsAt(left, rest) = [k \in 1..Cardinality(rest) |-> left[Ascending(rest)[k]]]
              /\ \A k \in 1..Cardinality(rest) : Ascending(rest)[k] \in rest
            BY <3>1, <3>2, RowsAtLists
        <3>4. held2 = RowsAt(left, rest)
            BY DEF held2
        <3> QED
            BY <3>3, <3>4, Zenon
    <2>2. \A k, l \in 1..Cardinality(rest) : Ascending(rest)[k] = Ascending(rest)[l] => k = l
        <3>1. Ascending(rest) \in Bijection(1..Cardinality(rest), rest)
            BY <2>1, AscendingLists
        <3> QED
            BY <3>1 DEF Bijection, Injection, IsInjective
    <2>3. rest \subseteq 1..n /\ DOMAIN h = 1..n
        BY <1>0, LenProperties
    <2> HIDE DEF rest, left, held2
    <2>4. ASSUME NEW k \in DOMAIN held2, NEW l \in DOMAIN held2, held2[k].lot = held2[l].lot
          PROVE  k = l
        <3> DEFINE i == Ascending(rest)[k]
        <3> DEFINE j == Ascending(rest)[l]
        <3>1. i \in 1..n /\ j \in 1..n /\ held2[k] = left[i] /\ held2[l] = left[j]
            BY <2>1, <2>3
        <3>2. h[i].lot = h[j].lot
            BY <1>5, <2>4, <3>1
        <3>3. i = j
            BY <2>3, <3>1, <3>2 DEF Distinct
        <3> QED
            BY <2>1, <2>2, <3>3
    <2> QED
        BY <2>4 DEF Distinct
<1> HIDE DEF held2, rows, d, f, h
<1>7. q[o] = e /\ e.state = "confirmed" /\ e.rows = rows
    BY <1>0
<1> HIDE DEF e
<1>8. CanUndo(d, o)
    BY <1>2, <1>4, <1>7 DEF CanUndo
<1>9. Undone(d, o) = Book(h, [q EXCEPT ![o] = f])
    BY <1>2, <1>3, <1>7 DEF Undone, Returned, f
<1>10. [q EXCEPT ![o] = f] = b.queue
    BY <1>0
<1>11. UndoIfCan(d, o) = b
    BY <1>0, <1>8, <1>9, <1>10 DEF UndoIfCan
<1> QED
    BY <1>2, <1>6, <1>11 DEF d

(* Undoing a list is undoing its first, then the others. *)
LEMMA UndoFirst ==
    ASSUME NEW b \in Books, NEW o \in Orders, NEW os \in Seq(Orders)
    PROVE  UndoEach(b, <<o>> \o os) = UndoEach(UndoIfCan(b, o), os)
<1> DEFINE n == Len(os)
<1> DEFINE all == <<o>> \o os
<1>0. n \in Nat /\ UndoIfCan(b, o) \in Books
    BY LenProperties, UndoIfCanKeeps
<1>1. all \in Seq(Orders) /\ Len(all) = n + 1 /\ all[1] = o /\ \A k \in 1..n : all[k + 1] = os[k]
    <2> DEFINE one == <<o>>
    <2>1. one \in Seq(Orders) /\ Len(one) = 1 /\ one[1] = o
        OBVIOUS
    <2> HIDE DEF one
    <2>2. /\ one \o os \in Seq(Orders)
          /\ Len(one \o os) = 1 + n
          /\ \A k \in 1..(1 + n) : (one \o os)[k] = IF k <= 1 THEN one[k] ELSE os[k - 1]
        <3>1. /\ one \o os \in Seq(Orders)
              /\ Len(one \o os) = Len(one) + Len(os)
              /\ \A k \in 1..(Len(one) + Len(os)) :
                    (one \o os)[k] = IF k <= Len(one) THEN one[k] ELSE os[k - Len(one)]
            BY <2>1, ConcatProperties
        <3> QED
            BY <2>1, <3>1
    <2>3. \A k \in 1..n : k + 1 \in 1..(1 + n) /\ ~(k + 1 <= 1) /\ (k + 1) - 1 = k
        BY <1>0
    <2>4. 1 \in 1..(1 + n)
        BY <1>0
    <2>5. \A k \in 1..n : (one \o os)[k + 1] = os[k]
        BY <2>2, <2>3
    <2> QED
        BY <1>0, <2>1, <2>2, <2>4, <2>5 DEF one
<1> HIDE DEF all
<1>2. PICK g : UndoesEach(g, b, all) /\ g[n + 1] = UndoEach(b, all)
    BY <1>1, UndoingEach
<1>3. PICK f : UndoesEach(f, UndoIfCan(b, o), os) /\ f[n] = UndoEach(UndoIfCan(b, o), os)
    BY <1>0, UndoingEach
<1>4. /\ g[0] = b
      /\ \A k \in 1..(n + 1) : g[k] = UndoIfCan(g[k - 1], all[k])
      /\ f[0] = UndoIfCan(b, o)
      /\ \A k \in 1..n : f[k] = UndoIfCan(f[k - 1], os[k])
    BY <1>1, <1>2, <1>3 DEF UndoesEach
<1> HIDE DEF n
<1> DEFINE N == {k \in Nat : k <= n => g[k + 1] = f[k]}
<1>5. 0 \in N
    <2>1. 1 \in 1..(n + 1) /\ 1 - 1 = 0 /\ 0 + 1 = 1
        BY <1>0
    <2>2. g[1] = UndoIfCan(g[0], all[1])
        BY <1>4, <2>1
    <2> QED
        BY <1>1, <1>4, <2>1, <2>2
<1>6. ASSUME NEW k \in Nat, k \in N PROVE k + 1 \in N
    <2>1. SUFFICES ASSUME k + 1 <= n PROVE g[(k + 1) + 1] = f[k + 1]
        OBVIOUS
    <2>2. /\ k + 1 \in 1..n /\ (k + 1) + 1 \in 1..(n + 1) /\ k <= n
          /\ ((k + 1) + 1) - 1 = k + 1 /\ (k + 1) - 1 = k
        BY <1>0, <2>1
    <2>3. g[(k + 1) + 1] = UndoIfCan(g[k + 1], all[(k + 1) + 1])
        BY <1>4, <2>2
    <2>4. f[k + 1] = UndoIfCan(f[k], os[k + 1])
        BY <1>4, <2>2
    <2>5. g[k + 1] = f[k]
        BY <1>6, <2>2
    <2>6. all[(k + 1) + 1] = os[k + 1]
        BY <1>1, <2>2 DEF n
    <2> QED
        BY <2>3, <2>4, <2>5, <2>6
<1> HIDE DEF N
<1>7. n \in N
    BY <1>0, <1>5, <1>6, NatSet
<1>8. g[n + 1] = f[n]
    BY <1>0, <1>7 DEF N
<1> QED
    BY <1>2, <1>3, <1>8 DEF all

LEMMA ReverseAppend ==
    ASSUME NEW os \in Seq(Orders), NEW o \in Orders
    PROVE  /\ Reverse(os) \in Seq(Orders)
           /\ Reverse(Append(os, o)) = <<o>> \o Reverse(os)
<1> DEFINE n == Len(os)
<1> DEFINE r == Reverse(os)
<1> DEFINE t == Append(os, o)
<1>0. n \in Nat /\ \A k \in 1..n : os[k] \in Orders
    BY LenProperties, ElementOfSeq
<1>1. t \in Seq(Orders) /\ Len(t) = n + 1 /\ t[n + 1] = o /\ \A k \in 1..n : t[k] = os[k]
    BY AppendProperties
<1>2. r = [i \in 1..n |-> os[(n - i) + 1]]
    BY DEF Reverse
<1>3. Reverse(t) = [i \in 1..(n + 1) |-> t[((n + 1) - i) + 1]]
    <2> HIDE DEF t
    <2> QED
        BY <1>1 DEF Reverse
<1> HIDE DEF n, r, t
<1>4. r \in Seq(Orders) /\ Len(r) = n
    <2>1. \A i \in 1..n : (n - i) + 1 \in 1..n
        BY <1>0
    <2>2. r \in [1..n -> Orders]
        BY <1>0, <1>2, <2>1
    <2> QED
        BY <1>0, <2>2
<1> DEFINE one == <<o>>
<1>5. one \in Seq(Orders) /\ Len(one) = 1 /\ one[1] = o
    OBVIOUS
<1> HIDE DEF one
<1>6. /\ one \o r \in Seq(Orders)
      /\ Len(one \o r) = 1 + n
      /\ \A k \in 1..(1 + n) : (one \o r)[k] = IF k <= 1 THEN one[k] ELSE r[k - 1]
    <2>1. /\ one \o r \in Seq(Orders)
          /\ Len(one \o r) = Len(one) + Len(r)
          /\ \A k \in 1..(Len(one) + Len(r)) :
                (one \o r)[k] = IF k <= Len(one) THEN one[k] ELSE r[k - Len(one)]
        BY <1>4, <1>5, ConcatProperties
    <2> QED
        BY <1>4, <1>5, <2>1
<1>7. \A k \in 1..(n + 1) : t[((n + 1) - k) + 1] = (one \o r)[k]
    <2> TAKE k \in 1..(n + 1)
    <2>0. k \in 1..(1 + n)
        BY <1>0
    <2>1. CASE k = 1
        <3>1. ((n + 1) - k) + 1 = n + 1 /\ k <= 1
            BY <1>0, <2>1
        <3> QED
            BY <1>1, <1>5, <1>6, <2>0, <2>1, <3>1
    <2>2. CASE k # 1
        <3>1. /\ ~(k <= 1) /\ k - 1 \in 1..n /\ ((n + 1) - k) + 1 \in 1..n
              /\ ((n + 1) - k) + 1 = (n - (k - 1)) + 1
            BY <1>0, <2>2
        <3>2. (one \o r)[k] = r[k - 1] /\ r[k - 1] = os[(n - (k - 1)) + 1]
            BY <1>2, <1>6, <2>0, <3>1
        <3>3. t[((n + 1) - k) + 1] = os[((n + 1) - k) + 1]
            BY <1>1, <3>1 DEF n
        <3> QED
            BY <3>1, <3>2, <3>3
    <2> QED
        BY <2>1, <2>2
<1>8. one \o r = [k \in 1..(n + 1) |-> (one \o r)[k]]
    <2>1. 1 + n = n + 1
        BY <1>0
    <2> QED
        BY <1>6, <2>1, LenProperties
<1>9. Reverse(t) = one \o r
    BY <1>3, <1>7, <1>8
<1> QED
    BY <1>4, <1>9 DEF r, t, one

----------------------------------------------------------------------------
(* A batch                                                                 *)

(* from says which row of the snapshot each row of h is: those that are    *)
(* not gone, in order.                                                     *)
FromOK(from, n, snap, gone, h) ==
    /\ n \in Nat
    /\ h \in Seq(HeldRow)
    /\ gone \in SUBSET (1..n)
    /\ from \in [1..Len(h) -> 1..n]
    /\ Increasing(from, Len(h))
    /\ \A k \in 1..Len(h) : from[k] \notin gone /\ h[k].lot = snap[from[k]]
    /\ \A sid \in 1..n : sid \in gone \/ \E k \in 1..Len(h) : from[k] = sid

(* _Lots.current finds the row a snapshot id stands for: as many rows of   *)
(* its lot come before it as there were before and are not gone.           *)
LEMMA CurrentIs ==
    ASSUME NEW from, NEW n, NEW snap, NEW gone, NEW h, FromOK(from, n, snap, gone, h),
           NEW sid \in 1..n
    PROVE  /\ sid \in gone => Current(snap, gone, h, sid) = NoRow
           /\ sid \notin gone => /\ Current(snap, gone, h, sid) \in 1..Len(h)
                                 /\ from[Current(snap, gone, h, sid)] = sid
<1> DEFINE R == {j \in 1..(sid - 1) : snap[j] = snap[sid] /\ j \notin gone}
<1> DEFINE S == {j \in DOMAIN h : h[j].lot = snap[sid]}
<1> DEFINE rank == Cardinality(R)
<1> DEFINE spots == Ascending(S)
<1>0. /\ n \in Nat /\ DOMAIN h = 1..Len(h) /\ Len(h) \in Nat
      /\ from \in [1..Len(h) -> 1..n]
      /\ \A k \in 1..Len(h) : from[k] \in 1..n /\ from[k] \notin gone /\ h[k].lot = snap[from[k]]
      /\ \A k, l \in 1..Len(h) : k < l => from[k] < from[l]
      /\ \A i \in 1..n : i \in gone \/ \E k \in 1..Len(h) : from[k] = i
    BY LenProperties DEF FromOK, Increasing
<1>1. Current(snap, gone, h, sid)
         = IF sid \notin gone /\ rank < Len(spots) THEN spots[rank + 1] ELSE NoRow
    BY DEF Current
<1>2. CASE sid \in gone
    BY <1>1, <1>2
<1>3. CASE sid \notin gone
    <2>1. PICK k \in 1..Len(h) : from[k] = sid
        BY <1>0, <1>3
    <2> DEFINE B == {j \in S : j < k}
    <2> DEFINE b == [j \in B |-> from[j]]
    <2>2. S \in SUBSET Nat /\ IsFiniteSet(S) /\ k \in S
        <3>1. IsFiniteSet(1..Len(h))
            BY <1>0, FS_Interval
        <3>2. S \in SUBSET (1..Len(h)) /\ k \in S
            BY <1>0, <2>1
        <3>3. S \in SUBSET Nat
            BY <3>2
        <3> HIDE DEF S
        <3> QED
            BY <3>1, <3>2, <3>3, FS_Subset
    <2>3. b \in [B -> R]
        <3>1. ASSUME NEW j \in B PROVE from[j] \in R
            <4>1. j \in 1..Len(h) /\ h[j].lot = snap[sid] /\ j < k
                BY <1>0
            <4>2. from[j] < from[k] /\ from[j] \in 1..n /\ from[j] \notin gone
                  /\ h[j].lot = snap[from[j]]
                BY <1>0, <4>1
            <4>3. from[j] \in 1..(sid - 1)
                BY <1>0, <2>1, <4>2
            <4> QED
                BY <4>1, <4>2, <4>3
        <3> QED
            BY <3>1
    <2>4. \A i, j \in B : b[i] = b[j] => i = j
        <3> TAKE i, j \in B
        <3> HAVE b[i] = b[j]
        <3>1. i \in 1..Len(h) /\ j \in 1..Len(h) /\ from[i] = from[j]
            BY <1>0
        <3>2. ~(i < j) /\ ~(j < i)
            BY <1>0, <3>1
        <3> QED
            BY <3>1, <3>2
    <2>5. \A i \in R : \E j \in B : b[j] = i
        <3> TAKE i \in R
        <3>1. i \in 1..n /\ i < sid /\ snap[i] = snap[sid] /\ i \notin gone
            BY <1>0
        <3>2. PICK j \in 1..Len(h) : from[j] = i
            BY <1>0, <3>1
        <3>3. ~(k < j) /\ j # k
            <4>1. k < j => from[k] < from[j]
                BY <1>0
            <4> QED
                BY <1>0, <2>1, <3>1, <3>2, <4>1
        <3>4. j < k /\ h[j].lot = snap[sid]
            BY <1>0, <3>1, <3>2, <3>3
        <3>5. j \in B
            BY <1>0, <3>4
        <3> QED
            BY <3>2, <3>5
    <2>6. IsFiniteSet(B)
        <3>1. B \in SUBSET S
            OBVIOUS
        <3> HIDE DEF B, S
        <3> QED
            BY <2>2, <3>1, FS_Subset
    <2>7. rank = Rank(S, k)
        <3>1. b \in Bijection(B, R)
            BY <2>3, <2>4, <2>5 DEF Bijection, Injection, Surjection, IsInjective
        <3>2. ExistsBijection(B, R)
            BY <3>1 DEF ExistsBijection
        <3>3. Cardinality(R) = Cardinality(B)
            <4> HIDE DEF B, R
            <4> QED
                BY <2>6, <3>2, FS_Bijection
        <3> QED
            BY <3>3 DEF Rank
    <2> HIDE DEF R, S, B, b, rank, spots
    <2>8. /\ Cardinality(S) \in Nat /\ Rank(S, k) \in 0..(Cardinality(S) - 1)
          /\ \A i, j \in S : i < j => Rank(S, i) < Rank(S, j)
        BY <2>2, Ranks
    <2>9. /\ spots \in [1..Cardinality(S) -> S] /\ Len(spots) = Cardinality(S)
          /\ \A l \in 1..Cardinality(S) : Rank(S, spots[l]) = l - 1
        <3>1. spots \in Bijection(1..Cardinality(S), S)
            BY <2>2, AscendingLists DEF spots
        <3>2. spots \in [1..Cardinality(S) -> S]
            BY <3>1 DEF Bijection, Injection
        <3>3. Len(spots) = Cardinality(S)
            BY <2>8, <3>2
        <3> QED
            BY <2>2, <3>2, <3>3, AscendingLists DEF spots
    <2>10. rank < Len(spots) /\ rank + 1 \in 1..Cardinality(S) /\ (rank + 1) - 1 = rank
        BY <2>7, <2>8, <2>9
    <2>11. spots[rank + 1] \in S /\ Rank(S, spots[rank + 1]) = Rank(S, k)
        BY <2>7, <2>9, <2>10
    <2>12. \A i \in S : Rank(S, i) = Rank(S, k) => i = k
        <3> TAKE i \in S
        <3> HAVE Rank(S, i) = Rank(S, k)
        <3>1. ~(i < k) /\ ~(k < i)
            BY <2>2, <2>8
        <3> QED
            BY <2>2, <3>1
    <2>13. spots[rank + 1] = k
        BY <2>11, <2>12
    <2> QED
        BY <1>1, <1>3, <2>1, <2>10, <2>13
<1> QED
    BY <1>2, <1>3

(* Rows that leave the dataset take their snapshot indexes with them. *)
LEMMA FromMoves ==
    ASSUME NEW from, NEW n, NEW snap, NEW gone, NEW h, FromOK(from, n, snap, gone, h),
           NEW E \in SUBSET (1..Len(h)), NEW left, DOMAIN left = 1..Len(h),
           \A i \in 1..Len(h) : left[i].lot = h[i].lot,
           RowsAt(left, (1..Len(h)) \ E) \in Seq(HeldRow)
    PROVE  FromOK(RowsAt(from, (1..Len(h)) \ E), n, snap, gone \cup {from[i] : i \in E},
                  RowsAt(left, (1..Len(h)) \ E))
<1> DEFINE m == Len(h)
<1> DEFINE S == (1..m) \ E
<1> DEFINE c == Cardinality(S)
<1> DEFINE at == Ascending(S)
<1> DEFINE h2 == RowsAt(left, S)
<1> DEFINE f2 == RowsAt(from, S)
<1> DEFINE gone2 == gone \cup {from[i] : i \in E}
<1>0. /\ n \in Nat /\ m \in Nat /\ gone \in SUBSET (1..n)
      /\ from \in [1..m -> 1..n] /\ DOMAIN from = 1..m
      /\ \A k \in 1..m : from[k] \in 1..n /\ from[k] \notin gone /\ h[k].lot = snap[from[k]]
      /\ \A k, l \in 1..m : k < l => from[k] < from[l]
      /\ \A i \in 1..n : i \in gone \/ \E k \in 1..m : from[k] = i
    BY LenProperties DEF FromOK, Increasing
<1>1. S \in SUBSET (1..m) /\ E \in SUBSET (1..m) /\ DOMAIN left = 1..m /\ h2 \in Seq(HeldRow)
      /\ \A i \in 1..m : left[i].lot = h[i].lot
    OBVIOUS
<1>s. \A i \in 1..m : i \in S <=> i \notin E
    OBVIOUS
<1> HIDE DEF m, S, h2, f2
<1>2. /\ S \in SUBSET Nat /\ IsFiniteSet(S) /\ c \in Nat
      /\ DOMAIN h2 = 1..c /\ h2 = [k \in 1..c |-> left[at[k]]]
      /\ \A k \in 1..c : at[k] \in S
      /\ \A i \in S : \E k \in 1..c : at[k] = i
    BY <1>0, <1>1, RowsAtLists, SMTT(20) DEF h2
<1>3. f2 = [k \in 1..c |-> from[at[k]]]
    BY <1>0, <1>1, RowsAtLists DEF f2
<1>4. Len(h2) = c
    BY <1>1, <1>2, LenProperties
<1>5. \A k, l \in 1..c : k < l => at[k] < at[l]
    BY <1>2, AscendingLists DEF Increasing
<1> HIDE DEF c, at
<1>6. \A i, j \in 1..m : from[i] = from[j] => i = j
    <2> TAKE i, j \in 1..m
    <2> HAVE from[i] = from[j]
    <2>1. ~(i < j) /\ ~(j < i)
        BY <1>0
    <2> QED
        BY <2>1, <1>0
<1>7. gone2 \in SUBSET (1..n)
    BY <1>0, <1>1
<1>8. \A k \in 1..c : at[k] \in 1..m /\ at[k] \notin E /\ f2[k] = from[at[k]]
    BY <1>1, <1>2, <1>3, <1>s
<1>9. f2 \in [1..c -> 1..n]
    BY <1>0, <1>3, <1>8
<1>10. Increasing(f2, c)
    <2>1. ASSUME NEW k \in 1..c, NEW l \in 1..c, k < l PROVE f2[k] < f2[l]
        BY <1>0, <1>5, <1>8, <2>1, SMTT(20)
    <2> QED
        BY <2>1 DEF Increasing
<1>11. ASSUME NEW k \in 1..c PROVE f2[k] \notin gone2 /\ h2[k].lot = snap[f2[k]]
    <2>1. at[k] \in 1..m /\ at[k] \notin E /\ f2[k] = from[at[k]] /\ h2[k] = left[at[k]]
        BY <1>2, <1>8
    <2>2. \A i \in E : from[i] # f2[k]
        BY <1>1, <1>6, <2>1
    <2> QED
        BY <1>0, <1>1, <2>1, <2>2
<1>12. ASSUME NEW i \in 1..n, i \notin gone2 PROVE \E k \in 1..c : f2[k] = i
    <2>1. PICK j \in 1..m : from[j] = i
        BY <1>0, <1>12
    <2>2. j \in S
        BY <1>12, <1>s, <2>1
    <2>3. PICK k \in 1..c : at[k] = j
        BY <1>2, <2>2
    <2> QED
        BY <1>8, <2>1, <2>3
<1> HIDE DEF gone2
<1>13. FromOK(f2, n, snap, gone2, h2)
    BY <1>0, <1>1, <1>4, <1>7, <1>9, <1>10, <1>11, <1>12 DEF FromOK
<1> QED
    BY <1>13 DEF f2, gone2, h2, S, m

(* The snapshot a batch begins with, and what holds of it after every item *)
(* when it began with the book b: shares are kept, each row is the one of  *)
(* its snapshot index, and the orders confirmed so far can be taken back.  *)
Snap(h) == [i \in DOMAIN h |-> h[i].lot]
ItemOK(h, item) ==
    item.order \in Orders /\ DOMAIN item.alloc \subseteq DOMAIN h /\ PickOK(item.alloc)
BatchOK(b, st) ==
    /\ FromOK(st.from, Len(b.held), Snap(b.held), st.gone, st.book.held)
    /\ \A lot \in Lots : Kept(st.book, lot) = Kept(b, lot)
    /\ Distinct(b.held) => /\ Distinct(st.book.held)
                           /\ UndoEach(st.book, Reverse(st.confirmed)) = b
BatchState(b) ==
    {st \in [book : Books, gone : SUBSET Nat, confirmed : Seq(Orders), from : Seq(Nat),
             asShown : {TRUE}] : BatchOK(b, st)}

(* One item of a batch keeps all that, and is taken from the rows shown. *)
LEMMA BatchStepKeeps ==
    ASSUME NEW b \in Books, NEW st \in BatchState(b), NEW item, ItemOK(b.held, item)
    PROVE  BatchStep(Snap(b.held), st, item) \in BatchState(b)
<1> DEFINE n == Len(b.held)
<1> DEFINE snap == Snap(b.held)
<1> DEFINE h == st.book.held
<1> DEFINE T == DOMAIN item.alloc
<1> DEFINE o == item.order
<1> DEFINE now(sid) == Current(snap, st.gone, st.book.held, sid)
<1> DEFINE alloc == [i \in {now(sid) : sid \in DOMAIN item.alloc} |->
                        item.alloc[CHOOSE sid \in DOMAIN item.alloc : now(sid) = i]]
<1> DEFINE emptied == {i \in DOMAIN alloc : alloc[i] = st.book.held[i].shares}
<1> DEFINE gone2 == st.gone \cup {sid \in DOMAIN item.alloc : now(sid) \in emptied}
<1> DEFINE from2 == RowsAt(st.from, DOMAIN st.book.held \ emptied)
<1> DEFINE shown2 == st.asShown /\ \A sid \in DOMAIN item.alloc : st.from[now(sid)] = sid
<1> DEFINE book2 == Confirmed(st.book, item.order, alloc)
<1>1. BatchStep(snap, st, item)
         = IF ~CanConfirm(st.book, item.order, alloc) THEN st
           ELSE [book |-> book2, gone |-> gone2, confirmed |-> Append(st.confirmed, item.order),
                 from |-> from2, asShown |-> shown2]
    BY DEF BatchStep
<1>2. /\ st.book \in Books /\ st.gone \in SUBSET Nat /\ st.confirmed \in Seq(Orders)
      /\ st.from \in Seq(Nat) /\ st.asShown = TRUE
      /\ BatchOK(b, st)
    BY DEF BatchState
<1>3. /\ FromOK(st.from, n, snap, st.gone, h)
      /\ \A lot \in Lots : Kept(st.book, lot) = Kept(b, lot)
      /\ Distinct(b.held) => Distinct(h) /\ UndoEach(st.book, Reverse(st.confirmed)) = b
    BY <1>2 DEF BatchOK
<1>4. /\ n \in Nat /\ DOMAIN b.held = 1..n /\ T \subseteq 1..n
      /\ o \in Orders /\ \A sid \in T : item.alloc[sid] \in Nat \ {0}
    <2>1. b.held \in Seq(HeldRow)
        BY DEF Books
    <2> QED
        BY <2>1, LenProperties DEF ItemOK, PickOK
<1>5. h \in Seq(HeldRow) /\ DOMAIN h = 1..Len(h) /\ Len(h) \in Nat /\ BookOK(st.book)
    BY <1>2, <1>3, LenProperties, BooksAreOK DEF FromOK
<1> HIDE DEF n, snap
<1>6. CASE ~CanConfirm(st.book, o, alloc)
    BY <1>1, <1>6 DEF snap
<1>7. CASE CanConfirm(st.book, o, alloc)
    <2>1. DOMAIN alloc \subseteq 1..Len(h)
        BY <1>5, <1>7 DEF CanConfirm
    <2>2. \A sid \in T : now(sid) \in DOMAIN alloc
        OBVIOUS
    <2> HIDE DEF now
    <2>3. ASSUME NEW sid \in T
          PROVE  sid \notin st.gone /\ now(sid) \in 1..Len(h) /\ st.from[now(sid)] = sid
        <3>1. now(sid) # NoRow
            BY <1>5, <2>1, <2>2 DEF NoRow
        <3>2. sid \in 1..n
            BY <1>4
        <3> QED
            BY <1>3, <3>1, <3>2, CurrentIs DEF now
    <2>4. PickOK(alloc)
        <3>1. ASSUME NEW i \in DOMAIN alloc PROVE alloc[i] \in Nat \ {0}
            <4> DEFINE pick == CHOOSE sid \in T : now(sid) = i
            <4>1. pick \in T
                OBVIOUS
            <4>2. alloc[i] = item.alloc[pick]
                OBVIOUS
            <4> HIDE DEF pick, alloc, T
            <4> QED
                BY <1>4, <4>1, <4>2
        <3> HIDE DEF alloc
        <3> QED
            BY <3>1 DEF PickOK
    <2>5. \A i \in DOMAIN alloc : \E sid \in T : now(sid) = i
        OBVIOUS
    <2> HIDE DEF alloc
    <2>6. Fits(h, alloc) /\ book2 \in Books /\ \A lot : Kept(book2, lot) = Kept(st.book, lot)
        BY <1>4, <1>5, <1>7, <2>4, ConfirmedKeeps, BooksAreOK
    <2>7. book2.held = RowsAt(Reduced(h, alloc), (1..Len(h)) \ emptied)
        <3>1. book2 = Book(RowsAt(Reduced(h, alloc), (1..Len(h)) \ Emptied(h, alloc)),
                           [st.book.queue EXCEPT ![o] =
                               [state |-> "confirmed", rows |-> LedgerRows(h, alloc)]])
            BY <1>5, <2>4, <2>6, ConfirmedIs
        <3>2. emptied = Emptied(h, alloc)
            BY DEF Emptied
        <3> HIDE DEF book2, emptied
        <3> QED
            BY <3>1, <3>2 DEF Book
    <2>8. emptied \in SUBSET (1..Len(h))
        BY <2>1
    <2>9. gone2 = st.gone \cup {st.from[i] : i \in emptied}
        <3> DEFINE A == {sid \in T : now(sid) \in emptied}
        <3> DEFINE B == {st.from[i] : i \in emptied}
        <3>1. \A sid \in A : sid \in B
            BY <2>3
        <3>2. ASSUME NEW i \in emptied PROVE st.from[i] \in A
            <4>1. PICK sid \in T : now(sid) = i
                BY <2>5
            <4> QED
                BY <2>3, <4>1
        <3>3. A = B
            BY <3>1, <3>2
        <3> QED
            BY <3>3
    <2>10. FromOK(from2, n, snap, gone2, book2.held)
        <3> DEFINE left == Reduced(h, alloc)
        <3>1. DOMAIN left = 1..Len(h) /\ \A i \in 1..Len(h) : left[i].lot = h[i].lot
            BY <1>5, <2>4, <2>6, ReducedRows
        <3>2. RowsAt(left, (1..Len(h)) \ emptied) \in Seq(HeldRow)
            BY <2>6, <2>7 DEF Books
        <3> HIDE DEF emptied, left, gone2
        <3>3. FromOK(RowsAt(st.from, (1..Len(h)) \ emptied), n, snap,
                     st.gone \cup {st.from[i] : i \in emptied},
                     RowsAt(left, (1..Len(h)) \ emptied))
            BY <1>3, <2>8, <3>1, <3>2, FromMoves
        <3> QED
            BY <1>5, <2>7, <2>9, <3>3 DEF left
    <2>11. shown2 = TRUE
        BY <1>2, <2>3
    <2> DEFINE confirmed2 == Append(st.confirmed, item.order)
    <2>12. confirmed2 \in Seq(Orders)
        BY <1>2, <1>4, AppendProperties
    <2>13. from2 \in Seq(Nat)
        <3>1. from2 \in [1..Len(book2.held) -> 1..n] /\ Len(book2.held) \in Nat
            <4>1. book2.held \in Seq(HeldRow)
                BY <2>6 DEF Books
            <4> HIDE DEF from2, book2, gone2
            <4> QED
                BY <2>10, <4>1, LenProperties DEF FromOK
        <3>2. from2 \in [1..Len(book2.held) -> Nat]
            <4> HIDE DEF from2, book2
            <4> QED
                BY <1>4, <3>1
        <3> HIDE DEF from2, book2
        <3> QED
            BY <3>1, <3>2
    <2>14. gone2 \in SUBSET Nat
        BY <1>2, <1>4
    <2>15. ASSUME Distinct(b.held)
           PROVE  Distinct(book2.held) /\ UndoEach(book2, Reverse(confirmed2)) = b
        <3>1. Distinct(h) /\ UndoEach(st.book, Reverse(st.confirmed)) = b
            BY <1>3, <2>15
        <3>2. UndoIfCan(book2, o) = st.book /\ Distinct(book2.held)
            BY <1>4, <1>5, <1>7, <2>4, <3>1, ConfirmThenUndo
        <3>3. Reverse(st.confirmed) \in Seq(Orders)
              /\ Reverse(confirmed2) = <<o>> \o Reverse(st.confirmed)
            BY <1>2, <1>4, ReverseAppend
        <3> HIDE DEF book2, confirmed2
        <3>4. UndoEach(book2, <<o>> \o Reverse(st.confirmed))
                  = UndoEach(UndoIfCan(book2, o), Reverse(st.confirmed))
            BY <1>4, <2>6, <3>3, UndoFirst
        <3> QED
            BY <3>1, <3>2, <3>3, <3>4
    <2> DEFINE st2 == [book |-> book2, gone |-> gone2, confirmed |-> confirmed2,
                       from |-> from2, asShown |-> shown2]
    <2> HIDE DEF book2, gone2, confirmed2, from2, shown2
    <2>16. BatchOK(b, st2)
        BY <1>3, <2>6, <2>10, <2>15 DEF BatchOK, n, snap
    <2>17. st2 \in BatchState(b)
        BY <2>6, <2>11, <2>12, <2>13, <2>14, <2>16 DEF BatchState
    <2> QED
        BY <1>1, <1>7, <2>17 DEF snap, confirmed2
<1> HIDE DEF alloc
<1> QED
    BY <1>6, <1>7

(* What a batch begins with. *)
BatchStart == [book |-> Now, gone |-> {}, confirmed |-> <<>>,
               from |-> [i \in DOMAIN held |-> i], asShown |-> TRUE]

LEMMA BatchStarts ==
    ASSUME Now \in Books
    PROVE  BatchStart \in BatchState(Now)
<1> DEFINE n == Len(held)
<1> DEFINE from == [i \in DOMAIN held |-> i]
<1> DEFINE none == <<>>
<1>1. Now.held = held
    BY DEF Now, Book
<1>2. held \in Seq(HeldRow) /\ DOMAIN held = 1..n /\ n \in Nat
    BY <1>1, LenProperties DEF Books
<1>3. FromOK(from, n, Snap(held), {}, held)
    <2>1. from \in [1..n -> 1..n] /\ \A i \in 1..n : from[i] = i
        BY <1>2
    <2> HIDE DEF from, n
    <2>2. Increasing(from, n)
        BY <2>1 DEF Increasing
    <2>3. \A k \in 1..n : from[k] \notin {} /\ held[k].lot = Snap(held)[from[k]]
        BY <1>2, <2>1 DEF Snap
    <2>4. \A i \in 1..n : i \in {} \/ \E k \in 1..n : from[k] = i
        BY <2>1
    <2> QED
        BY <1>2, <2>1, <2>2, <2>3, <2>4 DEF FromOK, n
<1>4. none \in Seq(Orders) /\ Len(none) = 0 /\ Reverse(none) = none
    BY DEF Reverse
<1>5. from \in Seq(Nat)
    <2>1. from \in [1..n -> Nat]
        BY <1>2
    <2> HIDE DEF from
    <2> QED
        BY <1>2, <2>1
<1> HIDE DEF none, from, n
<1>6. UndoEach(Now, Reverse(none)) = Now
    <2>1. PICK g : UndoesEach(g, Now, none) /\ g[Len(none)] = UndoEach(Now, none)
        BY <1>4, UndoingEach
    <2> QED
        BY <1>4, <2>1 DEF UndoesEach
<1>7. BatchOK(Now, BatchStart)
    <2> DEFINE st == BatchStart
    <2>1. /\ st.from = from /\ st.gone = {} /\ st.book = Now /\ st.confirmed = none
          /\ st.asShown = TRUE
        BY DEF BatchStart, from, none
    <2> HIDE DEF st
    <2> QED
        BY <1>1, <1>3, <1>6, <2>1 DEF BatchOK, n, st
<1>8. BatchStart \in [book : Books, gone : SUBSET Nat, confirmed : Seq(Orders), from : Seq(Nat),
                      asShown : {TRUE}]
    BY <1>4, <1>5 DEF BatchStart, from, none
<1> QED
    BY <1>7, <1>8 DEF BatchState

LEMMA BatchKeeps ==
    ASSUME Now \in Books, NEW items, NEW n \in Nat, DOMAIN items = 1..n, Len(items) = n,
           \A k \in 1..n : ItemOK(held, items[k])
    PROVE  Batch(items) \in BatchState(Now)
<1> DEFINE V == BatchState(Now)
<1> DEFINE b == BatchStart
<1> DEFINE snap == Snap(held)
<1> DEFINE step == [p \in V \X (1..n) |-> BatchStep(snap, p[1], items[p[2]])]
<1> DEFINE Folds(I) ==
        I = [s \in SUBSET (1..n) |->
                IF s = {} THEN b ELSE BatchStep(snap, I[s \ {Max(s)}], items[Max(s)])]
<1> DEFINE J == CHOOSE I : Folds(I)
<1>1. b \in V
    BY BatchStarts
<1>2. Batch(items) = J[1..n]
    BY DEF Batch, FoldLeft, MapThenFoldSet, BatchStart, Snap
<1>0. \A v \in V, k \in 1..n : BatchStep(snap, v, items[k]) \in V
    <2>1. Now.held = held
        BY DEF Now, Book
    <2> HIDE DEF snap
    <2> QED
        BY <2>1, BatchStepKeeps DEF snap
<1> HIDE DEF b, snap
<1>3. \A v \in V, k \in 1..n : step[<<v, k>>] = BatchStep(snap, v, items[k])
    OBVIOUS
<1>4. StepsIn(step, V, n)
    <2>1. \A p \in V \X (1..n) : BatchStep(snap, p[1], items[p[2]]) \in V
        BY <1>0
    <2>2. step \in [V \X (1..n) -> V]
        BY <2>1
    <2> HIDE DEF step, V
    <2> QED
        BY <2>2 DEF StepsIn
<1> HIDE DEF step, V
<1>5. \E I : Folds(I)
    <2>1. PICK I : FoldsIn(I, V, n, b, step)
        BY <1>1, <1>4, FoldExists
    <2>2. \A s \in SUBSET (1..n) :
              I[s] = IF s = {} THEN b ELSE BatchStep(snap, I[s \ {Max(s)}], items[Max(s)])
        <3> TAKE s \in SUBSET (1..n)
        <3>1. CASE s = {}
            BY <2>1, <3>1 DEF FoldsIn
        <3>2. CASE s # {}
            <4>1. Max(s) \in 1..n
                BY <3>2, GreatestIn
            <4>2. \A m : I[s \ {m}] \in V
                BY <2>1 DEF FoldsIn
            <4>3. I[s] = step[<<I[s \ {Max(s)}], Max(s)>>]
                BY <2>1, <3>2 DEF FoldsIn, LastStep
            <4> QED
                BY <1>3, <3>2, <4>1, <4>2, <4>3
        <3> QED
            BY <3>1, <3>2
    <2>3. I = [s \in SUBSET (1..n) |-> I[s]]
        BY <2>1 DEF FoldsIn
    <2>4. Folds(I)
        BY <2>2, <2>3
    <2> HIDE DEF Folds
    <2> QED
        BY <2>4
<1> HIDE DEF Folds
<1>6. Folds(J)
    BY <1>5
<1> HIDE DEF J
<1>7. FoldsWithin(J, V, n, b, step)
    <2>1. J[{}] = b
        BY <1>6 DEF Folds
    <2>2. ASSUME NEW s \in SUBSET (1..n), s # {}, J[s \ {Max(s)}] \in V
          PROVE  J[s] = LastStep(J, step, s)
        <3>1. Max(s) \in 1..n
            BY <2>2, GreatestIn
        <3>2. J[s] = BatchStep(snap, J[s \ {Max(s)}], items[Max(s)])
            BY <1>6, <2>2 DEF Folds
        <3> QED
            BY <1>3, <2>2, <3>1, <3>2 DEF LastStep
    <2> QED
        BY <2>1, <2>2 DEF FoldsWithin
<1>8. PICK g : Passes(g, V, n, b, step) /\ g[n] = J[1..n]
    BY <1>1, <1>4, <1>7, FoldSteps
<1>9. g[n] \in V
    BY <1>8 DEF Passes
<1> QED
    BY <1>2, <1>8, <1>9 DEF V

-----------------------------------------------------------------------------
(* The inductive invariant.  SharesConserved needs the types of the rows,  *)
(* and that RemoveRow never takes out more than there is needs             *)
(* SharesConserved; BatchUndoRestores needs TakenBack, what the batch just *)
(* confirmed says of the state it left.                                    *)

TakenBack ==
    batch.confirmed # <<>> /\ Distinct(batch.before)
        => UndoEach(Now, Reverse(batch.confirmed)).held = batch.before
SalesInv ==
    /\ Now \in Books
    /\ brought \in [Lots -> Nat]
    /\ batch.asShown = TRUE
    /\ SharesConserved
    /\ TakenBack

LEMMA NowIs ==
    /\ Now.held = held /\ Now.queue = queue
    /\ Now'.held = held' /\ Now'.queue = queue'
    /\ Now = [held |-> held, queue |-> queue]
    /\ Now' = [held |-> held', queue |-> queue']
BY DEF Now, Book

LEMMA ConservedIs ==
    /\ SharesConserved <=> \A lot \in Lots : Kept(Now, lot) = brought[lot]
    /\ SharesConserved' <=> \A lot \in Lots : Kept(Now', lot) = brought'[lot]
BY DEF SharesConserved, HeldOf, SoldOf, Kept, Taken, Now, Book

LEMMA BooksTyped ==
    ASSUME NEW b \in Books
    PROVE  /\ b.held \in Seq(HeldRow) /\ b.queue \in [Orders -> Entry] /\ QueueOK(b.queue)
           /\ b = [held |-> b.held, queue |-> b.queue]
BY DEF Books

LEMMA NowTyped ==
    ASSUME SalesInv
    PROVE  /\ held \in Seq(HeldRow) /\ DOMAIN held = 1..Len(held) /\ Len(held) \in Nat
           /\ Counts(held)
           /\ queue \in [Orders -> Entry] /\ QueueOK(queue)
<1>1. held \in Seq(HeldRow) /\ queue \in [Orders -> Entry] /\ QueueOK(queue)
    BY NowIs, BooksTyped DEF SalesInv
<1> QED
    BY <1>1, LenProperties, RowsCount

(* A step to another book that keeps every share, and no batch. *)
LEMMA StepKeeps ==
    ASSUME Now' \in Books, brought' \in [Lots -> Nat], batch' = NoBatch,
           \A lot \in Lots : Kept(Now', lot) = brought'[lot]
    PROVE  SalesInv'
<1>1. batch'.asShown = TRUE /\ batch'.confirmed = <<>>
    BY DEF NoBatch
<1>2. TakenBack'
    BY <1>1 DEF TakenBack
<1>3. SharesConserved'
    BY ConservedIs
<1> QED
    BY <1>1, <1>2, <1>3 DEF SalesInv

LEMMA BecomesKeeps ==
    ASSUME SalesInv, NEW b \in Books, \A lot \in Lots : Kept(b, lot) = Kept(Now, lot), Becomes(b)
    PROVE  /\ Now' = b /\ Now' \in Books /\ brought' \in [Lots -> Nat]
           /\ \A lot \in Lots : Kept(Now', lot) = brought'[lot]
<1>1. Now' = b
    BY NowIs, BooksTyped DEF Becomes
<1> QED
    BY <1>1, ConservedIs DEF SalesInv, Becomes

LEMMA ConfirmStep ==
    ASSUME SalesInv, NEW o \in Orders, NEW alloc, PickOK(alloc), Confirm(o, alloc)
    PROVE  SalesInv'
<1> DEFINE b == Confirmed(Now, o, alloc)
<1>1. b \in Books /\ \A lot : Kept(b, lot) = Kept(Now, lot)
    BY ConfirmedKeeps, BooksAreOK DEF SalesInv, Confirm
<1>2. Becomes(b) /\ batch' = NoBatch
    BY DEF Confirm
<1> HIDE DEF b
<1> QED
    BY <1>1, <1>2, BecomesKeeps, StepKeeps

LEMMA UndoStep ==
    ASSUME SalesInv, NEW o \in Orders, Undo(o)
    PROVE  SalesInv'
<1> DEFINE b == Undone(Now, o)
<1>1. b \in Books /\ \A lot : Kept(b, lot) = Kept(Now, lot)
    BY UndoneKeeps, BooksAreOK DEF SalesInv
<1>2. Becomes(b) /\ batch' = NoBatch
    BY DEF Undo
<1> HIDE DEF b
<1> QED
    BY <1>1, <1>2, BecomesKeeps, StepKeeps

LEMMA BulkUndoStep ==
    ASSUME SalesInv, NEW os \in Seq(Orders), BulkUndo(os)
    PROVE  SalesInv'
<1> DEFINE b == UndoEach(Now, Reverse(os))
<1>1. b \in Books /\ \A lot : Kept(b, lot) = Kept(Now, lot)
    <2>1. Reverse(os) \in Seq(Orders)
        <3>1. CASE Orders = {}
            BY <3>1 DEF Reverse
        <3>2. CASE Orders # {}
            BY <3>2, ReverseAppend
        <3> QED
            BY <3>1, <3>2
    <2> QED
        BY <2>1, UndoEachKeeps DEF SalesInv
<1>2. Becomes(b) /\ batch' = NoBatch
    BY DEF BulkUndo
<1> HIDE DEF b
<1> QED
    BY <1>1, <1>2, BecomesKeeps, StepKeeps

LEMMA BulkConfirmStep ==
    ASSUME SalesInv, NEW items, NEW n \in Nat, DOMAIN items = 1..n, Len(items) = n,
           \A k \in 1..n : ItemOK(held, items[k]), BulkConfirm(items)
    PROVE  SalesInv'
<1> DEFINE done == Batch(items)
<1>1. done \in BatchState(Now)
    BY BatchKeeps DEF SalesInv
<1>2. /\ Becomes(done.book)
      /\ batch' = [before |-> held, confirmed |-> done.confirmed, asShown |-> done.asShown]
    BY DEF BulkConfirm
<1> HIDE DEF done
<1>3. done.book \in Books /\ done.asShown = TRUE /\ BatchOK(Now, done)
    BY <1>1 DEF BatchState
<1>4. /\ \A lot \in Lots : Kept(done.book, lot) = Kept(Now, lot)
      /\ Distinct(held) => UndoEach(done.book, Reverse(done.confirmed)) = Now
    BY <1>3, NowIs DEF BatchOK
<1>5. /\ Now' = done.book /\ Now' \in Books /\ brought' \in [Lots -> Nat]
      /\ \A lot \in Lots : Kept(Now', lot) = brought'[lot]
    BY <1>2, <1>3, <1>4, BecomesKeeps
<1>6. TakenBack'
    <2>1. batch'.before = held /\ batch'.confirmed = done.confirmed
        BY <1>2
    <2>2. Distinct(held) => UndoEach(Now', Reverse(batch'.confirmed)).held = held
        BY <1>4, <1>5, <2>1, NowIs
    <2> QED
        BY <2>1, <2>2 DEF TakenBack
<1> QED
    BY <1>2, <1>3, <1>5, <1>6, ConservedIs DEF SalesInv

(* Steps of the queue alone, which leave the shares of every order. *)
SameShares(r, s) == \A lot : LotShares(r, lot) = LotShares(s, lot)

LEMMA QueueStep ==
    ASSUME SalesInv, held' = held, brought' = brought, batch' = NoBatch, QueueOK(queue'),
           \A o \in Orders : SameShares(queue'[o].rows, queue[o].rows)
    PROVE  SalesInv'
<1>1. Now' \in Books
    BY NowTyped, NowIs DEF Books, QueueOK
<1>2. ASSUME NEW lot \in Lots PROVE Kept(Now', lot) = Kept(Now, lot)
    <2>1. \A o \in Orders : LotShares(queue'[o].rows, lot) = LotShares(queue[o].rows, lot)
        BY DEF SameShares
    <2>2. [o \in Orders |-> LotShares(queue'[o].rows, lot)]
             = [o \in Orders |-> LotShares(queue[o].rows, lot)]
        BY <2>1
    <2>3. Taken(queue', lot) = Taken(queue, lot)
        BY <2>2 DEF Taken
    <2> QED
        BY <2>3, NowIs DEF Kept
<1> QED
    BY <1>1, <1>2, ConservedIs, StepKeeps DEF SalesInv

LEMMA AddCandidateStep ==
    ASSUME SalesInv, NEW o \in Orders, AddCandidate(o)
    PROVE  SalesInv'
<1>1. queue \in [Orders -> Entry] /\ \A p \in Orders : queue[p].rows # <<>> <=> queue[p].state = "confirmed"
    BY NowTyped DEF QueueOK
<1>2. queue' = [queue EXCEPT ![o] = [queue[o] EXCEPT !.state = "unmatched"]] /\ queue[o].state = "absent"
    BY DEF AddCandidate
<1> DEFINE e == [queue[o] EXCEPT !.state = "unmatched"]
<1>3. e \in Entry /\ e.rows = queue[o].rows /\ e.state = "unmatched" /\ queue[o].rows = <<>>
    BY <1>1, <1>2 DEF Entry, States
<1> HIDE DEF e
<1>4. \A p \in Orders : queue'[p] = IF p = o THEN e ELSE queue[p]
    BY <1>1, <1>2 DEF e
<1>5. queue' \in [Orders -> Entry]
    BY <1>1, <1>2, <1>3 DEF e
<1>6. \A p \in Orders : queue'[p].rows = queue[p].rows
    BY <1>3, <1>4
<1>7. QueueOK(queue')
    BY <1>1, <1>3, <1>4, <1>5 DEF QueueOK
<1> QED
    BY <1>6, <1>7, QueueStep DEF AddCandidate, SameShares

LEMMA MoveStep ==
    ASSUME SalesInv, NEW S, NEW from, NEW to, {from, to} \subseteq States \ {"confirmed"},
           Move(S, from, to)
    PROVE  SalesInv'
<1>1. queue \in [Orders -> Entry] /\ \A p \in Orders : queue[p].rows # <<>> <=> queue[p].state = "confirmed"
    BY NowTyped DEF QueueOK
<1>2. \A p \in Orders : queue'[p] = IF p \in S /\ queue[p].state = from
                                    THEN [queue[p] EXCEPT !.state = to] ELSE queue[p]
    BY DEF Move
<1>3. ASSUME NEW p \in Orders
      PROVE  /\ queue'[p] \in Entry
             /\ queue'[p].rows = queue[p].rows
             /\ queue'[p].rows # <<>> <=> queue'[p].state = "confirmed"
    <2>1. CASE p \in S /\ queue[p].state = from
        <3>1. [queue[p] EXCEPT !.state = to] \in Entry
            BY <1>1 DEF Entry
        <3>2. [queue[p] EXCEPT !.state = to].state = to
              /\ [queue[p] EXCEPT !.state = to].rows = queue[p].rows
            BY <1>1 DEF Entry
        <3>3. queue[p].rows = <<>> /\ to # "confirmed"
            BY <1>1, <2>1
        <3>4. queue'[p] = [queue[p] EXCEPT !.state = to]
            BY <1>2, <2>1
        <3> QED
            BY <3>1, <3>2, <3>3, <3>4
    <2>2. CASE ~(p \in S /\ queue[p].state = from)
        BY <1>1, <1>2, <2>2
    <2> QED
        BY <2>1, <2>2
<1>4. queue' \in [Orders -> Entry]
    BY <1>3 DEF Move
<1>5. QueueOK(queue')
    BY <1>3, <1>4 DEF QueueOK
<1> QED
    BY <1>3, <1>5, QueueStep DEF Move, SameShares

(* A mark on a ledger row moves no share. *)
LEMMA RowMarked ==
    ASSUME NEW rows \in Seq(LedgerRow), NEW k \in DOMAIN rows, NEW e \in LedgerRow,
           e.lot = rows[k].lot, e.shares = rows[k].shares
    PROVE  LET new == [rows EXCEPT ![k] = e] IN
           new \in Seq(LedgerRow) /\ new # <<>> /\ SameShares(new, rows)
<1> DEFINE new == [rows EXCEPT ![k] = e]
<1>0. Len(rows) \in Nat /\ DOMAIN rows = 1..Len(rows) /\ \A i \in DOMAIN rows : rows[i] \in LedgerRow
    BY LenProperties, ElementOfSeq
<1>1. DOMAIN new = DOMAIN rows /\ \A i \in DOMAIN rows : new[i] = IF i = k THEN e ELSE rows[i]
    BY <1>0
<1>2. new \in [1..Len(rows) -> LedgerRow]
    BY <1>0
<1>3. new \in Seq(LedgerRow)
    <2> HIDE DEF new
    <2> QED
        BY <1>0, <1>2
<1> HIDE DEF new
<1>4. new # <<>>
    <2>1. k \in DOMAIN new
        BY <1>1
    <2> QED
        BY <2>1
<1>5. \A i \in DOMAIN rows : new[i].lot = rows[i].lot /\ new[i].shares = rows[i].shares
    BY <1>1
<1>6. SameShares(new, rows)
    <2>1. ASSUME NEW lot PROVE LotShares(new, lot) = LotShares(rows, lot)
        <3>1. [i \in DOMAIN new |-> new[i].shares] = [i \in DOMAIN rows |-> rows[i].shares]
            BY <1>1, <1>5
        <3>2. {i \in DOMAIN new : new[i].lot = lot} = {i \in DOMAIN rows : rows[i].lot = lot}
            BY <1>1, <1>5
        <3> QED
            BY <3>1, <3>2 DEF LotShares
    <2> QED
        BY <2>1 DEF SameShares
<1> QED
    BY <1>3, <1>4, <1>6 DEF new

LEMMA MarkStep ==
    ASSUME SalesInv, NEW o \in Orders, NEW k \in DOMAIN queue[o].rows, NEW e \in LedgerRow,
           e.lot = queue[o].rows[k].lot, e.shares = queue[o].rows[k].shares,
           queue' = [queue EXCEPT ![o] = [queue[o] EXCEPT !.rows = [queue[o].rows EXCEPT ![k] = e]]],
           held' = held, brought' = brought, batch' = NoBatch
    PROVE  SalesInv'
<1>1. queue \in [Orders -> Entry] /\ \A p \in Orders : queue[p].rows # <<>> <=> queue[p].state = "confirmed"
    BY NowTyped DEF QueueOK
<1> DEFINE rows == queue[o].rows
<1> DEFINE new == [rows EXCEPT ![k] = e]
<1> DEFINE f == [queue[o] EXCEPT !.rows = new]
<1>2. rows \in Seq(LedgerRow)
    BY <1>1 DEF Entry
<1>3. new \in Seq(LedgerRow) /\ new # <<>> /\ SameShares(new, rows)
    <2> HIDE DEF rows
    <2> QED
        BY <1>2, RowMarked DEF rows
<1>4. rows # <<>>
    BY <1>2
<1> HIDE DEF new
<1>5. f \in Entry /\ f.rows = new /\ f.state = queue[o].state
    BY <1>1, <1>3 DEF Entry
<1>6. \A p \in Orders : queue'[p] = IF p = o THEN f ELSE queue[p]
    BY <1>1 DEF new
<1>7. queue' \in [Orders -> Entry]
    BY <1>1, <1>5 DEF new
<1> HIDE DEF f
<1>8. QueueOK(queue')
    BY <1>1, <1>3, <1>4, <1>5, <1>6, <1>7 DEF QueueOK
<1>9. \A p \in Orders : SameShares(queue'[p].rows, queue[p].rows)
    BY <1>3, <1>5, <1>6 DEF SameShares
<1> QED
    BY <1>8, <1>9, QueueStep

LEMMA SetVoidedStep ==
    ASSUME SalesInv, NEW o \in Orders, NEW k \in DOMAIN queue[o].rows, SetVoided(o, k)
    PROVE  SalesInv'
<1> DEFINE row == queue[o].rows[k]
<1> DEFINE e == [row EXCEPT !.live = ~@]
<1>1. row \in LedgerRow
    BY NowTyped, ElementOfSeq DEF Entry
<1>2. e \in LedgerRow /\ e.lot = row.lot /\ e.shares = row.shares
    BY <1>1 DEF LedgerRow
<1>3. queue' = [queue EXCEPT ![o] = [queue[o] EXCEPT !.rows = [queue[o].rows EXCEPT ![k] = e]]]
    BY DEF SetVoided
<1> QED
    BY <1>2, <1>3, MarkStep DEF SetVoided

LEMMA SetOfficialStep ==
    ASSUME SalesInv, NEW o \in Orders, NEW k \in DOMAIN queue[o].rows, SetOfficial(o, k)
    PROVE  SalesInv'
<1> DEFINE row == queue[o].rows[k]
<1> DEFINE e == [row EXCEPT !.official = ~@]
<1>1. row \in LedgerRow
    BY NowTyped, ElementOfSeq DEF Entry
<1>2. e \in LedgerRow /\ e.lot = row.lot /\ e.shares = row.shares
    BY <1>1 DEF LedgerRow
<1>3. queue' = [queue EXCEPT ![o] = [queue[o] EXCEPT !.rows = [queue[o].rows EXCEPT ![k] = e]]]
    BY DEF SetOfficial
<1> QED
    BY <1>2, <1>3, MarkStep DEF SetOfficial

(* Steps of the dataset alone. *)
LEMMA AddRowStep ==
    ASSUME SalesInv, NEW lot \in Lots, NEW n \in 1..MaxRow, AddRow(lot, n)
    PROVE  SalesInv'
<1> DEFINE e == [lot |-> lot, shares |-> n]
<1> DEFINE one == <<e>>
<1>1. n \in Nat \ {0}
    BY SizeAssumption
<1>2. e \in HeldRow /\ e.lot = lot /\ e.shares = n
    BY <1>1 DEF HeldRow
<1>3. held' = Append(held, e) /\ brought' = [brought EXCEPT ![lot] = @ + n] /\ queue' = queue
      /\ batch' = NoBatch
    BY DEF AddRow
<1> HIDE DEF e
<1>4. one \in Seq(HeldRow) /\ Counts(one)
      /\ \A l : LotShares(one, l) = IF lot = l THEN n ELSE 0
    BY <1>1, <1>2, LotSharesOne
<1>5. held' = held \o one
    BY <1>2, <1>3, NowTyped
<1> HIDE DEF one
<1>6. held' \in Seq(HeldRow) /\ \A l : LotShares(held', l) = LotShares(held, l) + LotShares(one, l)
    BY <1>4, <1>5, NowTyped, LotSharesConcat
<1>7. brought \in [Lots -> Nat]
    BY DEF SalesInv
<1>8. brought' \in [Lots -> Nat] /\ \A l \in Lots : brought'[l] = brought[l] + (IF lot = l THEN n ELSE 0)
    BY <1>1, <1>3, <1>7
<1>9. Now' \in Books
    BY <1>3, <1>6, NowTyped, NowIs DEF Books
<1>10. ASSUME NEW l \in Lots PROVE Kept(Now', l) = brought'[l]
    <2>1. LotShares(held, l) \in Nat /\ Taken(queue, l) \in Nat
        BY NowTyped, LotSharesNat, TakenIsNat
    <2>2. Kept(Now, l) = brought[l]
        BY ConservedIs DEF SalesInv
    <2>3. Kept(Now', l) = LotShares(held', l) + Taken(queue, l)
        BY <1>3, NowIs DEF Kept
    <2>4. Kept(Now, l) = LotShares(held, l) + Taken(queue, l)
        BY NowIs DEF Kept
    <2> DEFINE d == IF lot = l THEN n ELSE 0
    <2>5. LotShares(held', l) = LotShares(held, l) + d /\ brought'[l] = brought[l] + d
        BY <1>4, <1>6, <1>8
    <2>6. d \in Nat
        BY <1>1
    <2> HIDE DEF d
    <2> DEFINE was == LotShares(held, l)
    <2> DEFINE taken == Taken(queue, l)
    <2>7. was \in Nat /\ taken \in Nat /\ brought[l] = was + taken
          /\ brought'[l] = brought[l] + d /\ Kept(Now', l) = (was + d) + taken
        BY <2>1, <2>2, <2>3, <2>4, <2>5
    <2> HIDE DEF was, taken
    <2> QED
        BY <2>6, <2>7
<1> QED
    BY <1>3, <1>8, <1>9, <1>10, StepKeeps

LEMMA RemoveRowStep ==
    ASSUME SalesInv, NEW i \in DOMAIN held, RemoveRow(i)
    PROVE  SalesInv'
<1> DEFINE row == held[i]
<1>1. row \in HeldRow
    BY NowTyped, ElementOfSeq
<1>2. row.lot \in Lots /\ row.shares \in Nat
    BY <1>1 DEF HeldRow
<1>3. held' = RemoveAt(held, i) /\ queue' = queue /\ batch' = NoBatch
      /\ brought' = [brought EXCEPT ![row.lot] = @ - row.shares]
    BY DEF RemoveRow
<1>4. held' \in Seq(HeldRow)
      /\ \A l : /\ LotShares(held, l) = LotShares(held', l) + (IF row.lot = l THEN row.shares ELSE 0)
                /\ LotShares(held', l) \in Nat
    BY <1>3, NowTyped, LotSharesRemoved
<1> HIDE DEF row
<1>5. brought \in [Lots -> Nat]
    BY DEF SalesInv
<1>6. \A l \in Lots : brought'[l] = brought[l] - (IF row.lot = l THEN row.shares ELSE 0)
    BY <1>2, <1>3, <1>5
<1>7. ASSUME NEW l \in Lots PROVE Kept(Now', l) = brought'[l] /\ brought'[l] \in Nat
    <2>1. LotShares(held', l) \in Nat /\ Taken(queue, l) \in Nat
        BY <1>4, NowTyped, TakenIsNat
    <2>2. Kept(Now, l) = brought[l]
        BY ConservedIs DEF SalesInv
    <2>3. Kept(Now', l) = LotShares(held', l) + Taken(queue, l)
        BY <1>3, NowIs DEF Kept
    <2>4. Kept(Now, l) = LotShares(held, l) + Taken(queue, l)
        BY NowIs DEF Kept
    <2> DEFINE d == IF row.lot = l THEN row.shares ELSE 0
    <2>5. LotShares(held, l) = LotShares(held', l) + d /\ brought'[l] = brought[l] - d
        BY <1>4, <1>6
    <2>6. d \in Nat
        BY <1>2
    <2> HIDE DEF d
    <2> DEFINE now == LotShares(held', l)
    <2> DEFINE taken == Taken(queue, l)
    <2>7. now \in Nat /\ taken \in Nat /\ brought[l] = (now + d) + taken
          /\ brought'[l] = brought[l] - d /\ Kept(Now', l) = now + taken
        BY <2>1, <2>2, <2>3, <2>4, <2>5
    <2> HIDE DEF now, taken
    <2> QED
        BY <2>6, <2>7
<1>8. brought' \in [Lots -> Nat]
    BY <1>3, <1>5, <1>7
<1>9. Now' \in Books
    BY <1>3, <1>4, NowTyped, NowIs DEF Books
<1> QED
    BY <1>3, <1>7, <1>8, <1>9, StepKeeps

(* What a user picks, for one order or for a batch. *)
LEMMA PickIsOK ==
    ASSUME NEW o \in Orders, NEW alloc \in Picks(o)
    PROVE  PickOK(alloc) /\ DOMAIN alloc \subseteq DOMAIN held
<1>1. PICK T \in SUBSET DOMAIN held : alloc \in [T -> 1..Sold[o]]
    BY DEF Picks
<1>2. Sold[o] \in Nat
    BY SoldAssumption
<1>3. \A i \in T : alloc[i] \in 1..Sold[o]
    BY <1>1
<1>4. \A i \in T : alloc[i] \in Nat \ {0}
    BY <1>2, <1>3
<1>5. DOMAIN alloc = T
    BY <1>1
<1> QED
    BY <1>4, <1>5 DEF PickOK

LEMMA ListsOfOrders ==
    ASSUME NEW os \in SetToAllKPermutations(Orders)
    PROVE  os \in Seq(Orders) /\ Len(os) \in Nat /\ DOMAIN os = 1..Len(os)
<1>1. PICK S \in SUBSET Orders : os \in SetToSeqs(S)
    BY DEF SetToAllKPermutations
<1>2. IsFiniteSet(S)
    BY SoldAssumption, FS_Subset
<1>3. Cardinality(S) \in Nat
    BY <1>2, FS_CardinalityType
<1>4. os \in [1..Cardinality(S) -> S]
    BY <1>1 DEF SetToSeqs
<1>5. os \in Seq(S)
    BY <1>3, <1>4
<1>6. os \in Seq(Orders)
    BY <1>3, <1>4
<1> QED
    BY <1>6, LenProperties

LEMMA BatchItems ==
    ASSUME SalesInv, NEW os \in SetToAllKPermutations(Orders),
           NEW picks \in [DOMAIN os -> UNION {Picks(o) : o \in Orders}],
           BulkConfirm([k \in DOMAIN os |-> [order |-> os[k], alloc |-> picks[k]]])
    PROVE  SalesInv'
<1> DEFINE items == [k \in DOMAIN os |-> [order |-> os[k], alloc |-> picks[k]]]
<1> DEFINE n == Len(os)
<1>1. n \in Nat /\ DOMAIN os = 1..n /\ \A k \in 1..n : os[k] \in Orders
    BY ListsOfOrders, ElementOfSeq
<1>2. DOMAIN items = 1..n /\ Len(items) = n
    BY <1>1
<1>3. ASSUME NEW k \in 1..n PROVE ItemOK(held, items[k])
    <2>1. items[k].order = os[k] /\ items[k].alloc = picks[k]
        BY <1>1
    <2>2. PICK o \in Orders : picks[k] \in Picks(o)
        BY <1>1
    <2>3. PickOK(picks[k]) /\ DOMAIN picks[k] \subseteq DOMAIN held
        BY <2>2, PickIsOK
    <2> HIDE DEF items
    <2> QED
        BY <1>1, <2>1, <2>3 DEF ItemOK
<1>4. BulkConfirm(items)
    OBVIOUS
<1> HIDE DEF items, n
<1> QED
    BY <1>1, <1>2, <1>3, <1>4, BulkConfirmStep

LEMMA SalesInit == Init => SalesInv
<1> SUFFICES ASSUME Init PROVE SalesInv
    OBVIOUS
<1>1. held = <<>> /\ queue = [o \in Orders |-> [state |-> "absent", rows |-> <<>>]]
      /\ brought = [lot \in Lots |-> 0] /\ batch = NoBatch
    BY DEF Init
<1>2. held \in Seq(HeldRow) /\ DOMAIN held = {}
    BY <1>1
<1>3. queue \in [Orders -> Entry] /\ QueueOK(queue)
    BY <1>1 DEF QueueOK, Entry, States
<1>4. Now \in Books
    BY <1>2, <1>3, NowIs DEF Books
<1>5. ASSUME NEW s, s = <<>>, NEW lot PROVE LotShares(s, lot) = 0
    <2>1. DOMAIN s = {} /\ {i \in DOMAIN s : s[i].lot = lot} = {}
        BY <1>5
    <2> QED
        BY <2>1, SumEmpty DEF LotShares
<1>6. ASSUME NEW lot \in Lots PROVE Kept(Now, lot) = brought[lot]
    <2> DEFINE f == [o \in Orders |-> LotShares(queue[o].rows, lot)]
    <2>1. \A o \in Orders : f[o] = 0
        BY <1>1, <1>5
    <2>2. DOMAIN f = Orders /\ IsFiniteSet(Orders)
        BY SoldAssumption
    <2> HIDE DEF f
    <2>3. SumFunctionOnSet(f, Orders) = 0
        BY <2>1, <2>2, SumZero
    <2>4. Taken(queue, lot) = 0
        BY <2>2, <2>3 DEF Taken, SumFunction, f
    <2> QED
        BY <1>1, <1>5, <2>4, NowIs DEF Kept
<1>7. batch.asShown = TRUE /\ TakenBack
    BY <1>1 DEF NoBatch, TakenBack
<1> QED
    BY <1>1, <1>4, <1>6, <1>7, ConservedIs DEF SalesInv

LEMMA SalesUnchanged ==
    ASSUME SalesInv, UNCHANGED vars
    PROVE  SalesInv'
<1>1. held' = held /\ queue' = queue /\ brought' = brought /\ batch' = batch
    BY DEF vars
<1>2. Now' = Now
    BY <1>1, NowIs
<1> QED
    BY <1>1, <1>2, ConservedIs DEF SalesInv, TakenBack

LEMMA SalesStep == SalesInv /\ [Next]_vars => SalesInv'
<1> SUFFICES ASSUME SalesInv, [Next]_vars PROVE SalesInv'
    OBVIOUS
<1>1. ASSUME NEW o \in Orders, AddCandidate(o) PROVE SalesInv'
    BY <1>1, AddCandidateStep
<1>2. ASSUME NEW o \in Orders, Undo(o) PROVE SalesInv'
    BY <1>2, UndoStep
<1>3. ASSUME NEW o \in Orders, NEW alloc \in Picks(o), Confirm(o, alloc) PROVE SalesInv'
    BY <1>3, PickIsOK, ConfirmStep
<1>4. ASSUME NEW os \in SetToAllKPermutations(Orders), BulkUndo(os) PROVE SalesInv'
    BY <1>4, ListsOfOrders, BulkUndoStep
<1>5. ASSUME NEW os \in SetToAllKPermutations(Orders),
             NEW picks \in [DOMAIN os -> UNION {Picks(o) : o \in Orders}],
             BulkConfirm([k \in DOMAIN os |-> [order |-> os[k], alloc |-> picks[k]]])
      PROVE  SalesInv'
    BY <1>5, BatchItems
<1>6. ASSUME NEW S, Dismiss(S) PROVE SalesInv'
    <2>1. {"unmatched", "dismissed"} \subseteq States \ {"confirmed"}
        BY DEF States
    <2> QED
        BY <1>6, <2>1, MoveStep DEF Dismiss
<1>7. ASSUME NEW S, Restore(S) PROVE SalesInv'
    <2>1. {"dismissed", "unmatched"} \subseteq States \ {"confirmed"}
        BY DEF States
    <2> QED
        BY <1>7, <2>1, MoveStep DEF Restore
<1>8. ASSUME NEW o \in Orders, NEW k \in DOMAIN queue[o].rows, SetVoided(o, k) PROVE SalesInv'
    BY <1>8, SetVoidedStep
<1>9. ASSUME NEW o \in Orders, NEW k \in DOMAIN queue[o].rows, SetOfficial(o, k) PROVE SalesInv'
    BY <1>9, SetOfficialStep
<1>10. ASSUME NEW lot \in Lots, NEW n \in 1..MaxRow, AddRow(lot, n) PROVE SalesInv'
    BY <1>10, AddRowStep
<1>11. ASSUME NEW i \in DOMAIN held, RemoveRow(i) PROVE SalesInv'
    BY <1>11, RemoveRowStep
<1>12. ASSUME UNCHANGED vars PROVE SalesInv'
    BY <1>12, SalesUnchanged
<1> QED
    BY <1>1, <1>2, <1>3, <1>4, <1>5, <1>6, <1>7, <1>8, <1>9, <1>10, <1>11, <1>12, Zenon DEF Next

(* The sales queue keeps its invariant for any lots, any finite set of     *)
(* orders and any number of shares.                                        *)
THEOREM SalesInvariant == Spec => []SalesInv
<1> QED
    BY SalesInit, SalesStep, PTL DEF Spec

(* Rows of the holdings always have shares, and an order has ledger rows   *)
(* exactly while it is confirmed (confirm_in and undo_in).                 *)
THEOREM SalesTyped == Spec => []TypeOK
<1>1. ASSUME SalesInv PROVE TypeOK
    <2>1. held \in Seq(HeldRow) /\ queue \in [Orders -> Entry] /\ QueueOK(queue)
        BY <1>1, NowTyped
    <2>2. ASSUME NEW o \in Orders
          PROVE  /\ queue[o].state \in States /\ queue[o].rows \in Seq(LedgerRow)
                 /\ queue[o].rows # <<>> <=> queue[o].state = "confirmed"
        BY <2>1 DEF Entry, QueueOK
    <2> QED
        BY <1>1, <2>1, <2>2 DEF TypeOK, HeldRow, LedgerRow, SalesInv
<1> QED
    BY <1>1, SalesInvariant, PTL

(* Shares are neither made nor lost by any sequence of confirms, undos,    *)
(* batches, voids and edits: of every lot, the holdings and the confirmed  *)
(* orders together have what was brought in (confirm_in, undo_in, GiveBack *)
(* and the bulk requests that call them).                                  *)
THEOREM NoShareMadeOrLost == Spec => []SharesConserved
<1>1. SalesInv => SharesConserved
    BY DEF SalesInv
<1> QED
    BY <1>1, SalesInvariant, PTL

(* Every order of a batch is taken from the rows the review showed, however *)
(* many rows the orders before it emptied and however many rows look alike *)
(* (_Lots.current in sales_confirm_bulk).                                   *)
THEOREM BatchesTakeShownRows == Spec => []BatchTakesShownRows
<1>1. SalesInv => BatchTakesShownRows
    BY DEF SalesInv, BatchTakesShownRows
<1> QED
    BY <1>1, SalesInvariant, PTL

(* Undoing the batch just confirmed, last order first, puts the holdings    *)
(* back row by row when no two rows looked alike (sales_confirm_bulk.undo). *)
THEOREM UndoRestoresTheBatch == Spec => BatchUndoRestores
<1> DEFINE A == /\ batch.confirmed # <<>>
                /\ BulkUndo(batch.confirmed)
                /\ \A i, j \in DOMAIN batch.before :
                      batch.before[i].lot = batch.before[j].lot => i = j
                => held' = batch.before
<1>1. SalesInv /\ [Next]_vars => [A]_vars
    BY DEF SalesInv, TakenBack, Distinct, BulkUndo, Becomes
<1>2. Spec => [][A]_vars
    BY <1>1, SalesInvariant, PTL DEF Spec
<1> QED
    BY <1>2 DEF BatchUndoRestores

=============================================================================
