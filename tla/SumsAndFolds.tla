----------------------------- MODULE SumsAndFolds -----------------------------
(***************************************************************************)
(* Sums over finite sets (SumFunctionOnSet of the module Functions): what  *)
(* the shares of a set of rows or lots come to, and how that changes when  *)
(* a row is added, taken away or changed.  Then folds over a sequence      *)
(* (FoldLeft of SequencesExt), seen as the values they pass through.       *)
(*                                                                         *)
(* The induction principles below are about sets, not about predicates:    *)
(* to show P for every natural number, apply NatSet to {n \in Nat : P(n)}. *)
(***************************************************************************)
EXTENDS Integers, Sequences, FiniteSets, FiniteSetsExt, Functions, FiniteSetTheorems, TLAPS

(* A set of natural numbers that is not empty has a least element. *)
LEMMA LeastNat ==
    ASSUME NEW S \in SUBSET Nat, S # {}
    PROVE  \E m \in S : \A i \in S : m <= i
<1> DEFINE below == {p \in Nat \X Nat : p[1] < p[2]}
<1>1. IsWellFoundedOn(below, Nat)
    BY NatLessThanWellFounded DEF OpToRel
<1> HIDE DEF below
<1>2. PICK m \in S : \A i \in S : ~(<<i, m>> \in below)
    BY <1>1, WFMin
<1>3. \A i \in S : ~(i < m)
    BY <1>2 DEF below
<1> QED
    BY <1>3

(* Induction: a set that holds 0 and every successor holds every number. *)
LEMMA NatSet ==
    ASSUME NEW S, 0 \in S, \A n \in Nat : n \in S => n + 1 \in S
    PROVE  \A n \in Nat : n \in S
<1> SUFFICES ASSUME Nat \ S # {} PROVE FALSE
    OBVIOUS
<1>1. PICK m \in Nat \ S : \A i \in Nat \ S : m <= i
    <2>1. Nat \ S \in SUBSET Nat
        OBVIOUS
    <2> QED
        BY <2>1, LeastNat
<1>2. m # 0 /\ m - 1 \in Nat
    BY <1>1
<1>3. m - 1 \in S
    BY <1>1, <1>2
<1>4. (m - 1) + 1 \in S
    BY <1>2, <1>3
<1> QED
    BY <1>1, <1>2, <1>4

(* Induction over the subsets of a finite set. *)
LEMMA SubsetInduction ==
    ASSUME NEW S, IsFiniteSet(S), NEW F, {} \in F,
           \A T \in SUBSET S : \A x \in S \ T : T \in F => T \cup {x} \in F
    PROVE  S \in F
<1> DEFINE N == {n \in Nat : \A T \in SUBSET S : Cardinality(T) = n => T \in F}
<1>1. \A T \in SUBSET S : IsFiniteSet(T) /\ Cardinality(T) \in Nat
    BY FS_Subset, FS_CardinalityType
<1>2. 0 \in N
    BY <1>1, FS_EmptySet
<1>3. ASSUME NEW n \in Nat, n \in N PROVE n + 1 \in N
    <2>1. ASSUME NEW T \in SUBSET S, Cardinality(T) = n + 1 PROVE T \in F
        <3>1. T # {}
            <4>1. Cardinality(T) # 0
                BY <2>1
            <4> QED
                BY <4>1, FS_EmptySet
        <3>2. PICK x \in T : TRUE
            BY <3>1
        <3>3. Cardinality(T \ {x}) = n
            <4>1. Cardinality(T \ {x}) = Cardinality(T) - 1
                BY <1>1, <3>2, FS_RemoveElement
            <4> QED
                BY <2>1, <4>1
        <3>4. T \ {x} \in F
            BY <1>3, <3>3
        <3>5. (T \ {x}) \cup {x} = T
            OBVIOUS
        <3>6. T \ {x} \in SUBSET S /\ x \in S \ (T \ {x})
            OBVIOUS
        <3>7. (T \ {x}) \cup {x} \in F
            BY <3>4, <3>6
        <3> QED
            BY <3>5, <3>7
    <2> QED
        BY <2>1
<1> HIDE DEF N
<1>4. \A n \in Nat : n \in N
    BY <1>2, <1>3, NatSet
<1>5. Cardinality(S) \in N
    BY <1>4, FS_CardinalityType
<1> QED
    BY <1>5 DEF N

----------------------------------------------------------------------------
(* The recursion behind a sum                                              *)

First(S) == CHOOSE x \in S : TRUE

(* g adds up f over every subset of S, one element at a time. *)
AddsUp(g, f, S) ==
    g = [T \in SUBSET S |-> IF T = {} THEN 0 ELSE f[First(T)] + g[T \ {First(T)}]]

(* Such a function exists: it is built from the smaller subsets up. *)
LEMMA AddingUpExists ==
    ASSUME NEW f, NEW S, IsFiniteSet(S)
    PROVE  \E g : AddsUp(g, f, S)
<1> DEFINE Small(n) == {T \in SUBSET S : Cardinality(T) <= n}
<1> DEFINE Good(g, n) ==
        g = [T \in Small(n) |-> IF T = {} THEN 0 ELSE f[First(T)] + g[T \ {First(T)}]]
<1> DEFINE N == {n \in Nat : \E g : Good(g, n)}
<1>1. \A T \in SUBSET S : IsFiniteSet(T) /\ Cardinality(T) \in Nat
    BY FS_Subset, FS_CardinalityType
<1>2. 0 \in N
    <2> DEFINE g == [T \in Small(0) |-> 0]
    <2>1. \A T \in Small(0) : T = {}
        BY <1>1, FS_EmptySet
    <2>2. Good(g, 0)
        BY <2>1
    <2> QED
        BY <2>2
<1>3. ASSUME NEW n \in Nat, n \in N PROVE n + 1 \in N
    <2>1. PICK g : Good(g, n)
        BY <1>3
    <2> DEFINE h == [T \in Small(n + 1) |->
                        IF T = {} THEN 0 ELSE f[First(T)] + g[T \ {First(T)}]]
    <2>2. ASSUME NEW T \in Small(n + 1), T # {}
          PROVE  g[T \ {First(T)}] = h[T \ {First(T)}]
        <3> DEFINE U == T \ {First(T)}
        <3>1. First(T) \in T
            BY <2>2 DEF First
        <3>2. Cardinality(U) = Cardinality(T) - 1 /\ Cardinality(T) \in Nat
            BY <1>1, <3>1, FS_RemoveElement
        <3>3. U \in Small(n) /\ U \in Small(n + 1)
            BY <3>2, <1>1
        <3> HIDE DEF U, Small
        <3>4. h[U] = IF U = {} THEN 0 ELSE f[First(U)] + g[U \ {First(U)}]
            BY <3>3
        <3>5. g[U] = IF U = {} THEN 0 ELSE f[First(U)] + g[U \ {First(U)}]
            BY <3>3, <2>1, Zenon
        <3> QED
            BY <3>4, <3>5 DEF U
    <2>3. \A T \in Small(n + 1) :
              h[T] = IF T = {} THEN 0 ELSE f[First(T)] + h[T \ {First(T)}]
        <3> HIDE DEF Small
        <3> TAKE T \in Small(n + 1)
        <3>1. h[T] = IF T = {} THEN 0 ELSE f[First(T)] + g[T \ {First(T)}]
            OBVIOUS
        <3> HIDE DEF h
        <3> QED
            BY <2>2, <3>1
    <2>4. h = [T \in Small(n + 1) |-> h[T]]
        BY Zenon
    <2> HIDE DEF Small, h
    <2>5. h = [T \in Small(n + 1) |->
                  IF T = {} THEN 0 ELSE f[First(T)] + h[T \ {First(T)}]]
        BY <2>3, <2>4
    <2>6. Good(h, n + 1)
        BY <2>5, Zenon
    <2>7. n + 1 \in Nat
        OBVIOUS
    <2> HIDE DEF Good
    <2> QED
        BY <2>6, <2>7, Zenon
<1> HIDE DEF N
<1>4. Cardinality(S) \in N
    BY <1>2, <1>3, NatSet, FS_CardinalityType
<1>5. PICK g : Good(g, Cardinality(S))
    BY <1>4 DEF N
<1>6. Small(Cardinality(S)) = SUBSET S
    BY FS_Subset
<1> QED
    BY <1>5, <1>6 DEF AddsUp

(* The sum over S is what any such function gives for S. *)
LEMMA SumByAddingUp ==
    ASSUME NEW f, NEW S, IsFiniteSet(S)
    PROVE  \E g : AddsUp(g, f, S) /\ SumFunctionOnSet(f, S) = g[S]
<1> DEFINE g == CHOOSE iter : iter = [T \in SUBSET S |->
                    IF T = {} THEN 0
                    ELSE f[CHOOSE x \in T : TRUE] + iter[T \ {CHOOSE x \in T : TRUE}]]
<1>1. SumFunctionOnSet(f, S) = g[S]
    BY DEF SumFunctionOnSet, FoldFunctionOnSet, MapThenFoldSet
<1>2. AddsUp(g, f, S)
    <2>1. g = CHOOSE iter : AddsUp(iter, f, S)
        BY Zenon DEF AddsUp, First
    <2> QED
        BY <2>1, AddingUpExists, Zenon
<1> QED
    BY <1>1, <1>2

(* Two such functions agree on the subsets both are about. *)
LEMMA AddingUpAgrees ==
    ASSUME NEW f, NEW S, IsFiniteSet(S), NEW T \in SUBSET S,
           NEW g, AddsUp(g, f, S), NEW h, AddsUp(h, f, T)
    PROVE  g[T] = h[T]
<1> DEFINE N == {n \in Nat : \A U \in SUBSET T : Cardinality(U) = n => g[U] = h[U]}
<1>1. \A U \in SUBSET T : IsFiniteSet(U) /\ Cardinality(U) \in Nat
    BY FS_Subset, FS_CardinalityType
<1>g. \A U \in SUBSET T : g[U] = IF U = {} THEN 0 ELSE f[First(U)] + g[U \ {First(U)}]
    BY Zenon DEF AddsUp
<1>h. \A U \in SUBSET T : h[U] = IF U = {} THEN 0 ELSE f[First(U)] + h[U \ {First(U)}]
    BY Zenon DEF AddsUp
<1>2. 0 \in N
    BY <1>1, <1>g, <1>h, FS_EmptySet
<1>3. ASSUME NEW n \in Nat, n \in N PROVE n + 1 \in N
    <2>1. ASSUME NEW U \in SUBSET T, Cardinality(U) = n + 1 PROVE g[U] = h[U]
        <3>1. U # {}
            BY <2>1, FS_EmptySet
        <3>2. First(U) \in U
            BY <3>1 DEF First
        <3>3. Cardinality(U \ {First(U)}) = n
            BY <1>1, <2>1, <3>2, FS_RemoveElement
        <3>4. g[U \ {First(U)}] = h[U \ {First(U)}]
            BY <1>3, <3>3
        <3> QED
            BY <1>g, <1>h, <3>1, <3>4
    <2> QED
        BY <2>1
<1> HIDE DEF N
<1>4. Cardinality(T) \in N
    BY <1>1, <1>2, <1>3, NatSet
<1> QED
    BY <1>4 DEF N

(* So a sum unfolds: nothing over no element, else the first and the rest. *)
LEMMA SumUnfolds ==
    ASSUME NEW f, NEW S, IsFiniteSet(S)
    PROVE  /\ S = {} => SumFunctionOnSet(f, S) = 0
           /\ S # {} => /\ First(S) \in S
                        /\ SumFunctionOnSet(f, S) =
                              f[First(S)] + SumFunctionOnSet(f, S \ {First(S)})
<1>1. PICK g : AddsUp(g, f, S) /\ SumFunctionOnSet(f, S) = g[S]
    BY SumByAddingUp
<1>2. g[S] = IF S = {} THEN 0 ELSE f[First(S)] + g[S \ {First(S)}]
    BY <1>1, Zenon DEF AddsUp
<1>3. SumFunctionOnSet(f, S \ {First(S)}) = g[S \ {First(S)}]
    <2>1. IsFiniteSet(S \ {First(S)})
        BY FS_Subset
    <2>2. PICK h : /\ AddsUp(h, f, S \ {First(S)})
                   /\ SumFunctionOnSet(f, S \ {First(S)}) = h[S \ {First(S)}]
        BY <2>1, SumByAddingUp
    <2> QED
        BY <1>1, <2>2, AddingUpAgrees
<1> QED
    BY <1>1, <1>2, <1>3 DEF First

----------------------------------------------------------------------------
(* Laws of sums                                                            *)

IntOn(f, S) == \A x \in S : f[x] \in Int
NatOn(f, S) == \A x \in S : f[x] \in Nat
SameOn(f, g, S) == \A x \in S : f[x] = g[x]
AtMostOn(f, g, S) == \A x \in S : f[x] <= g[x]
PlusOn(h, f, g, S) == \A x \in S : h[x] = f[x] + g[x]
RenamedBy(b, f, g, S) == \A x \in S : g[b[x]] = f[x]

LEMMA NatIsInt ==
    ASSUME NEW S, NEW f, NatOn(f, S)
    PROVE  IntOn(f, S)
BY DEF NatOn, IntOn

(* Equal summands have equal sums. *)
LEMMA SumEqual ==
    ASSUME NEW S, IsFiniteSet(S), NEW f, NEW g, SameOn(f, g, S)
    PROVE  SumFunctionOnSet(f, S) = SumFunctionOnSet(g, S)
<1> DEFINE N == {n \in Nat : \A T \in SUBSET S : Cardinality(T) = n
                    => SumFunctionOnSet(f, T) = SumFunctionOnSet(g, T)}
<1>1. \A T \in SUBSET S : IsFiniteSet(T) /\ Cardinality(T) \in Nat
    BY FS_Subset, FS_CardinalityType
<1>2. 0 \in N
    <2>1. ASSUME NEW T \in SUBSET S, Cardinality(T) = 0
          PROVE  SumFunctionOnSet(f, T) = SumFunctionOnSet(g, T)
        <3>1. IsFiniteSet(T) /\ T = {}
            BY <1>1, <2>1, FS_EmptySet
        <3> QED
            BY <3>1, SumUnfolds
    <2> QED
        BY <2>1
<1>3. ASSUME NEW n \in Nat, n \in N PROVE n + 1 \in N
    <2>1. ASSUME NEW T \in SUBSET S, Cardinality(T) = n + 1
          PROVE  SumFunctionOnSet(f, T) = SumFunctionOnSet(g, T)
        <3>1. IsFiniteSet(T) /\ T # {}
            BY <1>1, <2>1, FS_EmptySet
        <3>2. /\ First(T) \in T
              /\ SumFunctionOnSet(f, T) = f[First(T)] + SumFunctionOnSet(f, T \ {First(T)})
              /\ SumFunctionOnSet(g, T) = g[First(T)] + SumFunctionOnSet(g, T \ {First(T)})
            BY <3>1, SumUnfolds
        <3>3. Cardinality(T \ {First(T)}) = Cardinality(T) - 1
            BY <3>1, <3>2, FS_RemoveElement
        <3>4. Cardinality(T \ {First(T)}) = n
            BY <2>1, <3>3
        <3>5. SumFunctionOnSet(f, T \ {First(T)}) = SumFunctionOnSet(g, T \ {First(T)})
            BY <1>3, <3>4
        <3>6. f[First(T)] = g[First(T)]
            BY <3>2 DEF SameOn
        <3> QED
            BY <3>2, <3>5, <3>6
    <2> QED
        BY <2>1
<1> HIDE DEF N
<1>4. Cardinality(S) \in N
    BY <1>1, <1>2, <1>3, NatSet
<1> QED
    BY <1>4 DEF N

(* A sum of integers is an integer, of natural numbers a natural number. *)
LEMMA SumIn ==
    ASSUME NEW S, IsFiniteSet(S), NEW f, NEW V, 0 \in V,
           \A x \in S : \A n \in V : f[x] + n \in V
    PROVE  SumFunctionOnSet(f, S) \in V
<1> DEFINE N == {n \in Nat : \A T \in SUBSET S : Cardinality(T) = n
                    => SumFunctionOnSet(f, T) \in V}
<1>1. \A T \in SUBSET S : IsFiniteSet(T) /\ Cardinality(T) \in Nat
    BY FS_Subset, FS_CardinalityType
<1>2. 0 \in N
    <2>1. ASSUME NEW T \in SUBSET S, Cardinality(T) = 0
          PROVE  SumFunctionOnSet(f, T) \in V
        <3>1. IsFiniteSet(T) /\ T = {}
            BY <1>1, <2>1, FS_EmptySet
        <3> QED
            BY <3>1, SumUnfolds
    <2> QED
        BY <2>1
<1>3. ASSUME NEW n \in Nat, n \in N PROVE n + 1 \in N
    <2>1. ASSUME NEW T \in SUBSET S, Cardinality(T) = n + 1
          PROVE  SumFunctionOnSet(f, T) \in V
        <3>1. IsFiniteSet(T) /\ T # {}
            BY <1>1, <2>1, FS_EmptySet
        <3>2. /\ First(T) \in T
              /\ SumFunctionOnSet(f, T) = f[First(T)] + SumFunctionOnSet(f, T \ {First(T)})
            BY <3>1, SumUnfolds
        <3>3. Cardinality(T \ {First(T)}) = Cardinality(T) - 1
            BY <3>1, <3>2, FS_RemoveElement
        <3>4. Cardinality(T \ {First(T)}) = n
            BY <2>1, <3>3
        <3>5. SumFunctionOnSet(f, T \ {First(T)}) \in V
            BY <1>3, <3>4
        <3> QED
            BY <3>2, <3>5
    <2> QED
        BY <2>1
<1> HIDE DEF N
<1>4. Cardinality(S) \in N
    BY <1>1, <1>2, <1>3, NatSet
<1> QED
    BY <1>4 DEF N

LEMMA SumIsInt ==
    ASSUME NEW S, IsFiniteSet(S), NEW f, IntOn(f, S)
    PROVE  SumFunctionOnSet(f, S) \in Int
<1>1. 0 \in Int /\ \A x \in S : \A n \in Int : f[x] + n \in Int
    BY DEF IntOn
<1> QED
    BY <1>1, SumIn

LEMMA SumIsNat ==
    ASSUME NEW S, IsFiniteSet(S), NEW f, NatOn(f, S)
    PROVE  SumFunctionOnSet(f, S) \in Nat
<1>1. 0 \in Nat /\ \A x \in S : \A n \in Nat : f[x] + n \in Nat
    BY DEF NatOn
<1> QED
    BY <1>1, SumIn

(* Any element can be taken out first. *)
LEMMA SumPick ==
    ASSUME NEW S, IsFiniteSet(S), NEW f, IntOn(f, S), NEW y \in S
    PROVE  SumFunctionOnSet(f, S) = f[y] + SumFunctionOnSet(f, S \ {y})
<1> DEFINE N == {n \in Nat : \A T \in SUBSET S : Cardinality(T) = n =>
                    \A x \in T : SumFunctionOnSet(f, T) = f[x] + SumFunctionOnSet(f, T \ {x})}
<1>1. \A T \in SUBSET S : /\ IsFiniteSet(T) /\ Cardinality(T) \in Nat
                          /\ SumFunctionOnSet(f, T) \in Int
    <2> TAKE T \in SUBSET S
    <2>1. IsFiniteSet(T) /\ Cardinality(T) \in Nat
        BY FS_Subset, FS_CardinalityType
    <2>2. IntOn(f, T)
        BY DEF IntOn
    <2> QED
        BY <2>1, <2>2, SumIsInt
<1>2. 0 \in N
    BY <1>1, FS_EmptySet
<1>3. ASSUME NEW n \in Nat, n \in N PROVE n + 1 \in N
    <2>1. ASSUME NEW T \in SUBSET S, Cardinality(T) = n + 1, NEW x \in T
          PROVE  SumFunctionOnSet(f, T) = f[x] + SumFunctionOnSet(f, T \ {x})
        <3> DEFINE c == First(T)
        <3>1. c \in T /\ SumFunctionOnSet(f, T) = f[c] + SumFunctionOnSet(f, T \ {c})
            BY <1>1, <2>1, SumUnfolds
        <3> HIDE DEF c
        <3>2. CASE x = c
            BY <3>1, <3>2
        <3>3. CASE x # c
            <4>1. \A z \in T : Cardinality(T \ {z}) = n
                <5> TAKE z \in T
                <5>1. Cardinality(T \ {z}) = Cardinality(T) - 1
                    BY <1>1, FS_RemoveElement
                <5> QED
                    BY <2>1, <5>1
            <4>2. SumFunctionOnSet(f, T \ {c}) = f[x] + SumFunctionOnSet(f, (T \ {c}) \ {x})
                BY <1>3, <3>1, <3>3, <4>1
            <4>3. SumFunctionOnSet(f, T \ {x}) = f[c] + SumFunctionOnSet(f, (T \ {x}) \ {c})
                BY <1>3, <3>1, <3>3, <4>1
            <4>4. (T \ {c}) \ {x} = (T \ {x}) \ {c}
                OBVIOUS
            <4>5. SumFunctionOnSet(f, (T \ {x}) \ {c}) \in Int
                BY <1>1
            <4>6. f[x] \in Int /\ f[c] \in Int
                BY <3>1 DEF IntOn
            <4>7. SumFunctionOnSet(f, T) = f[c] + (f[x] + SumFunctionOnSet(f, (T \ {x}) \ {c}))
                BY <3>1, <4>2, <4>4
            <4> QED
                BY <4>3, <4>5, <4>6, <4>7
        <3> QED
            BY <3>2, <3>3
    <2> QED
        BY <2>1
<1> HIDE DEF N
<1>4. Cardinality(S) \in N
    BY <1>1, <1>2, <1>3, NatSet
<1> QED
    BY <1>4 DEF N

(* The sum over no element, and over one more. *)
LEMMA SumEmpty ==
    ASSUME NEW f
    PROVE  SumFunctionOnSet(f, {}) = 0
BY FS_EmptySet, SumUnfolds

LEMMA SumAdd ==
    ASSUME NEW S, IsFiniteSet(S), NEW f, NEW y, y \notin S, IntOn(f, S \cup {y})
    PROVE  /\ SumFunctionOnSet(f, S \cup {y}) = SumFunctionOnSet(f, S) + f[y]
           /\ SumFunctionOnSet(f, S) \in Int
           /\ f[y] \in Int
<1>1. IsFiniteSet(S \cup {y}) /\ (S \cup {y}) \ {y} = S
    BY FS_AddElement
<1>2. SumFunctionOnSet(f, S \cup {y}) = f[y] + SumFunctionOnSet(f, S)
    BY <1>1, SumPick
<1>3. IntOn(f, S) /\ f[y] \in Int
    BY DEF IntOn
<1>4. SumFunctionOnSet(f, S) \in Int
    BY <1>3, SumIsInt
<1> QED
    BY <1>2, <1>3, <1>4

(* The sum over two sets that share nothing. *)
LEMMA SumDisjoint ==
    ASSUME NEW S, IsFiniteSet(S), NEW R, IsFiniteSet(R), S \cap R = {},
           NEW f, IntOn(f, S \cup R)
    PROVE  SumFunctionOnSet(f, S \cup R) = SumFunctionOnSet(f, S) + SumFunctionOnSet(f, R)
<1> DEFINE F == {T \in SUBSET R :
        SumFunctionOnSet(f, S \cup T) = SumFunctionOnSet(f, S) + SumFunctionOnSet(f, T)}
<1>1. SumFunctionOnSet(f, S) \in Int
    <2>1. IntOn(f, S)
        BY DEF IntOn
    <2> QED
        BY <2>1, SumIsInt
<1>2. {} \in F
    <2>1. S \cup {} = S
        OBVIOUS
    <2> QED
        BY <1>1, <2>1, SumEmpty
<1>3. ASSUME NEW T \in SUBSET R, NEW x \in R \ T, T \in F
      PROVE  T \cup {x} \in F
    <2>1. IsFiniteSet(T) /\ IsFiniteSet(S \cup T)
        BY FS_Subset, FS_Union
    <2>i. IntOn(f, T \cup {x}) /\ IntOn(f, (S \cup T) \cup {x})
        BY DEF IntOn
    <2>n. x \notin T /\ x \notin S \cup T
        OBVIOUS
    <2>2. /\ SumFunctionOnSet(f, T \cup {x}) = SumFunctionOnSet(f, T) + f[x]
          /\ SumFunctionOnSet(f, T) \in Int /\ f[x] \in Int
        BY <2>1, <2>i, <2>n, SumAdd
    <2>3. SumFunctionOnSet(f, (S \cup T) \cup {x}) = SumFunctionOnSet(f, S \cup T) + f[x]
        BY <2>1, <2>i, <2>n, SumAdd
    <2>4. S \cup (T \cup {x}) = (S \cup T) \cup {x}
        OBVIOUS
    <2>5. SumFunctionOnSet(f, S \cup T) = SumFunctionOnSet(f, S) + SumFunctionOnSet(f, T)
        BY <1>3
    <2>6. SumFunctionOnSet(f, S \cup (T \cup {x})) = SumFunctionOnSet(f, S \cup T) + f[x]
        BY <2>3, <2>4, Zenon
    <2>7. SumFunctionOnSet(f, S \cup (T \cup {x}))
             = SumFunctionOnSet(f, S) + SumFunctionOnSet(f, T \cup {x})
        BY <1>1, <2>2, <2>5, <2>6
    <2> QED
        BY <2>7
<1> HIDE DEF F
<1>4. R \in F
    BY <1>2, <1>3, SubsetInduction
<1> QED
    BY <1>4 DEF F

(* The sum of what is left when a part is taken away. *)
LEMMA SumWithout ==
    ASSUME NEW S, IsFiniteSet(S), NEW T \in SUBSET S, NEW f, IntOn(f, S)
    PROVE  /\ SumFunctionOnSet(f, S) = SumFunctionOnSet(f, T) + SumFunctionOnSet(f, S \ T)
           /\ SumFunctionOnSet(f, T) \in Int
           /\ SumFunctionOnSet(f, S \ T) \in Int
<1> DEFINE R == S \ T
<1>1. IsFiniteSet(T) /\ IsFiniteSet(R) /\ T \cup R = S /\ T \cap R = {}
    BY FS_Subset
<1>2. IntOn(f, T \cup R) /\ IntOn(f, T) /\ IntOn(f, R)
    BY DEF IntOn
<1> HIDE DEF R
<1>3. SumFunctionOnSet(f, T \cup R) = SumFunctionOnSet(f, T) + SumFunctionOnSet(f, R)
    BY <1>1, <1>2, SumDisjoint
<1>4. SumFunctionOnSet(f, S) = SumFunctionOnSet(f, T) + SumFunctionOnSet(f, R)
    BY <1>1, <1>3, Zenon
<1>5. SumFunctionOnSet(f, T) \in Int /\ SumFunctionOnSet(f, R) \in Int
    BY <1>1, <1>2, SumIsInt
<1> QED
    BY <1>4, <1>5 DEF R

(* A part of natural summands has no larger a sum. *)
LEMMA SumSubset ==
    ASSUME NEW S, IsFiniteSet(S), NEW T \in SUBSET S, NEW f, NatOn(f, S)
    PROVE  SumFunctionOnSet(f, T) <= SumFunctionOnSet(f, S)
<1>1. /\ SumFunctionOnSet(f, S) = SumFunctionOnSet(f, T) + SumFunctionOnSet(f, S \ T)
      /\ SumFunctionOnSet(f, T) \in Int
    BY NatIsInt, SumWithout
<1>2. NatOn(f, S \ T) /\ IsFiniteSet(S \ T)
    BY FS_Subset DEF NatOn
<1>3. SumFunctionOnSet(f, S \ T) \in Nat
    BY <1>2, SumIsNat
<1> QED
    BY <1>1, <1>3

(* Summands that are 0 count for nothing. *)
LEMMA SumZero ==
    ASSUME NEW S, IsFiniteSet(S), NEW f, \A x \in S : f[x] = 0
    PROVE  SumFunctionOnSet(f, S) = 0
<1>1. \A x \in S : \A n \in {0} : f[x] + n \in {0}
    OBVIOUS
<1>2. SumFunctionOnSet(f, S) \in {0}
    BY <1>1, SumIn
<1> QED
    BY <1>2

(* Larger summands have a larger sum. *)
LEMMA SumMonotone ==
    ASSUME NEW S, IsFiniteSet(S), NEW f, NEW g,
           IntOn(f, S), IntOn(g, S), AtMostOn(f, g, S)
    PROVE  SumFunctionOnSet(f, S) <= SumFunctionOnSet(g, S)
<1> DEFINE F == {T \in SUBSET S : SumFunctionOnSet(f, T) <= SumFunctionOnSet(g, T)}
<1>1. {} \in F
    BY SumEmpty
<1>2. ASSUME NEW T \in SUBSET S, NEW x \in S \ T, T \in F
      PROVE  T \cup {x} \in F
    <2>1. IsFiniteSet(T) /\ x \notin T
        BY FS_Subset
    <2>2. IntOn(f, T \cup {x}) /\ IntOn(g, T \cup {x}) /\ f[x] <= g[x]
        BY DEF IntOn, AtMostOn
    <2>3. /\ SumFunctionOnSet(f, T \cup {x}) = SumFunctionOnSet(f, T) + f[x]
          /\ SumFunctionOnSet(f, T) \in Int /\ f[x] \in Int
        BY <2>1, <2>2, SumAdd
    <2>4. /\ SumFunctionOnSet(g, T \cup {x}) = SumFunctionOnSet(g, T) + g[x]
          /\ SumFunctionOnSet(g, T) \in Int /\ g[x] \in Int
        BY <2>1, <2>2, SumAdd
    <2>5. SumFunctionOnSet(f, T) <= SumFunctionOnSet(g, T)
        BY <1>2
    <2>6. SumFunctionOnSet(f, T \cup {x}) <= SumFunctionOnSet(g, T \cup {x})
        BY <2>2, <2>3, <2>4, <2>5
    <2> QED
        BY <2>6
<1> HIDE DEF F
<1>3. S \in F
    BY <1>1, <1>2, SubsetInduction
<1> QED
    BY <1>3 DEF F

(* Summands added one by one add up. *)
LEMMA SumPlus ==
    ASSUME NEW S, IsFiniteSet(S), NEW f, NEW g, NEW h,
           IntOn(f, S), IntOn(g, S), PlusOn(h, f, g, S)
    PROVE  SumFunctionOnSet(h, S) = SumFunctionOnSet(f, S) + SumFunctionOnSet(g, S)
<1> DEFINE F == {T \in SUBSET S :
        SumFunctionOnSet(h, T) = SumFunctionOnSet(f, T) + SumFunctionOnSet(g, T)}
<1>1. {} \in F
    BY SumEmpty
<1>2. ASSUME NEW T \in SUBSET S, NEW x \in S \ T, T \in F
      PROVE  T \cup {x} \in F
    <2>1. IsFiniteSet(T) /\ x \notin T
        BY FS_Subset
    <2>2. IntOn(f, T \cup {x}) /\ IntOn(g, T \cup {x}) /\ IntOn(h, T \cup {x})
        BY DEF IntOn, PlusOn
    <2>3. /\ SumFunctionOnSet(f, T \cup {x}) = SumFunctionOnSet(f, T) + f[x]
          /\ SumFunctionOnSet(f, T) \in Int /\ f[x] \in Int
        BY <2>1, <2>2, SumAdd
    <2>4. /\ SumFunctionOnSet(g, T \cup {x}) = SumFunctionOnSet(g, T) + g[x]
          /\ SumFunctionOnSet(g, T) \in Int /\ g[x] \in Int
        BY <2>1, <2>2, SumAdd
    <2>5. SumFunctionOnSet(h, T \cup {x}) = SumFunctionOnSet(h, T) + h[x]
        BY <2>1, <2>2, SumAdd
    <2>6. SumFunctionOnSet(h, T) = SumFunctionOnSet(f, T) + SumFunctionOnSet(g, T)
        BY <1>2
    <2>7. h[x] = f[x] + g[x]
        BY DEF PlusOn
    <2>8. SumFunctionOnSet(h, T \cup {x})
             = SumFunctionOnSet(f, T \cup {x}) + SumFunctionOnSet(g, T \cup {x})
        BY <2>3, <2>4, <2>5, <2>6, <2>7
    <2> QED
        BY <2>8
<1> HIDE DEF F
<1>3. S \in F
    BY <1>1, <1>2, SubsetInduction
<1> QED
    BY <1>3 DEF F

(* Summands may be renamed one to one (rows that move to other indexes). *)
LEMMA SumRenamed ==
    ASSUME NEW S, IsFiniteSet(S), NEW R, NEW b \in Bijection(S, R),
           NEW f, NEW g, IntOn(f, S), RenamedBy(b, f, g, S)
    PROVE  SumFunctionOnSet(g, R) = SumFunctionOnSet(f, S)
<1> DEFINE Im(T) == {b[x] : x \in T}
<1> DEFINE F == {T \in SUBSET S : SumFunctionOnSet(g, Im(T)) = SumFunctionOnSet(f, T)}
<1>b. /\ b \in [S -> R]
      /\ \A x, y \in S : b[x] = b[y] => x = y
      /\ \A z \in R : \E x \in S : b[x] = z
    BY DEF Bijection, Injection, Surjection, IsInjective
<1>f. IsFiniteSet(R)
    BY FS_Bijection DEF ExistsBijection
<1>1. {} \in F
    <2>1. Im({}) = {}
        OBVIOUS
    <2> QED
        BY <2>1, SumEmpty
<1>2. ASSUME NEW T \in SUBSET S, NEW x \in S \ T, T \in F
      PROVE  T \cup {x} \in F
    <2>1. Im(T) \subseteq R /\ b[x] \in R
        BY <1>b
    <2>2. IsFiniteSet(T) /\ IsFiniteSet(Im(T)) /\ x \notin T
        BY <1>f, <2>1, FS_Subset
    <2>3. b[x] \notin Im(T)
        BY <1>b
    <2>4. Im(T \cup {x}) = Im(T) \cup {b[x]}
        OBVIOUS
    <2>5. IntOn(g, Im(T) \cup {b[x]}) /\ IntOn(f, T \cup {x})
        BY DEF IntOn, RenamedBy
    <2>r. g[b[x]] = f[x]
        BY DEF RenamedBy
    <2>6. SumFunctionOnSet(g, Im(T) \cup {b[x]}) = SumFunctionOnSet(g, Im(T)) + g[b[x]]
        <3> HIDE DEF Im
        <3> QED
            BY <2>2, <2>3, <2>5, SumAdd
    <2>7. SumFunctionOnSet(f, T \cup {x}) = SumFunctionOnSet(f, T) + f[x]
        BY <2>2, <2>5, SumAdd
    <2>8. SumFunctionOnSet(g, Im(T \cup {x})) = SumFunctionOnSet(f, T \cup {x})
        BY <1>2, <2>4, <2>r, <2>6, <2>7
    <2> QED
        BY <2>8
<1>3. Im(S) = R
    BY <1>b
<1> HIDE DEF F
<1>4. S \in F
    BY <1>1, <1>2, SubsetInduction
<1> QED
    BY <1>3, <1>4 DEF F

----------------------------------------------------------------------------
(* Folds over a sequence                                                   *)
(*                                                                         *)
(* FoldLeft(op, base, s) is I[1..Len(s)] for a function I of the sets of   *)
(* indexes, which takes the greatest index last.  step[<<v, k>>] below     *)
(* stands for op(v, s[k]), on a set V of values that op does not leave.    *)

LEMMA LastIndex ==
    ASSUME NEW k \in Nat \ {0}
    PROVE  Max(1..k) = k /\ (1..k) \ {k} = 1..(k - 1)
<1>1. k \in 1..k /\ \A y \in 1..k : k >= y
    OBVIOUS
<1>2. \A x \in 1..k : (\A y \in 1..k : x >= y) => x = k
    BY <1>1
<1>3. Max(1..k) = k
    BY <1>1, <1>2 DEF Max
<1> QED
    BY <1>3

LEMMA GreatestIn ==
    ASSUME NEW n \in Nat, NEW s \in SUBSET (1..n), s # {}
    PROVE  Max(s) \in s
<1> DEFINE far == {n - x : x \in s}
<1>1. far \in SUBSET Nat /\ far # {}
    <2>1. \A x \in s : x \in 1..n /\ n - x \in Nat
        OBVIOUS
    <2>2. PICK x \in s : TRUE
        OBVIOUS
    <2>3. n - x \in far
        OBVIOUS
    <2> QED
        BY <2>1, <2>3
<1>2. PICK m \in far : \A i \in far : m <= i
    <2> HIDE DEF far
    <2> QED
        BY <1>1, LeastNat
<1>3. PICK x \in s : m = n - x
    OBVIOUS
<1>4. \A y \in s : x >= y
    <2> TAKE y \in s
    <2>1. n - y \in far
        OBVIOUS
    <2>2. n - x <= n - y
        BY <1>2, <1>3, <2>1
    <2>3. x \in Int /\ y \in Int
        OBVIOUS
    <2> HIDE DEF far
    <2> QED
        BY <2>2, <2>3
<1> QED
    BY <1>4 DEF Max

StepsIn(step, V, n) == step \in [V \X (1..n) -> V]
LastStep(I, step, s) == step[<<I[s \ {Max(s)}], Max(s)>>]

FoldsIn(I, V, n, base, step) ==
    /\ I \in [SUBSET (1..n) -> V]
    /\ \A s \in SUBSET (1..n) : I[s] = IF s = {} THEN base ELSE LastStep(I, step, s)
FoldsWithin(I, V, n, base, step) ==
    /\ I[{}] = base
    /\ \A s \in SUBSET (1..n) : s # {} /\ I[s \ {Max(s)}] \in V => I[s] = LastStep(I, step, s)
Passes(g, V, n, base, step) ==
    /\ g \in [0..n -> V]
    /\ g[0] = base
    /\ \A k \in 1..n : g[k] = step[<<g[k - 1], k>>]

(* There is such a function of the sets of indexes. *)
LEMMA FoldExists ==
    ASSUME NEW V, NEW n \in Nat, NEW base \in V, NEW step, StepsIn(step, V, n)
    PROVE  \E I : FoldsIn(I, V, n, base, step)
<1>0. step \in [V \X (1..n) -> V]
    BY DEF StepsIn
<1> DEFINE Folds(I, k) ==
        /\ I \in [SUBSET (1..k) -> V]
        /\ \A s \in SUBSET (1..k) :
              I[s] = IF s = {} THEN base ELSE step[<<I[s \ {Max(s)}], Max(s)>>]
<1> DEFINE N == {k \in Nat : k <= n => \E I : Folds(I, k)}
<1>1. 0 \in N
    <2> DEFINE I == [s \in SUBSET (1..0) |-> base]
    <2>1. \A s \in SUBSET (1..0) : s = {}
        OBVIOUS
    <2>2. Folds(I, 0)
        BY <2>1
    <2> QED
        BY <2>2
<1>2. ASSUME NEW k \in Nat, k \in N PROVE k + 1 \in N
    <2> HIDE DEF Folds
    <2>1. SUFFICES ASSUME k + 1 <= n PROVE \E I : Folds(I, k + 1)
        OBVIOUS
    <2>2. PICK J : Folds(J, k)
        BY <1>2, <2>1
    <2> USE DEF Folds
    <2> DEFINE I == [s \in SUBSET (1..(k + 1)) |->
                        IF k + 1 \in s THEN step[<<J[s \ {k + 1}], k + 1>>] ELSE J[s]]
    <2>3. ASSUME NEW s \in SUBSET (1..(k + 1)), k + 1 \notin s
          PROVE  s \in SUBSET (1..k) /\ I[s] = J[s]
        <3>1. s \in SUBSET (1..k)
            BY <2>3
        <3> QED
            BY <2>3, <3>1
    <2>4. ASSUME NEW s \in SUBSET (1..(k + 1)), k + 1 \in s
          PROVE  /\ s \ {k + 1} \in SUBSET (1..k)
                 /\ I[s] = step[<<J[s \ {k + 1}], k + 1>>]
                 /\ Max(s) = k + 1
        <3>1. s \ {k + 1} \in SUBSET (1..k)
            OBVIOUS
        <3>2. \A x \in s : x \in Int /\ x <= k + 1
            OBVIOUS
        <3>3. \A x \in s : (\A y \in s : x >= y) => x = k + 1
            BY <2>4, <3>2
        <3>4. \A y \in s : k + 1 >= y
            BY <3>2
        <3>5. Max(s) = k + 1
            BY <2>4, <3>3, <3>4 DEF Max
        <3> QED
            BY <2>4, <3>1, <3>5
    <2> HIDE DEF I
    <2>5. \A s \in SUBSET (1..(k + 1)) : I[s] \in V
        <3> TAKE s \in SUBSET (1..(k + 1))
        <3>1. CASE k + 1 \in s
            <4>1. J[s \ {k + 1}] \in V
                BY <2>2, <2>4, <3>1
            <4>2. <<J[s \ {k + 1}], k + 1>> \in V \X (1..n)
                BY <2>1, <4>1
            <4>3. step[<<J[s \ {k + 1}], k + 1>>] \in V
                BY <1>0, <4>2
            <4> QED
                BY <2>4, <3>1, <4>3
        <3>2. CASE k + 1 \notin s
            BY <2>2, <2>3, <3>2
        <3> QED
            BY <3>1, <3>2
    <2>6. I \in [SUBSET (1..(k + 1)) -> V]
        BY <2>5 DEF I
    <2>7. ASSUME NEW s \in SUBSET (1..(k + 1))
          PROVE  I[s] = IF s = {} THEN base ELSE step[<<I[s \ {Max(s)}], Max(s)>>]
        <3>1. CASE k + 1 \in s
            <4>1. Max(s) = k + 1 /\ I[s] = step[<<J[s \ {k + 1}], k + 1>>]
                BY <2>4, <3>1
            <4>2. I[s \ {k + 1}] = J[s \ {k + 1}]
                BY <2>3
            <4> QED
                BY <3>1, <4>1, <4>2
        <3>2. CASE k + 1 \notin s
            <4>1. s \in SUBSET (1..k) /\ I[s] = J[s]
                BY <2>3, <3>2
            <4>2. \A m : k + 1 \notin s \ {m} /\ s \ {m} \in SUBSET (1..(k + 1))
                BY <3>2
            <4>3. \A m : I[s \ {m}] = J[s \ {m}]
                BY <2>3, <4>2
            <4>4. J[s] = IF s = {} THEN base ELSE step[<<J[s \ {Max(s)}], Max(s)>>]
                BY <2>2, <4>1
            <4> QED
                BY <4>1, <4>3, <4>4
        <3> QED
            BY <3>1, <3>2
    <2>8. Folds(I, k + 1)
        BY <2>6, <2>7
    <2> QED
        BY <2>8
<1> HIDE DEF N
<1>3. \A k \in Nat : k \in N
    BY <1>1, <1>2, NatSet
<1>4. n \in N
    BY <1>3
<1>5. PICK I : Folds(I, n)
    <2> HIDE DEF Folds
    <2> QED
        BY <1>4 DEF N
<1>6. FoldsIn(I, V, n, base, step)
    BY <1>5 DEF FoldsIn, LastStep
<1> QED
    BY <1>6

(* What a fold passes through: g[k] is its value after k elements. *)
LEMMA FoldSteps ==
    ASSUME NEW V, NEW n \in Nat, NEW base \in V, NEW step, StepsIn(step, V, n),
           NEW I, FoldsWithin(I, V, n, base, step)
    PROVE  \E g : Passes(g, V, n, base, step) /\ g[n] = I[1..n]
<1>0. /\ step \in [V \X (1..n) -> V]
      /\ I[{}] = base
      /\ \A s \in SUBSET (1..n) : s # {} /\ I[s \ {Max(s)}] \in V
            => I[s] = step[<<I[s \ {Max(s)}], Max(s)>>]
    BY DEF StepsIn, FoldsWithin, LastStep
<1> DEFINE g == [k \in 0..n |-> I[1..k]]
<1> DEFINE N == {k \in Nat : k <= n => I[1..k] \in V}
<1>1. 1..0 = {}
    OBVIOUS
<1>2. ASSUME NEW k \in 1..n, I[1..(k - 1)] \in V
      PROVE  I[1..k] = step[<<I[1..(k - 1)], k>>] /\ I[1..k] \in V
    <2>1. Max(1..k) = k /\ (1..k) \ {k} = 1..(k - 1)
        BY LastIndex
    <2>2. 1..k \in SUBSET (1..n) /\ 1..k # {}
        <3>1. k \in 1..k
            OBVIOUS
        <3> QED
            BY <3>1
    <2>3. I[1..k] = step[<<I[1..(k - 1)], k>>]
        BY <1>0, <1>2, <2>1, <2>2
    <2>4. <<I[1..(k - 1)], k>> \in V \X (1..n)
        BY <1>2
    <2>5. step[<<I[1..(k - 1)], k>>] \in V
        BY <1>0, <2>4
    <2> QED
        BY <2>3, <2>5
<1>3. 0 \in N
    BY <1>0, <1>1
<1>4. ASSUME NEW k \in Nat, k \in N PROVE k + 1 \in N
    <2>1. SUFFICES ASSUME k + 1 <= n PROVE I[1..(k + 1)] \in V
        OBVIOUS
    <2>2. I[1..((k + 1) - 1)] \in V /\ k + 1 \in 1..n
        BY <1>4, <2>1
    <2> QED
        BY <1>2, <2>2
<1> HIDE DEF N
<1>5. \A k \in Nat : k \in N
    BY <1>3, <1>4, NatSet
<1>6. \A k \in 0..n : I[1..k] \in V
    BY <1>5 DEF N
<1>7. g \in [0..n -> V] /\ g[n] = I[1..n]
    BY <1>6
<1>8. g[0] = base
    BY <1>0, <1>1
<1>9. \A k \in 1..n : g[k] = step[<<g[k - 1], k>>]
    <2> TAKE k \in 1..n
    <2>1. k - 1 \in 0..n /\ k \in 0..n
        OBVIOUS
    <2>2. I[1..k] = step[<<I[1..(k - 1)], k>>]
        BY <1>2, <1>6, <2>1
    <2> QED
        BY <2>1, <2>2
<1>10. Passes(g, V, n, base, step)
    BY <1>7, <1>8, <1>9 DEF Passes
<1> HIDE DEF g
<1> QED
    BY <1>7, <1>10

----------------------------------------------------------------------------
(* Folds over a finite set (FoldSet of FiniteSetsExt), whose elements come  *)
(* in an order nobody knows.                                                *)

Pick(s) == CHOOSE x \in s : TRUE
SetStepsIn(step, V, S) == step \in [V \X S -> V]
PickStep(I, step, s) == step[<<I[s \ {Pick(s)}], Pick(s)>>]

SetFoldsIn(I, V, S, base, step) ==
    /\ I \in [SUBSET S -> V]
    /\ \A s \in SUBSET S : I[s] = IF s = {} THEN base ELSE PickStep(I, step, s)
SetFoldsWithin(I, V, S, base, step) ==
    /\ I[{}] = base
    /\ \A s \in SUBSET S : s # {} /\ I[s \ {Pick(s)}] \in V => I[s] = PickStep(I, step, s)

SetStepsKeep(R, step, V, S) ==
    \A s \in SUBSET S : \A v \in V : \A x \in S \ s :
        <<s, v>> \in R => <<s \cup {x}, step[<<v, x>>]>> \in R

LEMMA PickOne ==
    ASSUME NEW S, IsFiniteSet(S), NEW s \in SUBSET S, s # {}
    PROVE  /\ Pick(s) \in s
           /\ s \ {Pick(s)} \in SUBSET S
           /\ Cardinality(s) \in Nat /\ Cardinality(s \ {Pick(s)}) = Cardinality(s) - 1
<1>1. Pick(s) \in s
    BY DEF Pick
<1>2. IsFiniteSet(s) /\ Cardinality(s) \in Nat
    BY FS_Subset, FS_CardinalityType
<1>3. Cardinality(s \ {Pick(s)}) = Cardinality(s) - 1
    BY <1>1, <1>2, FS_RemoveElement
<1> QED
    BY <1>1, <1>2, <1>3

(* There is such a function of the subsets. *)
LEMMA SetFoldExists ==
    ASSUME NEW V, NEW S, IsFiniteSet(S), NEW base \in V, NEW step, SetStepsIn(step, V, S)
    PROVE  \E I : SetFoldsIn(I, V, S, base, step)
<1>0. step \in [V \X S -> V]
    BY DEF SetStepsIn
<1> DEFINE Upto(k) == {s \in SUBSET S : Cardinality(s) <= k}
<1> DEFINE Folds(I, k) ==
        /\ I \in [Upto(k) -> V]
        /\ \A s \in Upto(k) :
              I[s] = IF s = {} THEN base ELSE step[<<I[s \ {Pick(s)}], Pick(s)>>]
<1> DEFINE N == {k \in Nat : \E I : Folds(I, k)}
<1>1. 0 \in N
    <2> DEFINE I == [s \in Upto(0) |-> base]
    <2>1. \A s \in Upto(0) : s = {}
        <3> TAKE s \in Upto(0)
        <3>1. IsFiniteSet(s) /\ Cardinality(s) \in Nat
            BY FS_Subset, FS_CardinalityType
        <3>2. Cardinality(s) = 0
            BY <3>1
        <3> QED
            BY <3>1, <3>2, FS_EmptySet
    <2> HIDE DEF Upto
    <2>2. Folds(I, 0)
        BY <2>1
    <2> HIDE DEF I, Folds
    <2> QED
        BY <2>2
<1>2. ASSUME NEW k \in Nat, k \in N PROVE k + 1 \in N
    <2> HIDE DEF Folds
    <2>1. PICK J : Folds(J, k)
        BY <1>2
    <2> USE DEF Folds
    <2> DEFINE I == [s \in Upto(k + 1) |->
                        IF s = {} THEN base ELSE step[<<J[s \ {Pick(s)}], Pick(s)>>]]
    <2>2. ASSUME NEW s \in Upto(k + 1), s # {}
          PROVE  Pick(s) \in S /\ s \ {Pick(s)} \in Upto(k) /\ s \ {Pick(s)} \in Upto(k + 1)
        <3>1. s \in SUBSET S /\ Cardinality(s) <= k + 1
            OBVIOUS
        <3>2. /\ Pick(s) \in s /\ s \ {Pick(s)} \in SUBSET S
              /\ Cardinality(s) \in Nat /\ Cardinality(s \ {Pick(s)}) = Cardinality(s) - 1
            BY <2>2, <3>1, PickOne
        <3> QED
            BY <3>1, <3>2
    <2>3. \A s \in Upto(k) : s \in Upto(k + 1)
        <3> TAKE s \in Upto(k)
        <3>1. Cardinality(s) \in Nat
            BY FS_Subset, FS_CardinalityType
        <3> QED
            BY <3>1
    <2> HIDE DEF Upto
    <2>4. \A s \in Upto(k + 1) :
              (IF s = {} THEN base ELSE step[<<J[s \ {Pick(s)}], Pick(s)>>]) \in V
        <3> TAKE s \in Upto(k + 1)
        <3>1. CASE s = {}
            BY <3>1
        <3>2. CASE s # {}
            <4>1. J[s \ {Pick(s)}] \in V
                BY <2>1, <2>2, <3>2
            <4>2. <<J[s \ {Pick(s)}], Pick(s)>> \in V \X S
                BY <2>2, <3>2, <4>1
            <4> QED
                BY <1>0, <3>2, <4>2
        <3> QED
            BY <3>1, <3>2
    <2>5. I \in [Upto(k + 1) -> V]
        BY <2>4
    <2>6. \A s \in Upto(k) : I[s] = J[s]
        BY <2>1, <2>3
    <2>7. ASSUME NEW s \in Upto(k + 1), s # {}
          PROVE  I[s] = step[<<I[s \ {Pick(s)}], Pick(s)>>]
        <3>1. I[s] = step[<<J[s \ {Pick(s)}], Pick(s)>>]
            BY <2>7
        <3>2. I[s \ {Pick(s)}] = J[s \ {Pick(s)}]
            BY <2>2, <2>6, <2>7
        <3> QED
            BY <3>1, <3>2
    <2>8. \A s \in Upto(k + 1) : s = {} => I[s] = base
        OBVIOUS
    <2> HIDE DEF I
    <2>9. Folds(I, k + 1)
        BY <2>5, <2>7, <2>8
    <2> HIDE DEF Folds
    <2> QED
        BY <2>9
<1> HIDE DEF N
<1>3. \A k \in Nat : k \in N
    BY <1>1, <1>2, NatSet
<1>4. Cardinality(S) \in Nat
    BY FS_CardinalityType
<1>5. PICK I : Folds(I, Cardinality(S))
    <2> HIDE DEF Folds
    <2> QED
        BY <1>3, <1>4 DEF N
<1>6. Upto(Cardinality(S)) = SUBSET S
    <2>1. \A s \in SUBSET S : Cardinality(s) <= Cardinality(S)
        BY FS_Subset
    <2> QED
        BY <2>1
<1> HIDE DEF Upto
<1>7. SetFoldsIn(I, V, S, base, step)
    BY <1>5, <1>6 DEF SetFoldsIn, PickStep
<1> QED
    BY <1>7

(* What holds of the base and is kept by every step holds of the fold.  R  *)
(* relates a set of elements to the values it may lead to.                 *)
LEMMA SetFoldKeeps ==
    ASSUME NEW V, NEW S, IsFiniteSet(S), NEW base \in V, NEW step, SetStepsIn(step, V, S),
           NEW I, SetFoldsWithin(I, V, S, base, step),
           NEW R, <<{}, base>> \in R, SetStepsKeep(R, step, V, S)
    PROVE  I[S] \in V /\ <<S, I[S]>> \in R
<1>0. /\ step \in [V \X S -> V]
      /\ I[{}] = base
      /\ \A s \in SUBSET S : s # {} /\ I[s \ {Pick(s)}] \in V
            => I[s] = step[<<I[s \ {Pick(s)}], Pick(s)>>]
      /\ \A s \in SUBSET S : \A v \in V : \A x \in S \ s :
             <<s, v>> \in R => <<s \cup {x}, step[<<v, x>>]>> \in R
    BY DEF SetStepsIn, SetFoldsWithin, PickStep, SetStepsKeep
<1> DEFINE N == {k \in Nat : \A s \in SUBSET S :
                    Cardinality(s) = k => I[s] \in V /\ <<s, I[s]>> \in R}
<1>1. 0 \in N
    <2>1. ASSUME NEW s \in SUBSET S, Cardinality(s) = 0 PROVE s = {}
        <3>1. IsFiniteSet(s)
            BY FS_Subset
        <3> QED
            BY <2>1, <3>1, FS_EmptySet
    <2> QED
        BY <1>0, <2>1
<1>2. ASSUME NEW k \in Nat, k \in N PROVE k + 1 \in N
    <2>1. ASSUME NEW s \in SUBSET S, Cardinality(s) = k + 1
          PROVE  I[s] \in V /\ <<s, I[s]>> \in R
        <3> DEFINE x == Pick(s)
        <3> DEFINE t == s \ {x}
        <3>1. s # {}
            BY <2>1, FS_EmptySet
        <3>2. x \in s /\ t \in SUBSET S /\ Cardinality(t) = k
            BY <2>1, <3>1, PickOne
        <3>3. I[t] \in V /\ <<t, I[t]>> \in R
            BY <1>2, <3>2
        <3>4. I[s] = step[<<I[t], x>>]
            BY <1>0, <3>1, <3>3
        <3>5. x \in S \ t /\ t \cup {x} = s
            BY <3>2
        <3> HIDE DEF x, t
        <3>6. <<I[t], x>> \in V \X S
            BY <3>3, <3>5
        <3> QED
            BY <1>0, <3>2, <3>3, <3>4, <3>5, <3>6
    <2> QED
        BY <2>1
<1> HIDE DEF N
<1>3. \A k \in Nat : k \in N
    BY <1>1, <1>2, NatSet
<1>4. Cardinality(S) \in Nat
    BY FS_CardinalityType
<1> QED
    BY <1>3, <1>4 DEF N

=============================================================================
