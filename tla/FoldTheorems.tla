---------------------------- MODULE FoldTheorems ----------------------------
(***************************************************************************)
(* What a fold of the community modules computes, for a step op that also  *)
(* looks at an environment, and for every order choose in which a set may  *)
(* be taken apart.  An INSTANCE with a step and an order of its own gives  *)
(* the theorems for that fold.  They rest on minimal elements: a set of    *)
(* counterexamples that is not empty has a least one.                      *)
(***************************************************************************)
EXTENDS FiniteSetTheorems, TLAPS

CONSTANTS op(_, _, _), choose(_)

Fold(env, base, g, S) ==
    MapThenFoldSet(LAMBDA x, y : op(env, x, y), base, LAMBDA i : g[i], choose, S)

\* choose takes an element out of every part of S.
Chooses(S) == \A s \in SUBSET S : s # {} => choose(s) \in s

-----------------------------------------------------------------------------
\* Of sets that are part of a finite one, some contain no other.
LEMMA SmallestSet ==
  ASSUME NEW S, IsFiniteSet(S), NEW T \in SUBSET SUBSET S, T # {}
  PROVE  \E s \in T : \A t \in T : t \subseteq s => t = s
<1>1. IsWellFoundedOn(StrictSubsetOrdering(S), SUBSET S)
  BY FS_StrictSubsetOrderingWellFounded, FS_FiniteSubsetsOfFinite
<1>2. \E s \in T : \A t \in T : <<t, s>> \notin StrictSubsetOrdering(S)
  BY <1>1, WFMin
<1> QED
  BY <1>2 DEF StrictSubsetOrdering

\* A set of natural numbers has a least element.
LEMMA LeastNumber ==
  ASSUME NEW T \in SUBSET Nat, T # {}
  PROVE  \E n \in T : \A m \in T : n <= m
<1> DEFINE R == OpToRel(<, Nat)
<1>1. IsWellFoundedOn(R, Nat)
  BY NatLessThanWellFounded
<1>2. \A m, n \in Nat : m < n => <<m, n>> \in R
  BY Zenon DEF OpToRel
<1> HIDE DEF R
<1>3. PICK n \in T : \A m \in T : <<m, n>> \notin R
  BY <1>1, WFMin
<1>4. ASSUME NEW m \in T PROVE n <= m
  <2>1. m \in Nat /\ n \in Nat /\ ~(m < n)
    BY <1>2, <1>3
  <2> QED
    BY <2>1
<1> QED
  BY <1>4

\* A finite set of numbers that is not empty has a greatest element.
LEMMA GreatestNumber ==
  ASSUME NEW n \in Nat, NEW S \in SUBSET (1 .. n), S # {}
  PROVE  \E x \in S : \A y \in S : x >= y
<1> DEFINE T == {n - x : x \in S}
<1>1. \A x \in S : n - x \in Nat
  OBVIOUS
<1>2. PICK m \in T : \A k \in T : m <= k
  <2>1. T \in SUBSET Nat /\ T # {}
    BY <1>1
  <2> QED
    BY <2>1, LeastNumber
<1>3. PICK x \in S : m = n - x
  OBVIOUS
<1>4. \A y \in S : n - x <= n - y
  BY <1>2, <1>3
<1> QED
  BY <1>4

-----------------------------------------------------------------------------
\* What the fold of s is, when h holds the folds of smaller sets.
Def(env, base, g, h, s) ==
    IF s = {} THEN base ELSE op(env, g[choose(s)], h[s \ {choose(s)}])

\* h holds the folds of the sets in D.
Folds(env, base, g, h, D) == h = [s \in D |-> Def(env, base, g, h, s)]

LEMMA FoldIsChosen ==
  ASSUME NEW env, NEW base, NEW g, NEW S
  PROVE  Fold(env, base, g, S) = (CHOOSE h : Folds(env, base, g, h, SUBSET S))[S]
BY Zenon DEF Fold, MapThenFoldSet, Folds, Def

\* There is such an h: each number of elements builds on the last.
LEMMA FoldsExist ==
  ASSUME NEW env, NEW base, NEW g, NEW S, IsFiniteSet(S), Chooses(S)
  PROVE  \E h : Folds(env, base, g, h, SUBSET S)
<1> DEFINE Small(n) == {s \in SUBSET S : Cardinality(s) <= n}
           Bad      == {n \in Nat : ~ \E h : Folds(env, base, g, h, Small(n))}
<1>1. \A s \in SUBSET S : IsFiniteSet(s) /\ Cardinality(s) \in Nat /\ Cardinality(s) <= Cardinality(S)
  BY FS_Subset, FS_CardinalityType
<1>2. \A s \in SUBSET S : s # {} => /\ s \ {choose(s)} \in SUBSET S
                                    /\ Cardinality(s \ {choose(s)}) = Cardinality(s) - 1
  BY <1>1, FS_RemoveElement DEF Chooses
<1>3. ASSUME NEW n \in Bad, \A m \in Bad : n <= m PROVE FALSE
  <2>1. CASE n = 0
    <3>1. \A s \in Small(0) : s = {}
      BY <1>1, FS_EmptySet
    <3>2. Folds(env, base, g, [s \in Small(0) |-> base], Small(0))
      BY <3>1 DEF Folds, Def
    <3> QED
      BY <2>1, <3>2
  <2>2. CASE n # 0
    <3>1. PICK h : Folds(env, base, g, h, Small(n - 1))
      <4>1. n - 1 \in Nat /\ ~(n <= n - 1)
        BY <2>2
      <4> QED
        BY <1>3, <4>1
    <3> DEFINE k == [s \in Small(n) |-> Def(env, base, g, h, s)]
    <3>2. \A s \in Small(n - 1) : k[s] = h[s]
      BY <3>1, <1>1 DEF Folds
    <3>3. \A s \in Small(n) : s # {} => s \ {choose(s)} \in Small(n - 1)
      BY <1>1, <1>2
    <3>4. \A s \in Small(n) : Def(env, base, g, h, s) = Def(env, base, g, k, s)
      BY <3>2, <3>3 DEF Def
    <3>5. Folds(env, base, g, k, Small(n))
      BY <3>4 DEF Folds
    <3> QED
      BY <3>5
  <2> QED
    BY <2>1, <2>2
<1>4. Bad = {}
  BY <1>3, LeastNumber
<1>5. Cardinality(S) \in Nat /\ Small(Cardinality(S)) = SUBSET S
  BY <1>1
<1> QED
  BY <1>4, <1>5

\* And two that hold the folds of a set, hold the same.
SameFold(env, base, g, S, T, h, k) ==
    /\ IsFiniteSet(S) /\ Chooses(S) /\ T \subseteq S
    /\ Folds(env, base, g, h, SUBSET S) /\ Folds(env, base, g, k, SUBSET T)

SameOn(h, k, T) == \A s \in SUBSET T : h[s] = k[s]

LEMMA FoldsAgree ==
  ASSUME NEW env, NEW base, NEW g, NEW S, NEW T, NEW h, NEW k, SameFold(env, base, g, S, T, h, k)
  PROVE  SameOn(h, k, T)
<1> USE DEF SameFold, SameOn
<1> DEFINE Bad == {s \in SUBSET T : h[s] # k[s]}
<1>1. ASSUME NEW s \in Bad, \A t \in Bad : t \subseteq s => t = s PROVE FALSE
  <2>1. h[s] = Def(env, base, g, h, s) /\ k[s] = Def(env, base, g, k, s)
    BY DEF Folds
  <2>2. s # {} => choose(s) \in s /\ s \ {choose(s)} \notin Bad
    BY <1>1 DEF Chooses
  <2>3. s # {} => h[s \ {choose(s)}] = k[s \ {choose(s)}]
    BY <2>2
  <2> QED
    BY <2>1, <2>3 DEF Def
<1>2. Bad \in SUBSET SUBSET S
  OBVIOUS
<1> HIDE DEF Bad
<1>3. Bad = {}
  BY <1>1, <1>2, SmallestSet
<1> QED
  BY <1>3 DEF Bad

-----------------------------------------------------------------------------
Unfolds(env, base, g, S) ==
    Fold(env, base, g, S) =
        IF S = {} THEN base
        ELSE op(env, g[choose(S)], Fold(env, base, g, S \ {choose(S)}))

LEMMA FoldStep ==
  ASSUME NEW env, NEW base, NEW g, NEW S, IsFiniteSet(S), Chooses(S)
  PROVE  Unfolds(env, base, g, S)
<1> DEFINE T == S \ {choose(S)}
<1>1. T \subseteq S /\ IsFiniteSet(T) /\ Chooses(T)
  BY FS_Subset DEF Chooses
<1> HIDE DEF T
<1>2. PICK h : Folds(env, base, g, h, SUBSET S) /\ Fold(env, base, g, S) = h[S]
  BY FoldsExist, FoldIsChosen
<1>3. PICK k : Folds(env, base, g, k, SUBSET T) /\ Fold(env, base, g, T) = k[T]
  BY <1>1, FoldsExist, FoldIsChosen
<1>4. h[S] = Def(env, base, g, h, S)
  BY <1>2 DEF Folds
<1>5. h[T] = k[T]
  <2>1. SameFold(env, base, g, S, T, h, k)
    BY <1>1, <1>2, <1>3 DEF SameFold
  <2>2. SameOn(h, k, T)
    BY <2>1, FoldsAgree, Zenon
  <2> QED
    BY <2>2 DEF SameOn
<1>6. Def(env, base, g, h, S) = IF S = {} THEN base ELSE op(env, g[choose(S)], h[T])
  BY Zenon DEF Def, T
<1> QED
  BY <1>2, <1>3, <1>4, <1>5, <1>6, Zenon DEF T, Unfolds

\* A fold over a set is one step on from the fold over the set without the
\* element that is chosen: what folds in the models of the code are used for.
THEOREM FoldUnfolds ==
  ASSUME NEW env, NEW base, NEW g, NEW S, IsFiniteSet(S), Chooses(S)
  PROVE  Fold(env, base, g, S) =
            IF S = {} THEN base
            ELSE op(env, g[choose(S)], Fold(env, base, g, S \ {choose(S)}))
<1>1. Unfolds(env, base, g, S)
  BY FoldStep, Zenon
<1> QED
  BY <1>1 DEF Unfolds

\* Induction along a sequence that is folded from its first element on: what
\* is good for the base and stays good in each step is good for the whole.
THEOREM FoldInduction ==
  ASSUME NEW env, NEW base, NEW g, NEW N \in Nat, NEW Good,
         \A S \in SUBSET (1 .. N) : S # {} => choose(S) \in S /\ \A i \in S : choose(S) >= i,
         <<0, base>> \in Good,
         \A n \in 1 .. N : \A v : <<n - 1, v>> \in Good => <<n, op(env, g[n], v)>> \in Good
  PROVE  <<N, Fold(env, base, g, 1 .. N)>> \in Good
<1> DEFINE Bad == {n \in 0 .. N : <<n, Fold(env, base, g, 1 .. n)>> \notin Good}
<1>1. \A n \in 0 .. N : IsFiniteSet(1 .. n) /\ Chooses(1 .. n)
  <2> TAKE n \in 0 .. N
  <2>1. 1 .. n \subseteq 1 .. N
    OBVIOUS
  <2> QED
    BY <2>1, FS_Interval DEF Chooses
<1>2. ASSUME NEW n \in Bad, \A m \in Bad : n <= m PROVE FALSE
  <2>1. CASE n = 0
    <3>1. 1 .. 0 = {}
      OBVIOUS
    <3>2. Fold(env, base, g, 1 .. 0) = base
      BY <1>1, <3>1, FoldUnfolds
    <3> QED
      BY <2>1, <3>2
  <2>2. CASE n # 0
    <3>1. n \in 1 .. N /\ n - 1 \in 0 .. N /\ ~(n <= n - 1)
      BY <2>2
    <3>2. <<n - 1, Fold(env, base, g, 1 .. (n - 1))>> \in Good
      BY <1>2, <3>1
    <3>3. choose(1 .. n) = n
      <4>1. 1 .. n \in SUBSET (1 .. N) /\ n \in 1 .. n
        BY <3>1
      <4>2. choose(1 .. n) \in 1 .. n /\ choose(1 .. n) >= n
        BY <4>1
      <4> QED
        BY <4>2
    <3>4. (1 .. n) \ {n} = 1 .. (n - 1) /\ 1 .. n # {}
      <4>1. n \in Nat \ {0}
        BY <3>1
      <4>2. \A i : i \in (1 .. n) \ {n} <=> i \in 1 .. (n - 1)
        BY <4>1
      <4>3. n \in 1 .. n
        BY <4>1
      <4> QED
        BY <4>2, <4>3
    <3>5. Fold(env, base, g, 1 .. n) = op(env, g[n], Fold(env, base, g, 1 .. (n - 1)))
      <4>1. PICK S : S = 1 .. n
        OBVIOUS
      <4>2. IsFiniteSet(S) /\ Chooses(S)
        BY <1>1, <3>1, <4>1
      <4>3. Unfolds(env, base, g, S)
        BY <4>2, FoldStep, Zenon
      <4>4. S # {} /\ choose(S) = n /\ S \ {n} = 1 .. (n - 1)
        BY <3>3, <3>4, <4>1, Zenon
      <4>5. Fold(env, base, g, S) = op(env, g[n], Fold(env, base, g, 1 .. (n - 1)))
        BY <4>3, <4>4, Zenon DEF Unfolds
      <4> QED
        BY <4>1, <4>5, Zenon
    <3>6. <<n, op(env, g[n], Fold(env, base, g, 1 .. (n - 1)))>> \in Good
      BY <3>1, <3>2
    <3> QED
      BY <3>5, <3>6
  <2> QED
    BY <2>1, <2>2
<1>3. Bad = {}
  <2>1. Bad \in SUBSET Nat
    OBVIOUS
  <2> HIDE DEF Bad
  <2> QED
    BY <1>2, <2>1, LeastNumber
<1> QED
  BY <1>3
=============================================================================
