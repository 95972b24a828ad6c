----------------------------- MODULE SumTheorems -----------------------------
(***************************************************************************)
(* Sums of natural numbers over finite sets: usedSize is one of them, and  *)
(* the averages and counts a score is made of.                             *)
(***************************************************************************)
EXTENDS FiniteSetTheorems, TLAPS

Plus(env, x, y) == x + y
SomeOf(S)       == CHOOSE x \in S : TRUE

Sums == INSTANCE FoldTheorems WITH op <- Plus, choose <- SomeOf

\* The instance has finite sets of its own.
LEMMA SameFinite == \A S : IsFiniteSet(S) => Sums!IsFiniteSet(S)
BY Zenon DEF IsFiniteSet, Sums!IsFiniteSet

\* f is a number at every element of S.
NatOn(f, S) == \A x \in S : f[x] \in Nat

LEMMA SumUnfolds ==
  ASSUME NEW f, NEW S, IsFiniteSet(S)
  PROVE  SumFunctionOnSet(f, S) =
            IF S = {} THEN 0 ELSE f[SomeOf(S)] + SumFunctionOnSet(f, S \ {SomeOf(S)})
<1>1. \A T : SumFunctionOnSet(f, T) = Sums!Fold(0, 0, f, T)
  BY Zenon DEF SumFunctionOnSet, FoldFunctionOnSet, MapThenFoldSet, Sums!Fold,
               Sums!MapThenFoldSet, Plus, SomeOf
<1>2. Sums!Chooses(S)
  BY DEF Sums!Chooses, SomeOf
<1>3. Sums!Fold(0, 0, f, S) =
        IF S = {} THEN 0 ELSE Plus(0, f[SomeOf(S)], Sums!Fold(0, 0, f, S \ {SomeOf(S)}))
  BY <1>2, SameFinite, Sums!FoldUnfolds
<1> QED
  BY <1>1, <1>3 DEF Plus

\* A sum of natural numbers is one, and depends on nothing but its terms.
LEMMA SumType ==
  ASSUME NEW f, NEW S, IsFiniteSet(S), NatOn(f, S)
  PROVE  SumFunctionOnSet(f, S) \in Nat
<1> DEFINE Bad == {T \in SUBSET S : SumFunctionOnSet(f, T) \notin Nat}
<1>1. ASSUME NEW T \in Bad, \A U \in Bad : U \subseteq T => U = T PROVE FALSE
  <2>1. IsFiniteSet(T) /\ NatOn(f, T)
    BY FS_Subset DEF NatOn
  <2>2. T # {} => SomeOf(T) \in T /\ T \ {SomeOf(T)} \notin Bad
    BY <1>1 DEF SomeOf
  <2>3. T # {} => f[SomeOf(T)] \in Nat /\ SumFunctionOnSet(f, T \ {SomeOf(T)}) \in Nat
    BY <2>1, <2>2 DEF NatOn
  <2>4. SumFunctionOnSet(f, T) =
            IF T = {} THEN 0 ELSE f[SomeOf(T)] + SumFunctionOnSet(f, T \ {SomeOf(T)})
    BY <2>1, SumUnfolds
  <2>5. SumFunctionOnSet(f, T) \notin Nat
    OBVIOUS
  <2> QED
    BY <2>3, <2>4, <2>5
<1>2. Bad \in SUBSET SUBSET S
  OBVIOUS
<1> HIDE DEF Bad
<1>3. Bad = {}
  BY <1>1, <1>2, SameFinite, Sums!SmallestSet
<1> QED
  BY <1>3 DEF Bad

LEMMA SumSame ==
  ASSUME NEW f, NEW g, NEW S, IsFiniteSet(S), \A x \in S : f[x] = g[x]
  PROVE  SumFunctionOnSet(f, S) = SumFunctionOnSet(g, S)
<1> DEFINE Bad == {T \in SUBSET S : SumFunctionOnSet(f, T) # SumFunctionOnSet(g, T)}
<1>1. ASSUME NEW T \in Bad, \A U \in Bad : U \subseteq T => U = T PROVE FALSE
  <2>1. IsFiniteSet(T)
    BY FS_Subset
  <2>2. T # {} => SomeOf(T) \in T /\ T \ {SomeOf(T)} \notin Bad
    BY <1>1 DEF SomeOf
  <2>3. T # {} => /\ f[SomeOf(T)] = g[SomeOf(T)]
                  /\ SumFunctionOnSet(f, T \ {SomeOf(T)}) = SumFunctionOnSet(g, T \ {SomeOf(T)})
    BY <2>2
  <2> QED
    BY <2>1, <2>3, SumUnfolds
<1>2. Bad \in SUBSET SUBSET S
  OBVIOUS
<1> HIDE DEF Bad
<1>3. Bad = {}
  BY <1>1, <1>2, SameFinite, Sums!SmallestSet
<1> QED
  BY <1>3 DEF Bad

\* The same with names for what it asks and says.
SameTerms(f, g, S) == \A x \in S : f[x] = g[x]
SameSum(f, g, S)   == SumFunctionOnSet(f, S) = SumFunctionOnSet(g, S)

LEMMA SumsAgree ==
  ASSUME NEW f, NEW g, NEW S, IsFiniteSet(S), SameTerms(f, g, S)
  PROVE  SameSum(f, g, S)
BY SumSame DEF SameTerms, SameSum

\* Any term may be taken out of a sum, not only the one the fold chooses.
LEMMA SumRemove ==
  ASSUME NEW f, NEW S, NEW d, IsFiniteSet(S), NatOn(f, S), d \in S
  PROVE  SumFunctionOnSet(f, S) = f[d] + SumFunctionOnSet(f, S \ {d})
<1> DEFINE Splits(T) == \A e \in T :
                SumFunctionOnSet(f, T) = f[e] + SumFunctionOnSet(f, T \ {e})
           Bad       == {T \in SUBSET S : ~Splits(T)}
<1>1. ASSUME NEW T \in Bad, \A U \in Bad : U \subseteq T => U = T PROVE FALSE
  <2>1. PICK e \in T : SumFunctionOnSet(f, T) # f[e] + SumFunctionOnSet(f, T \ {e})
    OBVIOUS
  <2> DEFINE x    == SomeOf(T)
             rest == (T \ {e}) \ {x}
  <2>2. x \in T
    BY <2>1 DEF SomeOf
  <2>3. /\ IsFiniteSet(T) /\ IsFiniteSet(T \ {e}) /\ IsFiniteSet(T \ {x}) /\ IsFiniteSet(rest)
        /\ T \in SUBSET S
    BY FS_Subset
  <2>4. SumFunctionOnSet(f, T) = f[x] + SumFunctionOnSet(f, T \ {x})
    BY <2>1, <2>3, SumUnfolds
  <2>5. e # x
    BY <2>1, <2>4
  <2>6. Splits(T \ {e}) /\ Splits(T \ {x})
    BY <1>1, <2>1, <2>2
  <2>7. (T \ {x}) \ {e} = rest
    OBVIOUS
  <2>8. /\ SumFunctionOnSet(f, T \ {e}) = f[x] + SumFunctionOnSet(f, rest)
        /\ SumFunctionOnSet(f, T \ {x}) = f[e] + SumFunctionOnSet(f, rest)
    BY <2>1, <2>2, <2>5, <2>6, <2>7
  <2>9. f[x] \in Nat /\ f[e] \in Nat /\ SumFunctionOnSet(f, rest) \in Nat
    BY <2>1, <2>2, <2>3, SumType DEF NatOn
  <2> HIDE DEF x, rest
  <2> QED
    BY <2>1, <2>4, <2>8, <2>9
<1>2. Bad \in SUBSET SUBSET S
  OBVIOUS
<1>3. Splits(S)
  <2> HIDE DEF Bad
  <2>1. Bad = {}
    BY <1>1, <1>2, SameFinite, Sums!SmallestSet
  <2> QED
    BY <2>1 DEF Bad
<1> QED
  BY <1>3

LEMMA SumAdd ==
  ASSUME NEW f, NEW S, NEW d, IsFiniteSet(S), NatOn(f, S), d \notin S, f[d] \in Nat
  PROVE  SumFunctionOnSet(f, S \cup {d}) = f[d] + SumFunctionOnSet(f, S)
<1>1. IsFiniteSet(S \cup {d}) /\ NatOn(f, S \cup {d})
  BY FS_AddElement DEF NatOn
<1>2. (S \cup {d}) \ {d} = S
  OBVIOUS
<1> QED
  BY <1>1, <1>2, SumRemove

\* Greater terms, greater sum.
LEMMA SumInOrder ==
  ASSUME NEW f, NEW g, NEW S, IsFiniteSet(S), NatOn(f, S), NatOn(g, S),
         \A x \in S : f[x] <= g[x]
  PROVE  SumFunctionOnSet(f, S) <= SumFunctionOnSet(g, S)
<1> DEFINE Bad == {T \in SUBSET S : ~ (SumFunctionOnSet(f, T) <= SumFunctionOnSet(g, T))}
<1>1. ASSUME NEW T \in Bad, \A U \in Bad : U \subseteq T => U = T PROVE FALSE
  <2>1. IsFiniteSet(T) /\ NatOn(f, T) /\ NatOn(g, T)
    BY FS_Subset DEF NatOn
  <2>2. T # {} => SomeOf(T) \in T /\ T \ {SomeOf(T)} \notin Bad
    BY <1>1 DEF SomeOf
  <2>3. CASE T = {}
    <3>1. SumFunctionOnSet(f, T) = 0 /\ SumFunctionOnSet(g, T) = 0
      BY <2>1, <2>3, SumUnfolds, Zenon
    <3> QED
      BY <3>1
  <2>4. CASE T # {}
    <3> DEFINE x    == SomeOf(T)
               rest == T \ {x}
    <3>1. /\ SumFunctionOnSet(f, T) = f[x] + SumFunctionOnSet(f, rest)
          /\ SumFunctionOnSet(g, T) = g[x] + SumFunctionOnSet(g, rest)
      BY <2>1, <2>4, SumUnfolds
    <3>2. IsFiniteSet(rest) /\ NatOn(f, rest) /\ NatOn(g, rest)
      BY <2>1, FS_Subset DEF NatOn
    <3>3. /\ SumFunctionOnSet(f, rest) \in Nat /\ SumFunctionOnSet(g, rest) \in Nat
          /\ f[x] \in Nat /\ g[x] \in Nat /\ f[x] <= g[x]
      BY <2>1, <2>2, <2>4, <3>2, SumType DEF NatOn
    <3>4. SumFunctionOnSet(f, rest) <= SumFunctionOnSet(g, rest)
      BY <2>2, <2>4
    <3> HIDE DEF x, rest
    <3>5. SumFunctionOnSet(f, T) <= SumFunctionOnSet(g, T)
      BY <3>1, <3>3, <3>4
    <3> QED
      BY <3>5
  <2> QED
    BY <2>3, <2>4
<1>2. Bad \in SUBSET SUBSET S
  OBVIOUS
<1> HIDE DEF Bad
<1>3. Bad = {}
  BY <1>1, <1>2, SameFinite, Sums!SmallestSet
<1> QED
  BY <1>3 DEF Bad

\* A sum of positive terms is no less than their number.
LEMMA SumAtLeast ==
  ASSUME NEW f, NEW S, IsFiniteSet(S), NatOn(f, S), \A x \in S : f[x] > 0
  PROVE  Cardinality(S) <= SumFunctionOnSet(f, S)
<1> DEFINE Bad == {T \in SUBSET S : ~ (Cardinality(T) <= SumFunctionOnSet(f, T))}
<1>1. ASSUME NEW T \in Bad, \A U \in Bad : U \subseteq T => U = T PROVE FALSE
  <2>1. IsFiniteSet(T) /\ NatOn(f, T)
    BY FS_Subset DEF NatOn
  <2>2. T # {} => SomeOf(T) \in T /\ T \ {SomeOf(T)} \notin Bad
    BY <1>1 DEF SomeOf
  <2>3. CASE T = {}
    <3>1. SumFunctionOnSet(f, T) = 0 /\ Cardinality(T) = 0
      BY <2>1, <2>3, SumUnfolds, FS_EmptySet, Zenon
    <3> QED
      BY <3>1
  <2>4. CASE T # {}
    <3> DEFINE x    == SomeOf(T)
               rest == T \ {x}
    <3>1. SumFunctionOnSet(f, T) = f[x] + SumFunctionOnSet(f, rest)
      BY <2>1, <2>4, SumUnfolds
    <3>2. IsFiniteSet(rest) /\ NatOn(f, rest)
      BY <2>1, FS_Subset DEF NatOn
    <3>3. /\ SumFunctionOnSet(f, rest) \in Nat /\ f[x] \in Nat /\ f[x] > 0
          /\ Cardinality(rest) \in Nat
      BY <2>1, <2>2, <2>4, <3>2, SumType, FS_CardinalityType DEF NatOn
    <3>4. Cardinality(rest) <= SumFunctionOnSet(f, rest)
      BY <2>2, <2>4
    <3>5. Cardinality(T) \in Nat /\ Cardinality(rest) = Cardinality(T) - 1
      BY <2>1, <2>2, <2>4, FS_RemoveElement, FS_CardinalityType
    <3> HIDE DEF x, rest
    <3>6. Cardinality(T) <= SumFunctionOnSet(f, T)
      BY <3>1, <3>3, <3>4, <3>5
    <3> QED
      BY <3>6
  <2> QED
    BY <2>3, <2>4
<1>2. Bad \in SUBSET SUBSET S
  OBVIOUS
<1> HIDE DEF Bad
<1>3. Bad = {}
  BY <1>1, <1>2, SameFinite, Sums!SmallestSet
<1> QED
  BY <1>3 DEF Bad
=============================================================================
