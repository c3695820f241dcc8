------------------------------- MODULE SumLemmas -------------------------------
(***************************************************************************)
(* What the sum of a function of naturals over a finite set is worth in a  *)
(* proof.  The sum is defined by taking one element after another; it is   *)
(* the number of units in a set that holds f[x] of them for each x, and    *)
(* what follows is about cardinalities.                                    *)
(***************************************************************************)
EXTENDS Functions, Folds, Integers, FiniteSets, FiniteSetTheorems,
        WellFoundedInduction, TLAPS

\* A set of naturals that is not empty has a least member.
LEMMA LeastNatural ==
    ASSUME NEW T \in SUBSET Nat, T # {}
    PROVE  \E x \in T : \A y \in T : x <= y
<1>1. PICK x \in T : \A y \in T : <<y, x>> \notin OpToRel(<, Nat)
  BY WFMin, NatLessThanWellFounded
<1>2. ASSUME NEW y \in T PROVE x <= y
  <2>1. ~(y < x)
    BY <1>1 DEF OpToRel
  <2> QED
    BY <2>1
<1> QED
  BY <1>2

-------------------------------------------------------------------------------
(* Units *)

UnitsOf(f, x) == {x} \X (1..f[x])

Units(f, S) == UNION {UnitsOf(f, x) : x \in S}

\* An element has as many units as its value.
LEMMA UnitsOfOne ==
    ASSUME NEW f, NEW x, f[x] \in Nat
    PROVE  IsFiniteSet(UnitsOf(f, x)) /\ Cardinality(UnitsOf(f, x)) = f[x]
<1>1. IsFiniteSet({x}) /\ Cardinality({x}) = 1
  BY FS_Singleton
<1>2. IsFiniteSet(1..f[x]) /\ Cardinality(1..f[x]) = f[x]
  <2>1. 1 \in Int /\ f[x] \in Int
    OBVIOUS
  <2>2. /\ IsFiniteSet(1..f[x])
        /\ Cardinality(1..f[x]) = IF 1 > f[x] THEN 0 ELSE f[x] - 1 + 1
    BY <2>1, FS_Interval
  <2> QED
    BY <2>2
<1>3. /\ IsFiniteSet({x} \X (1..f[x]))
      /\ Cardinality({x} \X (1..f[x])) = Cardinality({x}) * Cardinality(1..f[x])
  BY <1>1, <1>2, FS_Product
<1>4. 1 * f[x] = f[x]
  OBVIOUS
<1> QED
  BY <1>1, <1>2, <1>3, <1>4 DEF UnitsOf

\* Finitely many elements have finitely many units.
LEMMA UnitsFinite ==
    ASSUME NEW f, NEW S, IsFiniteSet(S), \A x \in S : f[x] \in Nat
    PROVE  IsFiniteSet(Units(f, S))
<1> DEFINE family == {UnitsOf(f, x) : x \in S}
           F == [x \in S |-> UnitsOf(f, x)]
<1>1. F \in Surjection(S, family)
  BY DEF Surjection
<1>2. IsFiniteSet(family)
  <2> HIDE DEF F, family
  <2> QED
    BY <1>1, FS_Surjection
<1>3. \A T \in family : IsFiniteSet(T)
  BY UnitsOfOne
<1>4. IsFiniteSet(UNION family)
  <2> HIDE DEF family
  <2> QED
    BY <1>2, <1>3, FS_UNION
<1> QED
  BY <1>4 DEF Units

\* The units of one element are none of the others'.
LEMMA UnitsSplit ==
    ASSUME NEW f, NEW S, IsFiniteSet(S), \A y \in S : f[y] \in Nat, NEW x \in S
    PROVE  Cardinality(Units(f, S)) = f[x] + Cardinality(Units(f, S \ {x}))
<1> DEFINE A == UnitsOf(f, x)
           B == Units(f, S \ {x})
<1>1. Units(f, S) = A \cup B
  BY DEF Units
<1>2. A \cap B = {}
  BY DEF Units, UnitsOf
<1>3. IsFiniteSet(A) /\ Cardinality(A) = f[x]
  BY UnitsOfOne
<1>4. IsFiniteSet(B)
  <2>1. IsFiniteSet(S \ {x})
    BY FS_RemoveElement
  <2> QED
    BY <2>1, UnitsFinite
<1>5. Cardinality(B) \in Nat /\ Cardinality({}) = 0
  BY <1>4, FS_CardinalityType, FS_EmptySet
<1>6. Cardinality(A \cup B) = Cardinality(A) + Cardinality(B) - Cardinality(A \cap B)
  BY <1>3, <1>4, FS_Union
<1> HIDE DEF A, B
<1>7. Cardinality(Units(f, S)) = f[x] + Cardinality(B) - 0
  BY <1>1, <1>2, <1>3, <1>5, <1>6
<1> QED
  BY <1>5, <1>7 DEF B

-------------------------------------------------------------------------------
(* The sum *)

\* Whatever order the fold takes the elements in, it counts the units.
LEMMA SumCountsUnits ==
    ASSUME NEW f, NEW S, IsFiniteSet(S), \A x \in S : f[x] \in Nat
    PROVE  SumFunctionOnSet(f, S) = Cardinality(Units(f, S))
<1> DEFINE Some(s) == CHOOSE x \in s : TRUE
           Folding(g) == g = [s \in SUBSET S |->
                               IF s = {} THEN 0 ELSE f[Some(s)] + g[s \ {Some(s)}]]
           count == [s \in SUBSET S |-> Cardinality(Units(f, s))]
           fold == CHOOSE g : Folding(g)
<1>1. SumFunctionOnSet(f, S) = fold[S]
  BY DEF SumFunctionOnSet, FoldFunctionOnSet, MapThenFoldSet
<1>2. Units(f, {}) = {} /\ Cardinality({}) = 0
  BY FS_EmptySet DEF Units
<1>3. Folding(count)
  <2>1. ASSUME NEW s \in SUBSET S, s # {}
        PROVE  count[s] = f[Some(s)] + count[s \ {Some(s)}]
    <3>1. Some(s) \in s
      BY <2>1
    <3>2. IsFiniteSet(s) /\ \A x \in s : f[x] \in Nat
      BY FS_Subset
    <3>3. s \ {Some(s)} \in SUBSET S
      OBVIOUS
    <3> HIDE DEF Some
    <3> QED
      BY <3>1, <3>2, <3>3, UnitsSplit
  <2>2. count[{}] = 0
    BY <1>2
  <2> HIDE DEF Some
  <2> QED
    BY <2>1, <2>2
<1>4. Folding(fold)
  <2> HIDE DEF count, Folding
  <2> QED
    BY <1>3
<1> HIDE DEF fold
<1>5. fold[{}] = 0
  BY <1>4
<1>6. ASSUME NEW s \in SUBSET S, s # {}
      PROVE  Some(s) \in s /\ fold[s] = f[Some(s)] + fold[s \ {Some(s)}]
  BY <1>4, <1>6
<1>7. ASSUME NEW s \in SUBSET S, s # {}
      PROVE  count[s] = f[Some(s)] + count[s \ {Some(s)}]
  BY <1>3, <1>7
<1>8. count[{}] = 0
  BY <1>2
<1> HIDE DEF count, Some, Folding
<1> DEFINE wrong == {s \in SUBSET S : fold[s] # count[s]}
           sizes == {Cardinality(s) : s \in wrong}
<1>9. wrong = {}
  <2> SUFFICES ASSUME wrong # {} PROVE FALSE
    OBVIOUS
  <2>1. ASSUME NEW s \in SUBSET S
        PROVE  IsFiniteSet(s) /\ Cardinality(s) \in Nat
    BY FS_Subset, FS_CardinalityType
  <2>2. sizes \in SUBSET Nat /\ sizes # {}
    BY <2>1
  <2>3. PICK n \in sizes : \A k \in sizes : n <= k
    <3> HIDE DEF sizes
    <3> QED
      BY <2>2, LeastNatural
  <2>4. PICK s \in wrong : Cardinality(s) = n
    OBVIOUS
  <2>5. s # {}
    BY <1>5, <1>8
  <2>6. Some(s) \in s /\ s \ {Some(s)} \in SUBSET S
    BY <1>6, <2>5
  <2>7. Cardinality(s \ {Some(s)}) = n - 1
    BY <2>1, <2>4, <2>6, FS_RemoveElement
  <2>8. n \in Nat
    BY <2>2, <2>3
  <2>9. s \ {Some(s)} \notin wrong
    BY <2>3, <2>7, <2>8
  <2>10. fold[s \ {Some(s)}] = count[s \ {Some(s)}]
    BY <2>6, <2>9
  <2> QED
    BY <1>6, <1>7, <2>4, <2>5, <2>10
<1>10. fold[S] = count[S]
  BY <1>9
<1> QED
  BY <1>1, <1>10 DEF count

\* A sum of naturals over a finite set is a natural.
LEMMA SumIsNatural ==
    ASSUME NEW f, NEW S, IsFiniteSet(S), \A x \in S : f[x] \in Nat
    PROVE  SumFunctionOnSet(f, S) \in Nat
BY SumCountsUnits, UnitsFinite, FS_CardinalityType

\* A sum of nothing is nothing.
LEMMA SumOfZeros ==
    ASSUME NEW f, NEW S, IsFiniteSet(S), \A x \in S : f[x] = 0
    PROVE  SumFunctionOnSet(f, S) = 0
<1>1. \A x \in S : f[x] \in Nat
  OBVIOUS
<1>2. Units(f, S) = {}
  BY DEF Units, UnitsOf
<1> QED
  BY <1>1, <1>2, SumCountsUnits, FS_EmptySet

\* Less of each, over fewer, sums up to less.
LEMMA SumMonotone ==
    ASSUME NEW f, NEW g, NEW T, IsFiniteSet(T), NEW S \in SUBSET T,
           \A x \in S : f[x] \in Nat, \A x \in T : g[x] \in Nat,
           \A x \in S : f[x] <= g[x]
    PROVE  SumFunctionOnSet(f, S) <= SumFunctionOnSet(g, T)
<1>1. IsFiniteSet(S)
  BY FS_Subset
<1>2. \A x \in S : UnitsOf(f, x) \subseteq UnitsOf(g, x)
  BY DEF UnitsOf
<1>3. Units(f, S) \in SUBSET Units(g, T)
  BY <1>2 DEF Units
<1>4. Cardinality(Units(f, S)) <= Cardinality(Units(g, T))
  BY <1>3, UnitsFinite, FS_Subset
<1> QED
  BY <1>1, <1>4, SumCountsUnits

\* Where one value changes, the sum changes by as much.
LEMMA SumOfChanged ==
    ASSUME NEW f, NEW g, NEW S, IsFiniteSet(S), NEW x \in S,
           \A y \in S : f[y] \in Nat /\ g[y] \in Nat,
           \A y \in S \ {x} : g[y] = f[y]
    PROVE  SumFunctionOnSet(g, S) + f[x] = SumFunctionOnSet(f, S) + g[x]
<1> DEFINE rest == Cardinality(Units(f, S \ {x}))
<1>1. Units(g, S \ {x}) = Units(f, S \ {x})
  <2>1. \A y \in S \ {x} : UnitsOf(g, y) = UnitsOf(f, y)
    BY DEF UnitsOf
  <2> QED
    BY <2>1 DEF Units
<1>2. rest \in Nat
  <2>1. IsFiniteSet(S \ {x})
    BY FS_RemoveElement
  <2> QED
    BY <2>1, UnitsFinite, FS_CardinalityType
<1>3. SumFunctionOnSet(f, S) = f[x] + rest
  BY SumCountsUnits, UnitsSplit
<1>4. SumFunctionOnSet(g, S) = g[x] + rest
  BY <1>1, SumCountsUnits, UnitsSplit
<1> HIDE DEF rest
<1> QED
  BY <1>2, <1>3, <1>4

===============================================================================
