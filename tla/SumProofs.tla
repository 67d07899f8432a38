------------------------------ MODULE SumProofs ------------------------------
(***************************************************************************)
(* What the sums of the specifications are.  A fold of + over a finite set *)
(* is a recursive function, and what it computes is an induction over the  *)
(* set; the induction is done by looking at a smallest counterexample, and *)
(* the function is found by counting: the sum of f over S is the number of *)
(* the units of f over S.                                                  *)
(***************************************************************************)
EXTENDS Integers, FiniteSets, Functions, FiniteSetTheorems, TLAPS

\* Induction over the naturals, in the form of a least element.
LEMMA LeastNumber ==
  ASSUME NEW S \in SUBSET Nat, S # {}
  PROVE  \E n \in S : \A m \in S : n <= m
<1>1. IsWellFoundedOn(OpToRel(<, Nat), Nat)
  BY NatLessThanWellFounded
<1>2. PICK n \in S : \A m \in S : ~ (<< m, n >> \in OpToRel(<, Nat))
  BY <1>1, WFMin
<1>3. \A m \in S : ~ (m < n)
  BY <1>2 DEF OpToRel
<1> QED
  BY <1>3

\* The sum of f[x] for x \in S, as the specifications write it.
SumOver(f, S) == FoldFunctionOnSet(+, 0, f, S)

\* The units the values of f consist of, each at its place.
UnitsOf(f, S) == {u \in S \X Nat : u[2] # 0 /\ u[2] <= f[u[1]]}

CountOf(f, S) == Cardinality(UnitsOf(f, S))

\* Induction over the subsets of a finite set: of the subsets that are wrong, if
\* there is any, one has no other below it.
LEMMA SmallestSubset ==
  ASSUME NEW S, IsFiniteSet(S), NEW Wrong \in SUBSET (SUBSET S), Wrong # {}
  PROVE  \E T \in Wrong : \A U \in Wrong : U \subseteq T => U = T
<1>1. IsWellFoundedOn(StrictSubsetOrdering(S), SUBSET S)
  BY FS_StrictSubsetOrderingWellFounded, FS_FiniteSubsetsOfFinite
<1>2. PICK T \in Wrong : \A U \in Wrong : ~ (<< U, T >> \in StrictSubsetOrdering(S))
  BY <1>1, WFMin
<1>3. ASSUME NEW U \in Wrong, U \subseteq T, U # T PROVE FALSE
  BY <1>2, <1>3 DEF StrictSubsetOrdering
<1> QED
  BY <1>3

LEMMA UnitsSplit ==
  ASSUME NEW f, NEW S, NEW x \in S, f[x] \in Nat
  PROVE  /\ UnitsOf(f, S) = UnitsOf(f, S \ {x}) \cup ({x} \X (1 .. f[x]))
         /\ UnitsOf(f, S \ {x}) \cap ({x} \X (1 .. f[x])) = {}
BY DEF UnitsOf

LEMMA ColumnSize ==
  ASSUME NEW x, NEW n \in Nat
  PROVE  IsFiniteSet({x} \X (1 .. n)) /\ Cardinality({x} \X (1 .. n)) = n
<1>1. IsFiniteSet(1 .. n) /\ Cardinality(1 .. n) = n
  BY FS_Interval
<1>2. IsFiniteSet({x}) /\ Cardinality({x}) = 1
  BY FS_Singleton
<1>3. /\ IsFiniteSet({x} \X (1 .. n))
      /\ Cardinality({x} \X (1 .. n)) = Cardinality({x}) * Cardinality(1 .. n)
  BY <1>1, <1>2, FS_Product
<1> QED
  BY <1>1, <1>2, <1>3

LEMMA UnitsFinite ==
  ASSUME NEW f, NEW S, IsFiniteSet(S), \A x \in S : f[x] \in Nat
  PROVE  IsFiniteSet(UnitsOf(f, S))
<1> DEFINE Wrong == {T \in SUBSET S : ~ IsFiniteSet(UnitsOf(f, T))}
<1>1. ASSUME NEW T \in Wrong, \A U \in Wrong : U \subseteq T => U = T PROVE FALSE
  <2>1. CASE T = {}
    <3>1. UnitsOf(f, T) = {}
      BY <2>1 DEF UnitsOf
    <3> QED
      BY <3>1, FS_EmptySet
  <2>2. ASSUME NEW x \in T PROVE FALSE
    <3>1. IsFiniteSet(UnitsOf(f, T \ {x}))
      BY <1>1
    <3>2. f[x] \in Nat
      OBVIOUS
    <3>3. IsFiniteSet({x} \X (1 .. f[x]))
      BY <3>2, ColumnSize
    <3>4. UnitsOf(f, T) = UnitsOf(f, T \ {x}) \cup ({x} \X (1 .. f[x]))
      BY <3>2, UnitsSplit
    <3>5. IsFiniteSet(UnitsOf(f, T \ {x}) \cup ({x} \X (1 .. f[x])))
      BY <3>1, <3>3, FS_Union
    <3> QED
      BY <3>4, <3>5
  <2> QED
    BY <2>1, <2>2
<1>2. Wrong \in SUBSET (SUBSET S)
  OBVIOUS
<1> QED
  <2> SUFFICES ASSUME ~ IsFiniteSet(UnitsOf(f, S)) PROVE FALSE
    OBVIOUS
  <2>1. S \in Wrong
    OBVIOUS
  <2> HIDE DEF Wrong
  <2> QED
    BY <1>1, <1>2, <2>1, SmallestSubset

LEMMA CountSplit ==
  ASSUME NEW f, NEW S, IsFiniteSet(S), \A x \in S : f[x] \in Nat, NEW x \in S
  PROVE  /\ CountOf(f, S) \in Nat /\ CountOf(f, S \ {x}) \in Nat
         /\ CountOf(f, S) = f[x] + CountOf(f, S \ {x})
<1>1. IsFiniteSet(S \ {x})
  BY FS_RemoveElement
<1>2. IsFiniteSet(UnitsOf(f, S)) /\ IsFiniteSet(UnitsOf(f, S \ {x}))
  BY <1>1, UnitsFinite
<1>3. IsFiniteSet({x} \X (1 .. f[x])) /\ Cardinality({x} \X (1 .. f[x])) = f[x]
  BY ColumnSize
<1>4. /\ UnitsOf(f, S) = UnitsOf(f, S \ {x}) \cup ({x} \X (1 .. f[x]))
      /\ UnitsOf(f, S \ {x}) \cap ({x} \X (1 .. f[x])) = {}
  BY UnitsSplit
<1>5. CountOf(f, S) \in Nat /\ CountOf(f, S \ {x}) \in Nat
  BY <1>2, FS_CardinalityType DEF CountOf
<1>6. Cardinality(UnitsOf(f, S \ {x}) \cup ({x} \X (1 .. f[x])))
        = Cardinality(UnitsOf(f, S \ {x})) + Cardinality({x} \X (1 .. f[x]))
            - Cardinality(UnitsOf(f, S \ {x}) \cap ({x} \X (1 .. f[x])))
  BY <1>2, <1>3, FS_Union
<1>7. Cardinality(UnitsOf(f, S \ {x}) \cap ({x} \X (1 .. f[x]))) = 0
  BY <1>4, FS_EmptySet
<1> QED
  BY <1>3, <1>4, <1>5, <1>6, <1>7 DEF CountOf

LEMMA CountEmpty ==
  ASSUME NEW f
  PROVE  CountOf(f, {}) = 0
<1>1. UnitsOf(f, {}) = {}
  BY DEF UnitsOf
<1> QED
  BY <1>1, FS_EmptySet DEF CountOf

\* The recursive function of the fold is the count.
LEMMA SumIsCount ==
  ASSUME NEW f, NEW S, IsFiniteSet(S), \A x \in S : f[x] \in Nat
  PROVE  SumOver(f, S) = CountOf(f, S)
<1> DEFINE first(T) == CHOOSE x \in T : TRUE
           step(g)  == [T \in SUBSET S |-> IF T = {} THEN 0 ELSE f[first(T)] + g[T \ {first(T)}]]
           size     == [T \in SUBSET S |-> CountOf(f, T)]
           fold     == CHOOSE g : g = step(g)
<1>1. \A T \in SUBSET S : T # {} =>
        /\ first(T) \in T /\ T \ {first(T)} \in SUBSET S
        /\ CountOf(f, T) = f[first(T)] + CountOf(f, T \ {first(T)})
        /\ CountOf(f, T \ {first(T)}) \in Nat
  <2> TAKE T \in SUBSET S
  <2> HAVE T # {}
  <2>1. first(T) \in T
    OBVIOUS
  <2>2. IsFiniteSet(T) /\ \A x \in T : f[x] \in Nat
    BY FS_Subset
  <2> HIDE DEF first
  <2> QED
    BY <2>1, <2>2, CountSplit, ZenonT(60)
<1> HIDE DEF first
<1>2. size = step(size)
  BY <1>1, CountEmpty
<1>3. fold = step(fold)
  BY <1>2
<1>4. SumOver(f, S) = fold[S]
  BY DEF SumOver, FoldFunctionOnSet, MapThenFoldSet, first
<1> DEFINE Wrong == {T \in SUBSET S : fold[T] # CountOf(f, T)}
<1> HIDE DEF fold
<1>5. ASSUME NEW T \in Wrong, \A U \in Wrong : U \subseteq T => U = T PROVE FALSE
  <2>1. CASE T = {}
    BY <2>1, <1>3, <1>5, CountEmpty
  <2>2. CASE T # {}
    <3> DEFINE U == T \ {first(T)}
    <3>1. first(T) \in T /\ U \in SUBSET S
      BY <2>2, <1>1
    <3>2. CountOf(f, T) = f[first(T)] + CountOf(f, U)
      BY <2>2, <1>1
    <3>3. fold[T] = f[first(T)] + fold[U]
      BY <2>2, <1>3
    <3>4. fold[U] = CountOf(f, U)
      BY <3>1, <1>5
    <3> QED
      BY <3>2, <3>3, <3>4
  <2> QED
    BY <2>1, <2>2
<1>6. Wrong \in SUBSET (SUBSET S) /\ (fold[S] # CountOf(f, S) => S \in Wrong)
  OBVIOUS
<1> QED
  <2> SUFFICES ASSUME fold[S] # CountOf(f, S) PROVE FALSE
    BY <1>4
  <2> HIDE DEF Wrong
  <2> QED
    BY <1>5, <1>6, SmallestSubset

-----------------------------------------------------------------------------
(***************************************************************************)
(* What the proofs about the specifications cite.                          *)
(***************************************************************************)
LEMMA SumType ==
  ASSUME NEW f, NEW S, IsFiniteSet(S), \A x \in S : f[x] \in Nat
  PROVE  SumOver(f, S) \in Nat
<1>1. IsFiniteSet(UnitsOf(f, S))
  BY UnitsFinite
<1> QED
  BY <1>1, SumIsCount, FS_CardinalityType DEF CountOf

\* One element taken out.
LEMMA SumSplit ==
  ASSUME NEW f, NEW S, IsFiniteSet(S), \A x \in S : f[x] \in Nat, NEW x \in S
  PROVE  /\ SumOver(f, S \ {x}) \in Nat
         /\ SumOver(f, S) = f[x] + SumOver(f, S \ {x})
<1>1. IsFiniteSet(S \ {x}) /\ \A y \in S \ {x} : f[y] \in Nat
  BY FS_RemoveElement
<1>2. SumOver(f, S) = CountOf(f, S) /\ SumOver(f, S \ {x}) = CountOf(f, S \ {x})
  BY <1>1, SumIsCount
<1> QED
  BY <1>2, CountSplit

\* Only the values over S matter.
LEMMA SumAgrees ==
  ASSUME NEW f, NEW g, NEW S, IsFiniteSet(S), \A x \in S : f[x] \in Nat /\ g[x] = f[x]
  PROVE  SumOver(g, S) = SumOver(f, S)
<1>1. UnitsOf(g, S) = UnitsOf(f, S)
  BY DEF UnitsOf
<1> QED
  BY <1>1, SumIsCount DEF CountOf

LEMMA SumOfNone ==
  ASSUME NEW f
  PROVE  SumOver(f, {}) = 0
<1>1. IsFiniteSet({})
  BY FS_EmptySet
<1> QED
  BY <1>1, SumIsCount, CountEmpty

LEMMA SumOfZeros ==
  ASSUME NEW f, NEW S, IsFiniteSet(S), \A x \in S : f[x] = 0
  PROVE  SumOver(f, S) = 0
<1>1. UnitsOf(f, S) = {}
  BY DEF UnitsOf
<1> QED
  BY <1>1, SumIsCount, FS_EmptySet DEF CountOf

\* One value changed.
LEMMA SumChanges ==
  ASSUME NEW f, NEW g, NEW S, IsFiniteSet(S), NEW x \in S,
         \A y \in S : f[y] \in Nat, g[x] \in Nat, \A y \in S \ {x} : g[y] = f[y]
  PROVE  /\ SumOver(f, S) \in Nat
         /\ SumOver(g, S) = SumOver(f, S) - f[x] + g[x]
<1>1. IsFiniteSet(S \ {x}) /\ \A y \in S : g[y] \in Nat
  BY FS_RemoveElement
<1>2. SumOver(g, S \ {x}) = SumOver(f, S \ {x})
  BY <1>1, SumAgrees
<1>3. SumOver(f, S) = f[x] + SumOver(f, S \ {x})
  BY SumSplit
<1>4. SumOver(f, S \ {x}) \in Nat
  BY <1>1, SumType
<1>5. SumOver(g, S) = g[x] + SumOver(g, S \ {x})
  BY <1>1, SumSplit
<1> QED
  BY <1>2, <1>3, <1>4, <1>5

\* One element put in.
LEMMA SumGrows ==
  ASSUME NEW f, NEW g, NEW S, IsFiniteSet(S), NEW x, x \notin S,
         \A y \in S : f[y] \in Nat /\ g[y] = f[y], g[x] \in Nat
  PROVE  SumOver(g, S \cup {x}) = SumOver(f, S) + g[x]
<1>1. IsFiniteSet(S \cup {x}) /\ \A y \in S \cup {x} : g[y] \in Nat
  BY FS_AddElement
<1>2. (S \cup {x}) \ {x} = S
  OBVIOUS
<1>3. SumOver(g, S) = SumOver(f, S) /\ SumOver(f, S) \in Nat
  BY SumAgrees, SumType
<1>4. SumOver(g, S \cup {x}) = g[x] + SumOver(g, S)
  BY <1>1, <1>2, SumSplit
<1> QED
  BY <1>3, <1>4

\* No more elements, and none of them larger.
LEMMA SumMonotonic ==
  ASSUME NEW f, NEW g, NEW S, IsFiniteSet(S), NEW T \in SUBSET S,
         \A x \in T : f[x] \in Nat /\ f[x] <= g[x], \A x \in S : g[x] \in Nat
  PROVE  SumOver(f, T) <= SumOver(g, S)
<1>1. IsFiniteSet(T) /\ IsFiniteSet(UnitsOf(g, S))
  BY FS_Subset, UnitsFinite
<1>2. UnitsOf(f, T) \in SUBSET UnitsOf(g, S)
  BY DEF UnitsOf
<1>3. Cardinality(UnitsOf(f, T)) <= Cardinality(UnitsOf(g, S))
  BY <1>1, <1>2, FS_Subset
<1> QED
  BY <1>1, <1>3, SumIsCount DEF CountOf

\* The elements where the value is zero may be left out.
LEMMA SumWhere ==
  ASSUME NEW f, NEW g, NEW S, IsFiniteSet(S), NEW T \in SUBSET S,
         \A x \in T : f[x] \in Nat /\ g[x] = f[x], \A x \in S \ T : g[x] = 0
  PROVE  SumOver(g, S) = SumOver(f, T)
<1>1. IsFiniteSet(T) /\ \A x \in S : g[x] \in Nat
  BY FS_Subset
<1>2. UnitsOf(g, S) = UnitsOf(f, T)
  BY DEF UnitsOf
<1> QED
  BY <1>1, <1>2, SumIsCount DEF CountOf

LEMMA SumOfEqual ==
  ASSUME NEW m \in Nat, NEW f, NEW S, IsFiniteSet(S), \A x \in S : f[x] = m
  PROVE  SumOver(f, S) = Cardinality(S) * m
<1>1. UnitsOf(f, S) = S \X (1 .. m)
  BY DEF UnitsOf
<1>2. IsFiniteSet(1 .. m) /\ Cardinality(1 .. m) = m
  BY FS_Interval
<1>3. Cardinality(S \X (1 .. m)) = Cardinality(S) * Cardinality(1 .. m)
  BY <1>2, FS_Product
<1>4. SumOver(f, S) = Cardinality(UnitsOf(f, S))
  BY SumIsCount DEF CountOf
<1> QED
  BY <1>1, <1>2, <1>3, <1>4

=============================================================================
