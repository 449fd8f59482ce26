----------------------------- MODULE SumProofs -----------------------------
(***************************************************************************)
(* Sums of the values of a function over a finite domain: what SumFunction *)
(* returns, and how it follows a change of the function at one point.      *)
(*                                                                         *)
(* SumFunction folds its function by recursion on the set of the indices.  *)
(* What that recursion computes is shown without an induction principle on *)
(* predicates: a set of subsets that contains the empty one and every one  *)
(* that is got from a member by one more element contains them all.        *)
(***************************************************************************)
EXTENDS Integers, Functions, FiniteSetTheorems, TLAPS

\* Induction on the subsets of a finite set S, for a set B of them: it has
\* all, if it has every one whose members can each be taken away within B.
LEMMA SubsetInduction ==
  ASSUME NEW S, IsFiniteSet(S),
         NEW B \in SUBSET SUBSET S,
         \A T \in SUBSET S : (\A x \in T : T \ {x} \in B) => T \in B
  PROVE  S \in B
PROOF
<1> DEFINE Bad == (SUBSET S) \ B
<1>1. SUFFICES ASSUME Bad # {} PROVE FALSE
  OBVIOUS
<1>2. \A T \in SUBSET S : IsFiniteSet(T)
  BY FS_Subset
<1>3. Bad \subseteq FiniteSubsetsOf(S)
  BY <1>2 DEF FiniteSubsetsOf
<1>4. PICK T \in Bad : \A U \in Bad : <<U, T>> \notin StrictSubsetOrdering(S)
  <2> HIDE DEF Bad
  <2> QED BY <1>1, <1>3, FS_StrictSubsetOrderingWellFounded, WFMin
<1>5. \A x \in T : <<T \ {x}, T>> \in StrictSubsetOrdering(S)
  BY DEF StrictSubsetOrdering
<1>6. \A x \in T : T \ {x} \in B
  BY <1>4, <1>5
<1> QED
  BY <1>6

-----------------------------------------------------------------------------
\* M gives every set of indices the sum of f over it.
IsMeasure(M, f, S) ==
    /\ M \in [SUBSET S -> Int]
    /\ M[{}] = 0
    /\ \A T \in SUBSET S : \A x \in T : M[T] = f[x] + M[T \ {x}]

\* Every function to the integers on a finite set has a measure.
LEMMA MeasureExists ==
  ASSUME NEW S, IsFiniteSet(S), NEW f \in [S -> Int]
  PROVE  \E M : IsMeasure(M, f, S)
PROOF
<1> DEFINE B == {T \in SUBSET S : \E M : IsMeasure(M, f, T)}
<1>1. {} \in B
  <2>1. IsMeasure([T \in {{}} |-> 0], f, {})
    BY DEF IsMeasure
  <2> QED BY <2>1
<1>2. ASSUME NEW T \in SUBSET S, NEW x \in T, T \ {x} \in B
      PROVE  T \in B
  <2>1. PICK L : IsMeasure(L, f, T \ {x})
    BY <1>2
  <2> DEFINE M == [U \in SUBSET T |-> IF x \in U THEN f[x] + L[U \ {x}] ELSE L[U]]
  <2>2. \A U \in SUBSET T : U \ {x} \in SUBSET (T \ {x}) /\ (x \notin U => U \in SUBSET (T \ {x}))
    OBVIOUS
  <2>3. M \in [SUBSET T -> Int] /\ M[{}] = 0
    BY <2>1, <2>2 DEF IsMeasure
  <2>4. ASSUME NEW U \in SUBSET T, NEW y \in U
        PROVE  M[U] = f[y] + M[U \ {y}]
    <3>1. CASE y = x
      BY <2>1, <2>2, <3>1 DEF IsMeasure
    <3>2. CASE y # x /\ x \in U
      <4>1. (U \ {x}) \ {y} = (U \ {y}) \ {x} /\ y \in U \ {x} /\ x \in U \ {y}
        BY <3>2
      <4>2. L[U \ {x}] = f[y] + L[(U \ {x}) \ {y}]
        BY <2>1, <2>2, <4>1 DEF IsMeasure
      <4>3. L[U \ {x}] \in Int /\ L[(U \ {x}) \ {y}] \in Int /\ f[x] \in Int /\ f[y] \in Int
        BY <2>1, <2>2, <4>1 DEF IsMeasure
      <4>4. M[U] = f[x] + L[U \ {x}] /\ M[U \ {y}] = f[x] + L[(U \ {y}) \ {x}]
        BY <3>2, <4>1
      <4>5. PICK a \in Int, b \in Int, c \in Int :
               a = f[x] /\ b = f[y] /\ c = L[(U \ {x}) \ {y}]
        BY <4>3
      <4>6. M[U] = a + (b + c) /\ M[U \ {y}] = a + c
        BY <4>1, <4>2, <4>4, <4>5
      <4>7. a + (b + c) = b + (a + c)
        OBVIOUS
      <4> HIDE DEF M
      <4> QED BY <4>5, <4>6, <4>7
    <3>3. CASE y # x /\ x \notin U
      BY <2>1, <2>2, <3>3 DEF IsMeasure
    <3> QED BY <3>1, <3>2, <3>3
  <2>5. IsMeasure(M, f, T)
    BY <2>3, <2>4 DEF IsMeasure
  <2> QED BY <2>5
<1>3. S \in B
  <2>1. B \in SUBSET SUBSET S
    OBVIOUS
  <2>2. \A T \in SUBSET S : (\A x \in T : T \ {x} \in B) => T \in B
    BY <1>1, <1>2
  <2> HIDE DEF B
  <2> QED BY <2>1, <2>2, SubsetInduction
<1> QED BY <1>3

\* L adds up f in some order: every set of indices gives up one element.
AddsUp(L, f, S) ==
    /\ L[{}] = 0
    /\ \A T \in SUBSET S : T # {} => \E x \in T : L[T] = f[x] + L[T \ {x}]

\* Whatever the order, the sum is that of the measure.
LEMMA MeasureUnique ==
  ASSUME NEW S, IsFiniteSet(S), NEW f, NEW L, NEW M, IsMeasure(M, f, S),
         AddsUp(L, f, S)
  PROVE  L[S] = M[S]
PROOF
<1> DEFINE B == {T \in SUBSET S : L[T] = M[T]}
<1>1. ASSUME NEW T \in SUBSET S, \A x \in T : T \ {x} \in B
      PROVE  T \in B
  <2>1. CASE T = {}
    BY <2>1 DEF IsMeasure, AddsUp
  <2>2. CASE T # {}
    <3>1. PICK x \in T : L[T] = f[x] + L[T \ {x}]
      BY <2>2 DEF AddsUp
    <3>2. M[T] = f[x] + M[T \ {x}]
      BY DEF IsMeasure
    <3>3. L[T \ {x}] = M[T \ {x}]
      BY <1>1
    <3> QED BY <3>1, <3>2, <3>3
  <2> QED BY <2>1, <2>2
<1>2. B \in SUBSET SUBSET S
  OBVIOUS
<1>3. \A T \in SUBSET S : (\A x \in T : T \ {x} \in B) => T \in B
  BY <1>1
<1>4. S \in B
  <2> HIDE DEF B
  <2> QED BY <1>2, <1>3, SubsetInduction
<1> QED BY <1>4

\* The recursion of SumFunction, of f over the subsets of S.
Recursion(f, S) ==
    CHOOSE g : g = [T \in SUBSET S |->
                      IF T = {} THEN 0
                      ELSE f[CHOOSE x \in T : TRUE] + g[T \ {CHOOSE x \in T : TRUE}]]

LEMMA SumUnfolds ==
  ASSUME NEW f
  PROVE  SumFunction(f) = Recursion(f, DOMAIN f)[DOMAIN f]
PROOF BY DEF SumFunction, SumFunctionOnSet, FoldFunctionOnSet, MapThenFoldSet, Recursion

\* A measure of f gives the sum of f.
LEMMA SumIsMeasured ==
  ASSUME NEW S, IsFiniteSet(S), NEW f \in [S -> Int], NEW M, IsMeasure(M, f, S)
  PROVE  SumFunction(f) = M[S]
PROOF
<1> DEFINE Step(g) == [T \in SUBSET S |->
                         IF T = {} THEN 0
                         ELSE f[CHOOSE x \in T : TRUE] + g[T \ {CHOOSE x \in T : TRUE}]]
           L == Recursion(f, S)
<1>1. M = Step(M)
  <2>1. ASSUME NEW T \in SUBSET S PROVE M[T] = Step(M)[T]
    <3>1. CASE T = {}
      BY <3>1 DEF IsMeasure
    <3>2. CASE T # {}
      <4> DEFINE x == CHOOSE x \in T : TRUE
      <4>1. x \in T
        BY <3>2
      <4>2. M[T] = f[x] + M[T \ {x}]
        BY <4>1 DEF IsMeasure
      <4> QED BY <3>2, <4>2
    <3> QED BY <3>1, <3>2
  <2>2. M \in [SUBSET S -> Int]
    BY DEF IsMeasure
  <2> QED BY <2>1, <2>2
<1>2. L = Step(L)
  BY <1>1 DEF Recursion
<1>3. L[{}] = 0
  BY <1>2
<1>4. ASSUME NEW T \in SUBSET S, T # {}
      PROVE  \E x \in T : L[T] = f[x] + L[T \ {x}]
  <2> DEFINE x == CHOOSE x \in T : TRUE
  <2>1. x \in T
    BY <1>4
  <2>2. L[T] = Step(L)[T]
    BY <1>2
  <2>3. L[T] = f[x] + L[T \ {x}]
    BY <1>4, <2>2
  <2> QED BY <2>1, <2>3
<1>5. L[S] = M[S]
  <2> HIDE DEF L
  <2>1. AddsUp(L, f, S)
    BY <1>3, <1>4 DEF AddsUp
  <2> QED BY <2>1, MeasureUnique
<1>6. DOMAIN f = S
  OBVIOUS
<1> QED BY <1>5, <1>6, SumUnfolds

-----------------------------------------------------------------------------
\* A sum of integers is an integer.
LEMMA SumInt ==
  ASSUME NEW S, IsFiniteSet(S), NEW f \in [S -> Int]
  PROVE  SumFunction(f) \in Int
PROOF
<1>1. PICK M : IsMeasure(M, f, S)
  BY MeasureExists
<1>2. SumFunction(f) = M[S]
  BY <1>1, SumIsMeasured
<1> QED BY <1>1, <1>2 DEF IsMeasure

\* A sum of zeros is zero.
LEMMA SumZero ==
  ASSUME NEW S, IsFiniteSet(S), NEW f, f = [x \in S |-> 0]
  PROVE  SumFunction(f) = 0
PROOF
<1> DEFINE M == [T \in SUBSET S |-> 0]
<1>1. IsMeasure(M, f, S)
  BY DEF IsMeasure
<1>2. f \in [S -> Int] /\ M[S] = 0
  OBVIOUS
<1> HIDE DEF M
<1> QED BY <1>1, <1>2, SumIsMeasured

\* A sum of natural numbers is one, and every one of them is within it.
LEMMA SumNat ==
  ASSUME NEW S, IsFiniteSet(S), NEW f \in [S -> Nat]
  PROVE  /\ SumFunction(f) \in Nat
         /\ \A x \in S : f[x] <= SumFunction(f)
PROOF
<1>1. f \in [S -> Int]
  OBVIOUS
<1>2. PICK M : IsMeasure(M, f, S)
  BY <1>1, MeasureExists
<1> DEFINE B == {T \in SUBSET S : M[T] \in Nat}
<1>3. ASSUME NEW T \in SUBSET S, \A x \in T : T \ {x} \in B
      PROVE  T \in B
  <2>1. CASE T = {}
    BY <1>2, <2>1 DEF IsMeasure
  <2>2. CASE T # {}
    <3>1. PICK x \in T : TRUE
      BY <2>2
    <3>2. M[T] = f[x] + M[T \ {x}] /\ M[T \ {x}] \in Nat /\ f[x] \in Nat
      BY <1>2, <1>3 DEF IsMeasure
    <3> QED BY <3>2
  <2> QED BY <2>1, <2>2
<1>4. ASSUME NEW U \in SUBSET S PROVE M[U] \in Nat
  <2>1. IsFiniteSet(U)
    BY FS_Subset
  <2> DEFINE C == {T \in SUBSET U : M[T] \in Nat}
  <2>2. \A T \in SUBSET U : (\A x \in T : T \ {x} \in C) => T \in C
    BY <1>3
  <2>3. C \in SUBSET SUBSET U
    OBVIOUS
  <2>4. U \in C
    <3> HIDE DEF C
    <3> QED BY <2>1, <2>2, <2>3, SubsetInduction
  <2> QED BY <2>4
<1>5. SumFunction(f) = M[S]
  BY <1>1, <1>2, SumIsMeasured
<1>6. ASSUME NEW x \in S PROVE f[x] <= M[S]
  <2>1. M[S] = f[x] + M[S \ {x}] /\ M[S \ {x}] \in Nat /\ f[x] \in Nat /\ M[S] \in Nat
    BY <1>2, <1>4 DEF IsMeasure
  <2> QED BY <2>1
<1> QED BY <1>4, <1>5, <1>6

\* Two functions that differ at one point have sums that differ as much.
LEMMA SumChange ==
  ASSUME NEW S, IsFiniteSet(S), NEW f \in [S -> Int], NEW g \in [S -> Int],
         NEW x \in S, \A y \in S : y # x => g[y] = f[y]
  PROVE  SumFunction(g) = SumFunction(f) + (g[x] - f[x])
PROOF
<1>1. PICK M : IsMeasure(M, f, S)
  BY MeasureExists
<1>2. PICK d \in Int : d = g[x] - f[x]
  OBVIOUS
<1> DEFINE L == [T \in SUBSET S |-> IF x \in T THEN M[T] + d ELSE M[T]]
<1>3. L \in [SUBSET S -> Int] /\ L[{}] = 0
  BY <1>1 DEF IsMeasure
<1>4. ASSUME NEW T \in SUBSET S, NEW y \in T
      PROVE  L[T] = g[y] + L[T \ {y}]
  <2>1. /\ M[T] = f[y] + M[T \ {y}]
        /\ M[T] \in Int /\ M[T \ {y}] \in Int
        /\ f[y] \in Int /\ g[y] \in Int
    BY <1>1 DEF IsMeasure
  <2>2. CASE y = x
    <3>1. L[T] = M[T] + d /\ L[T \ {y}] = M[T \ {y}]
      BY <2>2
    <3>2. d = g[y] - f[y]
      BY <1>2, <2>2
    <3> HIDE DEF L
    <3> QED BY <2>1, <3>1, <3>2
  <2>3. CASE y # x /\ x \in T
    <3>1. L[T] = M[T] + d /\ L[T \ {y}] = M[T \ {y}] + d /\ g[y] = f[y]
      BY <2>3
    <3> HIDE DEF L
    <3> QED BY <2>1, <3>1
  <2>4. CASE y # x /\ x \notin T
    <3>1. L[T] = M[T] /\ L[T \ {y}] = M[T \ {y}] /\ g[y] = f[y]
      BY <2>4
    <3> HIDE DEF L
    <3> QED BY <2>1, <3>1
  <2> QED BY <2>2, <2>3, <2>4
<1>5. IsMeasure(L, g, S) /\ L[S] = M[S] + d
  BY <1>3, <1>4 DEF IsMeasure
<1> HIDE DEF L
<1>6. SumFunction(f) = M[S] /\ SumFunction(g) = L[S]
  BY <1>1, <1>5, SumIsMeasured
<1> QED BY <1>2, <1>5, <1>6
====
