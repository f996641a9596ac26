----------------------------- MODULE DataLemmas -----------------------------
(***************************************************************************)
(* Facts about numbers, finite sets, folds and sums which the proofs about *)
(* settlements, amounts and timelines rest on.                             *)
(*                                                                         *)
(* Induction is stated for sets rather than for predicates: the provers    *)
(* can instantiate a lemma about a set, such as the set of numbers that    *)
(* have a property, but not one that has an operator as a parameter.       *)
(***************************************************************************)
EXTENDS Integers, Sequences, FiniteSets, Functions, FiniteSetTheorems,
        WellFoundedInduction, TLAPS

-----------------------------------------------------------------------------
(* Induction.                                                              *)

\* A set that holds zero and the successor of each of its numbers holds all of them.
LEMMA Induction ==
  ASSUME NEW S, 0 \in S, \A n \in Nat : n \in S => n + 1 \in S
  PROVE  Nat \subseteq S
<1> DEFINE Missing == {n \in Nat : n \notin S}
           R == {ss \in Nat \X Nat : ss[1] < ss[2]}
<1>1. IsWellFoundedOn(R, Nat)
  BY NatLessThanWellFounded DEF OpToRel
<1> SUFFICES ASSUME Missing # {} PROVE FALSE
  OBVIOUS
<1>2. PICK x \in Missing : \A y \in Missing : ~ (<<y, x>> \in R)
  <2> HIDE DEF R
  <2>1. Missing \subseteq Nat
    OBVIOUS
  <2> HIDE DEF Missing
  <2> QED BY <1>1, <2>1, WFMin
<1>3. x # 0 /\ x \in Nat /\ x - 1 \in Nat
  BY <1>2
<1>4. x - 1 \in Missing => <<x - 1, x>> \in R
  BY <1>3
<1>5. x - 1 \in S => x \in S
  BY <1>3
<1> QED
  BY <1>2, <1>3, <1>4, <1>5

\* What holds of a set if it holds of the set less any one element, holds of every
\* finite set.
LEMMA SubsetInduction ==
  ASSUME NEW S, IsFiniteSet(S), NEW P,
         \A T \in SUBSET S : (\A x \in T : T \ {x} \in P) => T \in P
  PROVE  SUBSET S \subseteq P
<1> DEFINE Sizes == {n \in Nat : \A T \in SUBSET S : Cardinality(T) = n => T \in P}
<1>1. \A T \in SUBSET S : IsFiniteSet(T) /\ Cardinality(T) \in Nat
  BY FS_Subset, FS_CardinalityType
<1>2. 0 \in Sizes
  BY <1>1, FS_EmptySet
<1>3. ASSUME NEW n \in Nat, n \in Sizes PROVE n + 1 \in Sizes
  <2> SUFFICES ASSUME NEW T \in SUBSET S, Cardinality(T) = n + 1 PROVE T \in P
    OBVIOUS
  <2>1. ASSUME NEW x \in T PROVE T \ {x} \in P
    <3>1. Cardinality(T \ {x}) = Cardinality(T) - 1
      BY <1>1, FS_RemoveElement
    <3>2. Cardinality(T \ {x}) = n /\ T \ {x} \in SUBSET S
      BY <3>1
    <3> QED BY <1>3, <3>2
  <2> QED BY <2>1
<1>4. Nat \subseteq Sizes
  <2> HIDE DEF Sizes
  <2> QED BY <1>2, <1>3, Induction
<1> QED
  BY <1>1, <1>4

\* A function on the numbers may be defined by its value at a smaller number.
Recurs(f, base, prev, op) ==
  \A n \in Nat : f[n] = IF n = 0 THEN base ELSE op[n][f[prev[n]]]

\* Recursion on smaller numbers defines a function.
LEMMA RecursionExists ==
  ASSUME NEW A, NEW base \in A, NEW prev, \A n \in Nat : n > 0 => prev[n] \in 0..(n - 1),
         NEW op, \A n \in Nat, a \in A : op[n][a] \in A
  PROVE  \E f \in [Nat -> A] : Recurs(f, base, prev, op)
<1> DEFINE Value(g, n) == IF n = 0 THEN base ELSE op[n][g[prev[n]]]
           Begins(k, g) == g \in [0..k -> A] /\ \A n \in 0..k : g[n] = Value(g, n)
           P == {k \in Nat : \E g : Begins(k, g)}
<1>1. 0 \in P
  <2> DEFINE g == [n \in 0..0 |-> base]
  <2>1. Begins(0, g)
    OBVIOUS
  <2> QED BY <2>1
<1>2. ASSUME NEW k \in Nat, k \in P PROVE k + 1 \in P
  <2>1. PICK g : Begins(k, g)
    BY <1>2
  <2> DEFINE h == [n \in 0..(k + 1) |-> IF n = k + 1 THEN op[n][g[prev[n]]] ELSE g[n]]
  <2>2. prev[k + 1] \in 0..k /\ g[prev[k + 1]] \in A /\ op[k + 1][g[prev[k + 1]]] \in A
    BY <2>1
  <2>3. /\ \A n \in 0..k : n \in 0..(k + 1) /\ h[n] = g[n]
        /\ h[k + 1] = op[k + 1][g[prev[k + 1]]]
        /\ \A n \in 0..(k + 1) : n = k + 1 \/ n \in 0..k
    OBVIOUS
  <2>4. h \in [0..(k + 1) -> A]
    BY <2>1, <2>2
  <2> HIDE DEF h
  <2>5. ASSUME NEW n \in 0..(k + 1) PROVE h[n] = Value(h, n)
    <3>1. CASE n = k + 1
      BY <2>2, <2>3, <3>1
    <3>2. CASE n = 0
      BY <2>1, <2>3, <3>2
    <3>3. CASE n \in 0..k /\ n > 0
      <4>1. prev[n] \in 0..(n - 1)
        BY <3>3
      <4>2. h[prev[n]] = g[prev[n]] /\ h[n] = g[n]
        BY <2>3, <3>3, <4>1
      <4> QED BY <2>1, <3>3, <4>2
    <3> QED BY <2>3, <3>1, <3>2, <3>3
  <2>6. Begins(k + 1, h)
    BY <2>4, <2>5
  <2> HIDE DEF Begins
  <2> QED BY <2>6
<1> HIDE DEF P
<1>3. Nat \subseteq P
  BY <1>1, <1>2, Induction
<1>4. \A k \in Nat : \E g : Begins(k, g)
  BY <1>3 DEF P
<1>5. ASSUME NEW k \in Nat, NEW m \in Nat, NEW g, NEW h, Begins(k, g), Begins(m, h)
      PROVE  \A n \in Nat : n <= k /\ n <= m => g[n] = h[n]
  <2> DEFINE Q == {n \in Nat : \A i \in 0..n : i <= k /\ i <= m => g[i] = h[i]}
  <2>1. 0 \in Q
    BY <1>5
  <2>2. ASSUME NEW n \in Nat, n \in Q PROVE n + 1 \in Q
    <3> SUFFICES ASSUME n + 1 <= k, n + 1 <= m PROVE g[n + 1] = h[n + 1]
      BY <2>2
    <3>1. prev[n + 1] \in 0..n /\ prev[n + 1] <= k /\ prev[n + 1] <= m
      OBVIOUS
    <3>2. g[prev[n + 1]] = h[prev[n + 1]]
      BY <2>2, <3>1
    <3>3. n + 1 \in 0..k /\ n + 1 \in 0..m /\ n + 1 # 0
      OBVIOUS
    <3> QED BY <1>5, <3>2, <3>3
  <2> HIDE DEF Q
  <2>3. Nat \subseteq Q
    BY <2>1, <2>2, Induction
  <2> QED BY <2>3 DEF Q
<1> DEFINE G(n) == CHOOSE g : Begins(n, g)
           f == [n \in Nat |-> G(n)[n]]
<1>6. \A n \in Nat : Begins(n, G(n))
  <2> HIDE DEF Begins
  <2> QED BY <1>4
<1> HIDE DEF G
<1>7. f \in [Nat -> A]
  BY <1>6
<1>8. ASSUME NEW n \in Nat, n > 0 PROVE f[n] = op[n][f[prev[n]]]
  <2>1. prev[n] \in Nat /\ prev[n] <= n
    BY <1>8
  <2>2. G(n)[prev[n]] = G(prev[n])[prev[n]]
    <3> HIDE DEF Begins
    <3> QED BY <1>5, <1>6, <2>1
  <2> QED BY <1>6, <1>8, <2>1, <2>2
<1>9. f[0] = base
  BY <1>6
<1> HIDE DEF f
<1>10. Recurs(f, base, prev, op)
  BY <1>8, <1>9 DEF Recurs
<1> QED BY <1>7, <1>10

-----------------------------------------------------------------------------
(* Folds.                                                                  *)

\* A fold takes one element of a set at a time, the one that choice gives.
Foldable(S, A, base, choice, op) ==
  /\ base \in A
  /\ \A T \in SUBSET S : T # {} => choice[T] \in T
  /\ \A x \in S : \A a \in A : op[x][a] \in A

IsFold(g, S, A, base, choice, op) ==
  /\ g \in [SUBSET S -> A]
  /\ \A T \in SUBSET S :
       g[T] = IF T = {} THEN base ELSE op[choice[T]][g[T \ {choice[T]}]]

\* Over the subsets of a finite set it exists.
LEMMA FoldExists ==
  ASSUME NEW S, IsFiniteSet(S), NEW A, NEW base, NEW choice, NEW op,
         Foldable(S, A, base, choice, op)
  PROVE  \E g : IsFold(g, S, A, base, choice, op)
<1> USE DEF Foldable
<1> DEFINE Small(n) == {T \in SUBSET S : Cardinality(T) <= n}
           Value(g, T) == IF T = {} THEN base ELSE op[choice[T]][g[T \ {choice[T]}]]
           Folds(n) == \E g \in [Small(n) -> A] : \A T \in Small(n) : g[T] = Value(g, T)
           Sizes == {n \in Nat : Folds(n)}
<1>1. \A T \in SUBSET S : IsFiniteSet(T) /\ Cardinality(T) \in Nat
  BY FS_Subset, FS_CardinalityType
<1>2. \A T \in SUBSET S : T # {} =>
        T \ {choice[T]} \in SUBSET S /\ Cardinality(T \ {choice[T]}) = Cardinality(T) - 1
  BY <1>1, FS_RemoveElement
<1>3. 0 \in Sizes
  <2> DEFINE g == [T \in Small(0) |-> base]
  <2>1. \A T \in Small(0) : T = {}
    <3> SUFFICES ASSUME NEW T \in Small(0) PROVE T = {}
      OBVIOUS
    <3>1. IsFiniteSet(T) /\ Cardinality(T) \in Nat /\ Cardinality(T) <= 0
      BY <1>1
    <3> QED BY <3>1, FS_EmptySet
  <2>2. g \in [Small(0) -> A]
    OBVIOUS
  <2>3. \A T \in Small(0) : g[T] = Value(g, T)
    BY <2>1
  <2> HIDE DEF g
  <2> QED BY <2>2, <2>3
<1>4. ASSUME NEW n \in Nat, n \in Sizes PROVE n + 1 \in Sizes
  <2>1. PICK g \in [Small(n) -> A] : \A T \in Small(n) : g[T] = Value(g, T)
    BY <1>4
  <2> DEFINE h == [T \in Small(n + 1) |-> IF T \in Small(n) THEN g[T] ELSE Value(g, T)]
  <2>2. Small(n) \subseteq Small(n + 1)
    BY <1>1
  <2>3. \A T \in Small(n + 1) : T # {} => T \ {choice[T]} \in Small(n)
    BY <1>1, <1>2
  <2>4. {} \in Small(n)
    BY FS_EmptySet
  <2> HIDE DEF Small
  <2>5. \A T \in Small(n) : h[T] = g[T]
    BY <2>2
  <2>6. \A T \in Small(n + 1) : T \notin Small(n) =>
          h[T] = op[choice[T]][g[T \ {choice[T]}]]
    BY <2>4
  <2> HIDE DEF h
  <2>7. \A T \in Small(n + 1) : h[T] \in A
    <3> SUFFICES ASSUME NEW T \in Small(n + 1), T \notin Small(n) PROVE h[T] \in A
      BY <2>5
    <3>1. T # {} /\ T \in SUBSET S
      BY <2>4 DEF Small
    <3>2. choice[T] \in S /\ g[T \ {choice[T]}] \in A
      BY <2>3, <3>1
    <3> QED BY <2>6, <3>2
  <2>8. \A T \in Small(n + 1) : h[T] = Value(h, T)
    <3> SUFFICES ASSUME NEW T \in Small(n + 1) PROVE h[T] = Value(h, T)
      OBVIOUS
    <3>1. T # {} => h[T \ {choice[T]}] = g[T \ {choice[T]}]
      BY <2>3, <2>5
    <3>2. CASE T \in Small(n)
      BY <2>1, <2>5, <3>1, <3>2
    <3>3. CASE T \notin Small(n)
      BY <2>4, <2>6, <3>1, <3>3
    <3> QED BY <3>2, <3>3
  <2>9. h \in [Small(n + 1) -> A]
    BY <2>7 DEF h
  <2>10. Folds(n + 1)
    BY <2>8, <2>9
  <2> HIDE DEF Folds
  <2> QED BY <2>10
<1>5. Nat \subseteq Sizes
  <2> HIDE DEF Sizes
  <2> QED BY <1>3, <1>4, Induction
<1>6. Cardinality(S) \in Sizes /\ Small(Cardinality(S)) = SUBSET S
  BY <1>1, <1>5, FS_Subset
<1> QED
  BY <1>6 DEF IsFold

-----------------------------------------------------------------------------
(* Sums.                                                                   *)

Some(T) == CHOOSE x \in T : TRUE
Numbers(f, S) == \A x \in S : f[x] \in Int

\* The equation of SumFunctionOnSet, which folds over the subsets of S.
SumsUp(g, f, S) ==
  \A T \in SUBSET S : g[T] = IF T = {} THEN 0 ELSE f[Some(T)] + g[T \ {Some(T)}]

\* A chosen element is an element.
LEMMA SomeIn == ASSUME NEW T, T # {} PROVE Some(T) \in T
BY DEF Some

\* The equation has one solution.
LEMMA SumUnique ==
  ASSUME NEW S, IsFiniteSet(S), NEW f, NEW g, SumsUp(g, f, S), NEW h, SumsUp(h, f, S)
  PROVE  \A T \in SUBSET S : g[T] = h[T]
<1> DEFINE P == {T \in SUBSET S : g[T] = h[T]}
<1>1. ASSUME NEW T \in SUBSET S, \A x \in T : T \ {x} \in P PROVE T \in P
  BY <1>1, SomeIn DEF SumsUp
<1>2. SUBSET S \subseteq P
  <2> HIDE DEF P
  <2> QED BY <1>1, SubsetInduction
<1> QED BY <1>2

\* The sum over a set is the value of a function that adds one element after the other.
LEMMA SumEquation ==
  ASSUME NEW S, IsFiniteSet(S), NEW f, Numbers(f, S)
  PROVE  \E g \in [SUBSET S -> Int] : SumsUp(g, f, S) /\ SumFunctionOnSet(f, S) = g[S]
<1> DEFINE choice == [T \in SUBSET S |-> Some(T)]
           op == [x \in S |-> [a \in Int |-> f[x] + a]]
           Equation(g) == g = [T \in SUBSET S |->
                                 IF T = {} THEN 0 ELSE f[Some(T)] + g[T \ {Some(T)}]]
<1>1. PICK g : IsFold(g, S, Int, 0, choice, op)
  <2>1. Foldable(S, Int, 0, choice, op)
    BY SomeIn DEF Numbers, Foldable
  <2> HIDE DEF choice, op
  <2> QED BY <2>1, FoldExists
<1>2. \A T \in SUBSET S : T # {} => Some(T) \in S
  BY SomeIn
<1>3. SumsUp(g, f, S)
  <2> SUFFICES ASSUME NEW T \in SUBSET S, T # {}
               PROVE  g[T] = f[Some(T)] + g[T \ {Some(T)}]
    BY <1>1 DEF SumsUp, IsFold
  <2>1. choice[T] = Some(T) /\ Some(T) \in S /\ g[T \ {Some(T)}] \in Int
    BY <1>1, <1>2 DEF IsFold
  <2> QED BY <1>1, <2>1 DEF IsFold
<1>4. Equation(g) /\ g \in [SUBSET S -> Int]
  BY <1>1, <1>3 DEF SumsUp, IsFold
<1> DEFINE iter == CHOOSE h : Equation(h)
<1>5. Equation(iter)
  <2> HIDE DEF Equation
  <2> QED BY <1>4
<1>6. SumsUp(iter, f, S)
  <2> HIDE DEF iter
  <2> QED BY <1>5 DEF SumsUp
<1>7. SumFunctionOnSet(f, S) = iter[S]
  BY DEF SumFunctionOnSet, FoldFunctionOnSet, MapThenFoldSet, Some
<1> HIDE DEF iter
<1>8. iter[S] = g[S]
  BY <1>3, <1>6, SumUnique
<1> QED BY <1>3, <1>4, <1>7, <1>8

\* The sums over all subsets of S satisfy one equation.
SubsetSums(g, f, S) ==
  /\ g \in [SUBSET S -> Int] /\ SumsUp(g, f, S)
  /\ \A T \in SUBSET S : SumFunctionOnSet(f, T) = g[T]

LEMMA SumsOfSubsets ==
  ASSUME NEW S, IsFiniteSet(S), NEW f, Numbers(f, S)
  PROVE  \E g : SubsetSums(g, f, S)
<1>1. PICK g \in [SUBSET S -> Int] : SumsUp(g, f, S)
  BY SumEquation
<1>2. ASSUME NEW T \in SUBSET S PROVE SumFunctionOnSet(f, T) = g[T]
  <2>1. IsFiniteSet(T) /\ Numbers(f, T) /\ SumsUp(g, f, T) /\ T \in SUBSET T
    BY <1>1, FS_Subset DEF Numbers, SumsUp
  <2>2. PICK h \in [SUBSET T -> Int] : SumsUp(h, f, T) /\ SumFunctionOnSet(f, T) = h[T]
    BY <2>1, SumEquation
  <2> QED BY <2>1, <2>2, SumUnique
<1> QED BY <1>1, <1>2 DEF SubsetSums

\* The sum over no elements.
LEMMA SumEmpty == ASSUME NEW f PROVE SumFunctionOnSet(f, {}) = 0
<1>1. IsFiniteSet({}) /\ Numbers(f, {})
  BY FS_EmptySet DEF Numbers
<1> QED BY <1>1, SumEquation DEF SumsUp

\* A sum of integers is an integer.
LEMMA SumInt ==
  ASSUME NEW S, IsFiniteSet(S), NEW f, Numbers(f, S)
  PROVE  SumFunctionOnSet(f, S) \in Int
<1>1. PICK g \in [SUBSET S -> Int] : SumFunctionOnSet(f, S) = g[S]
  BY SumEquation
<1> QED BY <1>1

\* The order in which elements are taken does not matter.
LEMMA SumRemove ==
  ASSUME NEW S, IsFiniteSet(S), NEW f, Numbers(f, S), NEW x \in S
  PROVE  SumFunctionOnSet(f, S) = f[x] + SumFunctionOnSet(f, S \ {x})
<1>1. PICK g : SubsetSums(g, f, S)
  BY SumsOfSubsets
<1> USE DEF SubsetSums
<1> DEFINE P == {T \in SUBSET S : \A y \in T : g[T] = f[y] + g[T \ {y}]}
<1>2. ASSUME NEW T \in SUBSET S, \A y \in T : T \ {y} \in P PROVE T \in P
  <2> SUFFICES ASSUME NEW y \in T PROVE g[T] = f[y] + g[T \ {y}]
    OBVIOUS
  <2> DEFINE c == Some(T)
  <2>1. c \in T /\ g[T] = f[c] + g[T \ {c}]
    BY <1>1, SomeIn DEF SumsUp
  <2> HIDE DEF c
  <2>2. CASE y = c
    BY <2>1, <2>2
  <2>3. CASE y # c
    <3>1. g[T \ {c}] = f[y] + g[(T \ {c}) \ {y}]
      BY <1>2, <2>1, <2>3
    <3>2. g[T \ {y}] = f[c] + g[(T \ {y}) \ {c}]
      BY <1>2, <2>1, <2>3
    <3>3. (T \ {c}) \ {y} = (T \ {y}) \ {c}
      OBVIOUS
    <3>4. PICK n \in Int : n = g[(T \ {c}) \ {y}]
      BY <1>1
    <3>5. f[y] \in Int /\ f[c] \in Int
      BY <2>1 DEF Numbers
    <3>6. g[T] = f[c] + (f[y] + n) /\ g[T \ {y}] = f[c] + n
      BY <2>1, <3>1, <3>2, <3>3, <3>4
    <3> QED BY <3>5, <3>6
  <2> QED BY <2>2, <2>3
<1>3. S \in P
  <2>1. S \in SUBSET S
    OBVIOUS
  <2> HIDE DEF P
  <2> QED BY <1>2, <2>1, SubsetInduction
<1> QED BY <1>1, <1>3

\* The sum over one element.
LEMMA SumSingle ==
  ASSUME NEW f, NEW x, f[x] \in Int
  PROVE  SumFunctionOnSet(f, {x}) = f[x]
<1>1. IsFiniteSet({x}) /\ Numbers(f, {x}) /\ {x} \ {x} = {}
  BY FS_Singleton DEF Numbers
<1> QED BY <1>1, SumRemove, SumEmpty

\* A sum over a set is the sum over a part of it and over the rest.
LEMMA SumSplit ==
  ASSUME NEW S, IsFiniteSet(S), NEW f, Numbers(f, S), NEW T \in SUBSET S
  PROVE  SumFunctionOnSet(f, S) = SumFunctionOnSet(f, T) + SumFunctionOnSet(f, S \ T)
<1> DEFINE Sum(U) == SumFunctionOnSet(f, U)
           P == {U \in SUBSET S : Sum(S) = Sum(U) + Sum(S \ U)}
<1>1. \A U \in SUBSET S : Sum(U) \in Int
  BY SumInt, FS_Subset DEF Numbers
<1>2. \A U \in SUBSET S : \A x \in U : f[x] \in Int /\ Sum(U) = f[x] + Sum(U \ {x})
  BY SumRemove, FS_Subset DEF Numbers
<1>3. Sum({}) = 0
  BY SumEmpty
<1> HIDE DEF Sum
<1>4. ASSUME NEW U \in SUBSET S, \A x \in U : U \ {x} \in P PROVE U \in P
  <2>1. CASE U = {}
    BY <1>1, <1>3, <2>1
  <2>2. CASE U # {}
    <3>1. PICK x \in U : TRUE
      BY <2>2
    <3>2. S \ U = (S \ (U \ {x})) \ {x} /\ x \in S \ (U \ {x})
      BY <3>1
    <3>3. Sum(S \ (U \ {x})) = f[x] + Sum(S \ U)
      BY <1>2, <3>2
    <3>4. Sum(U) = f[x] + Sum(U \ {x}) /\ f[x] \in Int
      BY <1>2, <3>1
    <3>5. Sum(S) = Sum(U \ {x}) + Sum(S \ (U \ {x}))
      BY <1>4, <3>1
    <3>6. Sum(U \ {x}) \in Int /\ Sum(S \ U) \in Int
      BY <1>1
    <3> QED BY <3>3, <3>4, <3>5, <3>6
  <2> QED BY <2>1, <2>2
<1>5. T \in P
  <2> HIDE DEF P
  <2> QED BY <1>4, SubsetInduction
<1> QED BY <1>5 DEF Sum

\* Sums of the differences are differences of the sums.
LEMMA SumDifference ==
  ASSUME NEW S, IsFiniteSet(S), NEW f, Numbers(f, S), NEW g, Numbers(g, S),
         NEW h, \A x \in S : h[x] = f[x] - g[x]
  PROVE  SumFunctionOnSet(h, S) = SumFunctionOnSet(f, S) - SumFunctionOnSet(g, S)
<1> DEFINE Sum(e, U) == SumFunctionOnSet(e, U)
           P == {U \in SUBSET S : Sum(h, U) = Sum(f, U) - Sum(g, U)}
<1>1. \A U \in SUBSET S :
        /\ IsFiniteSet(U) /\ Numbers(f, U) /\ Numbers(g, U) /\ Numbers(h, U)
        /\ Sum(f, U) \in Int /\ Sum(g, U) \in Int
  BY SumInt, FS_Subset DEF Numbers
<1>2. \A U \in SUBSET S : \A x \in U :
        /\ Sum(f, U) = f[x] + Sum(f, U \ {x}) /\ Sum(g, U) = g[x] + Sum(g, U \ {x})
        /\ Sum(h, U) = h[x] + Sum(h, U \ {x})
  BY <1>1, SumRemove
<1>3. Sum(f, {}) = 0 /\ Sum(g, {}) = 0 /\ Sum(h, {}) = 0
  BY SumEmpty
<1> HIDE DEF Sum
<1>4. ASSUME NEW U \in SUBSET S, \A x \in U : U \ {x} \in P PROVE U \in P
  <2>1. CASE U = {}
    BY <1>3, <2>1
  <2>2. CASE U # {}
    <3>1. PICK x \in U : TRUE
      BY <2>2
    <3>2. f[x] \in Int /\ g[x] \in Int /\ h[x] = f[x] - g[x]
      BY <3>1 DEF Numbers
    <3>3. PICK m \in Int, n \in Int : m = Sum(f, U \ {x}) /\ n = Sum(g, U \ {x})
      BY <1>1
    <3>4. Sum(h, U \ {x}) = m - n
      BY <1>4, <3>1, <3>3
    <3>5. Sum(f, U) = f[x] + m /\ Sum(g, U) = g[x] + n /\ Sum(h, U) = h[x] + (m - n)
      BY <1>2, <3>1, <3>3, <3>4
    <3> QED BY <3>2, <3>5
  <2> QED BY <2>1, <2>2
<1>5. S \in P
  <2>1. S \in SUBSET S
    OBVIOUS
  <2> HIDE DEF P
  <2> QED BY <1>4, <2>1, SubsetInduction
<1> QED BY <1>5 DEF Sum

\* Zeros sum to zero.
LEMMA SumOfZeros ==
  ASSUME NEW S, IsFiniteSet(S), NEW f, \A x \in S : f[x] = 0
  PROVE  SumFunctionOnSet(f, S) = 0
<1>1. Numbers(f, S) /\ \A x \in S : f[x] = f[x] - f[x]
  BY DEF Numbers
<1>2. SumFunctionOnSet(f, S) \in Int
  BY <1>1, SumInt
<1>3. SumFunctionOnSet(f, S) = SumFunctionOnSet(f, S) - SumFunctionOnSet(f, S)
  BY <1>1, SumDifference
<1> QED BY <1>2, <1>3

\* Functions that agree on a set have one sum over it.
LEMMA SumEqual ==
  ASSUME NEW S, IsFiniteSet(S), NEW f, Numbers(f, S), NEW g, \A x \in S : g[x] = f[x]
  PROVE  SumFunctionOnSet(g, S) = SumFunctionOnSet(f, S)
<1> DEFINE zero == [x \in S |-> 0]
<1>1. Numbers(zero, S) /\ \A x \in S : g[x] = f[x] - zero[x]
  BY DEF Numbers
<1>2. SumFunctionOnSet(zero, S) = 0 /\ SumFunctionOnSet(f, S) \in Int
  BY SumOfZeros, SumInt
<1> HIDE DEF zero
<1>3. SumFunctionOnSet(g, S) = SumFunctionOnSet(f, S) - SumFunctionOnSet(zero, S)
  BY <1>1, SumDifference
<1> QED BY <1>2, <1>3

\* A sum over a set that is divided into groups is the sum of the groups' sums.
LEMMA SumGrouped ==
  ASSUME NEW M, IsFiniteSet(M), NEW S, IsFiniteSet(S), NEW f, Numbers(f, S),
         NEW group, \A m \in M : group[m] \in SUBSET S,
         \A x \in S : \E m \in M : x \in group[m],
         \A m, n \in M : m # n => group[m] \cap group[n] = {},
         NEW g, \A m \in M : g[m] = SumFunctionOnSet(f, group[m])
  PROVE  SumFunctionOnSet(g, M) = SumFunctionOnSet(f, S)
<1> DEFINE Sum(e, U) == SumFunctionOnSet(e, U)
           Of(N) == {x \in S : \E m \in N : x \in group[m]}
           P == {N \in SUBSET M : Sum(g, N) = Sum(f, Of(N))}
<1>1. \A N \in SUBSET M : IsFiniteSet(Of(N)) /\ Numbers(f, Of(N)) /\ IsFiniteSet(N)
  BY FS_Subset DEF Numbers
<1>2. \A m \in M : g[m] \in Int
  <2> SUFFICES ASSUME NEW m \in M PROVE g[m] \in Int
    OBVIOUS
  <2>1. IsFiniteSet(group[m]) /\ Numbers(f, group[m])
    BY FS_Subset DEF Numbers
  <2> QED BY <2>1, SumInt
<1>3. Sum(f, {}) = 0 /\ Sum(g, {}) = 0 /\ Of({}) = {}
  BY SumEmpty
<1>4. ASSUME NEW N \in SUBSET M, \A m \in N : N \ {m} \in P PROVE N \in P
  <2>1. CASE N = {}
    BY <1>3, <2>1
  <2>2. CASE N # {}
    <3>1. PICK m \in N : TRUE
      BY <2>2
    <3>2. group[m] \in SUBSET Of(N) /\ Of(N) \ group[m] = Of(N \ {m})
      BY <3>1
    <3>3. Sum(f, Of(N)) = Sum(f, group[m]) + Sum(f, Of(N \ {m}))
      <4> HIDE DEF Of
      <4>1. Sum(f, Of(N)) = Sum(f, group[m]) + Sum(f, Of(N) \ group[m])
        BY <1>1, <3>2, SumSplit
      <4> QED BY <3>2, <4>1
    <3>4. Sum(g, N) = g[m] + Sum(g, N \ {m})
      BY <1>1, <1>2, <3>1, SumRemove DEF Numbers
    <3> HIDE DEF Of, Sum
    <3>5. Sum(g, N \ {m}) = Sum(f, Of(N \ {m})) /\ g[m] = Sum(f, group[m])
      BY <1>4, <3>1 DEF Sum
    <3> QED BY <3>3, <3>4, <3>5
  <2> QED BY <2>1, <2>2
<1>5. M \in P /\ Of(M) = S
  <2>1. M \in SUBSET M /\ Of(M) = S
    OBVIOUS
  <2> HIDE DEF P, Of
  <2> QED BY <1>4, <2>1, SubsetInduction
<1> QED BY <1>5

\* A sum may be taken over other names of the same things.
LEMMA SumRenamed ==
  ASSUME NEW M, IsFiniteSet(M), NEW S, IsFiniteSet(S), NEW f, Numbers(f, S),
         NEW name, \A m \in M : name[m] \in S,
         \A x \in S : \E m \in M : x = name[m],
         \A m, n \in M : name[m] = name[n] => m = n,
         NEW g, \A m \in M : g[m] = f[name[m]]
  PROVE  SumFunctionOnSet(g, M) = SumFunctionOnSet(f, S)
<1> DEFINE group == [m \in M |-> {name[m]}]
<1>1. \A m \in M : group[m] \in SUBSET S
  OBVIOUS
<1>2. \A x \in S : \E m \in M : x \in group[m]
  OBVIOUS
<1>3. \A m, n \in M : m # n => group[m] \cap group[n] = {}
  OBVIOUS
<1>4. \A m \in M : g[m] = SumFunctionOnSet(f, group[m])
  BY SumSingle DEF Numbers
<1> HIDE DEF group
<1> QED BY <1>1, <1>2, <1>3, <1>4, SumGrouped

\* Numbers of one sign add up to their magnitudes.
LEMMA SumOfOneSign ==
  ASSUME NEW S, IsFiniteSet(S), NEW f, Numbers(f, S),
         \A x, y \in S : f[x] * f[y] >= 0,
         NEW g, \A x \in S : g[x] = IF f[x] < 0 THEN -f[x] ELSE f[x]
  PROVE  SumFunctionOnSet(g, S) = IF SumFunctionOnSet(f, S) < 0
                                    THEN -SumFunctionOnSet(f, S)
                                    ELSE SumFunctionOnSet(f, S)
<1> DEFINE P(e) == {U \in SUBSET S : SumFunctionOnSet(e, U) >= 0}
<1>1. ASSUME NEW e, \A x \in S : e[x] \in Nat PROVE SumFunctionOnSet(e, S) >= 0
  <2>1. ASSUME NEW U \in SUBSET S, \A x \in U : U \ {x} \in P(e) PROVE U \in P(e)
    <3>1. IsFiniteSet(U) /\ Numbers(e, U)
      BY <1>1, FS_Subset DEF Numbers
    <3>2. CASE U = {}
      BY <3>2, SumEmpty
    <3>3. CASE U # {}
      <4>1. PICK x \in U : TRUE
        BY <3>3
      <4>2. SumFunctionOnSet(e, U) = e[x] + SumFunctionOnSet(e, U \ {x})
        BY <3>1, <4>1, SumRemove
      <4>3. SumFunctionOnSet(e, U \ {x}) \in Int
        BY <3>1, <4>1, SumInt, FS_Subset DEF Numbers
      <4> QED BY <1>1, <2>1, <4>1, <4>2, <4>3
    <3> QED BY <3>2, <3>3
  <2>2. S \in SUBSET S
    OBVIOUS
  <2>3. S \in P(e)
    <3> HIDE DEF P
    <3> QED BY <2>1, <2>2, SubsetInduction
  <2> QED BY <2>3
<1>2. SumFunctionOnSet(f, S) \in Int
  BY SumInt
<1>3. CASE \A x \in S : f[x] >= 0
  <2>1. \A x \in S : g[x] = f[x] /\ f[x] \in Nat
    BY <1>3 DEF Numbers
  <2>2. SumFunctionOnSet(g, S) = SumFunctionOnSet(f, S)
    BY <2>1, SumEqual
  <2>3. SumFunctionOnSet(f, S) >= 0
    BY <1>1, <2>1
  <2> QED BY <1>2, <2>2, <2>3
<1>4. CASE \E x \in S : f[x] < 0
  <2>1. PICK x \in S : f[x] < 0
    BY <1>4
  <2>2. ASSUME NEW y \in S PROVE f[y] <= 0
    <3>1. f[x] \in Int /\ f[y] \in Int /\ f[x] * f[y] >= 0
      BY DEF Numbers
    <3>2. \A a, b \in Int : a < 0 /\ b > 0 => a * b < 0
      OBVIOUS
    <3> QED BY <2>1, <3>1, <3>2
  <2> DEFINE zero == [y \in S |-> 0]
  <2>3. ASSUME NEW y \in S PROVE zero[y] = 0 /\ g[y] \in Nat /\ g[y] = zero[y] - f[y]
    <3>1. f[y] \in Int /\ f[y] <= 0 /\ g[y] = IF f[y] < 0 THEN -f[y] ELSE f[y]
      BY <2>2 DEF Numbers
    <3>2. g[y] \in Nat /\ g[y] = 0 - f[y]
      BY <3>1
    <3> QED BY <3>2
  <2>4. SumFunctionOnSet(zero, S) = 0 /\ Numbers(zero, S)
    BY SumOfZeros DEF Numbers
  <2> HIDE DEF zero
  <2>5. SumFunctionOnSet(g, S) = SumFunctionOnSet(zero, S) - SumFunctionOnSet(f, S)
    BY <2>3, <2>4, SumDifference
  <2>6. SumFunctionOnSet(g, S) >= 0
    BY <1>1, <2>3
  <2> QED BY <1>2, <2>4, <2>5, <2>6
<1> QED
  BY <1>3, <1>4 DEF Numbers
-----------------------------------------------------------------------------
(* Sorting.                                                                *)

\* R orders the elements of S strictly, any two of them.
Orders(R, S) ==
  \A x, y \in S :
    /\ x # y => <<x, y>> \in R \/ <<y, x>> \in R
    /\ ~(<<x, y>> \in R /\ <<y, x>> \in R)
    /\ \A z \in S : <<x, y>> \in R /\ <<y, z>> \in R => <<x, z>> \in R

\* f lists the elements of T in the order R.
Sorts(f, T, R) ==
  /\ f \in Bijection(1..Cardinality(T), T)
  /\ \A m, n \in 1..Cardinality(T) : m < n => <<f[m], f[n]>> \in R

\* A finite set that is ordered has a last element.
LEMMA LastExists ==
  ASSUME NEW S, IsFiniteSet(S), NEW R, Orders(R, S)
  PROVE  \A T \in SUBSET S : T # {} => \E x \in T : \A y \in T \ {x} : <<y, x>> \in R
<1> DEFINE Last(T, x) == x \in T /\ \A y \in T \ {x} : <<y, x>> \in R
           P == {T \in SUBSET S : T = {} \/ \E x : Last(T, x)}
<1>1. ASSUME NEW T \in SUBSET S, \A x \in T : T \ {x} \in P
      PROVE  T \in P
  <2> SUFFICES ASSUME NEW x \in T PROVE \E z : Last(T, z)
    OBVIOUS
  <2>1. CASE T \ {x} = {}
    BY <2>1
  <2>2. ASSUME NEW y, Last(T \ {x}, y) PROVE \E z : Last(T, z)
    <3>1. x \in S /\ y \in S /\ x # y
      BY <2>2
    <3>2. CASE <<x, y>> \in R
      BY <2>2, <3>2
    <3>3. CASE <<y, x>> \in R
      <4>1. ASSUME NEW z \in T \ {x} PROVE <<z, x>> \in R
        BY <2>2, <3>1, <3>3 DEF Orders
      <4> QED BY <4>1
    <3> QED BY <3>1, <3>2, <3>3 DEF Orders
  <2> QED BY <1>1, <2>1, <2>2
<1> HIDE DEF P
<1>2. SUBSET S \subseteq P
  BY <1>1, SubsetInduction
<1> QED BY <1>2 DEF P

\* Every finite set can be sorted.
LEMMA SortExists ==
  ASSUME NEW S, IsFiniteSet(S), NEW R, Orders(R, S)
  PROVE  \E f : Sorts(f, S, R)
<1> DEFINE P == {T \in SUBSET S : \E f : Sorts(f, T, R)}
<1>1. ASSUME NEW T \in SUBSET S, \A x \in T : T \ {x} \in P
      PROVE  T \in P
  <2>1. CASE T = {}
    <3>1. Cardinality(T) = 0
      BY <2>1, FS_EmptySet
    <3>2. Sorts([n \in {} |-> n], T, R)
      BY <2>1, <3>1 DEF Sorts, Bijection, Injection, Surjection, IsInjective
    <3> QED BY <3>2
  <2>2. CASE T # {}
    <3>1. PICK x \in T : \A y \in T \ {x} : <<y, x>> \in R
      BY <2>2, LastExists
    <3>2. PICK f : Sorts(f, T \ {x}, R)
      BY <1>1
    <3>3. PICK n \in Nat : n = Cardinality(T \ {x}) /\ Cardinality(T) = n + 1
      BY FS_Subset, FS_CardinalityType, FS_RemoveElement
    <3>4. /\ f \in [1..n -> T \ {x}]
          /\ \A a, b \in 1..n : f[a] = f[b] => a = b
          /\ \A y \in T \ {x} : \E a \in 1..n : f[a] = y
          /\ \A a, b \in 1..n : a < b => <<f[a], f[b]>> \in R
      BY <3>2, <3>3 DEF Sorts, Bijection, Injection, Surjection, IsInjective
    <3> DEFINE g == [a \in 1..(n + 1) |-> IF a = n + 1 THEN x ELSE f[a]]
    <3>5. /\ g[n + 1] = x /\ n + 1 \in 1..(n + 1)
          /\ \A a \in 1..n : g[a] = f[a] /\ g[a] \in T \ {x} /\ a \in 1..(n + 1)
          /\ \A a \in 1..(n + 1) : a = n + 1 \/ a \in 1..n
          /\ DOMAIN g = 1..(n + 1) /\ g = [a \in 1..(n + 1) |-> g[a]]
      BY <3>4
    <3> HIDE DEF g
    <3>6. g \in [1..(n + 1) -> T]
      BY <3>5
    <3>7. \A a, b \in 1..(n + 1) : g[a] = g[b] => a = b
      BY <3>4, <3>5
    <3>8. \A y \in T : \E a \in 1..(n + 1) : g[a] = y
      BY <3>4, <3>5
    <3>9. ASSUME NEW a \in 1..(n + 1), NEW b \in 1..(n + 1), a < b PROVE <<g[a], g[b]>> \in R
      <4>1. a \in 1..n
        BY <3>9
      <4>2. CASE b = n + 1
        BY <3>1, <3>5, <4>1, <4>2
      <4>3. CASE b \in 1..n
        BY <3>4, <3>5, <3>9, <4>1, <4>3
      <4> QED BY <3>5, <4>2, <4>3
    <3>10. Sorts(g, T, R)
      BY <3>3, <3>6, <3>7, <3>8, <3>9 DEF Sorts, Bijection, Injection, Surjection, IsInjective
    <3> QED BY <3>10
  <2> QED BY <2>1, <2>2
<1> HIDE DEF P
<1>2. SUBSET S \subseteq P
  BY <1>1, SubsetInduction
<1>3. S \in P
  BY <1>2
<1> QED BY <1>3 DEF P

\* The positions of a sequence can be ranked by any order of them.
LEMMA RankExists ==
  ASSUME NEW size \in Nat, NEW R, Orders(R, 1..size)
  PROVE  \E rank \in Bijection(1..size, 1..size) :
           \A m, n \in 1..size : m < n => <<rank[m], rank[n]>> \in R
<1>1. IsFiniteSet(1..size) /\ Cardinality(1..size) = size
  BY FS_Interval
<1>2. PICK rank : Sorts(rank, 1..size, R)
  BY <1>1, SortExists
<1> QED BY <1>1, <1>2 DEF Sorts
=============================================================================
