---------------------------- MODULE SumTheorems ----------------------------
(***************************************************************************)
(* Sums over finite sets, for the modules that prove something about money *)
(* or votes.                                                               *)
(*                                                                         *)
(* A sum is the choice of a function that satisfies a recursive equation;  *)
(* there is one for every finite set, and it does not depend on the order  *)
(* of the elements.                                                        *)
(***************************************************************************)
EXTENDS Integers, Sequences, FiniteSets, FiniteSetsExt, Functions, FiniteSetTheorems,
        NaturalsInduction, SequenceTheorems, WellFoundedInduction, TLAPS

-----------------------------------------------------------------------------
(* Numbers. *)

(* A set of naturals that is not empty has a least element. *)
LEMMA LeastNatural ==
  ASSUME NEW T \in SUBSET Nat, T # {}
  PROVE  \E n \in T : \A m \in T : n <= m
  <1>1. PICK n \in T : \A m \in T : <<m, n>> \notin OpToRel(<, Nat)
    BY WFMin, NatLessThanWellFounded, Zenon
  <1>2. \A m \in T : ~(m < n)
    BY <1>1, Zenon DEF OpToRel
  <1> QED BY <1>2

(* Division with remainder. *)
LEMMA Division ==
  ASSUME NEW n \in Nat \ {0}, NEW m \in Nat
  PROVE  /\ m = n * (m \div n) + (m % n)
         /\ m % n \in 0 .. (n - 1)
         /\ m \div n \in Nat
  OBVIOUS

-----------------------------------------------------------------------------
(* Induction, for sets of numbers and for sets of subsets. *)

(* What holds at zero, and one further whenever it holds, holds always. *)
LEMMA NatClosed ==
  ASSUME NEW good \in SUBSET Nat, 0 \in good, \A n \in good : n + 1 \in good
  PROVE  good = Nat
  <1> DEFINE bad == Nat \ good
  <1> SUFFICES ASSUME bad # {} PROVE FALSE
    OBVIOUS
  <1>1. PICK n \in bad : \A m \in bad : <<m, n>> \notin OpToRel(<, Nat)
    BY WFMin, NatLessThanWellFounded, Zenon
  <1>2. \A m \in bad : ~(m < n)
    BY <1>1, Zenon DEF OpToRel
  <1>3. n \in Nat /\ n # 0
    BY <1>1
  <1>4. n - 1 \in Nat /\ n - 1 \notin bad
    BY <1>2, <1>3
  <1>5. n - 1 \in good
    BY <1>4
  <1>6. (n - 1) + 1 \in good
    BY <1>5
  <1>7. (n - 1) + 1 = n
    BY <1>3
  <1>8. n \in good
    BY <1>6, <1>7
  <1> QED BY <1>1, <1>8

(* What holds of the empty set, and with one more element, holds of all. *)
LEMMA SubsetsClosed ==
  ASSUME NEW S, IsFiniteSet(S), NEW good \in SUBSET (SUBSET S), {} \in good,
         \A T \in good : \A x \in S \ T : T \cup {x} \in good
  PROVE  S \in good
  <1> DEFINE sizes == {n \in Nat : \A T \in SUBSET S : Cardinality(T) = n => T \in good}
  <1>1. \A T \in SUBSET S : IsFiniteSet(T) /\ Cardinality(T) \in Nat
    BY FS_Subset, FS_CardinalityType
  <1>2. 0 \in sizes
    BY <1>1, FS_EmptySet
  <1>3. ASSUME NEW n \in sizes PROVE n + 1 \in sizes
    <2> SUFFICES ASSUME NEW T \in SUBSET S, Cardinality(T) = n + 1 PROVE T \in good
      OBVIOUS
    <2>1. n \in Nat
      OBVIOUS
    <2>2. T # {}
      <3>1. Cardinality({}) = 0
        BY FS_EmptySet
      <3>2. Cardinality(T) # 0
        BY <2>1
      <3> QED BY <3>1, <3>2
    <2>3. PICK x \in T : TRUE
      BY <2>2
    <2>4. Cardinality(T \ {x}) = n
      <3>1. IsFiniteSet(T)
        BY <1>1
      <3>2. Cardinality(T \ {x}) = Cardinality(T) - 1
        BY <2>3, <3>1, FS_RemoveElement
      <3> QED BY <2>1, <3>2
    <2>5. T \ {x} \in good /\ x \in S \ (T \ {x})
      BY <2>4
    <2>6. (T \ {x}) \cup {x} \in good
      BY <2>5
    <2>7. (T \ {x}) \cup {x} = T
      OBVIOUS
    <2> QED BY <2>6, <2>7
  <1>4. sizes = Nat
    <2>1. sizes \in SUBSET Nat
      OBVIOUS
    <2> HIDE DEF sizes
    <2> QED BY <1>2, <1>3, <2>1, NatClosed
  <1>5. Cardinality(S) \in sizes
    BY <1>1, <1>4
  <1> QED BY <1>5

-----------------------------------------------------------------------------
(* g is the sum of f over every subset of S that is in D. *)
Recurs(f, D, g) ==
  g = [s \in D |-> IF s = {} THEN 0
                   ELSE f[CHOOSE x \in s : TRUE] + g[s \ {CHOOSE x \in s : TRUE}]]

(* The sums of f over the subsets of S. *)
Sums(f, S) == CHOOSE g : Recurs(f, SUBSET S, g)

(* A sum is the value of that function at the whole set. *)
LEMMA SumIsValue ==
  ASSUME NEW f, NEW S
  PROVE  SumFunctionOnSet(f, S) = Sums(f, S)[S]
  BY DEF Sums, Recurs, SumFunctionOnSet, FoldFunctionOnSet, MapThenFoldSet

SmallSubsets(S, n) == {s \in SUBSET S : Cardinality(s) <= n}

(* There is such a function: it grows from the smaller subsets to those of  *)
(* one element more.                                                        *)
LEMMA SumsExist ==
  ASSUME NEW f, NEW S, IsFiniteSet(S)
  PROVE  Recurs(f, SUBSET S, Sums(f, S))
  <1> DEFINE good == {n \in Nat : \E g : Recurs(f, SmallSubsets(S, n), g)}
             one(s) == CHOOSE x \in s : TRUE
  <1>0. \A T \in SUBSET S : IsFiniteSet(T) /\ Cardinality(T) \in Nat
    BY FS_Subset, FS_CardinalityType
  <1>1. 0 \in good
    <2> DEFINE g == [s \in SmallSubsets(S, 0) |-> 0]
    <2>1. \A s \in SmallSubsets(S, 0) : s = {}
      BY <1>0, FS_EmptySet DEF SmallSubsets
    <2>2. g = [s \in SmallSubsets(S, 0) |-> IF s = {} THEN 0 ELSE f[one(s)] + g[s \ {one(s)}]]
      BY <2>1
    <2>3. Recurs(f, SmallSubsets(S, 0), g)
      BY <2>2 DEF Recurs
    <2> QED BY <2>3
  <1>2. ASSUME NEW n \in good PROVE n + 1 \in good
    <2>1. n \in Nat
      OBVIOUS
    <2>2. PICK g : Recurs(f, SmallSubsets(S, n), g)
      OBVIOUS
    <2> DEFINE D == SmallSubsets(S, n + 1)
               h == [s \in D |-> IF s = {} THEN 0 ELSE f[one(s)] + g[s \ {one(s)}]]
               r == [s \in D |-> IF s = {} THEN 0 ELSE f[one(s)] + h[s \ {one(s)}]]
    <2>3. ASSUME NEW s \in D, s # {} PROVE h[s \ {one(s)}] = g[s \ {one(s)}]
      <3> DEFINE t == s \ {one(s)}
      <3>1. one(s) \in s
        BY <2>3
      <3>2. s \in SUBSET S /\ Cardinality(s) <= n + 1
        BY DEF SmallSubsets
      <3>3. Cardinality(t) = Cardinality(s) - 1 /\ IsFiniteSet(s)
        <4> HIDE DEF one
        <4> QED BY <1>0, <3>1, <3>2, FS_RemoveElement
      <3>4. t \in SmallSubsets(S, n) /\ t \in D
        BY <1>0, <2>1, <3>2, <3>3 DEF SmallSubsets
      <3>5. g[t] = IF t = {} THEN 0 ELSE f[one(t)] + g[t \ {one(t)}]
        <4> HIDE DEF t
        <4> QED BY <2>2, <3>4 DEF Recurs
      <3>6. h[t] = IF t = {} THEN 0 ELSE f[one(t)] + g[t \ {one(t)}]
        <4> HIDE DEF t
        <4> QED BY <3>4
      <3> QED BY <3>5, <3>6
    <2>4. h = r
      <3>1. ASSUME NEW s \in D PROVE h[s] = r[s]
        <4>1. CASE s = {}
          BY <4>1
        <4>2. CASE s # {}
          <5>1. h[s] = f[one(s)] + g[s \ {one(s)}]
            BY <4>2
          <5>2. r[s] = f[one(s)] + h[s \ {one(s)}]
            BY <4>2
          <5> QED BY <2>3, <4>2, <5>1, <5>2
        <4> QED BY <4>1, <4>2
      <3> QED BY <3>1
    <2>5. Recurs(f, D, h)
      BY <2>4 DEF Recurs
    <2> QED BY <2>1, <2>5
  <1>3. good = Nat
    <2>1. good \in SUBSET Nat
      OBVIOUS
    <2> HIDE DEF good
    <2> QED BY <1>1, <1>2, <2>1, NatClosed
  <1>4. PICK g : Recurs(f, SmallSubsets(S, Cardinality(S)), g)
    BY <1>0, <1>3
  <1>5. SmallSubsets(S, Cardinality(S)) = SUBSET S
    BY FS_Subset DEF SmallSubsets
  <1> QED BY <1>4, <1>5 DEF Sums

(* The element a sum takes first. *)
One(s) == CHOOSE x \in s : TRUE

Unfolds(f, g, T) ==
  /\ T = {} => g[T] = 0
  /\ T # {} => One(T) \in T /\ g[T] = f[One(T)] + g[T \ {One(T)}]

(* What the sums over the subsets of S are. *)
LEMMA SumsUnfold ==
  ASSUME NEW f, NEW S, IsFiniteSet(S)
  PROVE  \A T \in SUBSET S : Unfolds(f, Sums(f, S), T)
  <1> SUFFICES ASSUME NEW T \in SUBSET S PROVE Unfolds(f, Sums(f, S), T)
    OBVIOUS
  <1> DEFINE g == Sums(f, S)
  <1>1. Recurs(f, SUBSET S, g)
    BY SumsExist
  <1> HIDE DEF g
  <1>2. g[T] = IF T = {} THEN 0
               ELSE f[CHOOSE x \in T : TRUE] + g[T \ {CHOOSE x \in T : TRUE}]
    BY <1>1 DEF Recurs
  <1>3. g[T] = IF T = {} THEN 0 ELSE f[One(T)] + g[T \ {One(T)}]
    BY <1>2 DEF One
  <1>4. T # {} => One(T) \in T
    BY DEF One
  <1> QED BY <1>3, <1>4 DEF g, Unfolds

(* Induction over the sizes of subsets. *)
LEMMA SmallerFirst ==
  ASSUME NEW S, IsFiniteSet(S), NEW good \in SUBSET (SUBSET S),
         \A T \in SUBSET S : (\A x \in T : T \ {x} \in good) => T \in good
  PROVE  good = SUBSET S
  <1> DEFINE sizes == {n \in Nat : \A T \in SUBSET S : Cardinality(T) = n => T \in good}
  <1>1. \A T \in SUBSET S : IsFiniteSet(T) /\ Cardinality(T) \in Nat
    BY FS_Subset, FS_CardinalityType
  <1>2. 0 \in sizes
    <2> SUFFICES ASSUME NEW T \in SUBSET S, Cardinality(T) = 0 PROVE T \in good
      OBVIOUS
    <2>1. T = {}
      BY <1>1, FS_EmptySet
    <2> QED BY <2>1
  <1>3. ASSUME NEW n \in sizes PROVE n + 1 \in sizes
    <2> SUFFICES ASSUME NEW T \in SUBSET S, Cardinality(T) = n + 1 PROVE T \in good
      OBVIOUS
    <2>1. ASSUME NEW x \in T PROVE T \ {x} \in good
      <3>1. IsFiniteSet(T) /\ n \in Nat
        BY <1>1
      <3>2. Cardinality(T \ {x}) = n
        BY <3>1, FS_RemoveElement
      <3> QED BY <3>2
    <2> QED BY <2>1
  <1>4. sizes = Nat
    <2>1. sizes \in SUBSET Nat
      OBVIOUS
    <2> HIDE DEF sizes
    <2> QED BY <1>2, <1>3, <2>1, NatClosed
  <1>5. \A T \in SUBSET S : T \in good
    BY <1>1, <1>4
  <1> QED BY <1>5

(* The sum over a subset depends on what f is there, and on nothing else. *)
LEMMA SumsAgree ==
  ASSUME NEW f, NEW S, IsFiniteSet(S), NEW h, NEW R, IsFiniteSet(R),
         NEW T \in SUBSET S, T \in SUBSET R, \A x \in T : f[x] = h[x]
  PROVE  Sums(f, S)[T] = Sums(h, R)[T]
  <1> DEFINE good == {U \in SUBSET T : Sums(f, S)[U] = Sums(h, R)[U]}
  <1>1. ASSUME NEW U \in SUBSET T, \A x \in U : U \ {x} \in good PROVE U \in good
    <2>1. U \in SUBSET S /\ U \in SUBSET R
      OBVIOUS
    <2>2. Unfolds(f, Sums(f, S), U)
      BY <2>1, SumsUnfold
    <2>3. Unfolds(h, Sums(h, R), U)
      BY <2>1, SumsUnfold
    <2>4. U # {} => Sums(f, S)[U \ {One(U)}] = Sums(h, R)[U \ {One(U)}] /\ f[One(U)] = h[One(U)]
      BY <1>1, <2>2 DEF Unfolds
    <2> QED BY <2>2, <2>3, <2>4 DEF Unfolds
  <1>2. IsFiniteSet(T)
    BY FS_Subset
  <1>3. good = SUBSET T
    <2>1. good \in SUBSET (SUBSET T)
      OBVIOUS
    <2> HIDE DEF good
    <2> QED BY <1>1, <1>2, <2>1, SmallerFirst
  <1>4. T \in good
    BY <1>3
  <1> QED BY <1>4

(* Sums of integers are integers. *)
LEMMA SumsAreInt ==
  ASSUME NEW f, NEW S, IsFiniteSet(S), \A x \in S : f[x] \in Int
  PROVE  \A T \in SUBSET S : Sums(f, S)[T] \in Int
  <1> DEFINE good == {T \in SUBSET S : Sums(f, S)[T] \in Int}
  <1>1. ASSUME NEW T \in SUBSET S, \A x \in T : T \ {x} \in good PROVE T \in good
    <2>1. Unfolds(f, Sums(f, S), T)
      BY SumsUnfold
    <2>2. T # {} => Sums(f, S)[T \ {One(T)}] \in Int /\ f[One(T)] \in Int
      BY <1>1, <2>1 DEF Unfolds
    <2> QED BY <2>1, <2>2 DEF Unfolds
  <1>2. good = SUBSET S
    <2>1. good \in SUBSET (SUBSET S)
      OBVIOUS
    <2> HIDE DEF good
    <2> QED BY <1>1, <2>1, SmallerFirst
  <1> QED BY <1>2

(* Any element may be added first. *)
AnyOrder(f, g, T) == \A x \in T : g[T] = f[x] + g[T \ {x}]

(* Whatever function the choice takes, it is so for every set. *)
LEMMA SumsAnyOrder ==
  ASSUME NEW f, NEW S, IsFiniteSet(S), \A x \in S : f[x] \in Int
  PROVE  \A T \in SUBSET S : AnyOrder(f, Sums(f, S), T)
  <1> DEFINE g == Sums(f, S)
             good == {T \in SUBSET S : AnyOrder(f, g, T)}
  <1>0. \A T \in SUBSET S : g[T] \in Int
    BY SumsAreInt
  <1>1. ASSUME NEW T \in SUBSET S, \A x \in T : T \ {x} \in good PROVE T \in good
    <2>1. Unfolds(f, g, T)
      BY SumsUnfold
    <2>5. \A U \in SUBSET S : g[U] \in Int
      BY <1>0
    <2> HIDE DEF g
    <2> SUFFICES ASSUME NEW x \in T PROVE g[T] = f[x] + g[T \ {x}]
      BY DEF AnyOrder
    <2> DEFINE y == One(T)
    <2>2. y \in T /\ g[T] = f[y] + g[T \ {y}]
      BY <2>1 DEF Unfolds
    <2> HIDE DEF y
    <2>3. CASE x = y
      BY <2>2, <2>3
    <2>4. CASE x # y
      <3>1. g[T \ {y}] = f[x] + g[(T \ {y}) \ {x}]
        BY <1>1, <2>2, <2>4 DEF AnyOrder
      <3>2. g[T \ {x}] = f[y] + g[(T \ {x}) \ {y}]
        BY <1>1, <2>2, <2>4 DEF AnyOrder
      <3> DEFINE rest == (T \ {x}) \ {y}
      <3>3. (T \ {y}) \ {x} = rest /\ rest \in SUBSET S
        OBVIOUS
      <3> HIDE DEF rest
      <3>4. g[rest] \in Int /\ f[x] \in Int /\ f[y] \in Int
        BY <2>2, <2>5, <3>3
      <3>5. g[T \ {x}] = f[y] + g[rest]
        BY <3>2 DEF rest
      <3>6. g[T] = f[y] + (f[x] + g[rest])
        BY <2>2, <3>1, <3>3
      <3>7. f[y] + (f[x] + g[rest]) = f[x] + (f[y] + g[rest])
        BY <3>4
      <3> QED BY <3>5, <3>6, <3>7
    <2> QED BY <2>3, <2>4
  <1>2. good = SUBSET S
    <2>1. good \in SUBSET (SUBSET S)
      OBVIOUS
    <2> HIDE DEF good
    <2> QED BY <1>1, <2>1, SmallerFirst
  <1> QED BY <1>2

-----------------------------------------------------------------------------
(* Facts about sums. *)

(* f is a function to the integers on S, and S is finite. *)
Summable(f, S) == IsFiniteSet(S) /\ \A x \in S : f[x] \in Int

(* What there is to know of a sum: nothing is zero, and an element counts   *)
(* once.                                                                    *)
LEMMA SumBasics ==
  ASSUME NEW f, NEW S, Summable(f, S)
  PROVE  /\ SumFunctionOnSet(f, S) \in Int
         /\ S = {} => SumFunctionOnSet(f, S) = 0
         /\ \A x \in S : SumFunctionOnSet(f, S) = f[x] + SumFunctionOnSet(f, S \ {x})
  <1> USE DEF Summable
  <1>1. SumFunctionOnSet(f, S) = Sums(f, S)[S]
    BY SumIsValue
  <1>2. SumFunctionOnSet(f, S) \in Int
    BY <1>1, SumsAreInt
  <1>3. S = {} => SumFunctionOnSet(f, S) = 0
    <2>1. Unfolds(f, Sums(f, S), S)
      BY SumsUnfold
    <2> QED BY <1>1, <2>1 DEF Unfolds
  <1>4. ASSUME NEW x \in S PROVE SumFunctionOnSet(f, S) = f[x] + SumFunctionOnSet(f, S \ {x})
    <2>1. Sums(f, S)[S] = f[x] + Sums(f, S)[S \ {x}]
      <3>1. AnyOrder(f, Sums(f, S), S)
        BY SumsAnyOrder
      <3> QED BY <3>1 DEF AnyOrder
    <2> DEFINE R == S \ {x}
    <2>2. IsFiniteSet(R) /\ R \in SUBSET S /\ R \in SUBSET R
      BY FS_RemoveElement
    <2> HIDE DEF R
    <2>3. Sums(f, S)[R] = Sums(f, R)[R]
      BY <2>2, SumsAgree
    <2>4. SumFunctionOnSet(f, R) = Sums(f, R)[R]
      BY SumIsValue
    <2> QED BY <1>1, <2>1, <2>3, <2>4 DEF R
  <1> QED BY <1>2, <1>3, <1>4

(* Functions that are the same on a set have the same sum there. *)
LEMMA SumSame ==
  ASSUME NEW f, NEW h, NEW S, IsFiniteSet(S), \A x \in S : f[x] = h[x]
  PROVE  SumFunctionOnSet(f, S) = SumFunctionOnSet(h, S)
  <1>1. S \in SUBSET S
    OBVIOUS
  <1>2. Sums(f, S)[S] = Sums(h, S)[S]
    BY <1>1, SumsAgree
  <1> QED BY <1>2, SumIsValue

(* One more element. *)
LEMMA SumMore ==
  ASSUME NEW f, NEW S, NEW x, x \notin S, Summable(f, S \cup {x})
  PROVE  SumFunctionOnSet(f, S \cup {x}) = SumFunctionOnSet(f, S) + f[x]
         /\ SumFunctionOnSet(f, S) \in Int
  <1>1. (S \cup {x}) \ {x} = S
    OBVIOUS
  <1>2. SumFunctionOnSet(f, S \cup {x}) = f[x] + SumFunctionOnSet(f, (S \cup {x}) \ {x})
    BY SumBasics
  <1>3. Summable(f, S)
    BY FS_Subset DEF Summable
  <1>4. SumFunctionOnSet(f, S) \in Int
    BY <1>3, SumBasics
  <1>5. f[x] \in Int
    BY DEF Summable
  <1>6. SumFunctionOnSet(f, S \cup {x}) = f[x] + SumFunctionOnSet(f, S)
    BY <1>1, <1>2, Zenon
  <1> QED BY <1>4, <1>5, <1>6

(* One element changes. *)
LEMMA SumChanges ==
  ASSUME NEW f, NEW h, NEW S, Summable(f, S), Summable(h, S), NEW x \in S,
         \A y \in S : y # x => h[y] = f[y]
  PROVE  SumFunctionOnSet(h, S) = SumFunctionOnSet(f, S) - f[x] + h[x]
  <1> DEFINE R == S \ {x}
  <1>1. Summable(f, R) /\ IsFiniteSet(R) /\ \A y \in R : h[y] = f[y]
    BY FS_RemoveElement DEF Summable
  <1>2. /\ SumFunctionOnSet(f, S) = f[x] + SumFunctionOnSet(f, R)
        /\ SumFunctionOnSet(h, S) = h[x] + SumFunctionOnSet(h, R)
    BY SumBasics
  <1> HIDE DEF R
  <1>3. SumFunctionOnSet(h, R) = SumFunctionOnSet(f, R) /\ SumFunctionOnSet(f, R) \in Int
    BY <1>1, SumSame, SumBasics
  <1>4. f[x] \in Int /\ h[x] \in Int
    BY DEF Summable
  <1> QED BY <1>2, <1>3, <1>4

(* A sum of sums. *)
LEMMA SumPlus ==
  ASSUME NEW f, NEW h, NEW k, NEW S, Summable(f, S), Summable(h, S),
         \A x \in S : k[x] = f[x] + h[x]
  PROVE  SumFunctionOnSet(k, S) = SumFunctionOnSet(f, S) + SumFunctionOnSet(h, S)
  <1> DEFINE good == {T \in SUBSET S :
                        SumFunctionOnSet(k, T) = SumFunctionOnSet(f, T) + SumFunctionOnSet(h, T)}
  <1>1. \A T \in SUBSET S : Summable(f, T) /\ Summable(h, T) /\ Summable(k, T)
    BY FS_Subset DEF Summable
  <1>2. {} \in good
    <2>1. {} \in SUBSET S
      OBVIOUS
    <2>2. SumFunctionOnSet(k, {}) = 0 /\ SumFunctionOnSet(f, {}) = 0 /\ SumFunctionOnSet(h, {}) = 0
      BY <1>1, <2>1, SumBasics
    <2> QED BY <2>1, <2>2
  <1>3. ASSUME NEW T \in good, NEW x \in S \ T PROVE T \cup {x} \in good
    <2> DEFINE U == T \cup {x}
    <2>1. U \in SUBSET S /\ x \notin T
      OBVIOUS
    <2>2. Summable(f, U) /\ Summable(h, U) /\ Summable(k, U)
      BY <1>1, <2>1
    <2>3. /\ SumFunctionOnSet(f, U) = SumFunctionOnSet(f, T) + f[x] /\ SumFunctionOnSet(f, T) \in Int
          /\ SumFunctionOnSet(h, U) = SumFunctionOnSet(h, T) + h[x] /\ SumFunctionOnSet(h, T) \in Int
          /\ SumFunctionOnSet(k, U) = SumFunctionOnSet(k, T) + k[x]
      BY <2>1, <2>2, SumMore
    <2>4. f[x] \in Int /\ h[x] \in Int /\ k[x] = f[x] + h[x]
      BY DEF Summable
    <2>5. SumFunctionOnSet(k, T) = SumFunctionOnSet(f, T) + SumFunctionOnSet(h, T)
      OBVIOUS
    <2>6. SumFunctionOnSet(k, U) = SumFunctionOnSet(f, U) + SumFunctionOnSet(h, U)
      BY <2>3, <2>4, <2>5
    <2> QED BY <2>1, <2>6
  <1>4. S \in good
    <2>1. good \in SUBSET (SUBSET S) /\ IsFiniteSet(S)
      BY DEF Summable
    <2> HIDE DEF good
    <2> QED BY <1>2, <1>3, <2>1, SubsetsClosed
  <1> QED BY <1>4

(* What is zero outside a part of the set sums to the sum over the part. *)
LEMMA SumZeros ==
  ASSUME NEW f, NEW S, NEW R \in SUBSET S, Summable(f, S), \A x \in S \ R : f[x] = 0
  PROVE  SumFunctionOnSet(f, S) = SumFunctionOnSet(f, R)
  <1> DEFINE O == S \ R
             good == {T \in SUBSET O : SumFunctionOnSet(f, R \cup T) = SumFunctionOnSet(f, R)}
  <1>1. {} \in good
    <2>1. R \cup {} = R
      OBVIOUS
    <2> QED BY <2>1
  <1>2. ASSUME NEW T \in good, NEW x \in O \ T PROVE T \cup {x} \in good
    <2> DEFINE U == R \cup T
    <2>1. x \notin U /\ U \cup {x} \in SUBSET S /\ f[x] = 0
      OBVIOUS
    <2>2. Summable(f, U \cup {x})
      BY <2>1, FS_Subset DEF Summable
    <2>3. SumFunctionOnSet(f, U) = SumFunctionOnSet(f, R)
      OBVIOUS
    <2>4. R \cup (T \cup {x}) = U \cup {x}
      OBVIOUS
    <2> HIDE DEF U
    <2>5. SumFunctionOnSet(f, U \cup {x}) = SumFunctionOnSet(f, U) + f[x]
          /\ SumFunctionOnSet(f, U) \in Int
      BY <2>1, <2>2, SumMore
    <2>6. SumFunctionOnSet(f, U \cup {x}) = SumFunctionOnSet(f, U)
      BY <2>1, <2>5
    <2>7. SumFunctionOnSet(f, R \cup (T \cup {x})) = SumFunctionOnSet(f, R)
      BY <2>3, <2>4, <2>6
    <2> QED BY <2>7
  <1>3. O \in good
    <2>1. good \in SUBSET (SUBSET O) /\ IsFiniteSet(O)
      BY FS_Subset DEF Summable
    <2> HIDE DEF good, O
    <2> QED BY <1>1, <1>2, <2>1, SubsetsClosed
  <1>4. R \cup O = S
    OBVIOUS
  <1> QED BY <1>3, <1>4

(* A sum of nothing but c. *)
LEMMA SumConstant ==
  ASSUME NEW f, NEW S, IsFiniteSet(S), NEW c \in Int, \A x \in S : f[x] = c
  PROVE  SumFunctionOnSet(f, S) = Cardinality(S) * c
  <1> DEFINE good == {T \in SUBSET S : SumFunctionOnSet(f, T) = Cardinality(T) * c}
  <1>0. \A T \in SUBSET S : Summable(f, T) /\ Cardinality(T) \in Nat /\ IsFiniteSet(T)
    BY FS_Subset, FS_CardinalityType DEF Summable
  <1>1. {} \in good
    <2>1. {} \in SUBSET S
      OBVIOUS
    <2>2. SumFunctionOnSet(f, {}) = 0
      BY <1>0, <2>1, SumBasics
    <2>3. Cardinality({}) = 0
      BY FS_EmptySet
    <2> QED BY <2>2, <2>3
  <1>2. ASSUME NEW T \in good, NEW x \in S \ T PROVE T \cup {x} \in good
    <2> DEFINE U == T \cup {x}
    <2>1. U \in SUBSET S /\ x \notin T /\ T \in SUBSET S
      OBVIOUS
    <2>2. Summable(f, U)
      BY <1>0, <2>1
    <2>3. SumFunctionOnSet(f, U) = SumFunctionOnSet(f, T) + f[x]
      BY <2>1, <2>2, SumMore
    <2>4. Cardinality(U) = Cardinality(T) + 1
      BY <1>0, <2>1, FS_AddElement
    <2> DEFINE n == Cardinality(T)
    <2>5. n \in Nat
      BY <1>0, <2>1
    <2>6. SumFunctionOnSet(f, T) = n * c /\ f[x] = c
      OBVIOUS
    <2> HIDE DEF n
    <2>7. n * c + c = (n + 1) * c
      BY <2>5
    <2>8. SumFunctionOnSet(f, U) = (n + 1) * c
      BY <2>3, <2>6, <2>7
    <2>9. SumFunctionOnSet(f, U) = Cardinality(U) * c
      BY <2>4, <2>8 DEF n
    <2> QED BY <2>1, <2>9
  <1>3. S \in good
    <2>1. good \in SUBSET (SUBSET S)
      OBVIOUS
    <2> HIDE DEF good
    <2> QED BY <1>1, <1>2, <2>1, SubsetsClosed
  <1> QED BY <1>3

(* A sum of naturals is a natural, and at least each of them. *)
LEMMA SumOfNats ==
  ASSUME NEW f, NEW S, IsFiniteSet(S), \A x \in S : f[x] \in Nat
  PROVE  SumFunctionOnSet(f, S) \in Nat
  <1> DEFINE good == {T \in SUBSET S : SumFunctionOnSet(f, T) \in Nat}
  <1>0. \A T \in SUBSET S : Summable(f, T)
    BY FS_Subset DEF Summable
  <1>1. {} \in good
    <2>1. {} \in SUBSET S
      OBVIOUS
    <2>2. SumFunctionOnSet(f, {}) = 0
      BY <1>0, <2>1, SumBasics
    <2> QED BY <2>1, <2>2
  <1>2. ASSUME NEW T \in good, NEW x \in S \ T PROVE T \cup {x} \in good
    <2> DEFINE U == T \cup {x}
    <2>1. U \in SUBSET S /\ x \notin T
      OBVIOUS
    <2>2. Summable(f, U)
      BY <1>0, <2>1
    <2>3. SumFunctionOnSet(f, U) = SumFunctionOnSet(f, T) + f[x]
      BY <2>1, <2>2, SumMore
    <2>4. SumFunctionOnSet(f, T) \in Nat /\ f[x] \in Nat
      OBVIOUS
    <2>5. SumFunctionOnSet(f, U) \in Nat
      BY <2>3, <2>4
    <2> QED BY <2>1, <2>5
  <1>3. S \in good
    <2>1. good \in SUBSET (SUBSET S)
      OBVIOUS
    <2> HIDE DEF good
    <2> QED BY <1>1, <1>2, <2>1, SubsetsClosed
  <1> QED BY <1>3

-----------------------------------------------------------------------------
(* Sums over the first numbers. *)

Numbered(f, n) == \A i \in 1..n : f[i] \in Int

(* One number more. *)
LEMMA SumNext ==
  ASSUME NEW n \in Nat, NEW f, Numbered(f, n + 1)
  PROVE  /\ SumFunctionOnSet(f, 1..(n + 1)) = SumFunctionOnSet(f, 1..n) + f[n + 1]
         /\ SumFunctionOnSet(f, 1..n) \in Int
  <1> DEFINE S == 1..n x == n + 1
  <1>1. 1..(n + 1) = S \cup {x} /\ x \notin S
    OBVIOUS
  <1>2. IsFiniteSet(1..(n + 1))
    BY FS_Interval
  <1>3. Summable(f, S \cup {x})
    BY <1>1, <1>2 DEF Summable, Numbered
  <1> HIDE DEF S, x
  <1>4. /\ SumFunctionOnSet(f, S \cup {x}) = SumFunctionOnSet(f, S) + f[x]
        /\ SumFunctionOnSet(f, S) \in Int
    BY <1>1, <1>3, SumMore
  <1> QED BY <1>1, <1>4 DEF S, x

(* The sums of one, two, three and six numbers. *)
LEMMA SumFew ==
  ASSUME NEW f
  PROVE  /\ SumFunctionOnSet(f, 1..0) = 0
         /\ Numbered(f, 1) => SumFunctionOnSet(f, 1..1) = f[1]
         /\ Numbered(f, 2) => SumFunctionOnSet(f, 1..2) = f[1] + f[2]
         /\ Numbered(f, 3) => SumFunctionOnSet(f, 1..3) = f[1] + f[2] + f[3]
         /\ Numbered(f, 6) =>
              SumFunctionOnSet(f, 1..6) = f[1] + f[2] + f[3] + f[4] + f[5] + f[6]
  <1>0. SumFunctionOnSet(f, 1..0) = 0
    <2>1. Summable(f, {})
      BY FS_EmptySet DEF Summable
    <2>2. SumFunctionOnSet(f, {}) = 0
      BY <2>1, SumBasics
    <2>3. 1..0 = {}
      OBVIOUS
    <2> QED BY <2>2, <2>3
  <1>1. ASSUME NEW k \in Nat \ {0}, Numbered(f, k)
        PROVE  Numbered(f, k - 1) /\ f[k] \in Int
               /\ SumFunctionOnSet(f, 1..k) = SumFunctionOnSet(f, 1..(k - 1)) + f[k]
    <2>1. k - 1 \in Nat /\ (k - 1) + 1 = k
      OBVIOUS
    <2>2. Numbered(f, (k - 1) + 1)
      BY <1>1, <2>1
    <2>3. SumFunctionOnSet(f, 1..((k - 1) + 1)) = SumFunctionOnSet(f, 1..(k - 1)) + f[(k - 1) + 1]
      BY <2>1, <2>2, SumNext
    <2>4. Numbered(f, k - 1) /\ f[k] \in Int
      BY <1>1 DEF Numbered
    <2> QED BY <2>1, <2>3, <2>4
  <1>2. Numbered(f, 1) => Numbered(f, 0) /\ f[1] \in Int
          /\ SumFunctionOnSet(f, 1..1) = SumFunctionOnSet(f, 1..0) + f[1]
    <2>1. 1 \in Nat \ {0} /\ 1 - 1 = 0
      OBVIOUS
    <2> QED BY <1>1, <2>1
  <1>3. Numbered(f, 2) => Numbered(f, 1) /\ f[2] \in Int
          /\ SumFunctionOnSet(f, 1..2) = SumFunctionOnSet(f, 1..1) + f[2]
    <2>1. 2 \in Nat \ {0} /\ 2 - 1 = 1
      OBVIOUS
    <2> QED BY <1>1, <2>1
  <1>4. Numbered(f, 3) => Numbered(f, 2) /\ f[3] \in Int
          /\ SumFunctionOnSet(f, 1..3) = SumFunctionOnSet(f, 1..2) + f[3]
    <2>1. 3 \in Nat \ {0} /\ 3 - 1 = 2
      OBVIOUS
    <2> QED BY <1>1, <2>1
  <1>5. Numbered(f, 4) => Numbered(f, 3) /\ f[4] \in Int
          /\ SumFunctionOnSet(f, 1..4) = SumFunctionOnSet(f, 1..3) + f[4]
    <2>1. 4 \in Nat \ {0} /\ 4 - 1 = 3
      OBVIOUS
    <2> QED BY <1>1, <2>1
  <1>6. Numbered(f, 5) => Numbered(f, 4) /\ f[5] \in Int
          /\ SumFunctionOnSet(f, 1..5) = SumFunctionOnSet(f, 1..4) + f[5]
    <2>1. 5 \in Nat \ {0} /\ 5 - 1 = 4
      OBVIOUS
    <2> QED BY <1>1, <2>1
  <1>7. Numbered(f, 6) => Numbered(f, 5) /\ f[6] \in Int
          /\ SumFunctionOnSet(f, 1..6) = SumFunctionOnSet(f, 1..5) + f[6]
    <2>1. 6 \in Nat \ {0} /\ 6 - 1 = 5
      OBVIOUS
    <2> QED BY <1>1, <2>1
  <1>8. Numbered(f, 1) => f[1] \in Int /\ SumFunctionOnSet(f, 1..1) = f[1]
    BY <1>0, <1>2
  <1>9. Numbered(f, 2) => f[2] \in Int /\ SumFunctionOnSet(f, 1..2) = f[1] + f[2]
    BY <1>3, <1>8
  <1>10. Numbered(f, 3) => f[3] \in Int /\ SumFunctionOnSet(f, 1..3) = f[1] + f[2] + f[3]
    BY <1>4, <1>9
  <1>11. Numbered(f, 6) =>
           SumFunctionOnSet(f, 1..6) = f[1] + f[2] + f[3] + f[4] + f[5] + f[6]
    BY <1>5, <1>6, <1>7, <1>10
  <1> QED BY <1>0, <1>8, <1>9, <1>10, <1>11

(* Two numbers, and all the others. *)
LEMMA SumTwoAndRest ==
  ASSUME NEW n \in Nat, NEW f, NEW g, Numbered(f, n + 2), \A i \in 1..n : g[i] = f[i + 2]
  PROVE  SumFunctionOnSet(f, 1..(n + 2)) = f[1] + f[2] + SumFunctionOnSet(g, 1..n)
         /\ SumFunctionOnSet(g, 1..n) \in Int /\ f[1] \in Int /\ f[2] \in Int
  <1> DEFINE good == {k \in Nat : k <= n =>
                SumFunctionOnSet(f, 1..(k + 2)) = f[1] + f[2] + SumFunctionOnSet(g, 1..k)}
  <1>1. f[1] \in Int /\ f[2] \in Int
    BY DEF Numbered
  <1>2. 0 \in good
    <2>1. Numbered(f, 2)
      BY DEF Numbered
    <2>2. SumFunctionOnSet(f, 1..2) = f[1] + f[2] /\ SumFunctionOnSet(g, 1..0) = 0
      BY <2>1, SumFew
    <2>3. SumFunctionOnSet(f, 1..(0 + 2)) = f[1] + f[2] + SumFunctionOnSet(g, 1..0)
      BY <1>1, <2>2
    <2> QED BY <2>3
  <1>3. ASSUME NEW k \in good PROVE k + 1 \in good
    <2> SUFFICES ASSUME k + 1 <= n
                 PROVE SumFunctionOnSet(f, 1..((k + 1) + 2))
                         = f[1] + f[2] + SumFunctionOnSet(g, 1..(k + 1))
      OBVIOUS
    <2>1. k \in Nat
      OBVIOUS
    <2>2. Numbered(f, (k + 2) + 1) /\ Numbered(g, k + 1) /\ g[k + 1] = f[(k + 2) + 1]
      BY <2>1 DEF Numbered
    <2>3. k + 2 \in Nat
      BY <2>1
    <2>4. /\ SumFunctionOnSet(f, 1..((k + 2) + 1)) = SumFunctionOnSet(f, 1..(k + 2)) + f[(k + 2) + 1]
          /\ SumFunctionOnSet(g, 1..(k + 1)) = SumFunctionOnSet(g, 1..k) + g[k + 1]
          /\ SumFunctionOnSet(g, 1..k) \in Int
      BY <2>1, <2>2, <2>3, SumNext
    <2>5. SumFunctionOnSet(f, 1..(k + 2)) = f[1] + f[2] + SumFunctionOnSet(g, 1..k)
      BY <2>1
    <2>6. g[k + 1] \in Int
      BY <2>1, <2>2 DEF Numbered
    <2>7. (k + 1) + 2 = (k + 2) + 1
      BY <2>1
    <2> HIDE DEF good
    <2>8. SumFunctionOnSet(f, 1..((k + 2) + 1)) = f[1] + f[2] + SumFunctionOnSet(g, 1..(k + 1))
      BY <1>1, <2>2, <2>4, <2>5, <2>6
    <2> QED BY <2>7, <2>8
  <1>4. n \in good
    <2>1. good \in SUBSET Nat
      OBVIOUS
    <2> HIDE DEF good
    <2> QED BY <1>2, <1>3, <2>1, NatClosed
  <1>5. SumFunctionOnSet(g, 1..n) \in Int
    <2>1. IsFiniteSet(1..n)
      BY FS_Interval
    <2>2. \A i \in 1..n : g[i] \in Int
      BY DEF Numbered
    <2>3. Summable(g, 1..n)
      BY <2>1, <2>2 DEF Summable
    <2> QED BY <2>3, SumBasics
  <1> QED BY <1>1, <1>4, <1>5

(* A sequence without repetition has as many elements as places. *)
LEMMA ElementsAreCounted ==
  ASSUME NEW S, NEW s \in Seq(S), IsInjective(s)
  PROVE  IsFiniteSet(Range(s)) /\ Cardinality(Range(s)) = Len(s)
  <1> DEFINE R == Range(s)
  <1>1. s \in [1..Len(s) -> R]
    BY DEF Range
  <1>2. s \in Injection(1..Len(s), R)
    BY <1>1 DEF Injection
  <1>3. s \in Surjection(1..Len(s), R)
    BY <1>1 DEF Surjection, Range
  <1>4. ExistsBijection(1..Len(s), R)
    BY <1>2, <1>3 DEF Bijection, ExistsBijection
  <1>5. IsFiniteSet(1..Len(s)) /\ Cardinality(1..Len(s)) = Len(s)
    <2>1. PICK n \in Nat : n = Len(s)
      OBVIOUS
    <2>2. IsFiniteSet(1..n) /\ Cardinality(1..n) = IF 1 > n THEN 0 ELSE n - 1 + 1
      BY FS_Interval
    <2> QED BY <2>1, <2>2
  <1> QED BY <1>4, <1>5, FS_Bijection

(* A sum of zeros but for one element. *)
LEMMA SumOnlyOne ==
  ASSUME NEW f, NEW S, Summable(f, S), NEW x \in S, \A y \in S : y # x => f[y] = 0
  PROVE  SumFunctionOnSet(f, S) = f[x]
  <1>1. Summable(f, {}) /\ Summable(f, {x}) /\ {x} \in SUBSET S
    BY FS_EmptySet, FS_Singleton DEF Summable
  <1>2. SumFunctionOnSet(f, S) = SumFunctionOnSet(f, {x})
    BY <1>1, SumZeros
  <1>3. SumFunctionOnSet(f, {x}) = f[x] + SumFunctionOnSet(f, {x} \ {x})
    BY <1>1, SumBasics
  <1>4. {x} \ {x} = {} /\ SumFunctionOnSet(f, {}) = 0
    BY <1>1, SumBasics
  <1>5. f[x] \in Int
    BY DEF Summable
  <1> QED BY <1>2, <1>3, <1>4, <1>5

(* An element of a sum of naturals is no more than the sum. *)
LEMMA SumAtLeast ==
  ASSUME NEW f, NEW S, IsFiniteSet(S), \A x \in S : f[x] \in Nat, NEW x \in S
  PROVE  f[x] <= SumFunctionOnSet(f, S)
  <1> DEFINE R == S \ {x}
  <1>1. Summable(f, S) /\ IsFiniteSet(R) /\ \A y \in R : f[y] \in Nat
    BY FS_RemoveElement DEF Summable
  <1>2. SumFunctionOnSet(f, S) = f[x] + SumFunctionOnSet(f, R)
    BY <1>1, SumBasics
  <1> HIDE DEF R
  <1>3. SumFunctionOnSet(f, R) \in Nat
    BY <1>1, SumOfNats
  <1> QED BY <1>2, <1>3

(* A sum over two parts. *)
LEMMA SumSplit ==
  ASSUME NEW f, NEW S, NEW R \in SUBSET S, Summable(f, S)
  PROVE  SumFunctionOnSet(f, S) = SumFunctionOnSet(f, R) + SumFunctionOnSet(f, S \ R)
  <1> DEFINE O == S \ R
             g == [x \in S |-> IF x \in R THEN f[x] ELSE 0]
             h == [x \in S |-> IF x \in R THEN 0 ELSE f[x]]
  <1>1. O \in SUBSET S /\ S \ O = R
    OBVIOUS
  <1>2. IsFiniteSet(R) /\ IsFiniteSet(O) /\ Summable(g, S) /\ Summable(h, S)
    BY <1>1, FS_Subset DEF Summable
  <1>3. \A x \in S : f[x] = g[x] + h[x]
    BY DEF Summable
  <1>4. /\ \A x \in R : g[x] = f[x]
        /\ \A x \in O : h[x] = f[x]
        /\ \A x \in S \ R : g[x] = 0
        /\ \A x \in S \ O : h[x] = 0
    OBVIOUS
  <1> HIDE DEF O, g, h
  <1>5. SumFunctionOnSet(f, S) = SumFunctionOnSet(g, S) + SumFunctionOnSet(h, S)
    BY <1>2, <1>3, SumPlus
  <1>6. SumFunctionOnSet(g, S) = SumFunctionOnSet(g, R)
    BY <1>2, <1>4, SumZeros
  <1>7. SumFunctionOnSet(h, S) = SumFunctionOnSet(h, O)
    BY <1>1, <1>2, <1>4, SumZeros
  <1>8. SumFunctionOnSet(g, R) = SumFunctionOnSet(f, R)
    BY <1>2, <1>4, SumSame
  <1>9. SumFunctionOnSet(h, O) = SumFunctionOnSet(f, O)
    BY <1>2, <1>4, SumSame
  <1> QED BY <1>5, <1>6, <1>7, <1>8, <1>9 DEF O

-----------------------------------------------------------------------------
(* Maxima and folds. *)

(* An element that no other exceeds is the maximum. *)
LEMMA LargestIsMax ==
  ASSUME NEW S \in SUBSET Int, NEW x \in S, \A y \in S : y <= x
  PROVE  Max(S) = x
  <1>1. \A z \in S : (\A y \in S : z >= y) => z = x
    <2> SUFFICES ASSUME NEW z \in S, \A y \in S : z >= y PROVE z = x
      OBVIOUS
    <2>1. z >= x /\ z <= x /\ z \in Int /\ x \in Int
      OBVIOUS
    <2> QED BY <2>1
  <1>2. \A y \in S : x >= y
    OBVIOUS
  <1> QED BY <1>1, <1>2 DEF Max

(* A finite set has an element with the largest number. *)
LEMMA LargestExists ==
  ASSUME NEW f, NEW S, IsFiniteSet(S), S # {}, \A x \in S : f[x] \in Nat
  PROVE  \E x \in S : \A y \in S : f[y] <= f[x]
  <1> DEFINE good == {T \in SUBSET S : T = {} \/ \E x \in T : \A y \in T : f[y] <= f[x]}
  <1>1. {} \in good
    OBVIOUS
  <1>2. ASSUME NEW T \in good, NEW x \in S \ T PROVE T \cup {x} \in good
    <2>1. CASE T = {}
      BY <2>1
    <2>2. CASE T # {}
      <3>1. PICK z \in T : \A y \in T : f[y] <= f[z]
        BY <2>2
      <3>2. CASE f[x] <= f[z]
        BY <3>1, <3>2
      <3>3. CASE ~(f[x] <= f[z])
        <4>1. \A y \in T \cup {x} : f[y] \in Nat
          OBVIOUS
        <4>2. \A y \in T \cup {x} : f[y] <= f[x]
          BY <3>1, <3>3, <4>1
        <4> QED BY <4>2
      <3> QED BY <3>2, <3>3
    <2> QED BY <2>1, <2>2
  <1>3. S \in good
    <2>1. good \in SUBSET (SUBSET S)
      OBVIOUS
    <2> HIDE DEF good
    <2> QED BY <1>1, <1>2, <2>1, SubsetsClosed
  <1> QED BY <1>3

(* The largest of the first numbers. *)
LEMMA MaxOfInterval ==
  ASSUME NEW k \in Nat \ {0}, NEW S \in SUBSET (1 .. k), k \in S
  PROVE  Max(S) = k
  <1>1. \A y \in S : k >= y
    OBVIOUS
  <1>2. \A x \in S : (\A y \in S : x >= y) => x = k
    BY <1>1
  <1> QED BY <1>1, <1>2 DEF Max

(* g folds step over every set of the numbers up to k, from base. *)
FoldsTo(step, base, k, g) ==
  g = [S \in SUBSET (1 .. k) |->
         IF S = {} THEN base ELSE step[<<g[S \ {Max(S)}], Max(S)>>]]

(* From k numbers to one more. *)
LEMMA OneNumberMore ==
  ASSUME NEW step, NEW base, NEW k \in Nat, NEW g, FoldsTo(step, base, k, g)
  PROVE  \E f : FoldsTo(step, base, k + 1, f)
  <1> DEFINE f == [S \in SUBSET (1 .. k + 1) |->
                     IF k + 1 \in S THEN step[<<g[S \ {k + 1}], k + 1>>] ELSE g[S]]
             r == [S \in SUBSET (1 .. k + 1) |->
                     IF S = {} THEN base ELSE step[<<f[S \ {Max(S)}], Max(S)>>]]
  <1>1. ASSUME NEW S \in SUBSET (1 .. k + 1) PROVE f[S] = r[S]
    <2>1. CASE k + 1 \in S
      <3>1. Max(S) = k + 1
        BY <2>1, MaxOfInterval
      <3>2. S \ {k + 1} \in SUBSET (1 .. k + 1) /\ k + 1 \notin S \ {k + 1}
        OBVIOUS
      <3>3. f[S \ {k + 1}] = g[S \ {k + 1}]
        BY <3>2
      <3>4. S # {}
        BY <2>1
      <3> QED BY <2>1, <3>1, <3>3, <3>4
    <2>2. CASE k + 1 \notin S
      <3>1. S \in SUBSET (1 .. k)
        BY <2>2
      <3>2. g[S] = IF S = {} THEN base ELSE step[<<g[S \ {Max(S)}], Max(S)>>]
        BY <3>1 DEF FoldsTo
      <3>3. f[S \ {Max(S)}] = g[S \ {Max(S)}]
        BY <2>2
      <3>4. f[S] = g[S]
        BY <2>2
      <3> QED BY <3>2, <3>3, <3>4
    <2> QED BY <2>1, <2>2
  <1>2. f = r
    BY <1>1
  <1>3. FoldsTo(step, base, k + 1, f)
    BY <1>2 DEF FoldsTo
  <1> QED BY <1>3

(* So there is a fold over any number of numbers. *)
LEMMA FoldExists ==
  ASSUME NEW step, NEW base, NEW k \in Nat
  PROVE  \E g : FoldsTo(step, base, k, g)
  <1> DEFINE Failing == {j \in Nat : ~\E g : FoldsTo(step, base, j, g)}
  <1> SUFFICES ASSUME Failing # {} PROVE FALSE
    OBVIOUS
  <1>1. PICK j \in Failing : \A m \in Failing : j <= m
    BY LeastNatural
  <1>2. CASE j = 0
    <2> DEFINE g == [S \in SUBSET (1 .. 0) |-> base]
    <2>1. \A S \in SUBSET (1 .. 0) : S = {}
      OBVIOUS
    <2>2. g = [S \in SUBSET (1 .. 0) |->
                 IF S = {} THEN base ELSE step[<<g[S \ {Max(S)}], Max(S)>>]]
      BY <2>1
    <2>3. FoldsTo(step, base, 0, g)
      BY <2>2 DEF FoldsTo
    <2> QED BY <1>2, <2>3
  <1>3. CASE j # 0
    <2>1. j - 1 \in Nat /\ j - 1 \notin Failing
      BY <1>1, <1>3
    <2>2. PICK g : FoldsTo(step, base, j - 1, g)
      BY <2>1
    <2>3. \E f : FoldsTo(step, base, (j - 1) + 1, f)
      BY <2>1, <2>2, OneNumberMore
    <2> QED BY <2>3
  <1> QED BY <1>2, <1>3

(* The largest of numbers up to k is one of them. *)
LEMMA MaxIsThere ==
  ASSUME NEW k \in Nat, NEW S \in SUBSET (1 .. k), S # {}
  PROVE  Max(S) \in S
  <1>1. IsFiniteSet(S)
    <2>1. IsFiniteSet(1 .. k)
      BY FS_Interval
    <2> QED BY <2>1, FS_Subset
  <1> DEFINE id == [i \in S |-> i]
  <1>2. \A x \in S : id[x] \in Nat
    OBVIOUS
  <1> HIDE DEF id
  <1>3. PICK x \in S : \A y \in S : id[y] <= id[x]
    BY <1>1, <1>2, LargestExists
  <1>4. \A y \in S : y <= x
    BY <1>3 DEF id
  <1> QED BY <1>4, LargestIsMax

(* A fold stays among the values its step stays among. *)
LEMMA FoldStays ==
  ASSUME NEW k \in Nat, NEW D, NEW base \in D, NEW step, NEW g, FoldsTo(step, base, k, g),
         \A s \in D, i \in 1 .. k : step[<<s, i>>] \in D
  PROVE  \A S \in SUBSET (1 .. k) : g[S] \in D
  <1> DEFINE good == {m \in Nat : m <= k => \A S \in SUBSET (1 .. m) : g[S] \in D}
  <1>1. \A S \in SUBSET (1 .. k) :
          g[S] = IF S = {} THEN base ELSE step[<<g[S \ {Max(S)}], Max(S)>>]
    BY DEF FoldsTo
  <1>2. 0 \in good
    <2>1. \A S \in SUBSET (1 .. 0) : S = {} /\ S \in SUBSET (1 .. k)
      OBVIOUS
    <2> QED BY <1>1, <2>1
  <1>3. ASSUME NEW m \in good PROVE m + 1 \in good
    <2> SUFFICES ASSUME m + 1 <= k, NEW S \in SUBSET (1 .. m + 1) PROVE g[S] \in D
      OBVIOUS
    <2>1. m \in Nat /\ m <= k /\ \A T \in SUBSET (1 .. m) : g[T] \in D
      OBVIOUS
    <2>2. S \in SUBSET (1 .. k)
      BY <2>1
    <2>3. CASE m + 1 \in S
      <3>1. Max(S) = m + 1
        <4>1. m + 1 \in Nat \ {0}
          BY <2>1
        <4> QED BY <2>3, <4>1, MaxOfInterval
      <3>2. S \ {m + 1} \in SUBSET (1 .. m) /\ m + 1 \in 1 .. k
        BY <2>1
      <3>3. g[S \ {m + 1}] \in D
        BY <2>1, <3>2
      <3>4. step[<<g[S \ {m + 1}], m + 1>>] \in D
        BY <3>2, <3>3
      <3> QED BY <1>1, <2>2, <2>3, <3>1, <3>4
    <2>4. CASE m + 1 \notin S
      <3>1. S \in SUBSET (1 .. m)
        BY <2>1, <2>4
      <3> QED BY <2>1, <3>1
    <2> QED BY <2>3, <2>4
  <1>4. k \in good
    <2>1. good \in SUBSET Nat
      OBVIOUS
    <2> HIDE DEF good
    <2> QED BY <1>2, <1>3, <2>1, NatClosed
  <1> QED BY <1>4
=============================================================================
