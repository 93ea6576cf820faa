------------------------------ MODULE SumLemmas ------------------------------
(***************************************************************************)
(* Sums over finite sets, the way the modules take them: stock in open     *)
(* transactions, money of an order's refunds, lines of a cart.             *)
(*                                                                         *)
(* SumFunctionOnSet is a fold, and the induction it calls for is stated    *)
(* here without an operator to instantiate: a family of subsets of a       *)
(* finite set has a least member, and a claim that fails somewhere fails   *)
(* first at such a one.                                                    *)
(***************************************************************************)
EXTENDS Functions, FiniteSetTheorems, TLAPS

(* The counterexamples of a claim about the subsets of a finite set, if    *)
(* there are any, have one that contains no smaller one.                   *)
LEMMA LeastSubset ==
  ASSUME NEW S, IsFiniteSet(S), NEW F, F \subseteq SUBSET S, F # {}
  PROVE  \E T \in F : \A U \in F : U \subseteq T => U = T
<1>1. IsWellFoundedOn(StrictSubsetOrdering(S), FiniteSubsetsOf(S))
  BY FS_StrictSubsetOrderingWellFounded
<1>2. F \subseteq FiniteSubsetsOf(S)
  BY FS_FiniteSubsetsOfFinite
<1>3. PICK T \in F : \A U \in F : ~ (<<U, T>> \in StrictSubsetOrdering(S))
  BY <1>1, <1>2, WFMin
<1>4. QED
  BY <1>3 DEF StrictSubsetOrdering

-----------------------------------------------------------------------------
(* The fold of SumFunctionOnSet: an element at a time, by choice.          *)
Pick(S) == CHOOSE x \in S : TRUE
SumStep(f, h, s) == IF s = {} THEN 0 ELSE f[Pick(s)] + h[s \ {Pick(s)}]
IsSum(f, h, S) == h = [s \in SUBSET S |-> SumStep(f, h, s)]

(* The element that the fold takes first is one of the set.                *)
LEMMA PickIn == ASSUME NEW S, S # {} PROVE Pick(S) \in S
  BY DEF Pick

(* The library's definition in these terms.                                *)
LEMMA SumIs ==
  ASSUME NEW f, NEW S
  PROVE  SumFunctionOnSet(f, S) = (CHOOSE h : IsSum(f, h, S))[S]
  BY DEF SumFunctionOnSet, FoldFunctionOnSet, MapThenFoldSet, IsSum, SumStep, Pick

(* Two of them agree where both are defined.                               *)
LEMMA SumUnique ==
  ASSUME NEW f, NEW S, IsFiniteSet(S), NEW T \in SUBSET S, NEW g, NEW h,
         IsSum(f, g, S), IsSum(f, h, T)
  PROVE  g[T] = h[T]
<1> DEFINE F == {U \in SUBSET T : g[U] # h[U]}
<1>1. SUFFICES ASSUME F # {} PROVE FALSE
  OBVIOUS
<1>2. PICK U \in F : \A V \in F : V \subseteq U => V = U
  <2>1. F \subseteq SUBSET S
    OBVIOUS
  <2> HIDE DEF F
  <2>2. QED
    BY <1>1, <2>1, LeastSubset
<1>3. g[U] = SumStep(f, g, U) /\ h[U] = SumStep(f, h, U)
  BY DEF IsSum
<1>4. CASE U = {}
  BY <1>3, <1>4 DEF SumStep
<1>5. CASE U # {}
  <2>1. U \ {Pick(U)} \notin F
    BY <1>2, <1>5, PickIn
  <2>2. QED
    BY <2>1, <1>3, <1>5 DEF SumStep
<1>6. QED
  BY <1>4, <1>5

(* A set of natural numbers has a least one.                               *)
LEMMA LeastNumber ==
  ASSUME NEW N, N \subseteq Nat, N # {}
  PROVE  \E n \in N : \A m \in N : n <= m
<1>1. PICK k \in N : TRUE
  OBVIOUS
<1> DEFINE D == 0 .. k
           F == {0 .. n : n \in {m \in N : m <= k}}
<1>2. PICK T \in F : \A U \in F : U \subseteq T => U = T
  <2>1. IsFiniteSet(D)
    BY FS_Interval
  <2>2. F \subseteq SUBSET D /\ F # {}
    BY <1>1
  <2> HIDE DEF F, D
  <2>3. QED
    BY <2>1, <2>2, LeastSubset
<1>3. PICK n \in N : n <= k /\ T = 0 .. n
  OBVIOUS
<1>4. ASSUME NEW m \in N, m < n
      PROVE  FALSE
  <2>1. 0 .. m \in F
    BY <1>3, <1>4
  <2>2. 0 .. m \subseteq T
    BY <1>3, <1>4
  <2>3. n \notin 0 .. m /\ n \in 0 .. n
    BY <1>4
  <2>4. QED
    BY <1>2, <1>3, <2>1, <2>2, <2>3
<1>5. QED
  BY <1>4

(* A finite number of them have a greatest: the one with the fewest above. *)
LEMMA FewestAbove ==
  ASSUME NEW S, S # {}, IsFiniteSet(S), NEW up, \A x \in S : up[x] \subseteq S
  PROVE  \E n \in S : \A m \in S : up[m] \subseteq up[n] => up[m] = up[n]
<1> DEFINE F == {U \in SUBSET S : \E x \in S : U = up[x]}
<1>1. F \subseteq SUBSET S /\ F # {}
  OBVIOUS
<1>2. PICK T \in F : \A U \in F : U \subseteq T => U = T
  <2> HIDE DEF F
  <2>1. QED
    BY <1>1, LeastSubset
<1>3. QED
  BY <1>2

LEMMA GreatestNumber ==
  ASSUME NEW S, S # {}, IsFiniteSet(S), NEW f, \A x \in S : f[x] \in Nat
  PROVE  \E n \in S : \A m \in S : f[m] <= f[n]
<1> DEFINE up == [x \in S |-> {y \in S : f[x] < f[y]}]
<1>1. PICK n \in S : \A m \in S : up[m] \subseteq up[n] => up[m] = up[n]
  <2>1. \A x \in S : up[x] \subseteq S
    OBVIOUS
  <2> HIDE DEF up
  <2>2. QED
    BY <2>1, FewestAbove
<1>2. ASSUME NEW m \in S, f[n] < f[m] PROVE FALSE
  <2>1. \A y \in S : f[m] < f[y] => f[n] < f[y]
    BY <1>2
  <2>2. up[m] \subseteq up[n] /\ m \in up[n] /\ m \notin up[m]
    BY <1>2, <2>1
  <2> HIDE DEF up
  <2>3. QED
    BY <1>1, <2>2
<1>3. QED
  BY <1>2

(* The sums of the subsets with up to n elements.                          *)
SumUpTo(f, h, S, n) ==
  h = [s \in {t \in SUBSET S : Cardinality(t) <= n} |-> SumStep(f, h, s)]

(* The recursion has a solution on every finite set, by induction on the   *)
(* number of elements.                                                     *)
LEMMA SumExists ==
  ASSUME NEW f, NEW S, IsFiniteSet(S)
  PROVE  \E h : IsSum(f, h, S)
<1> DEFINE N == {n \in Nat : ~ \E h : SumUpTo(f, h, S, n)}
<1>1. N = {}
  <2>1. SUFFICES ASSUME N # {} PROVE FALSE
    OBVIOUS
  <2>2. PICK n \in N : \A m \in N : n <= m
    BY <2>1, LeastNumber
  <2>3. \A s \in SUBSET S : IsFiniteSet(s) /\ Cardinality(s) \in Nat
    BY FS_Subset, FS_CardinalityType
  <2>4. CASE n = 0
    <3>1. \A s \in SUBSET S : Cardinality(s) <= 0 <=> s = {}
      BY <2>3, FS_EmptySet
    <3> DEFINE h == [s \in {t \in SUBSET S : Cardinality(t) <= 0} |-> 0]
    <3>2. SumUpTo(f, h, S, 0)
      BY <3>1 DEF SumUpTo, SumStep
    <3>3. QED
      BY <3>2, <2>4
  <2>5. CASE n # 0
    <3>1. PICK h : SumUpTo(f, h, S, n - 1)
      BY <2>5, <2>2
    <3> DEFINE D == {t \in SUBSET S : Cardinality(t) <= n}
               g == [s \in D |-> SumStep(f, h, s)]
    <3>2. ASSUME NEW s \in D, s # {}
          PROVE  s \ {Pick(s)} \in D /\ Cardinality(s \ {Pick(s)}) <= n - 1
      BY <3>2, <2>2, <2>3, PickIn, FS_RemoveElement
    <3>3. ASSUME NEW s \in D, s # {}
          PROVE  g[s \ {Pick(s)}] = h[s \ {Pick(s)}]
      BY <3>1, <3>2, <3>3 DEF SumUpTo
    <3>4. SumUpTo(f, g, S, n)
      BY <3>3 DEF SumUpTo, SumStep
    <3>5. QED
      BY <3>4
  <2>6. QED
    BY <2>4, <2>5
<1>2. Cardinality(S) \in Nat /\ \A s \in SUBSET S : Cardinality(s) <= Cardinality(S)
  BY FS_Subset, FS_CardinalityType
<1>3. PICK h : SumUpTo(f, h, S, Cardinality(S))
  BY <1>1, <1>2
<1>4. IsSum(f, h, S)
  <2>1. {t \in SUBSET S : Cardinality(t) <= Cardinality(S)} = SUBSET S
    BY <1>2
  <2>2. QED
    BY <1>3, <2>1 DEF SumUpTo, IsSum
<1>5. QED
  BY <1>4

(* Hence the sum is what its definition says of it.                        *)
LEMMA SumUnfold ==
  ASSUME NEW f, NEW S, IsFiniteSet(S)
  PROVE  SumFunctionOnSet(f, S) =
           IF S = {} THEN 0
           ELSE f[Pick(S)] + SumFunctionOnSet(f, S \ {Pick(S)})
<1> DEFINE Iter(T) == CHOOSE h : IsSum(f, h, T)
<1>1. \A T \in SUBSET S : IsSum(f, Iter(T), T)
  BY SumExists, FS_Subset
<1>2. \A T \in SUBSET S : SumFunctionOnSet(f, T) = Iter(T)[T]
  BY SumIs
<1> HIDE DEF Iter
<1>3. Iter(S)[S] = SumStep(f, Iter(S), S)
  BY <1>1 DEF IsSum
<1>4. CASE S = {}
  BY <1>2, <1>3, <1>4 DEF SumStep
<1>5. CASE S # {}
  <2>1. Iter(S)[S \ {Pick(S)}] = Iter(S \ {Pick(S)})[S \ {Pick(S)}]
    BY <1>1, SumUnique
  <2>2. QED
    BY <2>1, <1>2, <1>3, <1>5 DEF SumStep
<1>6. QED
  BY <1>4, <1>5

-----------------------------------------------------------------------------
(* Nothing adds up to zero.                                                *)
LEMMA SumEmpty == ASSUME NEW f PROVE SumFunctionOnSet(f, {}) = 0
  BY SumUnfold, FS_EmptySet

(* Integers add up to an integer.                                          *)
LEMMA SumType ==
  ASSUME NEW f, NEW S, IsFiniteSet(S), \A x \in S : f[x] \in Int
  PROVE  SumFunctionOnSet(f, S) \in Int
<1> DEFINE F == {T \in SUBSET S : SumFunctionOnSet(f, T) \notin Int}
<1>1. SUFFICES ASSUME F # {} PROVE FALSE
  OBVIOUS
<1>2. PICK T \in F : \A U \in F : U \subseteq T => U = T
  <2>1. F \subseteq SUBSET S
    OBVIOUS
  <2> HIDE DEF F
  <2>2. QED
    BY <1>1, <2>1, LeastSubset
<1>3. IsFiniteSet(T) /\ T \subseteq S
  BY FS_Subset
<1>4. T # {}
  BY SumEmpty
<1>5. T \ {Pick(T)} \notin F /\ Pick(T) \in T
  BY <1>2, <1>4, PickIn
<1>6. SumFunctionOnSet(f, T \ {Pick(T)}) \in Int /\ f[Pick(T)] \in Int
  BY <1>3, <1>5
<1>7. QED
  BY <1>3, <1>4, <1>6, SumUnfold

(* The sum may be taken in any order.                                      *)
LEMMA SumRemove ==
  ASSUME NEW f, NEW S, IsFiniteSet(S), \A x \in S : f[x] \in Int, NEW r \in S
  PROVE  SumFunctionOnSet(f, S) = f[r] + SumFunctionOnSet(f, S \ {r})
<1> DEFINE Splits(T, x) == SumFunctionOnSet(f, T) = f[x] + SumFunctionOnSet(f, T \ {x})
           F == {T \in SUBSET S : \E x \in T : ~ Splits(T, x)}
<1>1. SUFFICES ASSUME F # {} PROVE FALSE
  OBVIOUS
<1>2. PICK T \in F : \A U \in F : U \subseteq T => U = T
  <2>1. F \subseteq SUBSET S
    OBVIOUS
  <2> HIDE DEF F
  <2>2. QED
    BY <1>1, <2>1, LeastSubset
<1>3. PICK x \in T : ~ Splits(T, x)
  OBVIOUS
<1> DEFINE y    == Pick(T)
           rest == T \ {x, y}
<1>4. T \subseteq S /\ y \in T
  BY PickIn
<1>5. \A U \in SUBSET S : IsFiniteSet(U) /\ SumFunctionOnSet(f, U) \in Int
  BY FS_Subset, SumType
<1>6. SumFunctionOnSet(f, T) = f[y] + SumFunctionOnSet(f, T \ {y})
  BY <1>4, <1>5, SumUnfold
<1>7. x # y
  BY <1>3, <1>6
<1>8. SumFunctionOnSet(f, T \ {y}) = f[x] + SumFunctionOnSet(f, rest)
  <2>1. T \ {y} \notin F
    BY <1>2, <1>4
  <2>2. (T \ {y}) \ {x} = rest
    OBVIOUS
  <2>3. QED
    BY <2>1, <2>2, <1>4, <1>7
<1>9. SumFunctionOnSet(f, T \ {x}) = f[y] + SumFunctionOnSet(f, rest)
  <2>1. T \ {x} \notin F
    BY <1>2
  <2>2. (T \ {x}) \ {y} = rest
    OBVIOUS
  <2>3. QED
    BY <2>1, <2>2, <1>4, <1>7
<1>10. f[x] \in Int /\ f[y] \in Int /\ SumFunctionOnSet(f, rest) \in Int
  BY <1>4, <1>5
<1>11. f[y] + (f[x] + SumFunctionOnSet(f, rest)) = f[x] + (f[y] + SumFunctionOnSet(f, rest))
  <2> HIDE DEF rest, y
  <2>1. QED
    BY <1>10
<1>12. SumFunctionOnSet(f, T) = f[x] + SumFunctionOnSet(f, T \ {x})
  <2> HIDE DEF rest, y
  <2>1. QED
    BY <1>6, <1>8, <1>9, <1>11
<1>13. QED
  BY <1>3, <1>12

(* It depends on the values on the set only.                               *)
LEMMA SumSame ==
  ASSUME NEW f, NEW g, NEW S, IsFiniteSet(S), \A x \in S : f[x] = g[x]
  PROVE  SumFunctionOnSet(f, S) = SumFunctionOnSet(g, S)
<1> DEFINE F == {T \in SUBSET S : SumFunctionOnSet(f, T) # SumFunctionOnSet(g, T)}
<1>1. SUFFICES ASSUME F # {} PROVE FALSE
  OBVIOUS
<1>2. PICK T \in F : \A U \in F : U \subseteq T => U = T
  <2>1. F \subseteq SUBSET S
    OBVIOUS
  <2> HIDE DEF F
  <2>2. QED
    BY <1>1, <2>1, LeastSubset
<1>3. IsFiniteSet(T) /\ T \subseteq S
  BY FS_Subset
<1>4. T # {}
  BY SumEmpty
<1>5. T \ {Pick(T)} \notin F /\ Pick(T) \in T
  BY <1>2, <1>4, PickIn
<1>6. SumFunctionOnSet(f, T \ {Pick(T)}) = SumFunctionOnSet(g, T \ {Pick(T)})
  BY <1>3, <1>5
<1>7. SumFunctionOnSet(f, T) = SumFunctionOnSet(g, T)
  BY <1>3, <1>4, <1>5, <1>6, SumUnfold
<1>8. QED
  BY <1>7

(* When one of the values changes, so does the sum.                        *)
LEMMA SumUpdate ==
  ASSUME NEW f, NEW g, NEW S, IsFiniteSet(S), NEW r \in S,
         \A x \in S : f[x] \in Int /\ g[x] \in Int,
         \A x \in S \ {r} : f[x] = g[x]
  PROVE  SumFunctionOnSet(g, S) = SumFunctionOnSet(f, S) + (g[r] - f[r])
<1>1. SumFunctionOnSet(f, S) = f[r] + SumFunctionOnSet(f, S \ {r})
  BY SumRemove
<1>2. SumFunctionOnSet(g, S) = g[r] + SumFunctionOnSet(g, S \ {r})
  BY SumRemove
<1>3. SumFunctionOnSet(f, S \ {r}) = SumFunctionOnSet(g, S \ {r})
  BY FS_Subset, SumSame
<1>4. IsFiniteSet(S \ {r})
  BY FS_Subset
<1>5. SumFunctionOnSet(f, S \ {r}) \in Int
  BY <1>4, SumType
<1>6. QED
  BY <1>1, <1>2, <1>3, <1>5

(* An element joins the set.                                               *)
LEMMA SumAdd ==
  ASSUME NEW f, NEW S, NEW r, IsFiniteSet(S), r \notin S,
         \A x \in S \cup {r} : f[x] \in Int
  PROVE  SumFunctionOnSet(f, S \cup {r}) = f[r] + SumFunctionOnSet(f, S)
<1>1. IsFiniteSet(S \cup {r}) /\ (S \cup {r}) \ {r} = S
  BY FS_AddElement
<1>2. QED
  BY <1>1, SumRemove

(* Natural numbers add up to a natural number.                             *)
LEMMA SumNatural ==
  ASSUME NEW f, NEW S, IsFiniteSet(S), \A x \in S : f[x] \in Nat
  PROVE  SumFunctionOnSet(f, S) \in Nat
<1> DEFINE F == {T \in SUBSET S : SumFunctionOnSet(f, T) \notin Nat}
<1>1. SUFFICES ASSUME F # {} PROVE FALSE
  OBVIOUS
<1>2. PICK T \in F : \A U \in F : U \subseteq T => U = T
  <2>1. F \subseteq SUBSET S
    OBVIOUS
  <2> HIDE DEF F
  <2>2. QED
    BY <1>1, <2>1, LeastSubset
<1>3. IsFiniteSet(T) /\ T \subseteq S
  BY FS_Subset
<1>4. T # {}
  BY SumEmpty
<1>5. T \ {Pick(T)} \notin F /\ Pick(T) \in T
  BY <1>2, <1>4, PickIn
<1>6. SumFunctionOnSet(f, T \ {Pick(T)}) \in Nat /\ f[Pick(T)] \in Nat
  BY <1>3, <1>5
<1>7. QED
  BY <1>3, <1>4, <1>6, SumUnfold
=============================================================================
