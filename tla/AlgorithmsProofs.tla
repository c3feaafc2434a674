-------------------------- MODULE AlgorithmsProofs --------------------------
(***************************************************************************)
(* What the computations on grids, control points, drawn pages and listings *)
(* give, for every input.                                                   *)
(* A sum over a function is a fold, of which the provers know nothing: what *)
(* holds of the empty set and of a set with one more element is shown to    *)
(* hold of every finite set by taking a smallest set of which it does not   *)
(* hold (SmallestSet); that sums exist, agree and are linear is proved so,  *)
(* and the rest follows from these facts and from integer arithmetic.  What *)
(* holds after every element of a sequence is proved in the same way, from  *)
(* a smallest number (SmallestNumber).                                      *)
(***************************************************************************)
EXTENDS Algorithms, FiniteSetTheorems, FunctionTheorems,
        SequenceTheorems, TLAPS

(* A step makes one call at most, and a property speaks of one of them.     *)
LEMMA OneCall ==
    ASSUME [Next]_<<calls, drawing>>
    PROVE  \/ UNCHANGED calls
           \/ CallPlan /\ request'.call = "plan"
           \/ CallBootstrap /\ request'.call = "bootstrap"
           \/ CallVector /\ request'.call = "vector"
           \/ CallRain /\ request'.call = "rain"
           \/ CallCategories /\ request'.call = "categories"
           \/ CallElevation /\ request'.call = "elevation"
           \/ CallTrace /\ request'.call = "trace"
           \/ CallFit /\ request'.call = "fit"
<1>1. CallPlan => request'.call = "plan"
  BY DEF CallPlan, Answer
<1>2. CallBootstrap => request'.call = "bootstrap"
  BY DEF CallBootstrap, Answer
<1>3. CallVector => request'.call = "vector"
  BY DEF CallVector, Answer
<1>4. CallRain => request'.call = "rain"
  BY DEF CallRain, Answer
<1>5. CallCategories => request'.call = "categories"
  BY DEF CallCategories, Answer
<1>6. CallElevation => request'.call = "elevation"
  BY DEF CallElevation, Answer
<1>7. CallTrace => request'.call = "trace"
  BY DEF CallTrace, Answer
<1>8. CallFit => request'.call = "fit"
  BY DEF CallFit, Answer
<1> QED
  BY <1>1, <1>2, <1>3, <1>4, <1>5, <1>6, <1>7, <1>8, Zenon DEF Next, Computation, Call, Reading, Rest, calls

-----------------------------------------------------------------------------
(* Of the sets that are bad, one has no smaller bad set within it: what     *)
(* holds of a finite set if it holds of all smaller ones holds of them all. *)
LEMMA SmallestSet ==
    ASSUME NEW S, IsFiniteSet(S), NEW Bad \in SUBSET SUBSET S, Bad # {}
    PROVE  \E T \in Bad : \A U \in SUBSET T : U # T => U \notin Bad
<1>1. FiniteSubsetsOf(S) = SUBSET S
  BY FS_FiniteSubsetsOfFinite
<1>2. IsWellFoundedOn(StrictSubsetOrdering(S), SUBSET S)
  BY <1>1, FS_StrictSubsetOrderingWellFounded
<1>3. PICK T \in Bad : \A U \in Bad : ~(<<U, T>> \in StrictSubsetOrdering(S))
  <2> HIDE DEF StrictSubsetOrdering
  <2> QED
    BY <1>2, WFMin, Zenon
<1>4. ASSUME NEW U \in SUBSET T, U # T, U \in Bad PROVE FALSE
  <2>1. <<U, T>> \in StrictSubsetOrdering(S)
    BY <1>4 DEF StrictSubsetOrdering
  <2> QED
    BY <1>3, <1>4, <2>1
<1> QED
  BY <1>4

LEMMA SmallestNumber ==
    ASSUME NEW Bad \in SUBSET Nat, Bad # {}
    PROVE  \E n \in Bad : \A m \in Bad : n <= m
<1> DEFINE R == OpToRel(<, Nat)
<1>1. IsWellFoundedOn(R, Nat)
  BY NatLessThanWellFounded
<1>2. \A m, n \in Nat : m < n => <<m, n>> \in R
  BY DEF OpToRel
<1> HIDE DEF R
<1>3. PICK n \in Bad : \A m \in Bad : ~(<<m, n>> \in R)
  BY <1>1, WFMin, Zenon
<1>4. ASSUME NEW m \in Bad PROVE n <= m
  <2>1. m \in Nat /\ n \in Nat
    OBVIOUS
  <2>2. ~(m < n)
    BY <1>2, <1>3, <2>1
  <2> QED
    BY <2>1, <2>2
<1> QED
  BY <1>4

-----------------------------------------------------------------------------
(* Sums. *)

Pick(s) == CHOOSE x \in s : TRUE

(* g sums f over every subset of D. *)
Sums(f, D, g) ==
    g = [s \in SUBSET D |-> IF s = {} THEN 0 ELSE f[Pick(s)] + g[s \ {Pick(s)}]]

LEMMA SumUnfolds ==
    ASSUME NEW f, NEW D
    PROVE  SumFunctionOnSet(f, D) = (CHOOSE g : Sums(f, D, g))[D]
  BY DEF SumFunctionOnSet, FoldFunctionOnSet, MapThenFoldSet, Sums, Pick

LEMMA PickIn == \A s : s # {} => Pick(s) \in s
  BY DEF Pick

LEMMA SumsExist ==
    ASSUME NEW D, IsFiniteSet(D), NEW f
    PROVE  \E g : Sums(f, D, g)
<1> DEFINE Small(n) == {s \in SUBSET D : Cardinality(s) <= n}
           Remaining(s) == s \ {Pick(s)}
           Defined(n) == \E g : g = [s \in Small(n) |->
                                        IF s = {} THEN 0 ELSE f[Pick(s)] + g[Remaining(s)]]
           Bad == {n \in Nat : ~Defined(n)}
<1>1. \A s \in SUBSET D : IsFiniteSet(s) /\ Cardinality(s) \in Nat
  BY FS_Subset, FS_CardinalityType
<1>2. \A n \in Nat : \A s \in Small(n + 1) : s # {} => Remaining(s) \in Small(n)
  <2> SUFFICES ASSUME NEW n \in Nat, NEW s \in Small(n + 1), s # {} PROVE Remaining(s) \in Small(n)
    OBVIOUS
  <2>1. Cardinality(Remaining(s)) = Cardinality(s) - 1
    BY <1>1, PickIn, FS_RemoveElement
  <2> QED
    BY <1>1, <2>1
<1>3. Defined(0)
  <2>1. \A s \in Small(0) : s = {}
    BY <1>1, FS_EmptySet
  <2>2. [s \in Small(0) |-> 0] =
            [s \in Small(0) |-> IF s = {} THEN 0 ELSE f[Pick(s)] + [t \in Small(0) |-> 0][Remaining(s)]]
    BY <2>1
  <2> QED
    BY <2>2
<1>4. ASSUME NEW n \in Nat, Defined(n) PROVE Defined(n + 1)
  <2>1. PICK g : g = [s \in Small(n) |-> IF s = {} THEN 0 ELSE f[Pick(s)] + g[Remaining(s)]]
    BY <1>4
  <2> DEFINE h == [s \in Small(n + 1) |-> IF s = {} THEN 0 ELSE f[Pick(s)] + g[Remaining(s)]]
  <2>2. \A s \in Small(n) : s \in Small(n + 1) /\ g[s] = IF s = {} THEN 0 ELSE f[Pick(s)] + g[Remaining(s)]
    <3>1. \A s \in Small(n) : s \in Small(n + 1)
      BY <1>1
    <3> HIDE DEF Small, Remaining
    <3> QED
      BY <2>1, <3>1
  <2>3. \A s \in Small(n) : h[s] = g[s]
    BY <2>2
  <2>4. h = [s \in Small(n + 1) |-> IF s = {} THEN 0 ELSE f[Pick(s)] + h[Remaining(s)]]
    <3>1. \A s \in Small(n + 1) : s # {} => h[Remaining(s)] = g[Remaining(s)]
      BY <1>2, <2>3
    <3> HIDE DEF Small, Remaining
    <3> QED
      BY <3>1
  <2> HIDE DEF h, Small, Remaining
  <2> QED
    BY <2>4
<1>5. Defined(Cardinality(D))
  <2> HIDE DEF Defined
  <2> SUFFICES ASSUME Bad # {} PROVE FALSE
    BY FS_CardinalityType
  <2>1. PICK n \in Bad : \A m \in Bad : n <= m
    BY SmallestNumber
  <2>2. n \in Nat \ {0} /\ ~Defined(n)
    BY <1>3, <2>1
  <2>3. n - 1 \in Nat /\ n - 1 \notin Bad /\ (n - 1) + 1 = n
    BY <2>1, <2>2
  <2>4. Defined((n - 1) + 1)
    BY <1>4, <2>3
  <2> QED
    BY <2>2, <2>3, <2>4
<1>6. Small(Cardinality(D)) = SUBSET D
  BY <1>1, FS_Subset
<1> HIDE DEF Small
<1> QED
  BY <1>5, <1>6 DEF Sums

LEMMA SumsStep ==
    ASSUME NEW D, NEW f, NEW g, Sums(f, D, g)
    PROVE  /\ g[{}] = 0
           /\ \A T \in SUBSET D : T # {} =>
                  Pick(T) \in T /\ T \ {Pick(T)} \in SUBSET D /\ g[T] = f[Pick(T)] + g[T \ {Pick(T)}]
<1>1. \A T \in SUBSET D : g[T] = IF T = {} THEN 0 ELSE f[Pick(T)] + g[T \ {Pick(T)}]
  BY DEF Sums
<1> QED
  BY <1>1, PickIn

LEMMA SumsAgree ==
    ASSUME NEW D, IsFiniteSet(D), NEW E, NEW f, NEW h, NEW g, NEW k, Sums(f, D, g), Sums(h, E, k),
           NEW T, T \subseteq D, T \subseteq E, \A x \in T : f[x] = h[x]
    PROVE  g[T] = k[T]
<1>1. /\ g[{}] = 0
      /\ \A W \in SUBSET D : W # {} => Pick(W) \in W /\ g[W] = f[Pick(W)] + g[W \ {Pick(W)}]
  <2>1. Sums(f, D, g) => \A W \in SUBSET D : g[W] = IF W = {} THEN 0 ELSE f[Pick(W)] + g[W \ {Pick(W)}]
    BY DEF Sums
  <2> QED
    BY <2>1, PickIn
<1>2. /\ k[{}] = 0
      /\ \A W \in SUBSET E : W # {} => Pick(W) \in W /\ k[W] = h[Pick(W)] + k[W \ {Pick(W)}]
  <2>1. Sums(h, E, k) => \A W \in SUBSET E : k[W] = IF W = {} THEN 0 ELSE h[Pick(W)] + k[W \ {Pick(W)}]
    BY DEF Sums
  <2> QED
    BY <2>1, PickIn
<1> DEFINE Bad == {U \in SUBSET T : g[U] # k[U]}
<1> SUFFICES ASSUME Bad # {} PROVE FALSE
  OBVIOUS
<1>3. IsFiniteSet(T)
  BY FS_Subset
<1>4. PICK U \in Bad : \A V \in SUBSET U : V # U => V \notin Bad
  <2>1. Bad \in SUBSET SUBSET T
    OBVIOUS
  <2> HIDE DEF Bad
  <2> QED
    BY <1>3, <2>1, SmallestSet
<1>5. U \in SUBSET T /\ U \in SUBSET D /\ U \in SUBSET E /\ g[U] # k[U] /\ U # {}
  BY <1>1, <1>2, <1>4
<1> DEFINE V == U \ {Pick(U)}
<1>6. Pick(U) \in U /\ g[U] = f[Pick(U)] + g[V]
  BY <1>1, <1>5, Zenon
<1>7. k[U] = h[Pick(U)] + k[V]
  BY <1>2, <1>5, Zenon
<1>8. V \in SUBSET U /\ V # U /\ V \in SUBSET T
  BY <1>5, <1>6
<1>9. g[V] = k[V]
  BY <1>4, <1>8
<1>10. f[Pick(U)] = h[Pick(U)]
  BY <1>5, <1>6
<1> QED
  BY <1>5, <1>6, <1>7, <1>9, <1>10, Zenon

LEMMA SumsAreSums ==
    ASSUME NEW D, IsFiniteSet(D), NEW f, NEW g, Sums(f, D, g), NEW T, T \subseteq D
    PROVE  SumFunctionOnSet(f, T) = g[T]
<1>1. IsFiniteSet(T)
  BY FS_Subset
<1>2. Sums(f, T, CHOOSE k : Sums(f, T, k))
  BY <1>1, SumsExist
<1> QED
  BY <1>1, <1>2, SumUnfolds, SumsAgree

LEMMA SumsAny ==
    ASSUME NEW D, IsFiniteSet(D), NEW f, \A x \in D : f[x] \in Int, NEW g, Sums(f, D, g)
    PROVE  \A T \in SUBSET D : g[T] \in Int /\ \A x \in T : g[T] = f[x] + g[T \ {x}]
<1> DEFINE Good(T) == g[T] \in Int /\ \A x \in T : g[T] = f[x] + g[T \ {x}]
           Bad == {T \in SUBSET D : ~Good(T)}
<1> SUFFICES ASSUME Bad # {} PROVE FALSE
  OBVIOUS
<1> HIDE DEF Good
<1>1. PICK T \in Bad : \A U \in SUBSET T : U # T => U \notin Bad
  <2>1. Bad \in SUBSET SUBSET D
    OBVIOUS
  <2> HIDE DEF Bad
  <2> QED
    BY <2>1, SmallestSet
<1>2. T \in SUBSET D /\ ~Good(T)
  OBVIOUS
<1>3. \A U \in SUBSET T : U # T => Good(U)
  BY <1>1
<1>4. T # {}
  <2>1. g[{}] = 0
    BY SumsStep
  <2>2. Good({})
    BY <2>1 DEF Good
  <2> QED
    BY <1>2, <2>2
<1> DEFINE c == Pick(T)
<1>5. c \in T /\ g[T] = f[c] + g[T \ {c}]
  BY <1>2, <1>4, SumsStep
<1> HIDE DEF c
<1>6. Good(T \ {c})
  BY <1>3, <1>5
<1>7. g[T] \in Int
  BY <1>5, <1>6 DEF Good
<1>8. ASSUME NEW x \in T PROVE g[T] = f[x] + g[T \ {x}]
  <2>1. CASE x = c
    BY <1>5, <2>1
  <2>2. CASE x # c
    <3>1. x \in T \ {c} /\ c \in T \ {x}
      BY <1>5, <2>2
    <3>2. g[T \ {c}] = f[x] + g[(T \ {c}) \ {x}]
      BY <1>6, <3>1 DEF Good
    <3>3. g[T \ {x}] = f[c] + g[(T \ {x}) \ {c}]
      BY <1>3, <3>1 DEF Good
    <3>4. (T \ {c}) \ {x} = (T \ {x}) \ {c}
      OBVIOUS
    <3>5. g[(T \ {c}) \ {x}] \in Int
      BY <1>3, <1>5 DEF Good
    <3>6. f[x] \in Int /\ f[c] \in Int
      BY <1>2, <1>5
    <3> DEFINE rest == g[(T \ {c}) \ {x}]
    <3>7. g[T] = f[c] + (f[x] + rest) /\ g[T \ {x}] = f[c] + rest
      BY <1>5, <3>2, <3>3, <3>4
    <3> HIDE DEF rest
    <3> QED
      BY <3>5, <3>6, <3>7 DEF rest
  <2> QED
    BY <2>1, <2>2
<1> QED
  BY <1>2, <1>7, <1>8 DEF Good

LEMMA SumEmpty == \A f : SumFunctionOnSet(f, {}) = 0
<1> SUFFICES ASSUME NEW f PROVE SumFunctionOnSet(f, {}) = 0
  OBVIOUS
<1>1. IsFiniteSet({})
  BY FS_EmptySet
<1>2. PICK g : Sums(f, {}, g)
  BY <1>1, SumsExist
<1> QED
  BY <1>1, <1>2, SumsAreSums, SumsStep

(* A sum is its value at any element and the sum of the rest.               *)
LEMMA SumStep ==
    ASSUME NEW T, IsFiniteSet(T), NEW f, \A x \in T : f[x] \in Int
    PROVE  /\ SumFunctionOnSet(f, T) \in Int
           /\ \A x \in T : SumFunctionOnSet(f, T) = f[x] + SumFunctionOnSet(f, T \ {x})
<1>1. PICK g : Sums(f, T, g)
  BY SumsExist
<1>2. \A U \in SUBSET T : SumFunctionOnSet(f, U) = g[U]
  BY <1>1, SumsAreSums
<1>3. g[T] \in Int /\ \A x \in T : g[T] = f[x] + g[T \ {x}]
  BY <1>1, SumsAny
<1> QED
  BY <1>2, <1>3

LEMMA SumSame ==
    ASSUME NEW T, IsFiniteSet(T), NEW f, NEW h, \A x \in T : f[x] = h[x]
    PROVE  SumFunctionOnSet(f, T) = SumFunctionOnSet(h, T)
<1>1. PICK g : Sums(f, T, g)
  BY SumsExist
<1>2. PICK k : Sums(h, T, k)
  BY SumsExist
<1> QED
  BY <1>1, <1>2, SumsAreSums, SumsAgree

LEMMA SumOverDomain == \A f : SumFunction(f) = SumFunctionOnSet(f, DOMAIN f)
  BY DEF SumFunction

LEMMA SumLinear ==
    ASSUME NEW T, IsFiniteSet(T), NEW a \in Int, NEW f, NEW h, NEW k,
           \A x \in T : f[x] \in Int /\ h[x] \in Int /\ k[x] = a * f[x] + h[x]
    PROVE  SumFunctionOnSet(k, T) = a * SumFunctionOnSet(f, T) + SumFunctionOnSet(h, T)
<1> DEFINE Good(U) == SumFunctionOnSet(k, U) = a * SumFunctionOnSet(f, U) + SumFunctionOnSet(h, U)
           Bad == {U \in SUBSET T : ~Good(U)}
<1> SUFFICES ASSUME Bad # {} PROVE FALSE
  OBVIOUS
<1>1. PICK U \in Bad : \A V \in SUBSET U : V # U => V \notin Bad
  <2>1. Bad \in SUBSET SUBSET T
    OBVIOUS
  <2> HIDE DEF Bad
  <2> QED
    BY <2>1, SmallestSet
<1>2. U # {}
  BY SumEmpty
<1>3. PICK x \in U : TRUE
  BY <1>2
<1> DEFINE V == U \ {x}
<1>4. IsFiniteSet(U) /\ IsFiniteSet(V)
  BY FS_Subset
<1>5. \A y \in U : f[y] \in Int /\ h[y] \in Int /\ k[y] \in Int
  OBVIOUS
<1>6. /\ SumFunctionOnSet(f, U) = f[x] + SumFunctionOnSet(f, V)
      /\ SumFunctionOnSet(h, U) = h[x] + SumFunctionOnSet(h, V)
      /\ SumFunctionOnSet(k, U) = k[x] + SumFunctionOnSet(k, V)
  BY <1>4, <1>5, SumStep
<1>7. SumFunctionOnSet(f, V) \in Int /\ SumFunctionOnSet(h, V) \in Int
  BY <1>4, <1>5, SumStep
<1>8. SumFunctionOnSet(k, V) = a * SumFunctionOnSet(f, V) + SumFunctionOnSet(h, V)
  <2>1. V \in SUBSET U /\ V # U /\ V \in SUBSET T
    OBVIOUS
  <2> QED
    BY <1>1, <2>1
<1>9. \A b, c, p, q \in Int : a * (b + p) + (c + q) = (a * b + c) + (a * p + q)
  OBVIOUS
<1>10. f[x] \in Int /\ h[x] \in Int /\ k[x] = a * f[x] + h[x]
  OBVIOUS
<1>11. Good(U)
  BY <1>6, <1>7, <1>8, <1>9, <1>10
<1> QED
  BY <1>11

LEMMA SumOrder ==
    ASSUME NEW T, IsFiniteSet(T), NEW f, NEW h,
           \A x \in T : f[x] \in Int /\ h[x] \in Int /\ f[x] <= h[x]
    PROVE  SumFunctionOnSet(f, T) <= SumFunctionOnSet(h, T)
<1> DEFINE Good(U) == SumFunctionOnSet(f, U) <= SumFunctionOnSet(h, U)
           Bad == {U \in SUBSET T : ~Good(U)}
<1> SUFFICES ASSUME Bad # {} PROVE FALSE
  OBVIOUS
<1>1. PICK U \in Bad : \A V \in SUBSET U : V # U => V \notin Bad
  <2>1. Bad \in SUBSET SUBSET T
    OBVIOUS
  <2> HIDE DEF Bad
  <2> QED
    BY <2>1, SmallestSet
<1>2. U # {}
  BY SumEmpty
<1>3. PICK x \in U : TRUE
  BY <1>2
<1> DEFINE V == U \ {x}
<1>4. IsFiniteSet(U) /\ IsFiniteSet(V)
  BY FS_Subset
<1>5. \A y \in U : f[y] \in Int /\ h[y] \in Int
  OBVIOUS
<1>6. /\ SumFunctionOnSet(f, U) = f[x] + SumFunctionOnSet(f, V)
      /\ SumFunctionOnSet(h, U) = h[x] + SumFunctionOnSet(h, V)
      /\ SumFunctionOnSet(f, V) \in Int /\ SumFunctionOnSet(h, V) \in Int
  BY <1>4, <1>5, SumStep
<1>7. SumFunctionOnSet(f, V) <= SumFunctionOnSet(h, V)
  <2>1. V \in SUBSET U /\ V # U /\ V \in SUBSET T
    OBVIOUS
  <2> QED
    BY <1>1, <2>1
<1>8. f[x] \in Int /\ h[x] \in Int /\ f[x] <= h[x]
  OBVIOUS
<1>9. Good(U)
  BY <1>6, <1>7, <1>8
<1> QED
  BY <1>9

(* A sum of one value, and of a function that is zero elsewhere.            *)
LEMMA SumConstant ==
    ASSUME NEW T, IsFiniteSet(T), NEW a \in Int, NEW f, \A x \in T : f[x] = a
    PROVE  SumFunctionOnSet(f, T) = a * Cardinality(T)
<1> DEFINE Good(U) == SumFunctionOnSet(f, U) = a * Cardinality(U)
           Bad == {U \in SUBSET T : ~Good(U)}
<1> SUFFICES ASSUME Bad # {} PROVE FALSE
  OBVIOUS
<1>1. PICK U \in Bad : \A V \in SUBSET U : V # U => V \notin Bad
  <2>1. Bad \in SUBSET SUBSET T
    OBVIOUS
  <2> HIDE DEF Bad
  <2> QED
    BY <2>1, SmallestSet
<1>2. U # {}
  <2>1. a * Cardinality({}) = 0
    BY FS_EmptySet
  <2> QED
    BY <2>1, SumEmpty
<1>3. PICK x \in U : TRUE
  BY <1>2
<1> DEFINE V == U \ {x}
<1>4. IsFiniteSet(U) /\ IsFiniteSet(V)
  BY FS_Subset
<1>5. Cardinality(V) \in Nat /\ Cardinality(U) = Cardinality(V) + 1
  BY <1>4, FS_RemoveElement, FS_CardinalityType
<1>6. SumFunctionOnSet(f, U) = f[x] + SumFunctionOnSet(f, V)
  BY <1>4, SumStep
<1>7. SumFunctionOnSet(f, V) = a * Cardinality(V)
  <2>1. V \in SUBSET U /\ V # U /\ V \in SUBSET T
    OBVIOUS
  <2> QED
    BY <1>1, <2>1
<1>8. \A n \in Nat : a + a * n = a * (n + 1)
  OBVIOUS
<1>9. f[x] = a
  OBVIOUS
<1>10. Good(U)
  BY <1>5, <1>6, <1>7, <1>8, <1>9
<1> QED
  BY <1>10

LEMMA SumWhere ==
    ASSUME NEW T, IsFiniteSet(T), NEW S \in SUBSET T, NEW f,
           \A x \in T : f[x] \in Int, \A x \in T \ S : f[x] = 0
    PROVE  SumFunctionOnSet(f, T) = SumFunctionOnSet(f, S)
<1> DEFINE Good(U) == SumFunctionOnSet(f, S \cup U) = SumFunctionOnSet(f, S)
           Bad == {U \in SUBSET (T \ S) : ~Good(U)}
<1>1. Bad = {}
  <2> SUFFICES ASSUME Bad # {} PROVE FALSE
    OBVIOUS
  <2>1. PICK U \in Bad : \A V \in SUBSET U : V # U => V \notin Bad
    <3>1. Bad \in SUBSET SUBSET (T \ S)
      OBVIOUS
    <3>2. IsFiniteSet(T \ S)
      BY FS_Subset
    <3> HIDE DEF Bad
    <3> QED
      BY <3>1, <3>2, SmallestSet
  <2>2. U # {}
    <3>1. S \cup {} = S
      OBVIOUS
    <3> QED
      BY <3>1
  <2>3. PICK x \in U : TRUE
    BY <2>2
  <2> DEFINE V == U \ {x}
  <2>4. V \in SUBSET U /\ V # U /\ V \in SUBSET (T \ S)
    OBVIOUS
  <2>5. SumFunctionOnSet(f, S \cup V) = SumFunctionOnSet(f, S)
    BY <2>1, <2>4
  <2>6. (S \cup U) \ {x} = S \cup V /\ x \in S \cup U /\ f[x] = 0 /\ S \cup U \in SUBSET T
    OBVIOUS
  <2>7. IsFiniteSet(S \cup U) /\ IsFiniteSet(S \cup V)
    BY <2>6, FS_Subset
  <2>8. SumFunctionOnSet(f, S \cup U) = f[x] + SumFunctionOnSet(f, S \cup V)
    BY <2>6, <2>7, SumStep
  <2>9. SumFunctionOnSet(f, S \cup V) \in Int
    BY <2>7, SumStep
  <2>10. Good(U)
    BY <2>5, <2>6, <2>8, <2>9
  <2> QED
    BY <2>10
<1>2. Good(T \ S)
  BY <1>1
<1>3. S \cup (T \ S) = T
  OBVIOUS
<1> QED
  BY <1>2, <1>3

LEMMA SumExchange ==
    ASSUME NEW P, IsFiniteSet(P), NEW Q, IsFiniteSet(Q),
           NEW F, \A p \in P, q \in Q : F[p][q] \in Int
    PROVE  SumFunctionOnSet([p \in P |-> SumFunctionOnSet(F[p], Q)], P)
           = SumFunctionOnSet([q \in Q |-> SumFunctionOnSet([p \in P |-> F[p][q]], P)], Q)
<1> DEFINE rows == [p \in P |-> SumFunctionOnSet(F[p], Q)]
           column(q) == [p \in P |-> F[p][q]]
           columns(U) == [q \in Q |-> SumFunctionOnSet(column(q), U)]
           Good(U) == SumFunctionOnSet(rows, U) = SumFunctionOnSet(columns(U), Q)
           Bad == {U \in SUBSET P : ~Good(U)}
<1>1. Bad = {}
  <2> SUFFICES ASSUME Bad # {} PROVE FALSE
    OBVIOUS
  <2>1. PICK U \in Bad : \A V \in SUBSET U : V # U => V \notin Bad
    <3>1. Bad \in SUBSET SUBSET P
      OBVIOUS
    <3> HIDE DEF Bad
    <3> QED
      BY <3>1, SmallestSet
  <2> HIDE DEF columns, rows
  <2>2. U # {}
    <3>1. \A q \in Q : columns({})[q] = 0
      BY SumEmpty DEF columns
    <3>2. SumFunctionOnSet(columns({}), Q) = 0 * Cardinality(Q)
      BY <3>1, SumConstant
    <3>3. 0 * Cardinality(Q) = 0
      BY FS_CardinalityType
    <3> QED
      BY <3>2, <3>3, SumEmpty
  <2>3. PICK x \in U : TRUE
    BY <2>2
  <2> DEFINE V == U \ {x}
  <2>4. V \in SUBSET U /\ V # U /\ V \in SUBSET P /\ x \in P /\ U \in SUBSET P
    OBVIOUS
  <2>5. IsFiniteSet(U) /\ IsFiniteSet(V)
    BY <2>4, FS_Subset
  <2>6. SumFunctionOnSet(rows, V) = SumFunctionOnSet(columns(V), Q)
    BY <2>1, <2>4
  <2>7. \A p \in P : rows[p] \in Int /\ rows[p] = SumFunctionOnSet(F[p], Q)
    BY SumStep DEF rows
  <2>8. SumFunctionOnSet(rows, U) = rows[x] + SumFunctionOnSet(rows, V)
    BY <2>4, <2>5, <2>7, SumStep
  <2>9. \A q \in Q : /\ F[x][q] \in Int /\ columns(V)[q] \in Int
                     /\ columns(U)[q] = 1 * F[x][q] + columns(V)[q]
    <3> SUFFICES ASSUME NEW q \in Q
                 PROVE  /\ F[x][q] \in Int /\ columns(V)[q] \in Int
                        /\ columns(U)[q] = 1 * F[x][q] + columns(V)[q]
      OBVIOUS
    <3>1. \A p \in U : column(q)[p] \in Int
      BY <2>4
    <3>2. SumFunctionOnSet(column(q), V) \in Int
      BY <2>4, <2>5, <3>1, SumStep
    <3>3. SumFunctionOnSet(column(q), U) = column(q)[x] + SumFunctionOnSet(column(q), V)
      BY <2>5, <3>1, SumStep
    <3>4. column(q)[x] = F[x][q] /\ F[x][q] \in Int
      BY <2>4
    <3> HIDE DEF column
    <3> QED
      BY <3>2, <3>3, <3>4 DEF columns
  <2>10. SumFunctionOnSet(columns(U), Q)
         = 1 * SumFunctionOnSet(F[x], Q) + SumFunctionOnSet(columns(V), Q)
    <3> HIDE DEF V
    <3>1. 1 \in Int
      OBVIOUS
    <3>2. ASSUME NEW f, NEW h, NEW k,
                 \A q \in Q : f[q] \in Int /\ h[q] \in Int /\ k[q] = 1 * f[q] + h[q]
          PROVE  SumFunctionOnSet(k, Q) = 1 * SumFunctionOnSet(f, Q) + SumFunctionOnSet(h, Q)
      BY <3>1, <3>2, SumLinear
    <3> QED
      BY <2>9, <3>2
  <2>11. SumFunctionOnSet(columns(U), Q) = rows[x] + SumFunctionOnSet(columns(V), Q)
    BY <2>4, <2>7, <2>10
  <2> QED
    BY <2>6, <2>8, <2>11
<1>2. Good(P)
  BY <1>1
<1> QED
  BY <1>2

-----------------------------------------------------------------------------
(* Edges and centers. *)

LEMMA MaxOfTwo ==
    ASSUME NEW a \in Int, NEW b \in Int PROVE Max({a, b}) = IF a >= b THEN a ELSE b
<1> DEFINE m == IF a >= b THEN a ELSE b
<1>1. m \in {a, b} /\ \A y \in {a, b} : m >= y
  OBVIOUS
<1>2. \A x \in {a, b} : (\A y \in {a, b} : x >= y) => x = m
  OBVIOUS
<1> HIDE DEF m
<1>3. Max({a, b}) = m
  BY <1>1, <1>2 DEF Max
<1> QED
  BY <1>3 DEF m

LEMMA MinOfTwo ==
    ASSUME NEW a \in Int, NEW b \in Int PROVE Min({a, b}) = IF a <= b THEN a ELSE b
<1> DEFINE m == IF a <= b THEN a ELSE b
<1>1. m \in {a, b} /\ \A y \in {a, b} : m <= y
  OBVIOUS
<1>2. \A x \in {a, b} : (\A y \in {a, b} : x <= y) => x = m
  OBVIOUS
<1> HIDE DEF m
<1>3. Min({a, b}) = m
  BY <1>1, <1>2 DEF Min
<1> QED
  BY <1>3 DEF m

LEMMA IncreasingThroughout ==
    ASSUME NEW s \in Seq(Int), Increasing(s), NEW i \in 1..Len(s), NEW j \in 1..Len(s)
    PROVE  i < j <=> s[i] < s[j]
<1> DEFINE Bad == {k \in 1..Len(s) : \E h \in 1..Len(s) : h < k /\ ~(s[h] < s[k])}
<1>1. Bad = {}
  <2> SUFFICES ASSUME Bad # {} PROVE FALSE
    OBVIOUS
  <2>1. PICK k \in Bad : \A m \in Bad : k <= m
    <3>1. Bad \in SUBSET Nat
      OBVIOUS
    <3> HIDE DEF Bad
    <3> QED
      BY <3>1, SmallestNumber
  <2>2. PICK h \in 1..Len(s) : h < k /\ ~(s[h] < s[k])
    OBVIOUS
  <2>3. k - 1 \in 1..(Len(s) - 1) /\ k - 1 \in 1..Len(s) /\ (k - 1) + 1 = k /\ k - 1 \notin Bad
    <3>1. k \in 1..Len(s) /\ h \in 1..Len(s) /\ Len(s) \in Nat
      OBVIOUS
    <3>2. k - 1 \in 1..(Len(s) - 1) /\ k - 1 \in 1..Len(s) /\ (k - 1) + 1 = k /\ ~(k <= k - 1)
      BY <2>2, <3>1
    <3> HIDE DEF Bad
    <3> QED
      BY <2>1, <3>2
  <2>4. s[k - 1] < s[k]
    BY <2>3 DEF Increasing
  <2>5. \A m \in 1..Len(s) : s[m] \in Int
    OBVIOUS
  <2>6. CASE h = k - 1
    BY <2>2, <2>4, <2>6
  <2>7. CASE h # k - 1
    <3>1. h < k - 1
      BY <2>2, <2>3, <2>7
    <3>2. s[h] < s[k - 1]
      BY <2>3, <3>1
    <3>3. s[h] \in Int /\ s[k - 1] \in Int /\ s[k] \in Int
      BY <2>3, <2>5
    <3> HIDE DEF Bad
    <3> QED
      BY <2>2, <2>4, <3>2, <3>3
  <2> QED
    BY <2>6, <2>7
<1>2. \A k, h \in 1..Len(s) : h < k => s[h] < s[k]
  BY <1>1
<1>3. s[i] \in Int /\ s[j] \in Int
  OBVIOUS
<1> QED
  BY <1>2, <1>3

(* A number between the first edge and the last is within one cell.         *)
LEMMA OneCell ==
    ASSUME NEW s \in Seq(Int), IsEdges(s), NEW z \in Int
    PROVE  /\ s[1] <= z /\ z < s[Len(s)] <=> \E i \in Cells(s) : Within(s, i, z)
           /\ \A i, j \in Cells(s) : Within(s, i, z) /\ Within(s, j, z) => i = j
<1>1. Len(s) \in Nat /\ Len(s) >= 2 /\ Increasing(s)
  BY DEF IsEdges
<1>2. \A i \in 1..Len(s) : s[i] \in Int
  OBVIOUS
<1>3. \A i \in Cells(s) : i \in 1..Len(s) /\ i + 1 \in 1..Len(s)
  BY <1>1 DEF Cells
<1>4. ASSUME s[1] <= z, z < s[Len(s)] PROVE \E i \in Cells(s) : Within(s, i, z)
  <2> DEFINE Above == {k \in 1..Len(s) : z < s[k]}
  <2>1. PICK k \in Above : \A m \in Above : k <= m
    <3>1. Above \in SUBSET Nat /\ Len(s) \in Above
      BY <1>1, <1>4
    <3> HIDE DEF Above
    <3> QED
      BY <3>1, SmallestNumber
  <2>2. k # 1
    BY <1>2, <1>4
  <2>3. k - 1 \in Cells(s) /\ k - 1 \in 1..Len(s) /\ k - 1 \notin Above /\ (k - 1) + 1 = k
    BY <1>1, <2>1, <2>2 DEF Cells
  <2>4. Within(s, k - 1, z)
    BY <1>2, <2>3 DEF Within
  <2> QED
    BY <2>3, <2>4
<1>5. ASSUME NEW i \in Cells(s), Within(s, i, z) PROVE s[1] <= z /\ z < s[Len(s)]
  <2>1. 1 \in 1..Len(s) /\ Len(s) \in 1..Len(s) /\ i \in 1..Len(s) /\ i + 1 \in 1..Len(s)
    BY <1>1, <1>3
  <2>2. s[1] <= s[i] /\ s[i + 1] <= s[Len(s)]
    <3>1. ~(i < 1) /\ ~(Len(s) < i + 1)
      BY <1>1, <2>1
    <3>2. ~(s[i] < s[1]) /\ ~(s[Len(s)] < s[i + 1])
      BY <1>1, <2>1, <3>1, IncreasingThroughout
    <3> QED
      BY <1>2, <2>1, <3>2
  <2> QED
    BY <1>2, <1>5, <2>1, <2>2 DEF Within
<1>6. ASSUME NEW i \in Cells(s), NEW j \in Cells(s), Within(s, i, z), Within(s, j, z), i < j
      PROVE  FALSE
  <2>1. i + 1 \in 1..Len(s) /\ j \in 1..Len(s) /\ ~(j < i + 1)
    BY <1>3, <1>6 DEF Cells
  <2>2. ~(s[j] < s[i + 1])
    BY <1>1, <2>1, IncreasingThroughout
  <2> QED
    BY <1>2, <1>6, <2>1, <2>2 DEF Within
<1>7. \A i, j \in Cells(s) : Within(s, i, z) /\ Within(s, j, z) => i = j
  <2>1. \A i, j \in Cells(s) : i < j \/ i = j \/ j < i
    BY DEF Cells
  <2> QED
    BY <1>6, <2>1
<1> QED
  BY <1>4, <1>5, <1>7

-----------------------------------------------------------------------------
(* conservative_remap_rainfall. *)

SoundRain(q) ==
    /\ q.sx \in Seq(Int) /\ q.sy \in Seq(Int) /\ q.dx \in Seq(Int) /\ q.dy \in Seq(Int)
    /\ IsEdges(q.sx) /\ IsEdges(q.sy) /\ IsEdges(q.dx) /\ IsEdges(q.dy)
    /\ \A p \in Grid(q.sy, q.sx) : q.rates[p[1]][p[2]] \in Nat
    /\ q.tolerance \in Nat

(* The unit squares that a..b and c..d share. *)
Shared(a, b, c, d) == Max({0, Min({b, d}) - Max({a, c})})

LEMMA SharedCounts ==
    ASSUME NEW a \in Int, NEW b \in Int, NEW c \in Int, NEW d \in Int
    PROVE  LET both == {z \in a..(b - 1) : c <= z /\ z < d}
           IN  IsFiniteSet(both) /\ Cardinality(both) = Shared(a, b, c, d) /\ Shared(a, b, c, d) \in Nat
<1> DEFINE low == IF a >= c THEN a ELSE c
           high == IF b <= d THEN b ELSE d
<1>1. {z \in a..(b - 1) : c <= z /\ z < d} = low..(high - 1)
  OBVIOUS
<1>2. /\ IsFiniteSet(low..(high - 1))
      /\ Cardinality(low..(high - 1)) = IF low > high - 1 THEN 0 ELSE (high - 1) - low + 1
  <2>1. low \in Int /\ high - 1 \in Int
    OBVIOUS
  <2> HIDE DEF low, high
  <2> QED
    BY <2>1, FS_Interval
<1>3. Shared(a, b, c, d) = IF 0 >= high - low THEN 0 ELSE high - low
  <2>1. Max({a, c}) = low /\ Min({b, d}) = high
    BY MaxOfTwo, MinOfTwo
  <2>2. 0 \in Int /\ high - low \in Int
    OBVIOUS
  <2> HIDE DEF low, high
  <2>3. Shared(a, b, c, d) = Max({0, high - low})
    BY <2>1 DEF Shared
  <2> QED
    BY <2>2, <2>3, MaxOfTwo
<1>4. low \in Int /\ high \in Int
  OBVIOUS
<1> HIDE DEF low, high
<1>5. Cardinality(low..(high - 1)) = Shared(a, b, c, d) /\ Shared(a, b, c, d) \in Nat
  BY <1>2, <1>3, <1>4
<1> QED
  BY <1>1, <1>2, <1>5

LEMMA GridsAreFinite ==
    ASSUME NEW y \in Seq(Int), IsEdges(y), NEW x \in Seq(Int), IsEdges(x)
    PROVE  IsFiniteSet(Grid(y, x))
<1>1. 1 \in Int /\ Len(y) - 1 \in Int /\ Len(x) - 1 \in Int
  OBVIOUS
<1>2. IsFiniteSet(Cells(y)) /\ IsFiniteSet(Cells(x))
  BY <1>1, FS_Interval DEF Cells
<1> QED
  BY <1>2, FS_Product DEF Grid

LEMMA SquaresAreFinite ==
    ASSUME NEW a \in Int, NEW b \in Int, NEW c \in Int, NEW d \in Int
    PROVE  IsFiniteSet(Squares(a, b, c, d))
<1>1. b - 1 \in Int /\ d - 1 \in Int
  OBVIOUS
<1> QED
  BY <1>1, FS_Interval, FS_Product DEF Squares

LEMMA EdgesOfCell ==
    ASSUME NEW s \in Seq(Int), IsEdges(s)
    PROVE  /\ \A i \in Cells(s) : s[i] \in Int /\ s[i + 1] \in Int /\ s[i] < s[i + 1]
           /\ s[1] \in Int /\ s[Len(s)] \in Int
<1>1. Len(s) \in Nat /\ Len(s) >= 2 /\ Increasing(s)
  BY DEF IsEdges
<1>2. 1 \in 1..Len(s) /\ Len(s) \in 1..Len(s) /\ \A i \in Cells(s) : i \in 1..Len(s) /\ i + 1 \in 1..Len(s)
  BY <1>1 DEF Cells
<1>3. \A i \in 1..Len(s) : s[i] \in Int
  OBVIOUS
<1> QED
  BY <1>1, <1>2, <1>3 DEF Increasing, Cells

(* What falls on a rectangle, square by square or cell by cell.             *)
LEMMA RainOnRectangle ==
    ASSUME NEW q, SoundRain(q), NEW a \in Int, NEW b \in Int, NEW c \in Int, NEW d \in Int
    PROVE  SumFunction([z \in Squares(a, b, c, d) |-> RateAt(q, z[1], z[2])]) =
           SumFunction([p \in Grid(q.sy, q.sx) |->
               Shared(a, b, q.sy[p[1]], q.sy[p[1] + 1]) * q.rates[p[1]][p[2]]
               * Shared(c, d, q.sx[p[2]], q.sx[p[2] + 1])])
<1> DEFINE S == Squares(a, b, c, d)
           G == Grid(q.sy, q.sx)
           rate(p) == q.rates[p[1]][p[2]]
           hit(z, p) == Within(q.sy, p[1], z[1]) /\ Within(q.sx, p[2], z[2])
           F == [z \in S |-> [p \in G |-> IF hit(z, p) THEN rate(p) ELSE 0]]
           cell(p) == Shared(a, b, q.sy[p[1]], q.sy[p[1] + 1]) * rate(p)
                      * Shared(c, d, q.sx[p[2]], q.sx[p[2] + 1])
<1>1. IsFiniteSet(S) /\ IsFiniteSet(G)
  BY SquaresAreFinite, GridsAreFinite DEF SoundRain
<1>2. \A p \in G : rate(p) \in Int
  BY DEF SoundRain
<1>3. \A z \in S, p \in G : F[z][p] \in Int
  BY <1>2
<1>4. \A z \in S : RateAt(q, z[1], z[2]) = SumFunctionOnSet(F[z], G)
  <2> SUFFICES ASSUME NEW z \in S PROVE RateAt(q, z[1], z[2]) = SumFunctionOnSet(F[z], G)
    OBVIOUS
  <2>1. RateAt(q, z[1], z[2]) = SumFunction([p \in G |-> IF hit(z, p) THEN rate(p) ELSE 0])
    BY DEF RateAt
  <2>2. F[z] = [p \in G |-> IF hit(z, p) THEN rate(p) ELSE 0] /\ DOMAIN F[z] = G
    OBVIOUS
  <2> HIDE DEF F, G, hit, rate
  <2> QED
    BY <2>1, <2>2, SumOverDomain
<1>5. ASSUME NEW p \in G
      PROVE  SumFunctionOnSet([z \in S |-> F[z][p]], S) = cell(p)
  <2> DEFINE y1 == q.sy[p[1]]
             y2 == q.sy[p[1] + 1]
             x1 == q.sx[p[2]]
             x2 == q.sx[p[2] + 1]
             A == {y \in a..(b - 1) : y1 <= y /\ y < y2}
             B == {x \in c..(d - 1) : x1 <= x /\ x < x2}
             f == [z \in S |-> F[z][p]]
  <2>1. y1 \in Int /\ y2 \in Int /\ x1 \in Int /\ x2 \in Int
    BY EdgesOfCell DEF SoundRain, Grid
  <2>2. /\ IsFiniteSet(A) /\ Cardinality(A) = Shared(a, b, y1, y2) /\ Shared(a, b, y1, y2) \in Nat
        /\ IsFiniteSet(B) /\ Cardinality(B) = Shared(c, d, x1, x2) /\ Shared(c, d, x1, x2) \in Nat
    <3> HIDE DEF y1, y2, x1, x2
    <3> QED
      BY <2>1, SharedCounts
  <2>3. A \X B \in SUBSET S
    BY DEF Squares
  <2>4. /\ \A z \in A \X B : f[z] = rate(p)
        /\ \A z \in S : z \notin A \X B => f[z] = 0
        /\ \A z \in S : f[z] \in Int
    <3>1. \A z \in S : hit(z, p) <=> z \in A \X B
      BY DEF Within, Squares
    <3>2. \A z \in S : f[z] = IF hit(z, p) THEN rate(p) ELSE 0
      OBVIOUS
    <3> HIDE DEF f, hit, S, A, B, rate
    <3> QED
      BY <1>2, <2>3, <3>1, <3>2
  <2> HIDE DEF f, A, B, S, rate, F, y1, y2, x1, x2
  <2>5. SumFunctionOnSet(f, S) = SumFunctionOnSet(f, A \X B)
    BY <1>1, <2>3, <2>4, SumWhere
  <2>6. /\ IsFiniteSet(A \X B)
        /\ Cardinality(A \X B) = Shared(a, b, y1, y2) * Shared(c, d, x1, x2)
    BY <2>2, FS_Product
  <2>7. SumFunctionOnSet(f, A \X B) = rate(p) * Cardinality(A \X B)
    BY <1>2, <2>4, <2>6, SumConstant
  <2>8. \A m, n \in Nat, r \in Int : r * (m * n) = m * r * n
    OBVIOUS
  <2>9. SumFunctionOnSet(f, S) = Shared(a, b, y1, y2) * rate(p) * Shared(c, d, x1, x2)
    BY <1>2, <2>2, <2>5, <2>6, <2>7, <2>8
  <2> QED
    BY <2>9 DEF f, y1, y2, x1, x2
<1>6. SumFunctionOnSet([z \in S |-> SumFunctionOnSet(F[z], G)], S)
      = SumFunctionOnSet([p \in G |-> SumFunctionOnSet([z \in S |-> F[z][p]], S)], G)
  <2> HIDE DEF F, S, G
  <2> QED
    BY <1>1, <1>3, SumExchange
<1>7. [z \in S |-> SumFunctionOnSet(F[z], G)] = [z \in S |-> RateAt(q, z[1], z[2])]
  <2> HIDE DEF F, S, G
  <2> QED
    BY <1>4
<1>8. [p \in G |-> SumFunctionOnSet([z \in S |-> F[z][p]], S)] = [p \in G |-> cell(p)]
  <2> HIDE DEF F, S, G, cell
  <2> QED
    BY <1>5
<1> HIDE DEF F, S, G, cell
<1>9. SumFunctionOnSet([z \in S |-> RateAt(q, z[1], z[2])], S) = SumFunctionOnSet([p \in G |-> cell(p)], G)
  BY <1>6, <1>7, <1>8
<1>10. SumFunction([z \in S |-> RateAt(q, z[1], z[2])]) = SumFunction([p \in G |-> cell(p)])
  BY <1>9, SumOverDomain
<1> QED
  BY <1>10 DEF S, G, cell

LEMMA RainOnCell ==
    ASSUME NEW q, SoundRain(q), NEW r \in Cells(q.dy), NEW c \in Cells(q.dx)
    PROVE  RainOn(q, r, c) =
           SumFunction([z \in Squares(q.dy[r], q.dy[r + 1], q.dx[c], q.dx[c + 1]) |->
               RateAt(q, z[1], z[2])])
<1>1. q.dy[r] \in Int /\ q.dy[r + 1] \in Int /\ q.dx[c] \in Int /\ q.dx[c + 1] \in Int
  BY EdgesOfCell DEF SoundRain
<1>2. RainOn(q, r, c) =
      SumFunction([p \in Grid(q.sy, q.sx) |->
          Shared(q.dy[r], q.dy[r + 1], q.sy[p[1]], q.sy[p[1] + 1]) * q.rates[p[1]][p[2]]
          * Shared(q.dx[c], q.dx[c + 1], q.sx[p[2]], q.sx[p[2] + 1])])
  BY DEF RainOn, Overlap, Shared
<1> QED
  BY <1>1, <1>2, RainOnRectangle

Source(q) == Squares(q.sy[1], q.sy[Len(q.sy)], q.sx[1], q.sx[Len(q.sx)])

LEMMA SourceSquares ==
    ASSUME NEW q, SoundRain(q)
    PROVE  /\ IsFiniteSet(Source(q)) /\ IsFiniteSet(Grid(q.sy, q.sx))
           /\ \A z \in Source(q) : z[1] \in Int /\ z[2] \in Int
           /\ VolumeBefore(q) = SumFunction([z \in Source(q) |-> RateAt(q, z[1], z[2])])
<1>1. /\ q.sy[1] \in Int /\ q.sy[Len(q.sy)] \in Int /\ q.sx[1] \in Int /\ q.sx[Len(q.sx)] \in Int
  BY EdgesOfCell DEF SoundRain
<1>2. ASSUME NEW s \in Seq(Int), IsEdges(s), NEW i \in Cells(s)
      PROVE  Shared(s[1], s[Len(s)], s[i], s[i + 1]) = Width(s, i) /\ Width(s, i) \in Int
  <2>1. s[1] \in Int /\ s[Len(s)] \in Int /\ s[i] \in Int /\ s[i + 1] \in Int /\ s[i] < s[i + 1]
    BY <1>2, EdgesOfCell
  <2>2. Within(s, i, s[i]) /\ Within(s, i, s[i + 1] - 1)
    BY <2>1 DEF Within
  <2>3. s[1] <= s[i] /\ s[i + 1] - 1 < s[Len(s)]
    <3>1. s[i] \in Int /\ s[i + 1] - 1 \in Int
      BY <2>1
    <3> QED
      BY <1>2, <2>2, <3>1, OneCell
  <2>4. Max({s[1], s[i]}) = s[i] /\ Min({s[Len(s)], s[i + 1]}) = s[i + 1]
    BY <2>1, <2>3, MaxOfTwo, MinOfTwo
  <2>5. Max({0, s[i + 1] - s[i]}) = s[i + 1] - s[i]
    <3>1. 0 \in Int /\ s[i + 1] - s[i] \in Int /\ ~(0 >= s[i + 1] - s[i])
      BY <2>1
    <3> QED
      BY <3>1, MaxOfTwo
  <2>6. Shared(s[1], s[Len(s)], s[i], s[i + 1]) = Max({0, s[i + 1] - s[i]})
    BY <2>4, Zenon DEF Shared
  <2> QED
    BY <2>1, <2>5, <2>6 DEF Width
<1>3. \A p \in Grid(q.sy, q.sx) :
          q.rates[p[1]][p[2]] * Width(q.sy, p[1]) * Width(q.sx, p[2])
          = Shared(q.sy[1], q.sy[Len(q.sy)], q.sy[p[1]], q.sy[p[1] + 1]) * q.rates[p[1]][p[2]]
            * Shared(q.sx[1], q.sx[Len(q.sx)], q.sx[p[2]], q.sx[p[2] + 1])
  <2> SUFFICES ASSUME NEW p \in Grid(q.sy, q.sx)
               PROVE  q.rates[p[1]][p[2]] * Width(q.sy, p[1]) * Width(q.sx, p[2])
                      = Shared(q.sy[1], q.sy[Len(q.sy)], q.sy[p[1]], q.sy[p[1] + 1]) * q.rates[p[1]][p[2]]
                        * Shared(q.sx[1], q.sx[Len(q.sx)], q.sx[p[2]], q.sx[p[2] + 1])
    OBVIOUS
  <2>1. p[1] \in Cells(q.sy) /\ p[2] \in Cells(q.sx)
    BY DEF Grid
  <2>2. /\ Shared(q.sy[1], q.sy[Len(q.sy)], q.sy[p[1]], q.sy[p[1] + 1]) = Width(q.sy, p[1])
        /\ Shared(q.sx[1], q.sx[Len(q.sx)], q.sx[p[2]], q.sx[p[2] + 1]) = Width(q.sx, p[2])
        /\ Width(q.sy, p[1]) \in Int /\ Width(q.sx, p[2]) \in Int
    BY <1>2, <2>1 DEF SoundRain
  <2>3. q.rates[p[1]][p[2]] \in Int
    BY DEF SoundRain
  <2>4. \A m, n, k \in Int : m * n * k = n * m * k
    OBVIOUS
  <2> QED
    BY <2>2, <2>3, <2>4
<1>4. VolumeBefore(q) = SumFunction([z \in Source(q) |-> RateAt(q, z[1], z[2])])
  BY <1>1, <1>3, RainOnRectangle DEF VolumeBefore, Source
<1>5. IsFiniteSet(Source(q)) /\ IsFiniteSet(Grid(q.sy, q.sx))
  BY <1>1, SquaresAreFinite, GridsAreFinite DEF SoundRain, Source
<1>6. \A z \in Source(q) : z[1] \in Int /\ z[2] \in Int
  BY <1>1 DEF Source, Squares
<1> QED
  BY <1>4, <1>5, <1>6

LEMMA RatesAreIntegers ==
    ASSUME NEW q, SoundRain(q), NEW y \in Int, NEW x \in Int
    PROVE  RateAt(q, y, x) \in Int /\ (<<y, x>> \notin Source(q) => RateAt(q, y, x) = 0)
<1> DEFINE G == Grid(q.sy, q.sx)
           rate(p) == q.rates[p[1]][p[2]]
           hit(p) == Within(q.sy, p[1], y) /\ Within(q.sx, p[2], x)
           f == [p \in G |-> IF hit(p) THEN rate(p) ELSE 0]
<1>1. RateAt(q, y, x) = SumFunctionOnSet(f, G)
  BY SumOverDomain DEF RateAt
<1>2. \A p \in G : f[p] \in Int
  BY DEF SoundRain
<1>3. IsFiniteSet(G)
  BY GridsAreFinite DEF SoundRain
<1>4. RateAt(q, y, x) \in Int
  <2> HIDE DEF G, f
  <2> QED
    BY <1>1, <1>2, <1>3, SumStep
<1>5. ASSUME <<y, x>> \notin Source(q) PROVE RateAt(q, y, x) = 0
  <2>1. ~(q.sy[1] <= y /\ y < q.sy[Len(q.sy)]) \/ ~(q.sx[1] <= x /\ x < q.sx[Len(q.sx)])
    <3>1. q.sy[1] \in Int /\ q.sy[Len(q.sy)] \in Int /\ q.sx[1] \in Int /\ q.sx[Len(q.sx)] \in Int
      BY EdgesOfCell DEF SoundRain
    <3> QED
      BY <1>5, <3>1 DEF Source, Squares
  <2>2. (\A i \in Cells(q.sy) : ~Within(q.sy, i, y)) \/ (\A i \in Cells(q.sx) : ~Within(q.sx, i, x))
    BY <2>1, OneCell DEF SoundRain
  <2>3. \A p \in G : f[p] = 0
    BY <2>2 DEF Grid
  <2>4. SumFunctionOnSet(f, G) = 0 * Cardinality(G) /\ 0 * Cardinality(G) = 0
    <3>1. 0 \in Int /\ Cardinality(G) \in Nat
      BY <1>3, FS_CardinalityType
    <3>2. \A n \in Nat : 0 * n = 0
      OBVIOUS
    <3> HIDE DEF f, G
    <3> QED
      BY <1>3, <2>3, <3>1, <3>2, SumConstant
  <2> QED
    BY <1>1, <2>4
<1> QED
  BY <1>4, <1>5

(* What the destination cells get: the rain of the squares inside it.       *)
LEMMA RainAfter ==
    ASSUME NEW q, SoundRain(q)
    PROVE  VolumeAfter(q) =
           SumFunction([z \in Source(q) |->
               IF IsOutside(q, z[1], z[2]) THEN 0 ELSE RateAt(q, z[1], z[2])])
<1> DEFINE D == Grid(q.dy, q.dx)
           S == Source(q)
           rate == [z \in Int \X Int |-> RateAt(q, z[1], z[2])]
           cell(p) == Squares(q.dy[p[1]], q.dy[p[1] + 1], q.dx[p[2]], q.dx[p[2] + 1])
           F == [p \in D |-> [z \in S |-> IF z \in cell(p) THEN rate[z] ELSE 0]]
           inside == [z \in S |-> IF IsOutside(q, z[1], z[2]) THEN 0 ELSE RateAt(q, z[1], z[2])]
<1>1. IsFiniteSet(D) /\ IsFiniteSet(S) /\ S \subseteq Int \X Int
  <2>1. S \subseteq Int \X Int
    BY SourceSquares DEF Source, Squares
  <2> QED
    BY <2>1, GridsAreFinite, SourceSquares DEF SoundRain
<1>2. \A z \in Int \X Int : rate[z] \in Int /\ (z \notin S => rate[z] = 0)
  BY RatesAreIntegers
<1>3. \A p \in D : IsFiniteSet(cell(p)) /\ cell(p) \subseteq Int \X Int
  <2> SUFFICES ASSUME NEW p \in D PROVE IsFiniteSet(cell(p)) /\ cell(p) \subseteq Int \X Int
    OBVIOUS
  <2>1. /\ q.dy[p[1]] \in Int /\ q.dy[p[1] + 1] \in Int
        /\ q.dx[p[2]] \in Int /\ q.dx[p[2] + 1] \in Int
    BY EdgesOfCell DEF SoundRain, Grid
  <2>2. IsFiniteSet(cell(p))
    BY <2>1, SquaresAreFinite
  <2>3. cell(p) \subseteq Int \X Int
    BY <2>1 DEF Squares
  <2> QED
    BY <2>2, <2>3
<1>4. ASSUME NEW p \in D PROVE RainOn(q, p[1], p[2]) = SumFunctionOnSet(F[p], S)
  <2> DEFINE C == cell(p)
  <2>1. C \subseteq Int \X Int /\ IsFiniteSet(C)
    BY <1>3
  <2>2. RainOn(q, p[1], p[2]) = SumFunctionOnSet([z \in C |-> RateAt(q, z[1], z[2])], C)
    <3>1. p[1] \in Cells(q.dy) /\ p[2] \in Cells(q.dx)
      BY DEF Grid
    <3>2. RainOn(q, p[1], p[2]) = SumFunction([z \in C |-> RateAt(q, z[1], z[2])])
      BY <3>1, RainOnCell
    <3> HIDE DEF C
    <3> QED
      BY <3>2, SumOverDomain
  <2>3. \A z \in S : F[p][z] = IF z \in C THEN rate[z] ELSE 0
    OBVIOUS
  <2> HIDE DEF C, rate, S, F, cell
  <2> DEFINE g == [z \in C |-> RateAt(q, z[1], z[2])]
  <2>4. \A z \in C : g[z] = rate[z]
    BY <2>1 DEF rate
  <2> HIDE DEF g
  <2>5. SumFunctionOnSet(g, C) = SumFunctionOnSet(g, C \cap S)
    <3>1. C \cap S \in SUBSET C
      OBVIOUS
    <3>2. (\A z \in C : g[z] \in Int) /\ (\A z \in C \ (C \cap S) : g[z] = 0)
      BY <1>2, <2>1, <2>4
    <3> QED
      BY <2>1, <3>1, <3>2, SumWhere
  <2>6. SumFunctionOnSet(F[p], S) = SumFunctionOnSet(F[p], C \cap S)
    <3>1. C \cap S \in SUBSET S
      OBVIOUS
    <3>2. (\A z \in S : F[p][z] \in Int) /\ (\A z \in S \ (C \cap S) : F[p][z] = 0)
      BY <1>1, <1>2, <2>3
    <3> QED
      BY <1>1, <3>1, <3>2, SumWhere
  <2>7. SumFunctionOnSet(g, C \cap S) = SumFunctionOnSet(F[p], C \cap S)
    <3>1. IsFiniteSet(C \cap S) /\ \A z \in C \cap S : g[z] = F[p][z]
      BY <1>1, <2>3, <2>4, FS_Intersection
    <3> QED
      BY <3>1, SumSame
  <2> QED
    BY <2>2, <2>5, <2>6, <2>7 DEF g
<1>5. ASSUME NEW z \in S PROVE SumFunctionOnSet([p \in D |-> F[p][z]], D) = inside[z]
  <2> DEFINE f == [p \in D |-> F[p][z]]
  <2>1. z = <<z[1], z[2]>> /\ z[1] \in Int /\ z[2] \in Int
    BY <1>1
  <2>2. \A p \in D : z \in cell(p) <=> Within(q.dy, p[1], z[1]) /\ Within(q.dx, p[2], z[2])
    <3> SUFFICES ASSUME NEW p \in D
                 PROVE z \in cell(p) <=> Within(q.dy, p[1], z[1]) /\ Within(q.dx, p[2], z[2])
      OBVIOUS
    <3>1. /\ q.dy[p[1]] \in Int /\ q.dy[p[1] + 1] \in Int
          /\ q.dx[p[2]] \in Int /\ q.dx[p[2] + 1] \in Int
      BY EdgesOfCell DEF SoundRain, Grid
    <3> HIDE DEF S
    <3> QED
      BY <2>1, <3>1 DEF Squares, Within
  <2>3. \A p \in D : f[p] = IF z \in cell(p) THEN rate[z] ELSE 0
    OBVIOUS
  <2>4. rate[z] \in Int /\ rate[z] = RateAt(q, z[1], z[2])
    BY <1>1, <1>2
  <2>5. ~IsOutside(q, z[1], z[2]) <=>
            (\E i \in Cells(q.dy) : Within(q.dy, i, z[1])) /\ (\E i \in Cells(q.dx) : Within(q.dx, i, z[2]))
    <3>1. /\ q.dy[1] \in Int /\ q.dy[Len(q.dy)] \in Int /\ q.dx[1] \in Int /\ q.dx[Len(q.dx)] \in Int
      BY EdgesOfCell DEF SoundRain
    <3>2. ~IsOutside(q, z[1], z[2]) <=>
            (q.dy[1] <= z[1] /\ z[1] < q.dy[Len(q.dy)]) /\ (q.dx[1] <= z[2] /\ z[2] < q.dx[Len(q.dx)])
      BY DEF IsOutside, Within, Ends
    <3> QED
      BY <2>1, <3>2, OneCell DEF SoundRain
  <2> HIDE DEF f, rate, cell, F, S
  <2>6. CASE IsOutside(q, z[1], z[2])
    <3>1. \A p \in D : f[p] = 0
      BY <2>2, <2>3, <2>5, <2>6 DEF Grid
    <3>2. SumFunctionOnSet(f, D) = 0 * Cardinality(D) /\ 0 * Cardinality(D) = 0
      <4>1. 0 \in Int /\ Cardinality(D) \in Nat
        BY <1>1, FS_CardinalityType
      <4>2. \A n \in Nat : 0 * n = 0
        OBVIOUS
      <4> HIDE DEF D
      <4> QED
        BY <1>1, <3>1, <4>1, <4>2, SumConstant
    <3> QED
      BY <2>6, <3>2 DEF f
  <2>7. CASE ~IsOutside(q, z[1], z[2])
    <3>1. PICK r \in Cells(q.dy), c \in Cells(q.dx) : Within(q.dy, r, z[1]) /\ Within(q.dx, c, z[2])
      BY <2>5, <2>7
    <3> DEFINE o == <<r, c>>
    <3>2. o \in D /\ f[o] = rate[z]
      BY <2>2, <2>3, <3>1 DEF Grid
    <3>3. \A p \in D \ {o} : f[p] = 0
      <4> SUFFICES ASSUME NEW p \in D, p # o, z \in cell(p) PROVE FALSE
        BY <2>3
      <4>1. p = <<p[1], p[2]>> /\ p[1] \in Cells(q.dy) /\ p[2] \in Cells(q.dx)
        BY DEF Grid
      <4>2. Within(q.dy, p[1], z[1]) /\ Within(q.dx, p[2], z[2])
        BY <2>2
      <4>3. p[1] = r /\ p[2] = c
        BY <2>1, <3>1, <4>1, <4>2, OneCell DEF SoundRain
      <4> QED
        BY <4>1, <4>3
    <3>4. SumFunctionOnSet(f, D) = SumFunctionOnSet(f, {o})
      <4>1. \A p \in D : f[p] \in Int
        BY <2>3, <2>4
      <4>2. {o} \in SUBSET D
        BY <3>2
      <4> HIDE DEF o, D
      <4> QED
        BY <1>1, <3>3, <4>1, <4>2, SumWhere
    <3>5. SumFunctionOnSet(f, {o}) = rate[z] * 1
      <4>1. IsFiniteSet({o}) /\ Cardinality({o}) = 1 /\ \A p \in {o} : f[p] = rate[z]
        BY <3>2, FS_Singleton
      <4> HIDE DEF o
      <4> QED
        BY <2>4, <4>1, SumConstant
    <3> QED
      BY <2>4, <2>7, <3>4, <3>5 DEF f
  <2> QED
    BY <2>6, <2>7
<1>6. \A p \in D, z \in S : F[p][z] \in Int
  BY <1>1, <1>2
<1>7. SumFunctionOnSet([p \in D |-> SumFunctionOnSet(F[p], S)], D)
      = SumFunctionOnSet([z \in S |-> SumFunctionOnSet([p \in D |-> F[p][z]], D)], S)
  <2> HIDE DEF F, S, D
  <2> QED
    BY <1>1, <1>6, SumExchange
<1>8. [p \in D |-> SumFunctionOnSet(F[p], S)] = [p \in D |-> RainOn(q, p[1], p[2])]
  <2> HIDE DEF F, S, D
  <2> QED
    BY <1>4
<1>9. [z \in S |-> SumFunctionOnSet([p \in D |-> F[p][z]], D)] = inside
  <2> HIDE DEF F, S, D
  <2> QED
    BY <1>5
<1> HIDE DEF F, S, D
<1>10. SumFunctionOnSet([p \in D |-> RainOn(q, p[1], p[2])], D) = SumFunctionOnSet(inside, S)
  BY <1>7, <1>8, <1>9
<1>11. SumFunction([p \in D |-> RainOn(q, p[1], p[2])]) = SumFunction(inside)
  BY <1>10, SumOverDomain
<1> QED
  BY <1>11 DEF D, S, VolumeAfter

LEMMA RainIsConserved ==
    ASSUME NEW q, SoundRain(q)
    PROVE  /\ VolumeBefore(q) \in Nat /\ VolumeAfter(q) \in Int
           /\ VolumeBefore(q) = VolumeAfter(q) + RainOutside(q)
<1> DEFINE S == Source(q)
           G == Grid(q.sy, q.sx)
           all == [z \in S |-> RateAt(q, z[1], z[2])]
           inside == [z \in S |-> IF IsOutside(q, z[1], z[2]) THEN 0 ELSE RateAt(q, z[1], z[2])]
           outside == [z \in S |-> IF IsOutside(q, z[1], z[2]) THEN RateAt(q, z[1], z[2]) ELSE 0]
           volume == [p \in G |-> q.rates[p[1]][p[2]] * Width(q.sy, p[1]) * Width(q.sx, p[2])]
<1>1. IsFiniteSet(S) /\ IsFiniteSet(G)
  BY SourceSquares
<1>2. /\ VolumeBefore(q) = SumFunctionOnSet(all, S)
      /\ VolumeAfter(q) = SumFunctionOnSet(inside, S)
      /\ RainOutside(q) = SumFunctionOnSet(outside, S)
  <2>1. /\ VolumeBefore(q) = SumFunction(all)
        /\ VolumeAfter(q) = SumFunction(inside)
        /\ RainOutside(q) = SumFunction(outside)
    BY SourceSquares, RainAfter DEF RainOutside, Source
  <2>2. DOMAIN all = S /\ DOMAIN inside = S /\ DOMAIN outside = S
    OBVIOUS
  <2> HIDE DEF all, inside, outside, S
  <2> QED
    BY <2>1, <2>2, SumOverDomain
<1>3. \A z \in S : inside[z] \in Int /\ outside[z] \in Int /\ all[z] = 1 * inside[z] + outside[z]
  <2> SUFFICES ASSUME NEW z \in S
               PROVE  inside[z] \in Int /\ outside[z] \in Int /\ all[z] = 1 * inside[z] + outside[z]
    OBVIOUS
  <2>1. RateAt(q, z[1], z[2]) \in Int
    BY SourceSquares, RatesAreIntegers
  <2> QED
    BY <2>1
<1>4. VolumeBefore(q) = 1 * VolumeAfter(q) + RainOutside(q)
  <2> HIDE DEF all, inside, outside, S
  <2>1. 1 \in Int
    OBVIOUS
  <2>2. SumFunctionOnSet(all, S) = 1 * SumFunctionOnSet(inside, S) + SumFunctionOnSet(outside, S)
    BY <1>1, <1>3, <2>1, SumLinear
  <2> QED
    BY <1>2, <2>2
<1>5. VolumeAfter(q) \in Int /\ RainOutside(q) \in Int
  <2> HIDE DEF all, inside, outside, S
  <2> QED
    BY <1>1, <1>2, <1>3, SumStep
<1>6. \A p \in G : volume[p] \in Nat
  <2> SUFFICES ASSUME NEW p \in G PROVE volume[p] \in Nat
    OBVIOUS
  <2>1. /\ q.sy[p[1]] \in Int /\ q.sy[p[1] + 1] \in Int /\ q.sy[p[1]] < q.sy[p[1] + 1]
        /\ q.sx[p[2]] \in Int /\ q.sx[p[2] + 1] \in Int /\ q.sx[p[2]] < q.sx[p[2] + 1]
    BY EdgesOfCell DEF SoundRain, Grid
  <2>2. Width(q.sy, p[1]) \in Nat /\ Width(q.sx, p[2]) \in Nat /\ q.rates[p[1]][p[2]] \in Nat
    <3>1. \A a, b \in Int : a < b => b - a \in Nat
      OBVIOUS
    <3>2. Width(q.sy, p[1]) \in Nat
      BY <2>1, <3>1 DEF Width
    <3>3. Width(q.sx, p[2]) \in Nat
      BY <2>1, <3>1 DEF Width
    <3> QED
      BY <3>2, <3>3 DEF SoundRain
  <2>3. \A m, n, k \in Nat : m * n * k \in Nat
    OBVIOUS
  <2> QED
    BY <2>2, <2>3
<1>7. VolumeBefore(q) \in Nat
  <2>1. VolumeBefore(q) = SumFunctionOnSet(volume, G)
    BY SumOverDomain DEF VolumeBefore
  <2> DEFINE zero == [p \in G |-> 0]
  <2>2. \A p \in G : zero[p] = 0 /\ zero[p] \in Int /\ volume[p] \in Int /\ zero[p] <= volume[p]
    BY <1>6
  <2> HIDE DEF volume, zero, G
  <2>3. SumFunctionOnSet(zero, G) <= SumFunctionOnSet(volume, G)
    BY <1>1, <2>2, SumOrder
  <2>4. SumFunctionOnSet(zero, G) = 0 * Cardinality(G) /\ 0 * Cardinality(G) = 0
    <3>1. 0 \in Int /\ Cardinality(G) \in Nat
      BY <1>1, FS_CardinalityType
    <3>2. \A n \in Nat : 0 * n = 0
      OBVIOUS
    <3> QED
      BY <1>1, <2>2, <3>1, <3>2, SumConstant
  <2>5. SumFunctionOnSet(volume, G) \in Int
    BY <1>1, <2>2, SumStep
  <2> QED
    BY <2>1, <2>3, <2>4, <2>5
<1> QED
  BY <1>4, <1>5, <1>7

-----------------------------------------------------------------------------
(* Of the arrays offered for a grid, one that fits is of its shape.         *)
LEMMA WhatFitsIsOfTheShape ==
    ASSUME NEW h \in Nat, NEW w \in Nat, NEW S, NEW v \in Offered(h, w, S), Fits(v, h, w)
    PROVE  v \in [1..h -> [1..w -> S]]
<1>1. CASE v \in Arrays(h, w, S)
  BY <1>1 DEF Arrays
<1>2. CASE v \in Arrays(1, 1, S)
  <2>1. v \in [1..1 -> [1..1 -> S]]
    BY <1>2 DEF Arrays
  <2>2. Len(v) = 1 /\ Len(v[1]) = 1
    BY <2>1
  <2>3. Len(v) = h /\ \A r \in 1..h : Len(v[r]) = w
    BY DEF Fits
  <2>4. h = 1 /\ w = 1
    BY <2>2, <2>3
  <2> QED
    BY <2>1, <2>4
<1> QED
  BY <1>1, <1>2 DEF Offered

LEMMA RainCallIsSound ==
    ASSUME CallRain, answer' # None
    PROVE  request'.call = "rain" /\ SoundRain(request') /\ answer' = RemapRain(request')
<1>1. PICK sx, dx \in EdgesX, sy, dy \in EdgesY, tolerance \in Tolerances :
      \E rates \in Offered(Len(sy) - 1, Len(sx) - 1, Rates) :
          LET q == [call |-> "rain", sx |-> sx, sy |-> sy, dx |-> dx, dy |-> dy,
                    rates |-> rates, tolerance |-> tolerance]
          IN  Answer(q, AcceptsRain(q), RemapRain(q))
  BY DEF CallRain
<1>2. PICK rates \in Offered(Len(sy) - 1, Len(sx) - 1, Rates) :
          LET q == [call |-> "rain", sx |-> sx, sy |-> sy, dx |-> dx, dy |-> dy,
                    rates |-> rates, tolerance |-> tolerance]
          IN  Answer(q, AcceptsRain(q), RemapRain(q))
  BY <1>1
<1> DEFINE q == [call |-> "rain", sx |-> sx, sy |-> sy, dx |-> dx, dy |-> dy,
                 rates |-> rates, tolerance |-> tolerance]
<1>3. request' = q /\ AcceptsRain(q) /\ answer' = RemapRain(q)
  BY <1>2 DEF Answer
<1>4. /\ q.call = "rain" /\ q.sx = sx /\ q.sy = sy /\ q.dx = dx /\ q.dy = dy /\ q.rates = rates
      /\ q.tolerance = tolerance
  OBVIOUS
<1> HIDE DEF q
<1>5. /\ sx \in Seq(Int) /\ sy \in Seq(Int) /\ dx \in Seq(Int) /\ dy \in Seq(Int) /\ tolerance \in Int
      /\ Rates \subseteq Int
  BY ResamplingAssumption
<1>6. /\ tolerance >= 0 /\ IsEdges(sx) /\ IsEdges(sy) /\ IsEdges(dx) /\ IsEdges(dy)
      /\ Fits(rates, Len(sy) - 1, Len(sx) - 1)
      /\ \A r \in DOMAIN rates : \A c \in DOMAIN rates[r] : rates[r][c] >= 0
  BY <1>3, <1>4 DEF AcceptsRain
<1>7. rates \in [1..(Len(sy) - 1) -> [1..(Len(sx) - 1) -> Rates]]
  <2>1. \A s \in Seq(Int) : IsEdges(s) => Len(s) - 1 \in Nat
    BY DEF IsEdges
  <2>2. Len(sy) - 1 \in Nat /\ Len(sx) - 1 \in Nat
    BY <1>5, <1>6, <2>1
  <2> QED
    BY <1>6, <2>2, WhatFitsIsOfTheShape
<1>8. \A p \in Grid(sy, sx) : rates[p[1]][p[2]] \in Nat
  <2> SUFFICES ASSUME NEW p \in Grid(sy, sx) PROVE rates[p[1]][p[2]] \in Nat
    OBVIOUS
  <2>1. p[1] \in DOMAIN rates /\ p[2] \in DOMAIN rates[p[1]] /\ rates[p[1]][p[2]] \in Rates
    BY <1>7 DEF Grid, Cells
  <2>2. rates[p[1]][p[2]] >= 0
    BY <1>6, <2>1
  <2>3. rates[p[1]][p[2]] \in Int
    BY <1>5, <2>1
  <2> QED
    BY <2>2, <2>3
<1>9. SoundRain(q)
  BY <1>4, <1>5, <1>6, <1>8 DEF SoundRain
<1> QED
  BY <1>3, <1>4, <1>9

(* What falls on the ground stays on it: of every accepted remap, whatever  *)
(* the grids, each destination cell has the rain of the squares it covers,  *)
(* what is missing fell outside, and the conservation gate passes if none   *)
(* did (resampling.py:124-139, 161-162 and 173-195).                        *)
THEOREM RainStaysOnTheGround == Spec => []RainFallsWhereItFell
<1>1. Init => RainFallsWhereItFell
  BY DEF Init, NoCall, RainFallsWhereItFell, Answered
<1>2. ASSUME CallRain PROVE RainFallsWhereItFell'
  <2> SUFFICES ASSUME answer' # None PROVE RainFallsWhereItFell'
    BY DEF RainFallsWhereItFell, Answered
  <2> DEFINE q == request'
  <2>1. SoundRain(q) /\ answer' = RemapRain(q)
    BY <1>2, RainCallIsSound
  <2>2. ASSUME NEW r \in Cells(q.dy), NEW c \in Cells(q.dx)
        PROVE  answer'.rain[r][c] =
                   SumFunction([z \in Squares(q.dy[r], q.dy[r + 1], q.dx[c], q.dx[c + 1]) |->
                       RateAt(q, z[1], z[2])])
    <3>1. answer'.rain[r][c] = RainOn(q, r, c)
      BY <2>1 DEF RemapRain
    <3> HIDE DEF q
    <3> QED
      BY <2>1, <3>1, RainOnCell
  <2>3. answer'.before = VolumeBefore(q) /\ answer'.after = VolumeAfter(q)
        /\ answer'.passed = (Distance(VolumeBefore(q), VolumeAfter(q)) * Whole
                             <= q.tolerance * VolumeBefore(q))
    BY <2>1 DEF RemapRain
  <2>4. /\ VolumeBefore(q) \in Nat /\ VolumeAfter(q) \in Int
        /\ VolumeBefore(q) = VolumeAfter(q) + RainOutside(q)
    <3> HIDE DEF q
    <3> QED
      BY <2>1, RainIsConserved
  <2>5. ASSUME RainOutside(q) = 0 PROVE answer'.passed
    <3> DEFINE v == VolumeBefore(q)
    <3>1. VolumeAfter(q) = v
      BY <2>4, <2>5
    <3>2. Distance(v, v) = 0 /\ Whole \in Nat /\ q.tolerance \in Nat /\ v \in Nat
      BY <2>1, <2>4, ResamplingAssumption DEF Distance, SoundRain
    <3>3. \A m, n, k \in Nat : 0 * m <= n * k
      OBVIOUS
    <3> HIDE DEF v
    <3>4. Distance(v, v) * Whole <= q.tolerance * v
      BY <3>2, <3>3
    <3> QED
      BY <2>3, <3>1, <3>4 DEF v
  <2> QED
    BY <2>2, <2>3, <2>4, <2>5 DEF RainFallsWhereItFell
<1>3. ASSUME RainFallsWhereItFell, [Next]_<<calls, drawing>>, ~CallRain PROVE RainFallsWhereItFell'
  <2>1. UNCHANGED calls \/ request'.call # "rain"
    BY <1>3, OneCall
  <2>2. CASE UNCHANGED calls
    BY <1>3, <2>2 DEF RainFallsWhereItFell, Answered, calls
  <2>3. CASE request'.call # "rain"
    BY <2>3 DEF RainFallsWhereItFell, Answered
  <2> QED
    BY <2>1, <2>2, <2>3
<1> QED
  BY <1>1, <1>2, <1>3, PTL DEF Spec

-----------------------------------------------------------------------------
(* nearest_resample_categorical. *)

(* A set of numbers from 1 without gaps is counted by its last.             *)
LEMMA CountFromOne ==
    ASSUME NEW n \in Nat, NEW A \in SUBSET (1..n), \A i \in A : \A j \in 1..i : j \in A
    PROVE  Cardinality(A) \in 0..n /\ A = 1..Cardinality(A)
<1> DEFINE Missing == {k \in 1..(n + 1) : k \notin A}
<1>1. PICK k \in Missing : \A m \in Missing : k <= m
  <2>1. Missing \in SUBSET Nat /\ n + 1 \in Missing
    OBVIOUS
  <2> HIDE DEF Missing
  <2> QED
    BY <2>1, SmallestNumber
<1>2. A = 1..(k - 1)
  <2>1. ASSUME NEW i \in A PROVE i \in 1..(k - 1)
    <3>1. i \in 1..n /\ i \in Nat /\ k \in Nat \ {0} /\ k \notin A
      OBVIOUS
    <3>2. k <= i => k \in 1..i
      BY <3>1
    <3> QED
      BY <3>1, <3>2
  <2>2. ASSUME NEW i \in 1..(k - 1) PROVE i \in A
    <3>1. i \in 1..(n + 1) /\ ~(k <= i)
      OBVIOUS
    <3> QED
      BY <1>1, <3>1
  <2> QED
    BY <2>1, <2>2
<1>3. k - 1 \in 0..n /\ Cardinality(1..(k - 1)) = k - 1
  <2>1. 1 \in Int /\ k - 1 \in 0..n
    OBVIOUS
  <2>2. Cardinality(1..(k - 1)) = IF 1 > k - 1 THEN 0 ELSE (k - 1) - 1 + 1
    BY <2>1, FS_Interval
  <2> QED
    BY <2>1, <2>2
<1> QED
  BY <1>2, <1>3

LEMMA NearestIsOnItsSide ==
    ASSUME NEW s \in Seq(Int), IsCenters(s), NEW x \in Int
    PROVE  Nearest(s, x) = Side(s, x) /\ Side(s, x) \in 1..Len(s)
<1> DEFINE n == Len(s)
           A == {i \in Cells(s) : 2 * x > s[i] + s[i + 1]}
           k == 1 + Cardinality(A)
           better(i, j) == Distance(s[i], x) < Distance(s[j], x)
                           \/ (Distance(s[i], x) = Distance(s[j], x) /\ i <= j)
<1>1. n \in Nat /\ n >= 1 /\ Increasing(s) /\ \A i \in 1..n : s[i] \in Int
  BY DEF IsCenters
<1>2. \A i \in Cells(s) : i \in 1..n /\ i + 1 \in 1..n
  BY <1>1 DEF Cells
<1>3. \A i, j \in 1..n : i <= j => s[i] <= s[j]
  <2> SUFFICES ASSUME NEW i \in 1..n, NEW j \in 1..n, i <= j PROVE s[i] <= s[j]
    OBVIOUS
  <2>1. ~(s[j] < s[i])
    BY <1>1, IncreasingThroughout
  <2> QED
    BY <1>1, <2>1
<1>4. Cardinality(A) \in 0..(n - 1) /\ A = 1..Cardinality(A)
  <2>1. A \in SUBSET (1..(n - 1)) /\ n - 1 \in Nat
    BY <1>1 DEF Cells
  <2>2. ASSUME NEW i \in A, NEW j \in 1..i PROVE j \in A
    <3>1. j \in Cells(s) /\ j <= i /\ j + 1 <= i + 1 /\ i \in Cells(s)
      BY <2>1 DEF Cells
    <3>2. s[j] <= s[i] /\ s[j + 1] <= s[i + 1]
      BY <1>2, <1>3, <3>1
    <3>3. s[i] \in Int /\ s[j] \in Int /\ s[i + 1] \in Int /\ s[j + 1] \in Int
      BY <1>1, <1>2, <3>1
    <3>4. 2 * x > s[i] + s[i + 1]
      OBVIOUS
    <3>5. 2 * x > s[j] + s[j + 1]
      BY <3>2, <3>3, <3>4
    <3> QED
      BY <3>1, <3>5
  <2> HIDE DEF A, n
  <2> QED
    BY <2>1, <2>2, CountFromOne
<1>5. k \in 1..n
  BY <1>1, <1>4
<1>6. \A i, j \in 1..n : s[i] < s[j] => (Distance(s[i], x) <= Distance(s[j], x) <=> 2 * x <= s[i] + s[j])
  <2> SUFFICES ASSUME NEW i \in 1..n, NEW j \in 1..n, s[i] < s[j]
               PROVE Distance(s[i], x) <= Distance(s[j], x) <=> 2 * x <= s[i] + s[j]
    OBVIOUS
  <2>1. s[i] \in Int /\ s[j] \in Int
    BY <1>1
  <2> QED
    BY <2>1 DEF Distance
<1>7. \A i \in 1..n : Distance(s[i], x) \in Int
  BY <1>1 DEF Distance
<1>8. \A j \in 1..n : better(k, j)
  <2> SUFFICES ASSUME NEW j \in 1..n PROVE better(k, j)
    OBVIOUS
  <2>1. CASE j = k
    BY <2>1, <1>7
  <2>2. CASE j < k
    <3>1. k - 1 \in A /\ k - 1 \in 1..n /\ (k - 1) + 1 = k /\ j <= k - 1
      <4>1. Cardinality(A) = k - 1
        BY <1>4
      <4>2. k - 1 \in 1..Cardinality(A)
        BY <1>4, <1>5, <2>2
      <4>3. k - 1 \in A
        BY <1>4, <4>2
      <4> HIDE DEF A, k
      <4> QED
        BY <1>5, <2>2, <4>3
    <3>2. 2 * x > s[k - 1] + s[k]
      BY <3>1
    <3>3. s[j] <= s[k - 1] /\ s[j] < s[k]
      BY <1>1, <1>3, <1>5, <2>2, <3>1, IncreasingThroughout
    <3>4. s[j] \in Int /\ s[k] \in Int /\ s[k - 1] \in Int
      BY <1>1, <1>5, <3>1
    <3>5. ~(2 * x <= s[j] + s[k])
      BY <3>2, <3>3, <3>4
    <3> HIDE DEF k
    <3>6. ~(Distance(s[j], x) <= Distance(s[k], x))
      BY <1>5, <1>6, <3>3, <3>5
    <3> QED
      BY <1>5, <1>7, <3>6
  <2>3. CASE k < j
    <3>1. k \in Cells(s) /\ k \notin A /\ k + 1 \in 1..n /\ k + 1 <= j
      <4>1. k \notin A
        <5> HIDE DEF A
        <5> DEFINE m == Cardinality(A)
        <5>1. m \in Nat /\ A = 1..m /\ k = 1 + m
          BY <1>1, <1>4
        <5> HIDE DEF m, k
        <5> QED
          BY <5>1
      <4> HIDE DEF A, k
      <4> QED
        BY <1>1, <1>5, <2>3, <4>1 DEF Cells
    <3>2. s[k] \in Int /\ s[k + 1] \in Int /\ s[j] \in Int
      BY <1>1, <1>5, <3>1
    <3>3. ~(2 * x > s[k] + s[k + 1])
      BY <3>1
    <3>4. s[k + 1] <= s[j] /\ s[k] < s[j]
      BY <1>1, <1>3, <1>5, <2>3, <3>1, IncreasingThroughout
    <3>5. 2 * x <= s[k] + s[j]
      BY <3>2, <3>3, <3>4
    <3> HIDE DEF k
    <3>6. Distance(s[k], x) <= Distance(s[j], x)
      BY <1>5, <1>6, <3>4, <3>5
    <3> QED
      BY <1>5, <1>7, <2>3, <3>6
  <2> QED
    BY <1>1, <1>5, <2>1, <2>2, <2>3
<1> HIDE DEF k
<1>9. \A i \in 1..n : (\A j \in 1..n : better(i, j)) => i = k
  <2> SUFFICES ASSUME NEW i \in 1..n, better(i, k), better(k, i) PROVE i = k
    BY <1>5, <1>8
  <2>1. Distance(s[i], x) \in Int /\ Distance(s[k], x) \in Int
    BY <1>5, <1>7
  <2> QED
    BY <1>5, <2>1
<1>10. Nearest(s, x) = k
  BY <1>5, <1>8, <1>9 DEF Nearest
<1> QED
  BY <1>5, <1>10 DEF k, Side

(* Whatever the grids, a category is that of the side of the midpoints on   *)
(* which the point lies (resampling.py:68-70).                              *)
THEOREM MidpointsSplitCategories == Spec => []CategoriesSplitAtMidpoints
<1>1. Init => CategoriesSplitAtMidpoints
  BY DEF Init, NoCall, CategoriesSplitAtMidpoints, Answered
<1>2. ASSUME CallCategories PROVE CategoriesSplitAtMidpoints'
  <2> SUFFICES ASSUME answer' # None PROVE CategoriesSplitAtMidpoints'
    BY DEF CategoriesSplitAtMidpoints, Answered
  <2>1. PICK sx, dx \in CentersX, sy, dy \in CentersY :
        \E values \in Offered(Len(sy), Len(sx), Classes) :
            LET q == [call |-> "categories", sx |-> sx, sy |-> sy, dx |-> dx, dy |-> dy,
                      values |-> values]
            IN  Answer(q, AcceptsCenters(q), ResampleCategories(q))
    BY <1>2 DEF CallCategories
  <2>2. PICK values \in Offered(Len(sy), Len(sx), Classes) :
            LET q == [call |-> "categories", sx |-> sx, sy |-> sy, dx |-> dx, dy |-> dy,
                      values |-> values]
            IN  Answer(q, AcceptsCenters(q), ResampleCategories(q))
    BY <2>1
  <2> DEFINE q == [call |-> "categories", sx |-> sx, sy |-> sy, dx |-> dx, dy |-> dy,
                   values |-> values]
  <2>3. request' = q /\ AcceptsCenters(q) /\ answer' = ResampleCategories(q)
    BY <2>2 DEF Answer
  <2>4. q.sx = sx /\ q.sy = sy /\ q.dx = dx /\ q.dy = dy
    OBVIOUS
  <2> HIDE DEF q
  <2>5. /\ sx \in Seq(Int) /\ sy \in Seq(Int) /\ dx \in Seq(Int) /\ dy \in Seq(Int)
        /\ IsCenters(sx) /\ IsCenters(sy)
    BY <2>3, <2>4, ResamplingAssumption DEF AcceptsCenters
  <2>6. answer' = [r \in 1..Len(dy) |-> [c \in 1..Len(dx) |->
                      q.values[Nearest(sy, dy[r])][Nearest(sx, dx[c])]]]
    BY <2>3, <2>4 DEF ResampleCategories
  <2>7. ASSUME NEW r \in DOMAIN answer', NEW c \in DOMAIN answer'[r]
        PROVE  answer'[r][c] = q.values[Side(sy, dy[r])][Side(sx, dx[c])]
    <3>1. r \in 1..Len(dy) /\ c \in 1..Len(dx)
      BY <2>6
    <3>2. dy[r] \in Int /\ dx[c] \in Int
      BY <2>5, <3>1
    <3>3. Nearest(sy, dy[r]) = Side(sy, dy[r]) /\ Nearest(sx, dx[c]) = Side(sx, dx[c])
      BY <2>5, <3>2, NearestIsOnItsSide
    <3> QED
      BY <2>6, <3>1, <3>3
  <2> QED
    BY <2>3, <2>4, <2>7 DEF CategoriesSplitAtMidpoints
<1>3. ASSUME CategoriesSplitAtMidpoints, [Next]_<<calls, drawing>>, ~CallCategories PROVE CategoriesSplitAtMidpoints'
  <2>1. UNCHANGED calls \/ request'.call # "categories"
    BY <1>3, OneCall
  <2>2. CASE UNCHANGED calls
    BY <1>3, <2>2 DEF CategoriesSplitAtMidpoints, Answered, calls
  <2>3. CASE request'.call # "categories"
    BY <2>3 DEF CategoriesSplitAtMidpoints, Answered
  <2> QED
    BY <2>1, <2>2, <2>3
<1> QED
  BY <1>1, <1>2, <1>3, PTL DEF Spec

-----------------------------------------------------------------------------
(* bilinear_resample_elevation. *)

Fractions == Int \X (Nat \ {0})

(* What np.interp returns: the value of a center, which is all that is next *)
(* to the point, or a blend of the two on either side.                      *)
LEMMA InterpCases ==
    ASSUME NEW s \in Seq(Int), IsCenters(s), NEW x \in Int, NEW f
    PROVE  \/ \E i \in 1..Len(s) :
                  Interp(x, s, f) = f[i] /\ Clamp(s, x) = s[i] /\ i \in NextTo(s, x)
           \/ \E i \in Cells(s) :
                  /\ Within(s, i, x) /\ Clamp(s, x) = x
                  /\ Interp(x, s, f) = Blend(f[i], f[i + 1], x - s[i], Width(s, i))
                  /\ i \in NextTo(s, x)
                  /\ s[i] < x => i + 1 \in NextTo(s, x)
<1> DEFINE n == Len(s)
<1>1. n \in Nat /\ n >= 1 /\ Increasing(s) /\ 1 \in 1..n /\ n \in 1..n /\ \A i \in 1..n : s[i] \in Int
  BY DEF IsCenters
<1>2. s[1] <= s[n]
  <2>1. ~(s[n] < s[1])
    BY <1>1, IncreasingThroughout
  <2> QED
    BY <1>1, <2>1
<1>3. Clamp(s, x) = IF x <= s[1] THEN s[1] ELSE IF x >= s[n] THEN s[n] ELSE x
  <2> DEFINE m == IF x <= s[n] THEN x ELSE s[n]
  <2>1. Min({x, s[n]}) = m
    BY <1>1, MinOfTwo
  <2>2. m \in Int
    BY <1>1
  <2>3. Clamp(s, x) = IF s[1] >= m THEN s[1] ELSE m
    <3> HIDE DEF m
    <3>1. Clamp(s, x) = Max({s[1], m})
      BY <2>1, Zenon DEF Clamp
    <3> QED
      BY <1>1, <2>2, <3>1, MaxOfTwo
  <2> QED
    BY <1>1, <1>2, <2>3
<1>4. ASSUME NEW i \in 1..n, Clamp(s, x) = s[i] PROVE i \in NextTo(s, x)
  <2>1. \A j \in 1..n : ~(s[i] < s[j] /\ s[j] <= s[i]) /\ ~(s[i] > s[j] /\ s[j] >= s[i])
    BY <1>1
  <2> QED
    BY <1>4, <2>1 DEF NextTo
<1>5. CASE x <= s[1]
  <2>1. Interp(x, s, f) = f[1] /\ Clamp(s, x) = s[1]
    BY <1>3, <1>5 DEF Interp
  <2> QED
    BY <1>1, <1>4, <2>1
<1>6. CASE ~(x <= s[1]) /\ x >= s[n]
  <2>1. Interp(x, s, f) = f[n] /\ Clamp(s, x) = s[n]
    BY <1>3, <1>6 DEF Interp
  <2> QED
    BY <1>1, <1>4, <2>1
<1>7. CASE ~(x <= s[1]) /\ ~(x >= s[n])
  <2>1. s[1] < x /\ x < s[n] /\ Clamp(s, x) = x
    BY <1>1, <1>3, <1>7
  <2>2. IsEdges(s)
    <3>1. n # 1
      BY <1>1, <2>1
    <3>2. n \in Nat /\ n >= 1
      BY <1>1
    <3> HIDE DEF n
    <3>3. n >= 2
      BY <3>1, <3>2
    <3> QED
      BY <1>1, <3>3, Zenon DEF IsEdges, n
  <2> DEFINE i == CHOOSE i \in Cells(s) : s[i] <= x /\ x < s[i + 1]
  <2>3. i \in Cells(s) /\ s[i] <= x /\ x < s[i + 1]
    <3>1. \E j \in Cells(s) : s[j] <= x /\ x < s[j + 1]
      BY <1>1, <2>1, <2>2, OneCell DEF Within
    <3> QED
      BY <3>1
  <2>4. Interp(x, s, f) = Blend(f[i], f[i + 1], x - s[i], Width(s, i))
    BY <1>7 DEF Interp
  <2> HIDE DEF i
  <2>5. i \in 1..n /\ i + 1 \in 1..n
    BY <1>1, <2>3 DEF Cells
  <2>6. \A j \in 1..n : (j <= i /\ s[j] <= s[i]) \/ (j >= i + 1 /\ s[j] >= s[i + 1])
    <3> SUFFICES ASSUME NEW j \in 1..n
                 PROVE  (j <= i /\ s[j] <= s[i]) \/ (j >= i + 1 /\ s[j] >= s[i + 1])
      OBVIOUS
    <3>1. ~(i < j) => ~(s[i] < s[j])
      BY <1>1, <2>5, IncreasingThroughout
    <3>2. ~(j < i + 1) => ~(s[j] < s[i + 1])
      BY <1>1, <2>5, IncreasingThroughout
    <3> QED
      BY <1>1, <2>5, <3>1, <3>2
  <2>7. i \in NextTo(s, x)
    <3>1. \A j \in 1..n : ~(s[i] < s[j] /\ s[j] <= x) /\ ~(s[i] > s[j] /\ s[j] >= x)
      BY <1>1, <2>3, <2>5, <2>6
    <3> QED
      BY <2>1, <2>5, <3>1 DEF NextTo
  <2>8. ASSUME s[i] < x PROVE i + 1 \in NextTo(s, x)
    <3>1. \A j \in 1..n : ~(s[i + 1] < s[j] /\ s[j] <= x) /\ ~(s[i + 1] > s[j] /\ s[j] >= x)
      BY <1>1, <2>3, <2>5, <2>6, <2>8
    <3> QED
      BY <2>1, <2>5, <3>1 DEF NextTo
  <2> QED
    BY <2>1, <2>3, <2>4, <2>7, <2>8 DEF Within
<1> QED
  BY <1>5, <1>6, <1>7

LEMMA BlendIsFraction ==
    ASSUME NEW a \in Fractions, NEW b \in Fractions, NEW n \in Nat, NEW d \in Nat, n < d
    PROVE  Blend(a, b, n, d) \in Fractions
<1>1. a[1] \in Int /\ a[2] \in Nat \ {0} /\ b[1] \in Int /\ b[2] \in Nat \ {0}
  BY DEF Fractions
<1>2. \A p, q \in Nat \ {0} : p * q \in Nat \ {0}
  OBVIOUS
<1>3. a[2] * b[2] * d \in Nat \ {0}
  BY <1>1, <1>2
<1>4. a[1] * b[2] * (d - n) + b[1] * a[2] * n \in Int
  BY <1>1
<1> QED
  BY <1>3, <1>4 DEF Blend, Fractions

IsBetween(z, low, high) == low * z[2] <= z[1] /\ z[1] <= high * z[2]

(* Interpolation keeps between the values of the centers next to the point. *)
LEMMA InterpBetween ==
    ASSUME NEW s \in Seq(Int), IsCenters(s), NEW x \in Int,
           NEW f, \A i \in 1..Len(s) : f[i] \in Fractions,
           NEW low \in Int, NEW high \in Int,
           \A i \in NextTo(s, x) : IsBetween(f[i], low, high)
    PROVE  /\ Interp(x, s, f) \in Fractions
           /\ IsBetween(Interp(x, s, f), low, high)
<1> USE DEF IsBetween
<1> DEFINE z == Interp(x, s, f)
<1>1. CASE \E i \in 1..Len(s) : z = f[i] /\ Clamp(s, x) = s[i] /\ i \in NextTo(s, x)
  BY <1>1
<1>2. CASE \E i \in Cells(s) :
               /\ Within(s, i, x) /\ Clamp(s, x) = x
               /\ z = Blend(f[i], f[i + 1], x - s[i], Width(s, i))
               /\ i \in NextTo(s, x)
               /\ s[i] < x => i + 1 \in NextTo(s, x)
  <2>1. PICK i \in Cells(s) :
               /\ Within(s, i, x)
               /\ z = Blend(f[i], f[i + 1], x - s[i], Width(s, i))
               /\ i \in NextTo(s, x)
               /\ s[i] < x => i + 1 \in NextTo(s, x)
    BY <1>2
  <2>2. i \in 1..Len(s) /\ i + 1 \in 1..Len(s) /\ s[i] \in Int /\ s[i + 1] \in Int
    <3>1. i \in 1..Len(s) /\ i + 1 \in 1..Len(s)
      BY DEF Cells
    <3> QED
      BY <3>1
  <2> DEFINE n == x - s[i]
             d == Width(s, i)
             a == f[i]
             b == f[i + 1]
  <2>3. n \in Nat /\ d \in Nat /\ n < d
    BY <2>1, <2>2 DEF Within, Width
  <2>4. a \in Fractions /\ b \in Fractions
    BY <2>2
  <2>5. z = Blend(a, b, n, d)
    BY <2>1
  <2>6. low * a[2] <= a[1] /\ a[1] <= high * a[2]
    BY <2>1
  <2>7. n = 0 \/ (low * b[2] <= b[1] /\ b[1] <= high * b[2])
    <3>1. CASE s[i] < x
      BY <2>1, <3>1
    <3>2. CASE ~(s[i] < x)
      <4>1. s[i] = x
        BY <2>1, <2>2, <3>2 DEF Within
      <4> QED
        BY <4>1
    <3> QED
      BY <3>1, <3>2
  <2> HIDE DEF z, n, d, a, b
  <2>8. z \in Fractions
    BY <2>3, <2>4, <2>5, BlendIsFraction
  <2>9. a[1] \in Int /\ a[2] \in Nat /\ b[1] \in Int /\ b[2] \in Nat
    BY <2>4 DEF Fractions
  <2>10. z[1] = a[1] * (b[2] * (d - n)) + b[1] * (a[2] * n) /\ z[2] = a[2] * b[2] * d
    <3>1. z[1] = a[1] * b[2] * (d - n) + b[1] * a[2] * n /\ z[2] = a[2] * b[2] * d
      BY <2>5 DEF Blend
    <3>2. d - n \in Int /\ n \in Int /\ a[2] \in Int /\ b[2] \in Int
      BY <2>3, <2>9
    <3>3. PICK A, B, K, L, N, R \in Int :
              A = a[1] /\ B = b[1] /\ K = a[2] /\ L = b[2] /\ N = n /\ R = d - n
      BY <2>9, <3>2, Zenon
    <3>4. A * L * R = A * (L * R) /\ B * K * N = B * (K * N)
      OBVIOUS
    <3> QED
      BY <3>1, <3>3, <3>4, Zenon
  <2> DEFINE u == b[2] * (d - n)
             v == a[2] * n
  <2>11. u \in Nat /\ v \in Nat
    <3>1. \A p, q \in Nat : p * q \in Nat
      OBVIOUS
    <3>2. d - n \in Nat
      BY <2>3
    <3> QED
      BY <2>3, <2>9, <3>1, <3>2
  <2>12. a[2] * u + b[2] * v = z[2]
    BY <2>3, <2>9, <2>10
  <2>13. \A p, q \in Int, k \in Nat : p <= q => p * k <= q * k
    OBVIOUS
  <2>14. (low * a[2]) * u <= a[1] * u /\ a[1] * u <= (high * a[2]) * u
    <3>1. low * a[2] \in Int /\ high * a[2] \in Int
      BY <2>9
    <3> HIDE DEF u
    <3> QED
      BY <2>6, <2>9, <2>11, <2>13, <3>1
  <2>15. (low * b[2]) * v <= b[1] * v /\ b[1] * v <= (high * b[2]) * v
    <3>1. CASE n = 0
      <4>1. v = 0
        BY <2>9, <3>1
      <4>2. \A p \in Int : p * 0 = 0
        OBVIOUS
      <4>3. low * b[2] \in Int /\ high * b[2] \in Int
        BY <2>9
      <4> HIDE DEF v
      <4> QED
        BY <2>9, <4>1, <4>2, <4>3
    <3>2. CASE low * b[2] <= b[1] /\ b[1] <= high * b[2]
      <4>1. low * b[2] \in Int /\ high * b[2] \in Int
        BY <2>9
      <4> HIDE DEF v
      <4> QED
        BY <2>9, <2>11, <2>13, <3>2, <4>1
    <3> QED
      BY <2>7, <3>1, <3>2
  <2> HIDE DEF u, v
  <2>16. \A t \in Int : (t * a[2]) * u + (t * b[2]) * v = t * (a[2] * u + b[2] * v)
    BY <2>9, <2>11
  <2>17. z[1] = a[1] * u + b[1] * v
    BY <2>10 DEF u, v
  <2>18. low * z[2] = (low * a[2]) * u + (low * b[2]) * v /\ high * z[2] = (high * a[2]) * u + (high * b[2]) * v
    BY <2>12, <2>16
  <2>19. /\ (low * a[2]) * u \in Int /\ (low * b[2]) * v \in Int /\ a[1] * u \in Int /\ b[1] * v \in Int
         /\ (high * a[2]) * u \in Int /\ (high * b[2]) * v \in Int
    <3>1. \A p, r, t \in Int : p * r \in Int /\ (p * r) * t \in Int
      OBVIOUS
    <3>2. a[2] \in Int /\ b[2] \in Int /\ u \in Int /\ v \in Int
      BY <2>9, <2>11
    <3> QED
      BY <2>9, <3>1, <3>2
  <2>20. low * z[2] <= z[1] /\ z[1] <= high * z[2]
    BY <2>14, <2>15, <2>17, <2>18, <2>19
  <2> QED
    BY <2>8, <2>20 DEF z
<1> HIDE DEF z
<1>3. \/ \E i \in 1..Len(s) : z = f[i] /\ Clamp(s, x) = s[i] /\ i \in NextTo(s, x)
      \/ \E i \in Cells(s) :
               /\ Within(s, i, x) /\ Clamp(s, x) = x
               /\ z = Blend(f[i], f[i + 1], x - s[i], Width(s, i))
               /\ i \in NextTo(s, x)
               /\ s[i] < x => i + 1 \in NextTo(s, x)
  BY InterpCases DEF z
<1> QED
  BY <1>1, <1>2, <1>3 DEF z

AreOnLine(f, s, v, a) == \A i \in 1..Len(s) : f[i][1] = f[i][2] * (v + a * (s[i] - s[1]))
IsOnLine(z, s, x, v, a) == z[1] = z[2] * (v + a * (Clamp(s, x) - s[1]))

(* Interpolation of a line is on the line.                                  *)
LEMMA InterpOfLine ==
    ASSUME NEW s \in Seq(Int), IsCenters(s), NEW x \in Int,
           NEW f, \A i \in 1..Len(s) : f[i] \in Fractions,
           NEW v \in Int, NEW a \in Int, AreOnLine(f, s, v, a)
    PROVE  IsOnLine(Interp(x, s, f), s, x, v, a)
<1> DEFINE z == Interp(x, s, f)
<1>1. CASE \E i \in 1..Len(s) : z = f[i] /\ Clamp(s, x) = s[i] /\ i \in NextTo(s, x)
  BY <1>1 DEF AreOnLine, IsOnLine
<1>2. CASE \E i \in Cells(s) :
               /\ Within(s, i, x) /\ Clamp(s, x) = x
               /\ z = Blend(f[i], f[i + 1], x - s[i], Width(s, i))
               /\ i \in NextTo(s, x)
               /\ s[i] < x => i + 1 \in NextTo(s, x)
  <2>1. PICK i \in Cells(s) :
               Clamp(s, x) = x /\ z = Blend(f[i], f[i + 1], x - s[i], Width(s, i))
    BY <1>2
  <2>2. i \in 1..Len(s) /\ i + 1 \in 1..Len(s) /\ s[i] \in Int /\ s[i + 1] \in Int /\ s[1] \in Int
    <3>1. i \in 1..Len(s) /\ i + 1 \in 1..Len(s) /\ 1 \in 1..Len(s)
      BY DEF Cells
    <3> QED
      BY <3>1
  <2> DEFINE n == x - s[i]
             d == s[i + 1] - s[i]
             p == f[i]
             r == f[i + 1]
             h == v + a * (s[i] - s[1])
  <2>3. n \in Int /\ d \in Int /\ h \in Int
    <3>1. \A P, R \in Int : v + a * (P - R) \in Int
      OBVIOUS
    <3>2. h \in Int
      BY <2>2, <3>1, Zenon
    <3> QED
      BY <2>2, <3>2
  <2>4. p[1] \in Int /\ p[2] \in Int /\ r[1] \in Int /\ r[2] \in Int
    <3>1. p \in Fractions /\ r \in Fractions
      BY <2>2
    <3> HIDE DEF p, r
    <3> QED
      BY <3>1 DEF Fractions
  <2>5. p[1] = p[2] * h /\ r[1] = r[2] * (h + a * d)
    <3>1. p[1] = p[2] * h
      BY <2>2 DEF AreOnLine
    <3>2. r[1] = r[2] * (v + a * (s[i + 1] - s[1]))
      BY <2>2 DEF AreOnLine
    <3>3. v + a * (s[i + 1] - s[1]) = h + a * d
      BY <2>2
    <3> QED
      BY <3>1, <3>2, <3>3
  <2>6. z[1] = p[1] * r[2] * (d - n) + r[1] * p[2] * n /\ z[2] = p[2] * r[2] * d
    BY <2>1 DEF Blend, Width
  <2>7. v + a * (x - s[1]) = h + a * n
    BY <2>2
  <2> HIDE DEF z, n, d, p, r, h
  <2>8. \A P, R, H, N, D, A \in Int :
            (P * H) * R * (D - N) + (R * (H + A * D)) * P * N = (P * R * D) * (H + A * N)
    OBVIOUS
  <2>9. z[1] = z[2] * (h + a * n)
    <3>1. (p[2] * h) * r[2] * (d - n) + (r[2] * (h + a * d)) * p[2] * n
          = (p[2] * r[2] * d) * (h + a * n)
      <4>1. PICK P, R \in Int : P = p[2] /\ R = r[2]
        BY <2>4, Zenon
      <4>2. PICK N, D, H \in Int : N = n /\ D = d /\ H = h
        BY <2>3, Zenon
      <4>3. (P * H) * R * (D - N) + (R * (H + a * D)) * P * N = (P * R * D) * (H + a * N)
        BY <2>8
      <4> QED
        BY <4>1, <4>2, <4>3, Zenon
    <3>2. z[1] = (p[2] * h) * r[2] * (d - n) + (r[2] * (h + a * d)) * p[2] * n
      BY <2>5, <2>6, Zenon
    <3> QED
      BY <2>6, <3>1, <3>2, Zenon
  <2> QED
    BY <2>1, <2>7, <2>9 DEF z, IsOnLine
<1> HIDE DEF z
<1>3. \/ \E i \in 1..Len(s) : z = f[i] /\ Clamp(s, x) = s[i] /\ i \in NextTo(s, x)
      \/ \E i \in Cells(s) :
               /\ Within(s, i, x) /\ Clamp(s, x) = x
               /\ z = Blend(f[i], f[i + 1], x - s[i], Width(s, i))
               /\ i \in NextTo(s, x)
               /\ s[i] < x => i + 1 \in NextTo(s, x)
  BY InterpCases DEF z
<1> QED
  BY <1>1, <1>2, <1>3 DEF z

(* A finite set of numbers has a largest and a smallest.                    *)
LEMMA Extremes ==
    ASSUME NEW T \in SUBSET Int, IsFiniteSet(T), T # {}
    PROVE  /\ Max(T) \in T /\ \A y \in T : Max(T) >= y
           /\ Min(T) \in T /\ \A y \in T : Min(T) <= y
<1> DEFINE Good(U) == /\ \E m \in U : \A y \in U : m >= y
                      /\ \E m \in U : \A y \in U : m <= y
           Bad == {U \in SUBSET T : U # {} /\ ~Good(U)}
<1>1. Bad = {}
  <2> SUFFICES ASSUME Bad # {} PROVE FALSE
    OBVIOUS
  <2>1. PICK U \in Bad : \A V \in SUBSET U : V # U => V \notin Bad
    <3>1. Bad \in SUBSET SUBSET T
      OBVIOUS
    <3> HIDE DEF Bad
    <3> QED
      BY <3>1, SmallestSet
  <2>2. PICK x \in U : TRUE
    OBVIOUS
  <2> DEFINE V == U \ {x}
  <2>3. V \in SUBSET U /\ V # U /\ V \in SUBSET T /\ x \in Int /\ U \subseteq Int /\ U = V \cup {x}
    OBVIOUS
  <2>4. CASE V = {}
    <3>1. U = {x}
      BY <2>3, <2>4
    <3>2. Good(U)
      BY <2>3, <3>1
    <3> QED
      BY <3>2
  <2>5. CASE V # {}
    <3>1. Good(V)
      BY <2>1, <2>3, <2>5
    <3>2. PICK m \in V : \A y \in V : m >= y
      BY <3>1
    <3>3. PICK k \in V : \A y \in V : k <= y
      BY <3>1
    <3> HIDE DEF V
    <3>4. \E t \in U : \A y \in U : t >= y
      <4>1. CASE m >= x
        BY <2>3, <3>2, <4>1
      <4>2. CASE x >= m
        BY <2>3, <3>2, <4>2
      <4> QED
        BY <2>3, <4>1, <4>2
    <3>5. \E t \in U : \A y \in U : t <= y
      <4>1. CASE k <= x
        BY <2>3, <3>3, <4>1
      <4>2. CASE x <= k
        BY <2>3, <3>3, <4>2
      <4> QED
        BY <2>3, <4>1, <4>2
    <3> QED
      BY <3>4, <3>5
  <2> QED
    BY <2>4, <2>5
<1>2. Good(T)
  BY <1>1
<1> QED
  BY <1>2 DEF Max, Min

LEMMA NextToIsThere ==
    ASSUME NEW s \in Seq(Int), IsCenters(s), NEW x \in Int
    PROVE  NextTo(s, x) \subseteq 1..Len(s) /\ NextTo(s, x) # {} /\ IsFiniteSet(NextTo(s, x))
           /\ Clamp(s, x) \in Int /\ s[1] \in Int
<1>1. NextTo(s, x) \subseteq 1..Len(s) /\ \A i \in 1..Len(s) : s[i] \in Int
  BY DEF NextTo
<1>2. IsFiniteSet(NextTo(s, x))
  <2>1. 1 \in Int /\ Len(s) \in Int
    OBVIOUS
  <2>2. IsFiniteSet(1..Len(s))
    BY <2>1, FS_Interval
  <2> QED
    BY <1>1, <2>2, FS_Subset
<1> DEFINE f == [i \in 1..Len(s) |-> <<0, 1>>]
<1>3. \/ \E i \in 1..Len(s) : Interp(x, s, f) = f[i] /\ Clamp(s, x) = s[i] /\ i \in NextTo(s, x)
      \/ \E i \in Cells(s) :
               /\ Within(s, i, x) /\ Clamp(s, x) = x
               /\ Interp(x, s, f) = Blend(f[i], f[i + 1], x - s[i], Width(s, i))
               /\ i \in NextTo(s, x)
               /\ s[i] < x => i + 1 \in NextTo(s, x)
  <2> HIDE DEF f
  <2> QED
    BY InterpCases
<1>4. NextTo(s, x) # {} /\ Clamp(s, x) \in Int
  BY <1>1, <1>3
<1>5. 1 \in 1..Len(s)
  BY DEF IsCenters
<1> QED
  BY <1>1, <1>2, <1>4, <1>5

Entries(v, A, B) == {v[j][k] : j \in A, k \in B}

LEMMA ImageIsFinite ==
    ASSUME NEW A, IsFiniteSet(A), NEW B, IsFiniteSet(B), NEW v
    PROVE  IsFiniteSet(Entries(v, A, B))
<1> DEFINE T == Entries(v, A, B)
           f == [p \in A \X B |-> v[p[1]][p[2]]]
           U == {f[p] : p \in A \X B}
<1>1. IsFiniteSet(A \X B)
  BY FS_Product
<1>2. T \subseteq U
  <2> SUFFICES ASSUME NEW t \in T PROVE t \in U
    OBVIOUS
  <2>1. PICK j \in A, k \in B : t = v[j][k]
    BY DEF Entries
  <2>2. <<j, k>> \in A \X B /\ f[<<j, k>>] = t
    BY <2>1
  <2> HIDE DEF f
  <2> QED
    BY <2>2
<1>3. IsFiniteSet(U)
  <2>1. f \in [A \X B -> U] /\ \A t \in U : \E p \in A \X B : f[p] = t
    OBVIOUS
  <2> HIDE DEF f, U
  <2>2. f \in Surjection(A \X B, U)
    BY <2>1 DEF Surjection
  <2> QED
    BY <1>1, <2>2, FS_Surjection
<1> HIDE DEF U
<1> QED
  BY <1>2, <1>3, FS_Subset

(* A row of whole numbers, and the column that its rows give at x.          *)
Row(s, g) == [k \in 1..Len(s) |-> <<g[k], 1>>]
Column(sx, x, sy, v) == [j \in 1..Len(sy) |-> Interp(x, sx, Row(sx, v[j]))]
IsWithin(z, T) == Min(T) * z[2] <= z[1] /\ z[1] <= Max(T) * z[2]
IsOnSlope(z, sx, x, sy, y, v, a, b) ==
    z[1] = z[2] * (v[1][1] + a * (Clamp(sx, x) - sx[1]) + b * (Clamp(sy, y) - sy[1]))
IsSloping(sx, sy, v, a, b) ==
    \A j \in 1..Len(sy), k \in 1..Len(sx) :
        v[j][k] = v[1][1] + a * (sx[k] - sx[1]) + b * (sy[j] - sy[1])

(* A row of whole numbers interpolated: bounded by the ones next to the     *)
(* point, and on the line that the row lies on.                             *)
LEMMA RowIsSound ==
    ASSUME NEW s \in Seq(Int), IsCenters(s), NEW x \in Int,
           NEW g, \A k \in 1..Len(s) : g[k] \in Int,
           NEW z, z = Interp(x, s, Row(s, g))
    PROVE  /\ z \in Fractions
           /\ \A l, h \in Int :
                  (\A k \in NextTo(s, x) : l <= g[k] /\ g[k] <= h) => IsBetween(z, l, h)
           /\ \A w, a \in Int :
                  (\A k \in 1..Len(s) : g[k] = w + a * (s[k] - s[1]))
                      => IsOnLine(z, s, x, w, a)
<1> DEFINE f == [k \in 1..Len(s) |-> <<g[k], 1>>]
<1>1. \A k \in 1..Len(s) : f[k] \in Fractions /\ f[k][1] = g[k] /\ f[k][2] = 1
  BY DEF Fractions
<1>2. z = Interp(x, s, f)
  BY Zenon DEF Row
<1> HIDE DEF f
<1>3. NextTo(s, x) \subseteq 1..Len(s) /\ NextTo(s, x) # {} /\ IsFiniteSet(NextTo(s, x))
  BY NextToIsThere
<1>4. ASSUME NEW l \in Int, NEW h \in Int,
             \A k \in NextTo(s, x) : l <= g[k] /\ g[k] <= h
      PROVE  z \in Fractions /\ IsBetween(z, l, h)
  <2>1. \A k \in 1..Len(s) : f[k] \in Fractions
    BY <1>1
  <2>2. \A k \in NextTo(s, x) : IsBetween(f[k], l, h)
    <3> SUFFICES ASSUME NEW k \in NextTo(s, x)
                 PROVE  l * f[k][2] <= f[k][1] /\ f[k][1] <= h * f[k][2]
      BY DEF IsBetween
    <3>1. f[k][1] = g[k] /\ f[k][2] = 1
      BY <1>1, <1>3
    <3>2. l * 1 = l /\ h * 1 = h /\ l <= g[k] /\ g[k] <= h
      BY <1>4
    <3> QED
      BY <3>1, <3>2, Zenon
  <2> QED
    BY <1>2, <2>1, <2>2, InterpBetween
<1>5. z \in Fractions
  <2> DEFINE some == {g[k] : k \in NextTo(s, x)}
  <2>1. some \in SUBSET Int
    BY <1>3
  <2>2. some # {}
    BY <1>3
  <2>3. IsFiniteSet(some)
    <3> DEFINE e == [k \in NextTo(s, x) |-> g[k]]
    <3>1. e \in [NextTo(s, x) -> some] /\ \A t \in some : \E k \in NextTo(s, x) : e[k] = t
      OBVIOUS
    <3> HIDE DEF e, some
    <3> QED
      BY <1>3, <3>1, FS_Surjection DEF Surjection
  <2>4. \A k \in NextTo(s, x) : g[k] \in some
    OBVIOUS
  <2> HIDE DEF some
  <2>5. /\ Max(some) \in some /\ \A y \in some : Max(some) >= y
        /\ Min(some) \in some /\ \A y \in some : Min(some) <= y
    BY <2>1, <2>2, <2>3, Extremes
  <2>6. PICK l, h \in Int : \A y \in some : l <= y /\ y <= h
    BY <2>1, <2>5
  <2> QED
    BY <1>4, <2>4, <2>6
<1>6. ASSUME NEW w \in Int, NEW a \in Int,
             \A k \in 1..Len(s) : g[k] = w + a * (s[k] - s[1])
      PROVE  IsOnLine(z, s, x, w, a)
  <2>1. \A k \in 1..Len(s) : f[k] \in Fractions
    BY <1>1
  <2>2. \A k \in 1..Len(s) : s[k] \in Int /\ s[1] \in Int /\ g[k] \in Int
    BY NextToIsThere
  <2>3. \A k \in 1..Len(s) : f[k][1] = f[k][2] * (w + a * (s[k] - s[1]))
    <3> SUFFICES ASSUME NEW k \in 1..Len(s)
                 PROVE  f[k][1] = f[k][2] * (w + a * (s[k] - s[1]))
      OBVIOUS
    <3>1. f[k][1] = w + a * (s[k] - s[1]) /\ f[k][2] = 1 /\ g[k] \in Int
      BY <1>1, <1>6, <2>2
    <3>2. \A u \in Int : u = 1 * u
      OBVIOUS
    <3>3. f[k][1] \in Int
      BY <1>1, <2>2
    <3>4. f[k][1] = 1 * (w + a * (s[k] - s[1]))
      BY <3>1, <3>2, <3>3, Zenon
    <3> QED
      BY <3>1, <3>4, Zenon
  <2>4. AreOnLine(f, s, w, a)
    BY <2>3 DEF AreOnLine
  <2> QED
    BY <1>2, <2>1, <2>4, InterpOfLine
<1> QED
  BY <1>4, <1>5, <1>6

(* What one resampled point is: the rows are interpolated, then the column  *)
(* of what they give.                                                       *)
LEMMA PointIsBetween ==
    ASSUME NEW sx \in Seq(Int), IsCenters(sx), NEW x \in Int,
           NEW sy \in Seq(Int), IsCenters(sy), NEW y \in Int,
           NEW v, \A j \in 1..Len(sy), k \in 1..Len(sx) : v[j][k] \in Int
    PROVE  IsWithin(Interp(y, sy, Column(sx, x, sy, v)),
                    Entries(v, NextTo(sy, y), NextTo(sx, x)))
<1> DEFINE near == Entries(v, NextTo(sy, y), NextTo(sx, x))
           column == Column(sx, x, sy, v)
<1>1. NextTo(sx, x) \subseteq 1..Len(sx) /\ NextTo(sx, x) # {} /\ IsFiniteSet(NextTo(sx, x))
  BY NextToIsThere
<1>2. NextTo(sy, y) \subseteq 1..Len(sy) /\ NextTo(sy, y) # {} /\ IsFiniteSet(NextTo(sy, y))
  BY NextToIsThere
<1>3. IsFiniteSet(near)
  BY <1>1, <1>2, ImageIsFinite
<1>4. near \in SUBSET Int
  BY <1>1, <1>2 DEF Entries
<1>5. near # {}
  <2>1. PICK j \in NextTo(sy, y), k \in NextTo(sx, x) : TRUE
    BY <1>1, <1>2
  <2>2. v[j][k] \in near
    BY DEF Entries
  <2> HIDE DEF near
  <2> QED
    BY <2>2
<1>6. \A j \in NextTo(sy, y), k \in NextTo(sx, x) : v[j][k] \in near
  BY DEF Entries
<1>0. \A j \in 1..Len(sy) : column[j] = Interp(x, sx, Row(sx, v[j]))
  BY DEF Column
<1> HIDE DEF near, column
<1>7. /\ Max(near) \in near /\ \A t \in near : Max(near) >= t
      /\ Min(near) \in near /\ \A t \in near : Min(near) <= t
  BY <1>3, <1>4, <1>5, Extremes
<1>8. PICK low, high \in Int : low = Min(near) /\ high = Max(near)
  BY <1>4, <1>7
<1>9. \A j \in NextTo(sy, y), k \in NextTo(sx, x) : low <= v[j][k] /\ v[j][k] <= high
  BY <1>4, <1>6, <1>7, <1>8
<1>10. ASSUME NEW j \in 1..Len(sy)
       PROVE  /\ column[j] \in Fractions
              /\ j \in NextTo(sy, y) => IsBetween(column[j], low, high)
  <2>1. PICK g, c : g = v[j] /\ c = column[j]
    OBVIOUS
  <2>2. \A k \in 1..Len(sx) : g[k] \in Int
    BY <2>1
  <2>3. c = Interp(x, sx, Row(sx, g))
    BY <1>0, <2>1
  <2>4. /\ c \in Fractions
        /\ \A l, h \in Int :
               (\A k \in NextTo(sx, x) : l <= g[k] /\ g[k] <= h) => IsBetween(c, l, h)
    BY <2>2, <2>3, RowIsSound
  <2>5. j \in NextTo(sy, y) => \A k \in NextTo(sx, x) : low <= g[k] /\ g[k] <= high
    BY <1>9, <2>1
  <2> QED
    BY <2>1, <2>4, <2>5, Zenon
<1>11. \A j \in 1..Len(sy) : column[j] \in Fractions
  BY <1>10
<1>12. \A j \in NextTo(sy, y) : IsBetween(column[j], low, high)
  BY <1>2, <1>10
<1>13. IsBetween(Interp(y, sy, column), low, high)
  BY <1>11, <1>12, InterpBetween
<1> QED
  BY <1>8, <1>13, Zenon DEF near, column, IsBetween, IsWithin

LEMMA PointIsOnSlope ==
    ASSUME NEW sx \in Seq(Int), IsCenters(sx), NEW x \in Int,
           NEW sy \in Seq(Int), IsCenters(sy), NEW y \in Int,
           NEW v, \A j \in 1..Len(sy), k \in 1..Len(sx) : v[j][k] \in Int,
           NEW a \in Int, NEW b \in Int, IsSloping(sx, sy, v, a, b)
    PROVE  IsOnSlope(Interp(y, sy, Column(sx, x, sy, v)), sx, x, sy, y, v, a, b)
<1> DEFINE column == Column(sx, x, sy, v)
<1>0. \A j \in 1..Len(sy) : column[j] = Interp(x, sx, Row(sx, v[j]))
  BY DEF Column
<1> HIDE DEF column
<1>1. /\ Clamp(sx, x) \in Int /\ Clamp(sy, y) \in Int /\ sx[1] \in Int /\ sy[1] \in Int
      /\ 1 \in 1..Len(sx) /\ 1 \in 1..Len(sy)
  <2>1. Clamp(sx, x) \in Int /\ sx[1] \in Int
    BY NextToIsThere
  <2>2. Clamp(sy, y) \in Int /\ sy[1] \in Int
    BY NextToIsThere
  <2>3. 1 \in 1..Len(sx) /\ 1 \in 1..Len(sy)
    BY DEF IsCenters
  <2> QED
    BY <2>1, <2>2, <2>3
<1>2. PICK o \in Int : o = v[1][1]
  BY <1>1
<1>3. PICK e \in Int : e = Clamp(sx, x) - sx[1]
  BY <1>1
<1>4. PICK m \in Int : m = o + a * e
  OBVIOUS
<1>5. ASSUME NEW j \in 1..Len(sy)
      PROVE  column[j] \in Fractions /\ column[j][1] = column[j][2] * (m + b * (sy[j] - sy[1]))
  <2>1. PICK g : g = v[j]
    OBVIOUS
  <2>2. \A k \in 1..Len(sx) : g[k] \in Int
    BY <2>1
  <2>3. PICK h \in Int : h = b * (sy[j] - sy[1])
    <3>1. sy[j] \in Int /\ sy[1] \in Int
      BY <1>1
    <3>2. \A p, r, t \in Int : p * (r - t) \in Int
      OBVIOUS
    <3> QED
      BY <3>1, <3>2, Zenon
  <2>4. PICK w \in Int : w = o + h
    OBVIOUS
  <2>5. \A k \in 1..Len(sx) : g[k] = w + a * (sx[k] - sx[1])
    <3> SUFFICES ASSUME NEW k \in 1..Len(sx) PROVE g[k] = w + a * (sx[k] - sx[1])
      OBVIOUS
    <3>1. PICK u \in Int : u = a * (sx[k] - sx[1])
      <4>1. sx[k] \in Int /\ sx[1] \in Int
        BY <1>1
      <4>2. \A p, r, t \in Int : p * (r - t) \in Int
        OBVIOUS
      <4> QED
        BY <4>1, <4>2, Zenon
    <3>2. g[k] = o + u + h
      BY <1>2, <2>1, <2>3, <3>1, Zenon DEF IsSloping
    <3>3. g[k] = w + u
      BY <2>4, <3>2
    <3> QED
      BY <3>1, <3>3, Zenon
  <2>6. /\ column[j] \in Fractions
        /\ column[j][1] = column[j][2] * (w + a * (Clamp(sx, x) - sx[1]))
    <3>1. column[j] = Interp(x, sx, Row(sx, g))
      BY <1>0, <2>1
    <3>2. PICK c : c = column[j]
      OBVIOUS
    <3>3. /\ c \in Fractions
          /\ \A r, d \in Int :
                 (\A k \in 1..Len(sx) : g[k] = r + d * (sx[k] - sx[1]))
                     => IsOnLine(c, sx, x, r, d)
      BY <2>2, <3>1, <3>2, RowIsSound
    <3> QED
      BY <2>5, <3>2, <3>3, Zenon DEF IsOnLine
  <2>7. w + a * e = m + h
    BY <1>4, <2>4
  <2> QED
    BY <1>3, <2>3, <2>6, <2>7, Zenon
<1>6. AreOnLine(column, sy, m, b)
  BY <1>5 DEF AreOnLine
<1>7. \A j \in 1..Len(sy) : column[j] \in Fractions
  BY <1>5
<1>8. IsOnLine(Interp(y, sy, column), sy, y, m, b)
  BY <1>6, <1>7, InterpOfLine
<1> QED
  BY <1>2, <1>3, <1>4, <1>8, Zenon DEF IsOnLine, IsOnSlope, column

(* A resampled elevation lies on the slope its source is, and always        *)
(* between the centers next to it (resampling.py:93-96).                    *)
THEOREM SlopesAreFollowed == Spec => []ElevationFollowsSlopes
<1>1. Init => ElevationFollowsSlopes
  BY DEF Init, NoCall, ElevationFollowsSlopes, Answered
<1>2. ASSUME CallElevation PROVE ElevationFollowsSlopes'
  <2> SUFFICES ASSUME answer' # None PROVE ElevationFollowsSlopes'
    BY DEF ElevationFollowsSlopes, Answered
  <2>1. PICK sx, dx \in CentersX, sy, dy \in CentersY, uncertainty \in Uncertainties :
        \E values \in Offered(Len(sy), Len(sx), Heights) :
            LET q == [call |-> "elevation", sx |-> sx, sy |-> sy, dx |-> dx, dy |-> dy,
                      values |-> values, uncertainty |-> uncertainty]
            IN  Answer(q, AcceptsElevation(q), ResampleElevation(q))
    BY <1>2 DEF CallElevation
  <2>2. PICK values \in Offered(Len(sy), Len(sx), Heights) :
            LET q == [call |-> "elevation", sx |-> sx, sy |-> sy, dx |-> dx, dy |-> dy,
                      values |-> values, uncertainty |-> uncertainty]
            IN  Answer(q, AcceptsElevation(q), ResampleElevation(q))
    BY <2>1
  <2> DEFINE q == [call |-> "elevation", sx |-> sx, sy |-> sy, dx |-> dx, dy |-> dy,
                   values |-> values, uncertainty |-> uncertainty]
  <2>3. request' = q /\ AcceptsElevation(q) /\ answer' = ResampleElevation(q)
    BY <2>2 DEF Answer
  <2>4. q.sx = sx /\ q.sy = sy /\ q.dx = dx /\ q.dy = dy /\ q.values = values
    OBVIOUS
  <2> HIDE DEF q
  <2>5. /\ sx \in Seq(Int) /\ sy \in Seq(Int) /\ dx \in Seq(Int) /\ dy \in Seq(Int)
        /\ IsCenters(sx) /\ IsCenters(sy) /\ Fits(values, Len(sy), Len(sx))
    BY <2>3, <2>4, ResamplingAssumption DEF AcceptsElevation, AcceptsCenters
  <2>6. \A j \in 1..Len(sy), k \in 1..Len(sx) : values[j][k] \in Int
    <3>1. Len(sy) \in Nat /\ Len(sx) \in Nat /\ 1 \in Nat
      BY <2>5
    <3>2. values \in [1..Len(sy) -> [1..Len(sx) -> Heights]]
      BY <2>2, <2>5, <3>1, WhatFitsIsOfTheShape
    <3> QED
      BY <3>2, ResamplingAssumption
  <2>7. answer'.elevation =
            [r \in 1..Len(dy) |-> [c \in 1..Len(dx) |->
                Interp(dy[r], sy, Column(sx, dx[c], sy, values))]]
    BY <2>3, <2>4, Zenon DEF ResampleElevation, Column, Row
  <2>8. ASSUME NEW r \in DOMAIN answer'.elevation, NEW c \in DOMAIN answer'.elevation[r]
        PROVE  FollowsSlopes(q, dx[c], dy[r], answer'.elevation[r][c])
    <3>1. r \in 1..Len(dy) /\ c \in 1..Len(dx)
      BY <2>7
    <3>2. dx[c] \in Int /\ dy[r] \in Int
      BY <2>5, <3>1
    <3> DEFINE z == answer'.elevation[r][c]
    <3>3. z = Interp(dy[r], sy, Column(sx, dx[c], sy, values))
      BY <2>7, <3>1
    <3> HIDE DEF z
    <3>4. IsWithin(z, Entries(values, NextTo(sy, dy[r]), NextTo(sx, dx[c])))
      BY <2>5, <2>6, <3>2, <3>3, PointIsBetween
    <3>5. ASSUME NEW a \in -2..2, NEW b \in -2..2, IsSlope(q, a, b)
          PROVE  IsOnSlope(z, sx, dx[c], sy, dy[r], values, a, b)
      <4>1. IsSloping(sx, sy, values, a, b)
        BY <2>4, <3>5, Zenon DEF IsSlope, IsSloping
      <4>2. a \in Int /\ b \in Int
        OBVIOUS
      <4> QED
        BY <2>5, <2>6, <3>2, <3>3, <4>1, <4>2, PointIsOnSlope
    <3>6. NearTo(q, dx[c], dy[r]) = Entries(values, NextTo(sy, dy[r]), NextTo(sx, dx[c]))
      BY <2>4 DEF NearTo, Entries
    <3>7. ASSUME NEW a \in -2..2, NEW b \in -2..2, IsSlope(q, a, b)
          PROVE  z[1] = z[2] * (q.values[1][1] + a * (Clamp(q.sx, dx[c]) - q.sx[1])
                                               + b * (Clamp(q.sy, dy[r]) - q.sy[1]))
      BY <2>4, <3>5, <3>7, Zenon DEF IsOnSlope
    <3>8. FollowsSlopes(q, dx[c], dy[r], z)
      BY <3>4, <3>6, <3>7, Zenon DEF IsWithin, FollowsSlopes
    <3> QED
      BY <3>8 DEF z
  <2> QED
    BY <2>3, <2>4, <2>8 DEF ElevationFollowsSlopes
<1>3. ASSUME ElevationFollowsSlopes, [Next]_<<calls, drawing>>, ~CallElevation PROVE ElevationFollowsSlopes'
  <2>1. UNCHANGED calls \/ request'.call # "elevation"
    BY <1>3, OneCall
  <2>2. CASE UNCHANGED calls
    BY <1>3, <2>2 DEF ElevationFollowsSlopes, Answered, calls
  <2>3. CASE request'.call # "elevation"
    BY <2>3 DEF ElevationFollowsSlopes, Answered
  <2> QED
    BY <2>1, <2>2, <2>3
<1> QED
  BY <1>1, <1>2, <1>3, PTL DEF Spec

-----------------------------------------------------------------------------
(* fit_affine: Cramer's rule on matrices of three rows.                     *)

Triples == [1..3 -> Int]
Matrices == [1..3 -> Triples]

Times(a, b) == a[1] * b[1] + a[2] * b[2] + a[3] * b[3]

(* A determinant by its nine entries, and one with a column replaced.       *)
DetOf(a1, a2, a3, b1, b2, b3, c1, c2, c3) ==
    a1 * (b2 * c3 - b3 * c2) - a2 * (b1 * c3 - b3 * c1) + a3 * (b1 * c2 - b2 * c1)
Replaced(n, k, b) == Det([i \in 1..3 |-> [j \in 1..3 |-> IF j = k THEN b[i] ELSE n[i][j]]])

LEMMA DetOfEntries ==
    ASSUME NEW n, NEW b
    PROVE  /\ Det(n) = DetOf(n[1][1], n[1][2], n[1][3], n[2][1], n[2][2], n[2][3],
                             n[3][1], n[3][2], n[3][3])
           /\ Replaced(n, 1, b) = DetOf(b[1], n[1][2], n[1][3], b[2], n[2][2], n[2][3],
                                        b[3], n[3][2], n[3][3])
           /\ Replaced(n, 2, b) = DetOf(n[1][1], b[1], n[1][3], n[2][1], b[2], n[2][3],
                                        n[3][1], b[3], n[3][3])
           /\ Replaced(n, 3, b) = DetOf(n[1][1], n[1][2], b[1], n[2][1], n[2][2], b[2],
                                        n[3][1], n[3][2], b[3])
<1>1. 1 \in 1..3 /\ 2 \in 1..3 /\ 3 \in 1..3 /\ 1 # 2 /\ 1 # 3 /\ 2 # 3
  OBVIOUS
<1>2. Det(n) = DetOf(n[1][1], n[1][2], n[1][3], n[2][1], n[2][2], n[2][3],
                     n[3][1], n[3][2], n[3][3])
  BY Zenon DEF Det, DetOf
<1> DEFINE m(k) == [i \in 1..3 |-> [j \in 1..3 |-> IF j = k THEN b[i] ELSE n[i][j]]]
<1>3. \A k, i, j \in 1..3 : m(k)[i][j] = IF j = k THEN b[i] ELSE n[i][j]
  OBVIOUS
<1>4. \A k : Replaced(n, k, b) = DetOf(m(k)[1][1], m(k)[1][2], m(k)[1][3], m(k)[2][1], m(k)[2][2],
                                       m(k)[2][3], m(k)[3][1], m(k)[3][2], m(k)[3][3])
  BY Zenon DEF Replaced, Det, DetOf
<1> HIDE DEF m
<1>5. Replaced(n, 1, b) = DetOf(b[1], n[1][2], n[1][3], b[2], n[2][2], n[2][3],
                                b[3], n[3][2], n[3][3])
  BY <1>1, <1>3, <1>4
<1>6. Replaced(n, 2, b) = DetOf(n[1][1], b[1], n[1][3], n[2][1], b[2], n[2][3],
                                n[3][1], b[3], n[3][3])
  BY <1>1, <1>3, <1>4
<1>7. Replaced(n, 3, b) = DetOf(n[1][1], n[1][2], b[1], n[2][1], n[2][2], b[2],
                                n[3][1], n[3][2], b[3])
  BY <1>1, <1>3, <1>4
<1> QED
  BY <1>2, <1>5, <1>6, <1>7

(* A determinant is linear in each of its columns.                          *)
LEMMA ReplacedIsLinear ==
    ASSUME NEW n \in Matrices, NEW b \in Triples, NEW d \in Triples, NEW c \in Triples,
           NEW a \in Int, \A i \in 1..3 : c[i] = a * b[i] + d[i], NEW k \in 1..3
    PROVE  /\ Replaced(n, k, c) = a * Replaced(n, k, b) + Replaced(n, k, d)
           /\ Replaced(n, k, b) \in Int
<1>1. 1 \in 1..3 /\ 2 \in 1..3 /\ 3 \in 1..3
  OBVIOUS
<1>2. \A i, j \in 1..3 : n[i][j] \in Int
  BY DEF Matrices, Triples
<1>3. PICK n11, n12, n13, n21, n22, n23, n31, n32, n33 \in Int :
          /\ n11 = n[1][1] /\ n12 = n[1][2] /\ n13 = n[1][3]
          /\ n21 = n[2][1] /\ n22 = n[2][2] /\ n23 = n[2][3]
          /\ n31 = n[3][1] /\ n32 = n[3][2] /\ n33 = n[3][3]
  BY <1>1, <1>2, Zenon
<1>4. PICK b1, b2, b3, d1, d2, d3, c1, c2, c3 \in Int :
          /\ b1 = b[1] /\ b2 = b[2] /\ b3 = b[3]
          /\ d1 = d[1] /\ d2 = d[2] /\ d3 = d[3]
          /\ c1 = c[1] /\ c2 = c[2] /\ c3 = c[3]
  BY <1>1, Zenon DEF Triples
<1>5. c1 = a * b1 + d1 /\ c2 = a * b2 + d2 /\ c3 = a * b3 + d3
  BY <1>1, <1>4, Zenon
<1>6. CASE k = 1
  <2>1. /\ Replaced(n, k, c) = DetOf(c1, n12, n13, c2, n22, n23, c3, n32, n33)
        /\ Replaced(n, k, b) = DetOf(b1, n12, n13, b2, n22, n23, b3, n32, n33)
        /\ Replaced(n, k, d) = DetOf(d1, n12, n13, d2, n22, n23, d3, n32, n33)
    BY <1>3, <1>4, <1>6, DetOfEntries, Zenon
  <2>2. DetOf(c1, n12, n13, c2, n22, n23, c3, n32, n33)
        = a * DetOf(b1, n12, n13, b2, n22, n23, b3, n32, n33)
          + DetOf(d1, n12, n13, d2, n22, n23, d3, n32, n33)
    BY <1>5 DEF DetOf
  <2>3. DetOf(b1, n12, n13, b2, n22, n23, b3, n32, n33) \in Int
    BY DEF DetOf
  <2> QED
    BY <2>1, <2>2, <2>3, Zenon
<1>7. CASE k = 2
  <2>1. /\ Replaced(n, k, c) = DetOf(n11, c1, n13, n21, c2, n23, n31, c3, n33)
        /\ Replaced(n, k, b) = DetOf(n11, b1, n13, n21, b2, n23, n31, b3, n33)
        /\ Replaced(n, k, d) = DetOf(n11, d1, n13, n21, d2, n23, n31, d3, n33)
    BY <1>3, <1>4, <1>7, DetOfEntries, Zenon
  <2>2. DetOf(n11, c1, n13, n21, c2, n23, n31, c3, n33)
        = a * DetOf(n11, b1, n13, n21, b2, n23, n31, b3, n33)
          + DetOf(n11, d1, n13, n21, d2, n23, n31, d3, n33)
    BY <1>5 DEF DetOf
  <2>3. DetOf(n11, b1, n13, n21, b2, n23, n31, b3, n33) \in Int
    BY DEF DetOf
  <2> QED
    BY <2>1, <2>2, <2>3, Zenon
<1>8. CASE k = 3
  <2>1. /\ Replaced(n, k, c) = DetOf(n11, n12, c1, n21, n22, c2, n31, n32, c3)
        /\ Replaced(n, k, b) = DetOf(n11, n12, b1, n21, n22, b2, n31, n32, b3)
        /\ Replaced(n, k, d) = DetOf(n11, n12, d1, n21, n22, d2, n31, n32, d3)
    BY <1>3, <1>4, <1>8, DetOfEntries, Zenon
  <2>2. DetOf(n11, n12, c1, n21, n22, c2, n31, n32, c3)
        = a * DetOf(n11, n12, b1, n21, n22, b2, n31, n32, b3)
          + DetOf(n11, n12, d1, n21, n22, d2, n31, n32, d3)
    BY <1>5 DEF DetOf
  <2>3. DetOf(n11, n12, b1, n21, n22, b2, n31, n32, b3) \in Int
    BY DEF DetOf
  <2> QED
    BY <2>1, <2>2, <2>3, Zenon
<1>9. k = 1 \/ k = 2 \/ k = 3
  OBVIOUS
<1> QED
  BY <1>6, <1>7, <1>8, <1>9

(* Cramer's rule. *)
LEMMA ReplacedByProduct ==
    ASSUME NEW n \in Matrices, NEW x \in Triples, NEW b,
           \A i \in 1..3 : b[i] = Times(n[i], x), NEW k \in 1..3
    PROVE  Replaced(n, k, b) = Det(n) * x[k]
<1>1. 1 \in 1..3 /\ 2 \in 1..3 /\ 3 \in 1..3
  OBVIOUS
<1>2. \A i, j \in 1..3 : n[i][j] \in Int
  BY DEF Matrices, Triples
<1>3. PICK n11, n12, n13, n21, n22, n23, n31, n32, n33 \in Int :
          /\ n11 = n[1][1] /\ n12 = n[1][2] /\ n13 = n[1][3]
          /\ n21 = n[2][1] /\ n22 = n[2][2] /\ n23 = n[2][3]
          /\ n31 = n[3][1] /\ n32 = n[3][2] /\ n33 = n[3][3]
  BY <1>1, <1>2, Zenon
<1>4. PICK x1, x2, x3 \in Int : x1 = x[1] /\ x2 = x[2] /\ x3 = x[3]
  BY <1>1, Zenon DEF Triples
<1>5. /\ b[1] = n11 * x1 + n12 * x2 + n13 * x3
      /\ b[2] = n21 * x1 + n22 * x2 + n23 * x3
      /\ b[3] = n31 * x1 + n32 * x2 + n33 * x3
  BY <1>1, <1>3, <1>4, Zenon DEF Times
<1>6. PICK b1, b2, b3 \in Int : b1 = b[1] /\ b2 = b[2] /\ b3 = b[3]
  <2>1. \A p, q, r, s, t, u \in Int : p * q + r * s + t * u \in Int
    OBVIOUS
  <2>2. b[1] \in Int /\ b[2] \in Int /\ b[3] \in Int
    BY <1>5, <2>1
  <2> QED
    BY <2>2, Zenon
<1>7. /\ b1 = n11 * x1 + n12 * x2 + n13 * x3
      /\ b2 = n21 * x1 + n22 * x2 + n23 * x3
      /\ b3 = n31 * x1 + n32 * x2 + n33 * x3
  BY <1>5, <1>6, Zenon
<1>8. Det(n) = DetOf(n11, n12, n13, n21, n22, n23, n31, n32, n33)
  BY <1>3, DetOfEntries, Zenon
<1>9. CASE k = 1
  <2>1. Replaced(n, k, b) = DetOf(b1, n12, n13, b2, n22, n23, b3, n32, n33)
    BY <1>3, <1>6, <1>9, DetOfEntries, Zenon
  <2>2. DetOf(b1, n12, n13, b2, n22, n23, b3, n32, n33)
        = DetOf(n11, n12, n13, n21, n22, n23, n31, n32, n33) * x1
    BY <1>7 DEF DetOf
  <2> QED
    BY <1>4, <1>8, <1>9, <2>1, <2>2, Zenon
<1>10. CASE k = 2
  <2>1. Replaced(n, k, b) = DetOf(n11, b1, n13, n21, b2, n23, n31, b3, n33)
    BY <1>3, <1>6, <1>10, DetOfEntries, Zenon
  <2>2. DetOf(n11, b1, n13, n21, b2, n23, n31, b3, n33)
        = DetOf(n11, n12, n13, n21, n22, n23, n31, n32, n33) * x2
    BY <1>7 DEF DetOf
  <2> QED
    BY <1>4, <1>8, <1>10, <2>1, <2>2, Zenon
<1>11. CASE k = 3
  <2>1. Replaced(n, k, b) = DetOf(n11, n12, b1, n21, n22, b2, n31, n32, b3)
    BY <1>3, <1>6, <1>11, DetOfEntries, Zenon
  <2>2. DetOf(n11, n12, b1, n21, n22, b2, n31, n32, b3)
        = DetOf(n11, n12, n13, n21, n22, n23, n31, n32, n33) * x3
    BY <1>7 DEF DetOf
  <2> QED
    BY <1>4, <1>8, <1>11, <2>1, <2>2, Zenon
<1>12. k = 1 \/ k = 2 \/ k = 3
  OBVIOUS
<1> QED
  BY <1>9, <1>10, <1>11, <1>12

-----------------------------------------------------------------------------
(* Sums over control points.                                                *)

Combines(T, a, f, h, k) == \A x \in T : f[x] \in Int /\ h[x] \in Int /\ k[x] = a * f[x] + h[x]

LEMMA SumCombined ==
    ASSUME NEW T, IsFiniteSet(T), NEW a \in Int, NEW f, NEW h, NEW k, Combines(T, a, f, h, k)
    PROVE  SumFunctionOnSet(k, T) = a * SumFunctionOnSet(f, T) + SumFunctionOnSet(h, T)
  BY SumLinear DEF Combines

CombinesThree(T, a, b, c, f, g, h, e, k) ==
    \A t \in T : /\ f[t] \in Int /\ g[t] \in Int /\ h[t] \in Int /\ e[t] \in Int
                 /\ k[t] = a * f[t] + b * g[t] + c * h[t] + e[t]

LEMMA SumOfThree ==
    ASSUME NEW T, IsFiniteSet(T), NEW a \in Int, NEW b \in Int, NEW c \in Int,
           NEW f, NEW g, NEW h, NEW e, NEW k, CombinesThree(T, a, b, c, f, g, h, e, k)
    PROVE  SumFunctionOnSet(k, T) = a * SumFunctionOnSet(f, T) + b * SumFunctionOnSet(g, T)
                                    + c * SumFunctionOnSet(h, T) + SumFunctionOnSet(e, T)
<1> USE DEF CombinesThree
<1> DEFINE v == [t \in T |-> c * h[t] + e[t]]
           w == [t \in T |-> b * g[t] + v[t]]
<1>1. \A p, q, r \in Int : p * q + r \in Int
  OBVIOUS
<1>2. \A t \in T : v[t] = c * h[t] + e[t] /\ v[t] \in Int
  <2> SUFFICES ASSUME NEW t \in T PROVE v[t] = c * h[t] + e[t] /\ v[t] \in Int
    OBVIOUS
  <2>1. h[t] \in Int /\ e[t] \in Int
    OBVIOUS
  <2> QED
    BY <1>1, <2>1
<1> HIDE DEF v
<1>3. \A t \in T : w[t] = b * g[t] + v[t] /\ w[t] \in Int
  <2> SUFFICES ASSUME NEW t \in T PROVE w[t] = b * g[t] + v[t] /\ w[t] \in Int
    OBVIOUS
  <2>1. g[t] \in Int /\ v[t] \in Int
    BY <1>2
  <2> QED
    BY <1>1, <2>1
<1> HIDE DEF w
<1>4. \A t \in T : k[t] = a * f[t] + w[t]
  <2> SUFFICES ASSUME NEW t \in T PROVE k[t] = a * f[t] + w[t]
    OBVIOUS
  <2>1. /\ f[t] \in Int /\ g[t] \in Int /\ h[t] \in Int /\ e[t] \in Int
        /\ k[t] = a * f[t] + b * g[t] + c * h[t] + e[t]
        /\ v[t] = c * h[t] + e[t] /\ w[t] = b * g[t] + v[t]
    BY <1>2, <1>3
  <2> QED
    BY <2>1
<1>5. Combines(T, c, h, e, v) /\ Combines(T, b, g, v, w) /\ Combines(T, a, f, w, k)
  BY <1>2, <1>3, <1>4, Zenon DEF Combines
<1>6. SumFunctionOnSet(v, T) = c * SumFunctionOnSet(h, T) + SumFunctionOnSet(e, T)
  BY <1>5, SumCombined
<1>7. /\ SumFunctionOnSet(w, T) = b * SumFunctionOnSet(g, T) + SumFunctionOnSet(v, T)
      /\ SumFunctionOnSet(k, T) = a * SumFunctionOnSet(f, T) + SumFunctionOnSet(w, T)
  BY <1>5, SumCombined
<1>8. /\ SumFunctionOnSet(f, T) \in Int /\ SumFunctionOnSet(g, T) \in Int
      /\ SumFunctionOnSet(h, T) \in Int /\ SumFunctionOnSet(e, T) \in Int
  <2>1. \A u : (\A t \in T : u[t] \in Int) => SumFunctionOnSet(u, T) \in Int
    BY SumStep
  <2> QED
    BY <2>1
<1> QED
  BY <1>6, <1>7, <1>8

(* A sum of what is zero but at one place.                                  *)
LEMMA SumOfOne ==
    ASSUME NEW T, IsFiniteSet(T), NEW i \in T, NEW f,
           f[i] \in Int, \A t \in T \ {i} : f[t] = 0
    PROVE  SumFunctionOnSet(f, T) = f[i]
<1>1. \A t \in T : f[t] \in Int
  OBVIOUS
<1>2. SumFunctionOnSet(f, T) = SumFunctionOnSet(f, {i})
  BY <1>1, SumWhere
<1>3. {i} \ {i} = {} /\ IsFiniteSet({i})
  BY FS_Singleton
<1>4. SumFunctionOnSet(f, {i}) = f[i] + SumFunctionOnSet(f, {i} \ {i})
  BY <1>3, SumStep
<1> QED
  BY <1>2, <1>3, <1>4, SumEmpty

(* A sum of numbers that are not negative is nothing only if they all are.  *)
LEMMA SumOfNothing ==
    ASSUME NEW T, IsFiniteSet(T), NEW f, \A t \in T : f[t] \in Nat
    PROVE  SumFunctionOnSet(f, T) = 0 <=> \A t \in T : f[t] = 0
<1>1. ASSUME \A t \in T : f[t] = 0 PROVE SumFunctionOnSet(f, T) = 0
  <2>1. SumFunctionOnSet(f, T) = 0 * Cardinality(T)
    BY <1>1, SumConstant
  <2>2. Cardinality(T) \in Nat
    BY FS_CardinalityType
  <2> QED
    BY <2>1, <2>2
<1>2. ASSUME SumFunctionOnSet(f, T) = 0, NEW t \in T PROVE f[t] = 0
  <2> DEFINE U == T \ {t}
             z == [u \in U |-> 0]
  <2>1. IsFiniteSet(U)
    BY FS_Subset
  <2>2. SumFunctionOnSet(f, T) = f[t] + SumFunctionOnSet(f, U)
    <3>1. \A u \in T : f[u] \in Int
      OBVIOUS
    <3> QED
      BY <3>1, SumStep
  <2>3. SumFunctionOnSet(z, U) <= SumFunctionOnSet(f, U)
    <3>1. \A u \in U : z[u] \in Int /\ f[u] \in Int /\ z[u] <= f[u]
      OBVIOUS
    <3> HIDE DEF z, U
    <3> QED
      BY <2>1, <3>1, SumOrder
  <2>4. SumFunctionOnSet(z, U) = 0
    <3>1. \A u \in U : z[u] = 0
      OBVIOUS
    <3> HIDE DEF z, U
    <3>2. SumFunctionOnSet(z, U) = 0 * Cardinality(U)
      BY <2>1, <3>1, SumConstant
    <3>3. Cardinality(U) \in Nat
      BY <2>1, FS_CardinalityType
    <3> QED
      BY <3>2, <3>3
  <2>5. SumFunctionOnSet(f, U) \in Int
    <3>1. \A u \in U : f[u] \in Int
      OBVIOUS
    <3> HIDE DEF U
    <3> QED
      BY <2>1, <3>1, SumStep
  <2> HIDE DEF U, z
  <2> QED
    BY <1>2, <2>2, <2>3, <2>4, <2>5
<1> QED
  BY <1>1, <1>2

-----------------------------------------------------------------------------
(* The normal equations.                                                    *)

SoundControls(c) == c \in Seq([page : Int \X Int, target : Int \X Int])

LEMMA RowsAreTriples ==
    ASSUME NEW c, SoundControls(c)
    PROVE  /\ IsFiniteSet(DOMAIN c) /\ Len(c) \in Nat /\ DOMAIN c = 1..Len(c)
           /\ Cardinality(DOMAIN c) = Len(c)
           /\ \A i \in DOMAIN c :
                  /\ PageRow(c[i]) \in Triples /\ PageRow(c[i])[3] = 1
                  /\ PageRow(c[i])[1] = c[i].page[1] /\ PageRow(c[i])[2] = c[i].page[2]
                  /\ c[i].page \in Int \X Int /\ c[i].target \in Int \X Int
<1>1. Len(c) \in Nat /\ DOMAIN c = 1..Len(c)
  BY DEF SoundControls
<1>2. IsFiniteSet(1..Len(c)) /\ Cardinality(1..Len(c)) = Len(c)
  <2>1. 1 \in Int /\ Len(c) \in Int
    BY <1>1
  <2>2. /\ IsFiniteSet(1..Len(c))
        /\ Cardinality(1..Len(c)) = IF 1 > Len(c) THEN 0 ELSE Len(c) - 1 + 1
    BY <2>1, FS_Interval
  <2> QED
    BY <1>1, <2>2
<1>3. ASSUME NEW i \in DOMAIN c
      PROVE  /\ PageRow(c[i]) \in Triples /\ PageRow(c[i])[3] = 1
             /\ PageRow(c[i])[1] = c[i].page[1] /\ PageRow(c[i])[2] = c[i].page[2]
             /\ c[i].page \in Int \X Int /\ c[i].target \in Int \X Int
  <2>1. c[i] \in [page : Int \X Int, target : Int \X Int]
    <3> DEFINE S == [page : Int \X Int, target : Int \X Int]
    <3>1. c \in Seq(S) /\ i \in 1..Len(c)
      BY <1>1 DEF SoundControls
    <3> HIDE DEF S
    <3>2. c[i] \in S
      BY <3>1
    <3> QED
      BY <3>2 DEF S
  <2>3. c[i].page \in Int \X Int /\ c[i].target \in Int \X Int
    BY <2>1
  <2>2. c[i].page[1] \in Int /\ c[i].page[2] \in Int
    BY <2>3
  <2> QED
    BY <2>2, <2>3 DEF PageRow, Triples
<1> QED
  BY <1>1, <1>2, <1>3

MomentOf(c, g) ==
    [k \in 1..3 |-> SumFunctionOnSet([j \in DOMAIN c |-> PageRow(c[j])[k] * g[j]], DOMAIN c)]

LEMMA NormalIsMatrix ==
    ASSUME NEW c, SoundControls(c)
    PROVE  /\ Normal(c) \in Matrices
           /\ \A j, k \in 1..3 :
                  Normal(c)[j][k] =
                      SumFunctionOnSet([i \in DOMAIN c |-> PageRow(c[i])[j] * PageRow(c[i])[k]],
                                       DOMAIN c)
<1> DEFINE f(j, k) == [i \in DOMAIN c |-> PageRow(c[i])[j] * PageRow(c[i])[k]]
<1>1. \A j, k \in 1..3 : SumFunction(f(j, k)) = SumFunctionOnSet(f(j, k), DOMAIN c)
  BY SumOverDomain
<1>2. ASSUME NEW j \in 1..3, NEW k \in 1..3
      PROVE  SumFunctionOnSet(f(j, k), DOMAIN c) \in Int
  <2>1. ASSUME NEW i \in DOMAIN c PROVE f(j, k)[i] \in Int
    <3>1. PageRow(c[i]) \in Triples
      BY RowsAreTriples
    <3>2. PageRow(c[i])[j] \in Int /\ PageRow(c[i])[k] \in Int
      BY <3>1 DEF Triples
    <3>3. \A p, q \in Int : p * q \in Int
      OBVIOUS
    <3> QED
      BY <3>2, <3>3
  <2>2. IsFiniteSet(DOMAIN c)
    BY RowsAreTriples
  <2> DEFINE g == f(j, k)
  <2> HIDE DEF f
  <2> QED
    BY <2>1, <2>2, SumStep
<1>3. Normal(c) = [j \in 1..3 |-> [k \in 1..3 |-> SumFunction(f(j, k))]]
  BY DEF Normal
<1> HIDE DEF f
<1>4. Normal(c) \in Matrices /\ \A j, k \in 1..3 : Normal(c)[j][k] = SumFunctionOnSet(f(j, k), DOMAIN c)
  BY <1>1, <1>2, <1>3 DEF Matrices, Triples
<1> QED
  BY <1>4 DEF f

(* What the targets are but for one that is displaced.                      *)
Splits(c, g, x, i, by) ==
    \A j \in DOMAIN c : g[j] = Times(PageRow(c[j]), x) + (IF j = i THEN by ELSE 0)

LEMMA MomentSplits ==
    ASSUME NEW c, SoundControls(c), NEW i \in DOMAIN c, NEW x \in Triples, NEW by \in Int,
           NEW g, Splits(c, g, x, i, by)
    PROVE  \A k \in 1..3 : MomentOf(c, g)[k] = by * PageRow(c[i])[k] + Times(Normal(c)[k], x)
<1> SUFFICES ASSUME NEW k \in 1..3
             PROVE  MomentOf(c, g)[k] = by * PageRow(c[i])[k] + Times(Normal(c)[k], x)
  OBVIOUS
<1> DEFINE T == DOMAIN c
           f(m) == [j \in T |-> PageRow(c[j])[k] * PageRow(c[j])[m]]
           e == [j \in T |-> IF j = i THEN by * PageRow(c[i])[k] ELSE 0]
           h == [j \in T |-> PageRow(c[j])[k] * g[j]]
<1>1. IsFiniteSet(T)
  BY RowsAreTriples
<1>2. 1 \in 1..3 /\ 2 \in 1..3 /\ 3 \in 1..3
  OBVIOUS
<1>3. \A p, q \in Int : p * q \in Int
  OBVIOUS
<1>4. \A j \in T, m \in 1..3 : PageRow(c[j])[m] \in Int
  BY RowsAreTriples DEF Triples
<1>5. PICK x1, x2, x3 \in Int : x1 = x[1] /\ x2 = x[2] /\ x3 = x[3]
  BY <1>2, Zenon DEF Triples
<1>6. \A m \in 1..3, j \in T : f(m)[j] \in Int /\ f(m)[j] = PageRow(c[j])[k] * PageRow(c[j])[m]
  BY <1>3, <1>4
<1>7. by * PageRow(c[i])[k] \in Int
  BY <1>3, <1>4
<1>8. \A j \in T : e[j] \in Int /\ e[j] = IF j = i THEN by * PageRow(c[i])[k] ELSE 0
  BY <1>7
<1>9. \A j \in T : h[j] = PageRow(c[j])[k] * g[j]
  OBVIOUS
<1>10. MomentOf(c, g)[k] = SumFunctionOnSet(h, T)
  BY DEF MomentOf
<1>11. \A m \in 1..3 : Normal(c)[k][m] = SumFunctionOnSet(f(m), T)
  BY NormalIsMatrix
<1> HIDE DEF T, f, e, h
<1>12. CombinesThree(T, x1, x2, x3, f(1), f(2), f(3), e, h)
  <2> SUFFICES ASSUME NEW j \in T
               PROVE  h[j] = x1 * f(1)[j] + x2 * f(2)[j] + x3 * f(3)[j] + e[j]
    BY <1>2, <1>6, <1>8, Zenon DEF CombinesThree
  <2>1. PICK r1, r2, r3, r \in Int : r1 = PageRow(c[j])[1] /\ r2 = PageRow(c[j])[2]
                                     /\ r3 = PageRow(c[j])[3] /\ r = PageRow(c[j])[k]
    BY <1>2, <1>4, Zenon
  <2>2. f(1)[j] = r * r1 /\ f(2)[j] = r * r2 /\ f(3)[j] = r * r3
    BY <1>2, <1>6, <2>1, Zenon
  <2>3. PICK d \in Int : d = IF j = i THEN by ELSE 0
    OBVIOUS
  <2>4. e[j] = d * r
    <3>1. CASE j = i
      BY <1>8, <2>1, <2>3, <3>1, Zenon
    <3>2. CASE j # i
      <4>1. e[j] = 0 /\ d = 0 /\ 0 * r = 0
        BY <1>8, <2>3, <3>2
      <4> QED
        BY <4>1, Zenon
    <3> QED
      BY <3>1, <3>2
  <2>5. g[j] = (r1 * x1 + r2 * x2 + r3 * x3) + d
    BY <1>5, <2>1, <2>3, Zenon DEF Splits, Times, T
  <2>6. h[j] = r * ((r1 * x1 + r2 * x2 + r3 * x3) + d)
    BY <1>9, <2>1, <2>5, Zenon
  <2>7. r * ((r1 * x1 + r2 * x2 + r3 * x3) + d)
        = x1 * (r * r1) + x2 * (r * r2) + x3 * (r * r3) + d * r
    OBVIOUS
  <2> QED
    BY <2>2, <2>4, <2>6, <2>7, Zenon
<1>13. SumFunctionOnSet(h, T) = x1 * SumFunctionOnSet(f(1), T) + x2 * SumFunctionOnSet(f(2), T)
                                + x3 * SumFunctionOnSet(f(3), T) + SumFunctionOnSet(e, T)
  BY <1>1, <1>12, SumOfThree
<1>14. SumFunctionOnSet(e, T) = by * PageRow(c[i])[k]
  <2>1. i \in T
    BY DEF T
  <2>2. e[i] = by * PageRow(c[i])[k] /\ e[i] \in Int /\ \A t \in T \ {i} : e[t] = 0
    BY <1>8, <2>1
  <2> QED
    BY <1>1, <2>1, <2>2, SumOfOne
<1>15. PICK n1, n2, n3, z \in Int : /\ n1 = Normal(c)[k][1] /\ n2 = Normal(c)[k][2]
                                     /\ n3 = Normal(c)[k][3] /\ z = by * PageRow(c[i])[k]
  <2>1. Normal(c) \in Matrices
    BY NormalIsMatrix
  <2> QED
    BY <1>2, <1>7, <2>1, Zenon DEF Matrices, Triples
<1>16. x1 * n1 + x2 * n2 + x3 * n3 + z = z + (n1 * x1 + n2 * x2 + n3 * x3)
  OBVIOUS
<1>17. MomentOf(c, g)[k] = x1 * n1 + x2 * n2 + x3 * n3 + z
  BY <1>2, <1>10, <1>11, <1>13, <1>14, <1>15, Zenon
<1> QED
  BY <1>5, <1>15, <1>16, <1>17, Zenon DEF Times

-----------------------------------------------------------------------------
(* What the fit makes of controls that agree but for one, on one axis: the  *)
(* map x that they agree on, bent by the displacement.                      *)
Bend(c, i) == [k \in 1..3 |-> Replaced(Normal(c), k, PageRow(c[i]))]
Targets(c, axis) == [j \in DOMAIN c |-> c[j].target[axis]]

LEMMA SolutionIsBent ==
    ASSUME NEW c, SoundControls(c), NEW i \in DOMAIN c, NEW axis \in 1..2,
           NEW x \in Triples, NEW by \in Int, Splits(c, Targets(c, axis), x, i, by)
    PROVE  /\ Bend(c, i) \in Triples /\ Denominator(c) \in Int
           /\ Solution(c, axis) \in Triples
           /\ \A k \in 1..3 :
                  Solution(c, axis)[k] = by * Bend(c, i)[k] + Denominator(c) * x[k]
<1> DEFINE g == Targets(c, axis)
           n == Normal(c)
           r == PageRow(c[i])
           p == [k \in 1..3 |-> Times(n[k], x)]
           b == [k \in 1..3 |-> by * r[k] + p[k]]
<1>1. n \in Matrices /\ r \in Triples
  BY NormalIsMatrix, RowsAreTriples
<1>2. \A u, v \in Triples : Times(u, v) \in Int
  <2> SUFFICES ASSUME NEW u \in Triples, NEW v \in Triples PROVE Times(u, v) \in Int
    OBVIOUS
  <2>1. /\ u[1] \in Int /\ u[2] \in Int /\ u[3] \in Int
        /\ v[1] \in Int /\ v[2] \in Int /\ v[3] \in Int
    BY DEF Triples
  <2>2. \A p1, q1, p2, q2, p3, q3 \in Int : p1 * q1 + p2 * q2 + p3 * q3 \in Int
    OBVIOUS
  <2> QED
    BY <2>1, <2>2 DEF Times
<1> HIDE DEF n, r
<1>3. p \in Triples /\ \A k \in 1..3 : p[k] = Times(n[k], x)
  BY <1>1, <1>2 DEF Triples, Matrices
<1> HIDE DEF p
<1>4. b \in Triples /\ \A k \in 1..3 : b[k] = by * r[k] + p[k]
  <2>1. \A u, v, w \in Int : u * v + w \in Int
    OBVIOUS
  <2>2. \A k \in 1..3 : by * r[k] + p[k] \in Int
    BY <1>1, <1>3, <2>1 DEF Triples
  <2> QED
    BY <2>2 DEF Triples
<1> HIDE DEF b
<1>5. \A k \in 1..3 : Replaced(n, k, b) = by * Replaced(n, k, r) + Replaced(n, k, p)
                      /\ Replaced(n, k, r) \in Int
  BY <1>1, <1>3, <1>4, ReplacedIsLinear
<1>6. \A k \in 1..3 : Replaced(n, k, p) = Det(n) * x[k]
  BY <1>1, <1>3, ReplacedByProduct
<1>7. Det(n) \in Int
  BY <1>1 DEF Det, Matrices, Triples
<1>8. Moment(c, axis) = b
  <2>1. \A k \in 1..3 : MomentOf(c, g)[k] = b[k]
    BY <1>3, <1>4, MomentSplits DEF n, r
  <2>2. \A k \in 1..3 : Moment(c, axis)[k] = MomentOf(c, g)[k]
    <3> SUFFICES ASSUME NEW k \in 1..3 PROVE Moment(c, axis)[k] = MomentOf(c, g)[k]
      OBVIOUS
    <3> DEFINE f == [j \in DOMAIN c |-> PageRow(c[j])[k] * c[j].target[axis]]
               h == [j \in DOMAIN c |-> PageRow(c[j])[k] * g[j]]
    <3>1. f = h
      BY DEF Targets
    <3>2. Moment(c, axis)[k] = SumFunction(f)
      BY DEF Moment
    <3>3. SumFunction(f) = SumFunctionOnSet(f, DOMAIN c)
      BY SumOverDomain
    <3>4. MomentOf(c, g)[k] = SumFunctionOnSet(h, DOMAIN c)
      BY DEF MomentOf
    <3> QED
      BY <3>1, <3>2, <3>3, <3>4, Zenon
  <2>3. DOMAIN Moment(c, axis) = 1..3 /\ Moment(c, axis) = [k \in 1..3 |-> Moment(c, axis)[k]]
    BY DEF Moment
  <2>4. b = [k \in 1..3 |-> b[k]]
    BY <1>4 DEF Triples
  <2> QED
    BY <2>1, <2>2, <2>3, <2>4
<1>9. \A k \in 1..3 : Solution(c, axis)[k] = Replaced(n, k, b)
  BY <1>8 DEF Solution, Replaced, n
<1>10. \A k \in 1..3 : Solution(c, axis)[k] = by * Bend(c, i)[k] + Denominator(c) * x[k]
  BY <1>5, <1>6, <1>9 DEF Bend, Denominator, n, r
<1>11. Bend(c, i) \in Triples
  BY <1>5 DEF Bend, Triples, n, r
<1>12. Solution(c, axis) \in Triples
  <2>1. \A k \in 1..3 : Solution(c, axis)[k] \in Int
    <3>1. \A u, v, w, z \in Int : u * v + w * z \in Int
      OBVIOUS
    <3> QED
      BY <1>7, <1>10, <1>11, <3>1 DEF Triples, Denominator, n
  <2>2. Solution(c, axis) = [k \in 1..3 |-> Solution(c, axis)[k]]
    BY DEF Solution
  <2> QED
    BY <2>1, <2>2 DEF Triples
<1> QED
  BY <1>7, <1>10, <1>11, <1>12 DEF Denominator, n

LEMMA MisfitIsBent ==
    ASSUME NEW c, SoundControls(c), NEW i \in DOMAIN c, NEW axis \in 1..2,
           NEW x \in Triples, NEW by \in Int, Splits(c, Targets(c, axis), x, i, by)
    PROVE  \A j \in DOMAIN c :
               /\ Misfit(c, j, axis) \in Int /\ Times(Bend(c, i), PageRow(c[j])) \in Int
               /\ Misfit(c, j, axis) = by * Times(Bend(c, i), PageRow(c[j]))
                                       - (IF j = i THEN by * Denominator(c) ELSE 0)
<1> SUFFICES ASSUME NEW j \in DOMAIN c
             PROVE  /\ Misfit(c, j, axis) \in Int /\ Times(Bend(c, i), PageRow(c[j])) \in Int
                    /\ Misfit(c, j, axis) = by * Times(Bend(c, i), PageRow(c[j]))
                                            - (IF j = i THEN by * Denominator(c) ELSE 0)
  OBVIOUS
<1>1. /\ Bend(c, i) \in Triples /\ Denominator(c) \in Int
      /\ Solution(c, axis) \in Triples /\ PageRow(c[j]) \in Triples
      /\ \A k \in 1..3 : Solution(c, axis)[k] = by * Bend(c, i)[k] + Denominator(c) * x[k]
  BY SolutionIsBent, RowsAreTriples
<1>2. 1 \in 1..3 /\ 2 \in 1..3 /\ 3 \in 1..3
  OBVIOUS
<1>3. PICK b1, b2, b3, d, x1, x2, x3, r1, r2, r3 \in Int :
          /\ b1 = Bend(c, i)[1] /\ b2 = Bend(c, i)[2] /\ b3 = Bend(c, i)[3]
          /\ d = Denominator(c) /\ x1 = x[1] /\ x2 = x[2] /\ x3 = x[3]
          /\ r1 = PageRow(c[j])[1] /\ r2 = PageRow(c[j])[2] /\ r3 = PageRow(c[j])[3]
  BY <1>1, <1>2, Zenon DEF Triples
<1>4. PICK e \in Int : e = IF j = i THEN by ELSE 0
  OBVIOUS
<1>5. Targets(c, axis)[j] = (r1 * x1 + r2 * x2 + r3 * x3) + e
  BY <1>3, <1>4, Zenon DEF Splits, Times
<1>6. Targets(c, axis)[j] = c[j].target[axis]
  BY DEF Targets
<1>7. /\ Solution(c, axis)[1] = by * b1 + d * x1
      /\ Solution(c, axis)[2] = by * b2 + d * x2
      /\ Solution(c, axis)[3] = by * b3 + d * x3
  BY <1>1, <1>2, <1>3, Zenon
<1>8. Misfit(c, j, axis) = (by * b1 + d * x1) * r1 + (by * b2 + d * x2) * r2
                           + (by * b3 + d * x3) * r3 - d * ((r1 * x1 + r2 * x2 + r3 * x3) + e)
  BY <1>3, <1>5, <1>6, <1>7, Zenon DEF Misfit
<1>9. Times(Bend(c, i), PageRow(c[j])) = b1 * r1 + b2 * r2 + b3 * r3
  BY <1>3, Zenon DEF Times
<1>10. (by * b1 + d * x1) * r1 + (by * b2 + d * x2) * r2
           + (by * b3 + d * x3) * r3 - d * ((r1 * x1 + r2 * x2 + r3 * x3) + e)
       = by * (b1 * r1 + b2 * r2 + b3 * r3) - e * d
  OBVIOUS
<1>11. by * (b1 * r1 + b2 * r2 + b3 * r3) - e * d \in Int /\ b1 * r1 + b2 * r2 + b3 * r3 \in Int
  OBVIOUS
<1>12. e * d = IF j = i THEN by * d ELSE 0
  <2>1. 0 * d = 0
    OBVIOUS
  <2> QED
    BY <1>4, <2>1, Zenon
<1> QED
  BY <1>3, <1>8, <1>9, <1>10, <1>11, <1>12, Zenon

(* Of a fit, nothing is left over only if every control is met.             *)
LEMMA NothingIsLeft ==
    ASSUME NEW c, SoundControls(c),
           \A j \in DOMAIN c, axis \in 1..2 : Misfit(c, j, axis) \in Int
    PROVE  /\ SumOfSquares(Fit(c)) = 0
              <=> \A j \in DOMAIN c, axis \in 1..2 : Misfit(c, j, axis) = 0
           /\ \A j \in DOMAIN c : Residual(c, j) \in Nat
<1> DEFINE f == [j \in DOMAIN c |-> Residual(c, j)]
<1>1. 1 \in 1..2 /\ 2 \in 1..2 /\ \A axis \in 1..2 : axis = 1 \/ axis = 2
  OBVIOUS
<1>2. ASSUME NEW j \in DOMAIN c
      PROVE  /\ f[j] \in Nat /\ f[j] = Residual(c, j)
             /\ f[j] = 0 <=> \A axis \in 1..2 : Misfit(c, j, axis) = 0
  <2>1. PICK m1, m2 \in Int : m1 = Misfit(c, j, 1) /\ m2 = Misfit(c, j, 2)
    BY <1>1
  <2>2. f[j] = m1 * m1 + m2 * m2
    BY <2>1 DEF Residual
  <2>3. \A u \in Int : u * u \in Nat /\ (u * u = 0 <=> u = 0)
    OBVIOUS
  <2>4. PICK s1, s2 \in Nat : s1 = m1 * m1 /\ s2 = m2 * m2
    BY <2>3
  <2>5. (s1 = 0 <=> m1 = 0) /\ (s2 = 0 <=> m2 = 0)
    BY <2>3, <2>4
  <2>6. f[j] = s1 + s2
    BY <2>2, <2>4, Zenon
  <2>7. f[j] \in Nat /\ (f[j] = 0 <=> m1 = 0 /\ m2 = 0)
    BY <2>5, <2>6
  <2>8. (\A axis \in 1..2 : Misfit(c, j, axis) = 0) <=> m1 = 0 /\ m2 = 0
    BY <1>1, <2>1, Zenon
  <2>9. f[j] = Residual(c, j)
    OBVIOUS
  <2> QED
    BY <2>7, <2>8, <2>9, Zenon
<1>3. SumOfSquares(Fit(c)) = SumFunctionOnSet(f, DOMAIN c)
  <2>1. Fit(c).residuals = f
    BY DEF Fit
  <2>2. DOMAIN f = DOMAIN c
    OBVIOUS
  <2> HIDE DEF f
  <2> QED
    BY <2>1, <2>2, SumOverDomain DEF SumOfSquares
<1> HIDE DEF f
<1>4. SumFunctionOnSet(f, DOMAIN c) = 0 <=> \A j \in DOMAIN c : f[j] = 0
  <2>1. IsFiniteSet(DOMAIN c)
    BY RowsAreTriples
  <2> QED
    BY <1>2, <2>1, SumOfNothing
<1> QED
  BY <1>2, <1>3, <1>4, Zenon

-----------------------------------------------------------------------------
(* Controls on a line.  A line is kept as the triple that is zero on it.    *)

LEMMA LineThroughOthers ==
    ASSUME NEW c, SoundControls(c), ValidCalibration(c), NEW i \in DOMAIN c,
           OnALine({c[j].page : j \in DOMAIN c \ {i}})
    PROVE  \E line \in Triples :
               /\ \E k \in 1..3 : line[k] # 0
               /\ \A j \in DOMAIN c \ {i} : Times(line, PageRow(c[j])) = 0
<1>1. PICK a, b \in DOMAIN c \ {i} : a # b
  <2>1. DOMAIN c = 1..Len(c) /\ Len(c) \in Nat /\ Len(c) >= 4
    BY RowsAreTriples DEF ValidCalibration
  <2>2. 1 \in DOMAIN c /\ 2 \in DOMAIN c /\ 3 \in DOMAIN c
    BY <2>1
  <2>3. i = 1 \/ i = 2 \/ (i # 1 /\ i # 2)
    OBVIOUS
  <2> QED
    BY <2>2, <2>3
<1>2. c[a].page # c[b].page
  BY <1>1 DEF ValidCalibration
<1>3. \A j \in DOMAIN c : /\ PageRow(c[j])[1] = c[j].page[1] /\ PageRow(c[j])[2] = c[j].page[2]
                          /\ PageRow(c[j])[3] = 1 /\ c[j].page \in Int \X Int
  BY RowsAreTriples
<1>4. PICK p1, p2, q1, q2 \in Int : /\ p1 = c[a].page[1] /\ p2 = c[a].page[2]
                                    /\ q1 = c[b].page[1] /\ q2 = c[b].page[2]
  BY <1>1, <1>3
<1>5. p1 # q1 \/ p2 # q2
  <2>1. c[a].page \in Int \X Int /\ c[b].page \in Int \X Int
    BY <1>1, <1>3
  <2> QED
    BY <1>2, <1>4, <2>1
<1>6. PICK u, v, w \in Int : u = q2 - p2 /\ v = p1 - q1 /\ w = (q1 - p1) * p2 - (q2 - p2) * p1
  OBVIOUS
<1> DEFINE line == [k \in 1..3 |-> IF k = 1 THEN u ELSE IF k = 2 THEN v ELSE w]
<1>7. line \in Triples /\ line[1] = u /\ line[2] = v /\ line[3] = w
  BY DEF Triples
<1> HIDE DEF line
<1>8. \E k \in 1..3 : line[k] # 0
  <2>1. u # 0 \/ v # 0
    BY <1>5, <1>6
  <2>2. 1 \in 1..3 /\ 2 \in 1..3
    OBVIOUS
  <2> QED
    BY <1>7, <2>1, <2>2
<1>9. ASSUME NEW j \in DOMAIN c \ {i} PROVE Times(line, PageRow(c[j])) = 0
  <2>1. PICK r1, r2 \in Int : r1 = c[j].page[1] /\ r2 = c[j].page[2]
    BY <1>3
  <2>2. (q1 - p1) * (r2 - p2) = (q2 - p2) * (r1 - p1)
    <3>1. /\ c[a].page \in {c[k].page : k \in DOMAIN c \ {i}}
          /\ c[b].page \in {c[k].page : k \in DOMAIN c \ {i}}
          /\ c[j].page \in {c[k].page : k \in DOMAIN c \ {i}}
      BY <1>1
    <3> QED
      BY <1>4, <2>1, <3>1, Zenon DEF OnALine
  <2>3. Times(line, PageRow(c[j])) = u * r1 + v * r2 + w * 1
    BY <1>3, <1>7, <2>1, Zenon DEF Times
  <2>4. u * r1 + v * r2 + w * 1 = (q2 - p2) * (r1 - p1) - (q1 - p1) * (r2 - p2)
    BY <1>6
  <2>5. (q2 - p2) * (r1 - p1) \in Int
    OBVIOUS
  <2>6. \A z \in Int : z - z = 0
    OBVIOUS
  <2> QED
    BY <2>2, <2>3, <2>4, <2>5, <2>6, Zenon
<1> QED
  BY <1>7, <1>8, <1>9

IsAcross(u, v, a1, a2) == u * a1 + v * a2 = 0

LEMMA AcrossOneAnother ==
    ASSUME NEW u \in Int, NEW v \in Int, u # 0 \/ v # 0,
           NEW a1 \in Int, NEW a2 \in Int, NEW b1 \in Int, NEW b2 \in Int,
           IsAcross(u, v, a1, a2), IsAcross(u, v, b1, b2)
    PROVE  a1 * b2 = a2 * b1
<1>1. PICK d \in Int : d = a1 * b2 - a2 * b1
  OBVIOUS
<1>2. /\ u * d = (u * a1 + v * a2) * b2 - (u * b1 + v * b2) * a2
      /\ v * d = (u * b1 + v * b2) * a1 - (u * a1 + v * a2) * b1
  BY <1>1
<1>3. 0 * b2 - 0 * a2 = 0 /\ 0 * a1 - 0 * b1 = 0
  OBVIOUS
<1>4. u * d = 0 /\ v * d = 0
  BY <1>2, <1>3, Zenon DEF IsAcross
<1>5. \A m, n \in Int : m * n = 0 => m = 0 \/ n = 0
  OBVIOUS
<1>6. d = 0
  BY <1>4, <1>5
<1>7. \A m, n \in Int : m - n = 0 => m = n
  OBVIOUS
<1>8. a1 * b2 \in Int /\ a2 * b1 \in Int
  OBVIOUS
<1> QED
  BY <1>1, <1>6, <1>7, <1>8, Zenon

LEMMA OthersAreOnLine ==
    ASSUME NEW c, SoundControls(c), ValidCalibration(c), NEW i \in DOMAIN c,
           NEW line \in Triples, Times(line, PageRow(c[i])) # 0,
           \A j \in DOMAIN c \ {i} : Times(line, PageRow(c[j])) = 0
    PROVE  OnALine({c[j].page : j \in DOMAIN c \ {i}})
<1>1. PICK a \in DOMAIN c : a # i
  <2>1. DOMAIN c = 1..Len(c) /\ Len(c) \in Nat /\ Len(c) >= 4
    BY RowsAreTriples DEF ValidCalibration
  <2> QED
    BY <2>1
<1>2. \A j \in DOMAIN c : /\ PageRow(c[j])[1] = c[j].page[1] /\ PageRow(c[j])[2] = c[j].page[2]
                          /\ PageRow(c[j])[3] = 1 /\ c[j].page \in Int \X Int
  BY RowsAreTriples
<1>3. PICK u, v, w \in Int : u = line[1] /\ v = line[2] /\ w = line[3]
  <2>1. 1 \in 1..3 /\ 2 \in 1..3 /\ 3 \in 1..3
    OBVIOUS
  <2> QED
    BY <2>1, Zenon DEF Triples
<1>4. \A j \in DOMAIN c : Times(line, PageRow(c[j])) = u * c[j].page[1] + v * c[j].page[2] + w * 1
  BY <1>2, <1>3, Zenon DEF Times
<1>5. u # 0 \/ v # 0
  <2> SUFFICES ASSUME u = 0, v = 0 PROVE FALSE
    OBVIOUS
  <2>1. \A j \in DOMAIN c : Times(line, PageRow(c[j])) = w
    <3> SUFFICES ASSUME NEW j \in DOMAIN c PROVE Times(line, PageRow(c[j])) = w
      OBVIOUS
    <3>1. PICK r1, r2 \in Int : r1 = c[j].page[1] /\ r2 = c[j].page[2]
      BY <1>2
    <3>2. 0 * r1 + 0 * r2 + w * 1 = w
      OBVIOUS
    <3> QED
      BY <1>4, <3>1, <3>2, Zenon
  <2>2. Times(line, PageRow(c[a])) = 0
    BY <1>1
  <2>3. w = 0
    BY <1>1, <2>1, <2>2
  <2>4. Times(line, PageRow(c[i])) = w
    BY <2>1
  <2> QED
    BY <2>3, <2>4
<1>7. ASSUME NEW j \in DOMAIN c \ {i}, NEW k \in DOMAIN c \ {i}, NEW m \in DOMAIN c \ {i}
      PROVE  LET p == c[j].page  q == c[k].page  r == c[m].page
             IN  (q[1] - p[1]) * (r[2] - p[2]) = (q[2] - p[2]) * (r[1] - p[1])
  <2>1. PICK p1, p2, q1, q2, r1, r2 \in Int :
            /\ p1 = c[j].page[1] /\ p2 = c[j].page[2] /\ q1 = c[k].page[1] /\ q2 = c[k].page[2]
            /\ r1 = c[m].page[1] /\ r2 = c[m].page[2]
    <3>1. c[j].page \in Int \X Int /\ c[k].page \in Int \X Int /\ c[m].page \in Int \X Int
      BY <1>2
    <3> QED
      BY <3>1
  <2>2. /\ u * p1 + v * p2 + w * 1 = 0 /\ u * q1 + v * q2 + w * 1 = 0
        /\ u * r1 + v * r2 + w * 1 = 0
    BY <1>4, <2>1, Zenon
  <2>3. u * (q1 - p1) + v * (q2 - p2) = 0 /\ u * (r1 - p1) + v * (r2 - p2) = 0
    BY <2>2
  <2>4. (q1 - p1) * (r2 - p2) = (q2 - p2) * (r1 - p1)
    <3>1. PICK a1, a2, b1, b2 \in Int :
              a1 = q1 - p1 /\ a2 = q2 - p2 /\ b1 = r1 - p1 /\ b2 = r2 - p2
      OBVIOUS
    <3>2. IsAcross(u, v, a1, a2) /\ IsAcross(u, v, b1, b2)
      BY <2>3, <3>1, Zenon DEF IsAcross
    <3>3. a1 * b2 = a2 * b1
      BY <1>5, <3>2, AcrossOneAnother
    <3> QED
      BY <3>1, <3>3, Zenon
  <2> QED
    BY <2>1, <2>4, Zenon
<1> QED
  BY <1>7 DEF OnALine

(* A fit that a line through all the others can bend: it bends nowhere but  *)
(* at the control that is off the line, and there all the way.              *)
LEMMA BendsAtOne ==
    ASSUME NEW c, SoundControls(c), NEW i \in DOMAIN c, Denominator(c) # 0,
           NEW line \in Triples, NEW k0 \in 1..3, line[k0] # 0,
           \A j \in DOMAIN c \ {i} : Times(line, PageRow(c[j])) = 0,
           NEW j \in DOMAIN c
    PROVE  Times(Bend(c, i), PageRow(c[j])) = IF j = i THEN Denominator(c) ELSE 0
<1> DEFINE n == Normal(c)
           r == PageRow(c[i])
           D == Denominator(c)
           zero == [k \in 1..3 |-> 0]
<1>1. n \in Matrices /\ r \in Triples /\ D \in Int
  <2>1. n \in Matrices /\ r \in Triples
    BY NormalIsMatrix, RowsAreTriples
  <2> QED
    BY <2>1 DEF Denominator, Det, Matrices, Triples
<1>2. zero \in Triples /\ \A k \in 1..3 : zero[k] = 0
  BY DEF Triples
<1>3. 1 \in 1..3 /\ 2 \in 1..3 /\ 3 \in 1..3
  OBVIOUS
<1>4. \A k \in DOMAIN c : PageRow(c[k]) \in Triples
  BY RowsAreTriples
<1>5. \A p, q \in Triples : /\ Times(p, q) \in Int /\ Times(p, q) = Times(q, p)
                            /\ Times(p, zero) = 0
  <2> SUFFICES ASSUME NEW p \in Triples, NEW q \in Triples
               PROVE  Times(p, q) \in Int /\ Times(p, q) = Times(q, p) /\ Times(p, zero) = 0
    OBVIOUS
  <2>1. PICK p1, p2, p3, q1, q2, q3 \in Int : /\ p1 = p[1] /\ p2 = p[2] /\ p3 = p[3]
                                              /\ q1 = q[1] /\ q2 = q[2] /\ q3 = q[3]
    BY <1>3, Zenon DEF Triples
  <2>2. /\ Times(p, q) = p1 * q1 + p2 * q2 + p3 * q3
        /\ Times(q, p) = q1 * p1 + q2 * p2 + q3 * p3
        /\ Times(p, zero) = p1 * 0 + p2 * 0 + p3 * 0
    BY <1>2, <1>3, <2>1, Zenon DEF Times
  <2> QED
    BY <2>2
<1> HIDE DEF n, r, D, zero
<1>6. PICK l \in Int : l = Times(line, r)
  BY <1>1, <1>5
<1> DEFINE g == [k \in DOMAIN c |-> IF k = i THEN l ELSE 0]
<1>7. Splits(c, g, line, i, 0)
  <2> SUFFICES ASSUME NEW k \in DOMAIN c
               PROVE  g[k] = Times(PageRow(c[k]), line) + (IF k = i THEN 0 ELSE 0)
    BY DEF Splits
  <2>1. g[k] = Times(line, PageRow(c[k]))
    BY <1>6 DEF r
  <2>2. Times(line, PageRow(c[k])) \in Int /\ Times(line, PageRow(c[k])) = Times(PageRow(c[k]), line)
    BY <1>4, <1>5
  <2> QED
    BY <2>1, <2>2
<1>8. Splits(c, g, zero, i, l)
  <2> SUFFICES ASSUME NEW k \in DOMAIN c
               PROVE  g[k] = Times(PageRow(c[k]), zero) + (IF k = i THEN l ELSE 0)
    BY DEF Splits
  <2>1. Times(PageRow(c[k]), zero) = 0
    BY <1>2, <1>4, <1>5
  <2> QED
    BY <2>1
<1> HIDE DEF g
<1> DEFINE p == [k \in 1..3 |-> Times(n[k], line)]
<1>9. p \in Triples /\ \A k \in 1..3 : p[k] = Times(n[k], line)
  BY <1>1, <1>5 DEF Triples, Matrices
<1> HIDE DEF p
<1>10. \A k \in 1..3 : p[k] = l * r[k] + zero[k]
  <2> SUFFICES ASSUME NEW k \in 1..3 PROVE p[k] = l * r[k] + zero[k]
    OBVIOUS
  <2>1. MomentOf(c, g)[k] = 0 * r[k] + Times(n[k], line)
    BY <1>7, MomentSplits DEF n, r
  <2>2. MomentOf(c, g)[k] = l * r[k] + Times(n[k], zero)
    BY <1>2, <1>8, MomentSplits DEF n, r
  <2>3. Times(n[k], zero) = 0 /\ zero[k] = 0
    BY <1>1, <1>2, <1>5 DEF Matrices
  <2>4. r[k] \in Int /\ p[k] \in Int
    BY <1>1, <1>9 DEF Triples
  <2>5. \A u, v \in Int : 0 * u + v = v
    OBVIOUS
  <2> QED
    BY <1>9, <2>1, <2>2, <2>3, <2>4, <2>5
<1>11. \A k \in 1..3 : l * Bend(c, i)[k] = D * line[k]
  <2> SUFFICES ASSUME NEW k \in 1..3 PROVE l * Bend(c, i)[k] = D * line[k]
    OBVIOUS
  <2>1. Replaced(n, k, p) = l * Replaced(n, k, r) + Replaced(n, k, zero) /\ Replaced(n, k, r) \in Int
    BY <1>1, <1>2, <1>9, <1>10, ReplacedIsLinear
  <2>2. Replaced(n, k, p) = Det(n) * line[k]
    BY <1>1, <1>9, ReplacedByProduct
  <2>3. Replaced(n, k, zero) = Det(n) * zero[k]
    <3>1. \A m \in 1..3 : zero[m] = Times(n[m], zero)
      BY <1>1, <1>2, <1>5 DEF Matrices
    <3> QED
      BY <1>1, <1>2, <3>1, ReplacedByProduct
  <2>4. Det(n) = D /\ Bend(c, i)[k] = Replaced(n, k, r)
    BY DEF D, n, r, Denominator, Bend
  <2>5. D * 0 = 0 /\ \A u, v \in Int : u * v + 0 = u * v
    BY <1>1
  <2> QED
    BY <1>2, <2>1, <2>2, <2>3, <2>4, <2>5
<1>12. Bend(c, i) \in Triples
  <2>1. \A k \in 1..3 : Replaced(n, k, r) \in Int
    BY <1>1, <1>2, <1>9, <1>10, ReplacedIsLinear
  <2> QED
    BY <2>1 DEF Bend, Triples, n, r
<1>13. l # 0
  <2> SUFFICES ASSUME l = 0 PROVE FALSE
    OBVIOUS
  <2>1. PICK u, v \in Int : u = Bend(c, i)[k0] /\ v = line[k0]
    BY <1>12, Zenon DEF Triples
  <2>2. 0 * u = D * v
    BY <1>11, <2>1, Zenon
  <2>3. v # 0 /\ D # 0
    BY <2>1 DEF D
  <2> QED
    BY <1>1, <2>2, <2>3
<1>14. l * Times(Bend(c, i), PageRow(c[j])) = D * Times(line, PageRow(c[j]))
  <2>1. PICK r1, r2, r3, b1, b2, b3, l1, l2, l3 \in Int :
            /\ r1 = PageRow(c[j])[1] /\ r2 = PageRow(c[j])[2] /\ r3 = PageRow(c[j])[3]
            /\ b1 = Bend(c, i)[1] /\ b2 = Bend(c, i)[2] /\ b3 = Bend(c, i)[3]
            /\ l1 = line[1] /\ l2 = line[2] /\ l3 = line[3]
    BY <1>3, <1>4, <1>12, Zenon DEF Triples
  <2>2. l * b1 = D * l1 /\ l * b2 = D * l2 /\ l * b3 = D * l3
    BY <1>3, <1>11, <2>1, Zenon
  <2>3. l * (b1 * r1 + b2 * r2 + b3 * r3) = (l * b1) * r1 + (l * b2) * r2 + (l * b3) * r3
    OBVIOUS
  <2>4. (D * l1) * r1 + (D * l2) * r2 + (D * l3) * r3 = D * (l1 * r1 + l2 * r2 + l3 * r3)
    BY <1>1
  <2>5. /\ Times(Bend(c, i), PageRow(c[j])) = b1 * r1 + b2 * r2 + b3 * r3
        /\ Times(line, PageRow(c[j])) = l1 * r1 + l2 * r2 + l3 * r3
    BY <2>1, Zenon DEF Times
  <2> QED
    BY <2>2, <2>3, <2>4, <2>5, Zenon
<1>15. PICK m \in Int : m = Times(Bend(c, i), PageRow(c[j]))
  BY <1>4, <1>5, <1>12
<1>16. CASE j = i
  <2>1. l * m = D * l
    BY <1>6, <1>14, <1>15, <1>16 DEF r
  <2>2. \A u, v, w \in Int : u # 0 /\ u * v = w * u => v = w
    OBVIOUS
  <2>3. m = D
    BY <1>1, <1>13, <2>1, <2>2
  <2> QED
    BY <1>15, <1>16, <2>3 DEF D
<1>17. CASE j # i
  <2>1. Times(line, PageRow(c[j])) = 0
    BY <1>17
  <2>2. l * m = D * 0
    BY <1>14, <1>15, <2>1, Zenon
  <2>3. m = 0
    BY <1>1, <1>13, <2>2
  <2> QED
    BY <1>15, <1>17, <2>3
<1> QED
  BY <1>16, <1>17

-----------------------------------------------------------------------------
(* The map t on one axis.                                                   *)
OnAxis(t, axis) == IF axis = 1 THEN <<t[1], t[2], t[3]>> ELSE <<t[4], t[5], t[6]>>

LEMMA AgreesByAxis ==
    ASSUME NEW c, SoundControls(c), NEW j \in DOMAIN c, NEW t \in [1..6 -> Int]
    PROVE  /\ \A axis \in 1..2 : OnAxis(t, axis) \in Triples
           /\ Agrees(t, c[j]) <=>
                  \A axis \in 1..2 : c[j].target[axis] = Times(PageRow(c[j]), OnAxis(t, axis))
           /\ \A axis \in 1..2 : Times(PageRow(c[j]), OnAxis(t, axis)) \in Int
<1>1. /\ PageRow(c[j])[3] = 1 /\ PageRow(c[j])[1] = c[j].page[1] /\ PageRow(c[j])[2] = c[j].page[2]
      /\ c[j].page \in Int \X Int /\ c[j].target \in Int \X Int
  BY RowsAreTriples
<1>2. PICK p1, p2, g1, g2 \in Int : /\ p1 = c[j].page[1] /\ p2 = c[j].page[2]
                                    /\ g1 = c[j].target[1] /\ g2 = c[j].target[2]
  BY <1>1
<1>3. PICK t1, t2, t3, t4, t5, t6 \in Int : /\ t1 = t[1] /\ t2 = t[2] /\ t3 = t[3]
                                            /\ t4 = t[4] /\ t5 = t[5] /\ t6 = t[6]
  <2>1. 1 \in 1..6 /\ 2 \in 1..6 /\ 3 \in 1..6 /\ 4 \in 1..6 /\ 5 \in 1..6 /\ 6 \in 1..6
    OBVIOUS
  <2> QED
    BY <2>1, Zenon
<1>4. OnAxis(t, 1) = <<t1, t2, t3>> /\ OnAxis(t, 2) = <<t4, t5, t6>>
  BY <1>3 DEF OnAxis
<1>5. \A axis \in 1..2 : axis = 1 \/ axis = 2
  OBVIOUS
<1>6. <<t1, t2, t3>> \in Triples /\ <<t4, t5, t6>> \in Triples
  BY DEF Triples
<1>7. /\ Times(PageRow(c[j]), OnAxis(t, 1)) = p1 * t1 + p2 * t2 + 1 * t3
      /\ Times(PageRow(c[j]), OnAxis(t, 2)) = p1 * t4 + p2 * t5 + 1 * t6
  BY <1>1, <1>2, <1>4 DEF Times
<1>8. Image(t, c[j].page) = <<t1 * p1 + t2 * p2 + t3, t4 * p1 + t5 * p2 + t6>>
  BY <1>2, <1>3, Zenon DEF Image
<1>9. c[j].target = <<g1, g2>>
  BY <1>1, <1>2
<1>10. /\ p1 * t1 + p2 * t2 + 1 * t3 = t1 * p1 + t2 * p2 + t3
       /\ p1 * t4 + p2 * t5 + 1 * t6 = t4 * p1 + t5 * p2 + t6
  OBVIOUS
<1>11. p1 * t1 + p2 * t2 + 1 * t3 \in Int /\ p1 * t4 + p2 * t5 + 1 * t6 \in Int
  OBVIOUS
<1>13. Agrees(t, c[j]) <=> t1 * p1 + t2 * p2 + t3 = g1 /\ t4 * p1 + t5 * p2 + t6 = g2
  <2>1. Agrees(t, c[j]) <=>
            <<t1 * p1 + t2 * p2 + t3, t4 * p1 + t5 * p2 + t6>> = <<g1, g2>>
    BY <1>8, <1>9, Zenon DEF Agrees
  <2>2. \A y1, y2, z1, z2 \in Int : <<y1, y2>> = <<z1, z2>> <=> y1 = z1 /\ y2 = z2
    OBVIOUS
  <2>3. t1 * p1 + t2 * p2 + t3 \in Int /\ t4 * p1 + t5 * p2 + t6 \in Int
    OBVIOUS
  <2> QED
    BY <2>1, <2>2, <2>3, Zenon
<1>14. (\A axis \in 1..2 : c[j].target[axis] = Times(PageRow(c[j]), OnAxis(t, axis)))
       <=> g1 = p1 * t1 + p2 * t2 + 1 * t3 /\ g2 = p1 * t4 + p2 * t5 + 1 * t6
  <2>1. 1 \in 1..2 /\ 2 \in 1..2
    OBVIOUS
  <2> QED
    BY <1>2, <1>5, <1>7, <2>1, Zenon
<1>15. Agrees(t, c[j]) <=>
           \A axis \in 1..2 : c[j].target[axis] = Times(PageRow(c[j]), OnAxis(t, axis))
  <2> DEFINE each == \A axis \in 1..2 : c[j].target[axis] = Times(PageRow(c[j]), OnAxis(t, axis))
             all == Agrees(t, c[j])
  <2>1. /\ each <=> g1 = p1 * t1 + p2 * t2 + 1 * t3 /\ g2 = p1 * t4 + p2 * t5 + 1 * t6
        /\ all <=> t1 * p1 + t2 * p2 + t3 = g1 /\ t4 * p1 + t5 * p2 + t6 = g2
    BY <1>13, <1>14
  <2> HIDE DEF each, all
  <2>2. all <=> each
    BY <2>1
  <2> QED
    BY <2>2 DEF each, all
<1>16. \A axis \in 1..2 : /\ OnAxis(t, axis) \in Triples
                          /\ Times(PageRow(c[j]), OnAxis(t, axis)) \in Int
  BY <1>4, <1>5, <1>6, <1>7, <1>11, Zenon
<1> QED
  BY <1>15, <1>16

(* How far the map that the others agree on misses control i.               *)
Displacement(c, i, t, axis) == c[i].target[axis] - Times(PageRow(c[i]), OnAxis(t, axis))

LEMMA OthersAgree ==
    ASSUME NEW c, SoundControls(c), NEW i \in DOMAIN c, NEW t \in [1..6 -> Int],
           \A j \in DOMAIN c \ {i} : Agrees(t, c[j])
    PROVE  /\ \A axis \in 1..2 :
                  /\ Displacement(c, i, t, axis) \in Int
                  /\ Splits(c, Targets(c, axis), OnAxis(t, axis), i, Displacement(c, i, t, axis))
           /\ Agrees(t, c[i]) <=> \A axis \in 1..2 : Displacement(c, i, t, axis) = 0
<1>1. \A axis \in 1..2 : /\ c[i].target[axis] \in Int
                         /\ Times(PageRow(c[i]), OnAxis(t, axis)) \in Int
  BY RowsAreTriples, AgreesByAxis
<1>2. \A u, v \in Int : u - v \in Int /\ (u - v = 0 <=> u = v) /\ u = v + (u - v) /\ v = v + 0
  OBVIOUS
<1>3. ASSUME NEW axis \in 1..2
      PROVE  Splits(c, Targets(c, axis), OnAxis(t, axis), i, Displacement(c, i, t, axis))
  <2> SUFFICES ASSUME NEW j \in DOMAIN c
               PROVE  Targets(c, axis)[j] = Times(PageRow(c[j]), OnAxis(t, axis))
                          + (IF j = i THEN Displacement(c, i, t, axis) ELSE 0)
    BY DEF Splits
  <2>1. Targets(c, axis)[j] = c[j].target[axis]
    BY DEF Targets
  <2>2. CASE j = i
    BY <1>1, <1>2, <2>1, <2>2 DEF Displacement
  <2>3. CASE j # i
    <3>1. c[j].target[axis] = Times(PageRow(c[j]), OnAxis(t, axis))
          /\ Times(PageRow(c[j]), OnAxis(t, axis)) \in Int
      BY <2>3, AgreesByAxis
    <3> QED
      BY <1>2, <2>1, <2>3, <3>1
  <2> QED
    BY <2>2, <2>3
<1>4. Agrees(t, c[i]) <=> \A axis \in 1..2 : Displacement(c, i, t, axis) = 0
  <2>1. Agrees(t, c[i]) <=>
            \A axis \in 1..2 : c[i].target[axis] = Times(PageRow(c[i]), OnAxis(t, axis))
    BY AgreesByAxis
  <2> QED
    BY <1>1, <1>2, <2>1, Zenon DEF Displacement
<1> QED
  BY <1>1, <1>2, <1>3, <1>4 DEF Displacement

(* One control that does not agree with the others shows, unless the others *)
(* lie on a line.                                                           *)
LEMMA DisplacedControlShows ==
    ASSUME NEW c, SoundControls(c), ValidCalibration(c), Denominator(c) # 0,
           NEW i \in DOMAIN c, NEW t \in [1..6 -> Int]
    PROVE  ShowsUnlessOnALine(c, Fit(c), i, t)
<1> SUFFICES ASSUME \A j \in DOMAIN c \ {i} : Agrees(t, c[j])
             PROVE  SumOfSquares(Fit(c)) = 0
                    <=> Agrees(t, c[i]) \/ OnALine({c[j].page : j \in DOMAIN c \ {i}})
  BY Zenon DEF ShowsUnlessOnALine
<1> DEFINE by(axis) == Displacement(c, i, t, axis)
           turn(j) == Times(Bend(c, i), PageRow(c[j]))
           D == Denominator(c)
<1>1. \A axis \in 1..2 : /\ by(axis) \in Int
                         /\ Splits(c, Targets(c, axis), OnAxis(t, axis), i, by(axis))
                         /\ OnAxis(t, axis) \in Triples
  BY OthersAgree, AgreesByAxis
<1>2. Agrees(t, c[i]) <=> \A axis \in 1..2 : by(axis) = 0
  BY OthersAgree
<1>3. 1 \in 1..2
  OBVIOUS
<1>4. D \in Int /\ Bend(c, i) \in Triples
  BY <1>1, <1>3, SolutionIsBent
<1>5. \A j \in DOMAIN c, axis \in 1..2 :
          /\ Misfit(c, j, axis) \in Int /\ turn(j) \in Int
          /\ Misfit(c, j, axis) = by(axis) * turn(j) - (IF j = i THEN by(axis) * D ELSE 0)
  BY <1>1, MisfitIsBent
<1>6. SumOfSquares(Fit(c)) = 0 <=> \A j \in DOMAIN c, axis \in 1..2 : Misfit(c, j, axis) = 0
  BY <1>5, NothingIsLeft
<1> HIDE DEF by, turn, D
<1>7. ASSUME Agrees(t, c[i]), NEW j \in DOMAIN c, NEW axis \in 1..2
      PROVE  Misfit(c, j, axis) = 0
  <2>1. by(axis) = 0
    BY <1>2, <1>7
  <2>2. \A u, v \in Int : 0 * u - (0 * v) = 0 /\ 0 * u - 0 = 0
    OBVIOUS
  <2> QED
    BY <1>4, <1>5, <2>1, <2>2
<1>8. ASSUME OnALine({c[j].page : j \in DOMAIN c \ {i}}), NEW j \in DOMAIN c, NEW axis \in 1..2
      PROVE  Misfit(c, j, axis) = 0
  <2>1. PICK line \in Triples :
            /\ \E k \in 1..3 : line[k] # 0
            /\ \A k \in DOMAIN c \ {i} : Times(line, PageRow(c[k])) = 0
    BY <1>8, LineThroughOthers
  <2>2. turn(j) = IF j = i THEN D ELSE 0
    BY <2>1, BendsAtOne DEF turn, D
  <2>3. by(axis) \in Int
    BY <1>1
  <2>4. \A u, v \in Int : u * v - u * v = 0 /\ u * 0 - 0 = 0
    OBVIOUS
  <2> QED
    BY <1>4, <1>5, <2>2, <2>3, <2>4
<1>9. ASSUME \A j \in DOMAIN c, axis \in 1..2 : Misfit(c, j, axis) = 0, ~Agrees(t, c[i])
      PROVE  OnALine({c[j].page : j \in DOMAIN c \ {i}})
  <2>1. PICK axis \in 1..2 : by(axis) # 0
    BY <1>2, <1>9
  <2>2. \A u, v \in Int : u # 0 /\ u * v - 0 = 0 => v = 0
    OBVIOUS
  <2>3. \A j \in DOMAIN c \ {i} : turn(j) = 0
    BY <1>1, <1>5, <1>9, <2>1, <2>2
  <2>4. \A u, v, w \in Int : u # 0 /\ u * v - u * w = 0 => v = w
    OBVIOUS
  <2>5. turn(i) = D
    <3>1. by(axis) * turn(i) - by(axis) * D = 0 /\ turn(i) \in Int /\ by(axis) \in Int
      BY <1>1, <1>5, <1>9
    <3> QED
      BY <1>4, <2>1, <2>4, <3>1
  <2>6. turn(i) # 0
    BY <2>5 DEF D
  <2> QED
    BY <1>4, <2>3, <2>6, OthersAreOnLine DEF turn
<1> QED
  BY <1>6, <1>7, <1>8, <1>9

LEMMA JoinOfThrees ==
    ASSUME NEW s \in Seq(Int), NEW z \in Seq(Int), Len(s) = 3, Len(z) = 3
    PROVE  s \o z = [k \in 1..6 |-> IF k <= 3 THEN s[k] ELSE z[k - 3]]
<1> DEFINE j == s \o z
<1>1. /\ j \in Seq(Int) /\ Len(j) = Len(s) + Len(z)
      /\ \A i \in 1..(Len(s) + Len(z)) : j[i] = IF i <= Len(s) THEN s[i] ELSE z[i - Len(s)]
  BY ConcatProperties
<1> HIDE DEF j
<1>2. Len(j) = 6 /\ \A i \in 1..6 : j[i] = IF i <= 3 THEN s[i] ELSE z[i - 3]
  BY <1>1
<1>3. j = [k \in 1..6 |-> j[k]]
  BY <1>1, <1>2
<1> QED
  BY <1>2, <1>3 DEF j

LEMMA AgreementIsFound ==
    ASSUME NEW c, SoundControls(c), ValidCalibration(c), NEW t \in [1..6 -> Int],
           \A j \in DOMAIN c : Agrees(t, c[j])
    PROVE  Coefficients(c) = [k \in 1..6 |-> Denominator(c) * t[k]]
<1>1. 1 \in DOMAIN c
  BY RowsAreTriples DEF ValidCalibration
<1>2. \A axis \in 1..2 : /\ Splits(c, Targets(c, axis), OnAxis(t, axis), 1, 0)
                         /\ OnAxis(t, axis) \in Triples
  <2> SUFFICES ASSUME NEW axis \in 1..2
               PROVE  /\ Splits(c, Targets(c, axis), OnAxis(t, axis), 1, 0)
                      /\ OnAxis(t, axis) \in Triples
    OBVIOUS
  <2>1. \A j \in DOMAIN c \ {1} : Agrees(t, c[j])
    OBVIOUS
  <2>2. Displacement(c, 1, t, axis) = 0
    BY <1>1, <2>1, OthersAgree
  <2> QED
    BY <1>1, <2>1, <2>2, OthersAgree, AgreesByAxis
<1>3. ASSUME NEW axis \in 1..2, NEW k \in 1..3
      PROVE  Solution(c, axis)[k] = Denominator(c) * OnAxis(t, axis)[k]
             /\ Solution(c, axis) \in Triples
  <2>1. /\ Bend(c, 1) \in Triples /\ Denominator(c) \in Int /\ Solution(c, axis) \in Triples
        /\ Solution(c, axis)[k] = 0 * Bend(c, 1)[k] + Denominator(c) * OnAxis(t, axis)[k]
    BY <1>1, <1>2, SolutionIsBent
  <2>2. Bend(c, 1)[k] \in Int /\ OnAxis(t, axis)[k] \in Int
    BY <1>2, <2>1 DEF Triples
  <2>3. \A u, v, w \in Int : 0 * u + v * w = v * w
    OBVIOUS
  <2> QED
    BY <2>1, <2>2, <2>3
<1>4. 1 \in 1..3 /\ 2 \in 1..3 /\ 3 \in 1..3 /\ 1 \in 1..2 /\ 2 \in 1..2
  OBVIOUS
<1> DEFINE D == Denominator(c)
           s == Solution(c, 1)
           z == Solution(c, 2)
<1>5. /\ s \in Triples /\ s[1] = D * t[1] /\ s[2] = D * t[2] /\ s[3] = D * t[3]
  BY <1>3, <1>4 DEF OnAxis
<1>6. /\ z \in Triples /\ z[1] = D * t[4] /\ z[2] = D * t[5] /\ z[3] = D * t[6]
  BY <1>3, <1>4 DEF OnAxis
<1>7. Coefficients(c) = s \o z
  BY DEF Coefficients
<1> HIDE DEF s, z, D
<1>8. \A u \in Triples : u \in Seq(Int) /\ Len(u) = 3
  <2> SUFFICES ASSUME NEW u \in Triples PROVE u \in Seq(Int) /\ Len(u) = 3
    OBVIOUS
  <2>1. u = <<u[1], u[2], u[3]>> /\ u[1] \in Int /\ u[2] \in Int /\ u[3] \in Int
    BY DEF Triples
  <2>2. \A u1, u2, u3 \in Int : <<u1, u2, u3>> \in Seq(Int) /\ Len(<<u1, u2, u3>>) = 3
    OBVIOUS
  <2> QED
    BY <2>1, <2>2, Zenon
<1>9. s \o z = [k \in 1..6 |-> IF k <= 3 THEN s[k] ELSE z[k - 3]]
  <2>1. s \in Seq(Int) /\ z \in Seq(Int) /\ Len(s) = 3 /\ Len(z) = 3
    BY <1>5, <1>6, <1>8
  <2> QED
    BY <2>1, JoinOfThrees
<1>10. \A k \in 1..6 : (IF k <= 3 THEN s[k] ELSE z[k - 3]) = D * t[k]
  <2> SUFFICES ASSUME NEW k \in 1..6
               PROVE  (IF k <= 3 THEN s[k] ELSE z[k - 3]) = D * t[k]
    OBVIOUS
  <2>1. k = 1 \/ k = 2 \/ k = 3 \/ k = 4 \/ k = 5 \/ k = 6
    OBVIOUS
  <2>2. 4 - 3 = 1 /\ 5 - 3 = 2 /\ 6 - 3 = 3
    OBVIOUS
  <2> QED
    BY <1>5, <1>6, <2>1, <2>2
<1> QED
  BY <1>7, <1>9, <1>10 DEF D

LEMMA MisfitIsInteger ==
    ASSUME NEW c, SoundControls(c), NEW j \in DOMAIN c, NEW axis \in 1..2
    PROVE  Misfit(c, j, axis) \in Int
<1> DEFINE n == Normal(c)
           b == Moment(c, axis)
           f(k) == [i \in DOMAIN c |-> PageRow(c[i])[k] * c[i].target[axis]]
<1>1. n \in Matrices
  BY NormalIsMatrix
<1>2. ASSUME NEW k \in 1..3 PROVE SumFunction(f(k)) \in Int
  <2>1. \A i \in DOMAIN c : f(k)[i] \in Int
    <3>1. \A i \in DOMAIN c : PageRow(c[i])[k] \in Int /\ c[i].target[axis] \in Int
      BY RowsAreTriples DEF Triples
    <3>2. \A u, v \in Int : u * v \in Int
      OBVIOUS
    <3> QED
      BY <3>1, <3>2
  <2>2. DOMAIN f(k) = DOMAIN c /\ IsFiniteSet(DOMAIN c)
    BY RowsAreTriples
  <2> HIDE DEF f
  <2> QED
    BY <2>1, <2>2, SumOverDomain, SumStep
<1>3. b = [k \in 1..3 |-> SumFunction(f(k))]
  BY DEF Moment
<1>4. b \in Triples
  BY <1>2, <1>3 DEF Triples
<1> HIDE DEF n, b, f
<1>5. \A k \in 1..3 : Replaced(n, k, b) \in Int
  <2>1. \A k \in 1..3 : b[k] = 0 * b[k] + b[k]
    BY <1>4 DEF Triples
  <2> QED
    BY <1>1, <1>4, <2>1, ReplacedIsLinear
<1>6. Solution(c, axis) \in Triples
  BY <1>5 DEF Solution, Replaced, Triples, n, b
<1>7. 1 \in 1..3 /\ 2 \in 1..3 /\ 3 \in 1..3
  OBVIOUS
<1>8. PageRow(c[j]) \in Triples /\ c[j].target[axis] \in Int
  BY RowsAreTriples
<1>9. PICK s1, s2, s3, r1, r2, r3, d, g \in Int :
          /\ s1 = Solution(c, axis)[1] /\ s2 = Solution(c, axis)[2] /\ s3 = Solution(c, axis)[3]
          /\ r1 = PageRow(c[j])[1] /\ r2 = PageRow(c[j])[2] /\ r3 = PageRow(c[j])[3]
          /\ d = Denominator(c) /\ g = c[j].target[axis]
  <2>1. Denominator(c) \in Int
    BY <1>1 DEF Denominator, Det, Matrices, Triples, n
  <2> QED
    BY <1>6, <1>7, <1>8, <2>1, Zenon DEF Triples
<1>10. Misfit(c, j, axis) = s1 * r1 + s2 * r2 + s3 * r3 - d * g
  BY <1>9, Zenon DEF Misfit
<1> QED
  BY <1>10

(* A map within a limit at every control is within it on average.           *)
LEMMA WithinOnAverage ==
    ASSUME NEW c, SoundControls(c), NEW limit \in Int, Denominator(c) \in Int,
           \A j \in DOMAIN c : Residual(c, j) \in Int,
           ErrorWithin(Fit(c), limit)
    PROVE  RmseWithin(Fit(c), limit)
<1> DEFINE D == Denominator(c)
           f == [j \in DOMAIN c |-> Residual(c, j)]
<1>1. Fit(c).residuals = f /\ Fit(c).over = D /\ DOMAIN f = DOMAIN c
  BY DEF Fit
<1>2. IsFiniteSet(DOMAIN c) /\ Cardinality(DOMAIN c) = Len(c) /\ Len(c) \in Nat
      /\ DOMAIN c = 1..Len(c)
  BY RowsAreTriples
<1>3. Len(f) = Len(c)
  BY <1>2
<1>4. PICK most \in Int : most = limit * limit * D * D
  OBVIOUS
<1>5. \A j \in DOMAIN c : f[j] \in Int /\ f[j] <= most
  <2>1. \A j \in DOMAIN f : f[j] <= limit * limit * D * D
    BY <1>1 DEF ErrorWithin
  <2> QED
    BY <1>4, <2>1
<1> HIDE DEF f, D
<1> DEFINE h == [j \in DOMAIN c |-> most]
<1>6. SumFunctionOnSet(f, DOMAIN c) <= SumFunctionOnSet(h, DOMAIN c)
  <2>1. \A j \in DOMAIN c : f[j] \in Int /\ h[j] \in Int /\ f[j] <= h[j]
    BY <1>5
  <2> HIDE DEF h
  <2> QED
    BY <1>2, <2>1, SumOrder
<1>7. SumFunctionOnSet(h, DOMAIN c) = most * Len(c)
  <2>1. \A j \in DOMAIN c : h[j] = most
    OBVIOUS
  <2> HIDE DEF h
  <2> QED
    BY <1>2, <2>1, SumConstant
<1>8. SumOfSquares(Fit(c)) = SumFunctionOnSet(f, DOMAIN c)
  BY <1>1, SumOverDomain DEF SumOfSquares
<1>9. D \in Int
  BY DEF D
<1>10. \A l, d, n \in Int : (l * l * d * d) * n = l * l * n * d * d
  OBVIOUS
<1>11. most * Len(c) = limit * limit * Len(c) * D * D
  <2>1. Len(c) \in Int
    BY <1>2
  <2> QED
    <3>1. PICK d, n \in Int : d = D /\ n = Len(c)
      BY <1>9, <2>1, Zenon
    <3>2. (limit * limit * d * d) * n = limit * limit * n * d * d
      BY <1>10
    <3> QED
      BY <1>4, <3>1, <3>2, Zenon
<1>12. SumOfSquares(Fit(c)) <= limit * limit * Len(c) * D * D
  BY <1>6, <1>7, <1>8, <1>11, Zenon
<1> QED
  BY <1>1, <1>3, <1>12, Zenon DEF RmseWithin

(* A control that does not agree with the others shows in the RMSE, unless  *)
(* the others lie on a line; controls that agree put the map where they say *)
(* (georeference.py:37-61 and 73-76).                                       *)
THEOREM DisplacementsShow == Spec => []DisplacedControlsShow
<1>1. Init => DisplacedControlsShow
  BY DEF Init, NoCall, DisplacedControlsShow, Answered
<1>2. ASSUME CallFit PROVE DisplacedControlsShow'
  <2> SUFFICES ASSUME answer' # None PROVE DisplacedControlsShow'
    BY DEF DisplacedControlsShow, Answered
  <2>1. PICK c \in Calibrations, limit \in RmseLimits :
            LET fit == Fit(c) IN
            Answer([call |-> "fit", controls |-> c, limit |-> limit],
                   /\ ValidCalibration(c)
                   /\ fit.over # 0 /\ HasScale(fit.coefficients)
                   /\ RmseWithin(fit, limit),
                   fit)
    BY <1>2 DEF CallFit
  <2>2. /\ request'.controls = c /\ request'.limit = limit /\ answer' = Fit(c)
        /\ ValidCalibration(c) /\ Fit(c).over # 0
    BY <2>1 DEF Answer
  <2>3. answer'.over = Denominator(c) /\ answer'.coefficients = Coefficients(c)
        /\ Denominator(c) # 0
    BY <2>2 DEF Fit
  <2>4. SoundControls(c) /\ limit \in Int
    BY GeoreferenceAssumption DEF SoundControls
  <2>5. Denominator(c) \in Int
    <3>1. Normal(c) \in Matrices
      BY <2>4, NormalIsMatrix
    <3> QED
      BY <3>1 DEF Denominator, Det, Matrices, Triples
  <2>6. ASSUME NEW i \in DOMAIN c, NEW t \in Transforms
        PROVE  ShowsUnlessOnALine(c, Fit(c), i, t)
    <3>1. t \in [1..6 -> Int]
      BY GeoreferenceAssumption
    <3> QED
      BY <2>2, <2>3, <2>4, <3>1, DisplacedControlShows
  <2>7. ASSUME NEW t \in Transforms
        PROVE  PutsThemThere(c, Fit(c), t)
    <3>1. t \in [1..6 -> Int]
      BY GeoreferenceAssumption
    <3> QED
      BY <2>2, <2>3, <2>4, <3>1, AgreementIsFound DEF PutsThemThere
  <2>8. ErrorWithin(Fit(c), limit) => RmseWithin(Fit(c), limit)
    <3>1. \A j \in DOMAIN c : Residual(c, j) \in Int
      <4>1. \A j \in DOMAIN c, axis \in 1..2 : Misfit(c, j, axis) \in Int
        BY <2>4, MisfitIsInteger
      <4> QED
        BY <2>4, <4>1, NothingIsLeft
    <3> QED
      BY <2>4, <2>5, <3>1, WithinOnAverage
  <2> QED
    BY <2>2, <2>3, <2>6, <2>7, <2>8, Zenon DEF DisplacedControlsShow
<1>3. ASSUME DisplacedControlsShow, [Next]_<<calls, drawing>>, ~CallFit PROVE DisplacedControlsShow'
  <2>1. UNCHANGED calls \/ request'.call # "fit"
    BY <1>3, OneCall
  <2>2. CASE UNCHANGED calls
    BY <1>3, <2>2 DEF DisplacedControlsShow, Answered, calls
  <2>3. CASE request'.call # "fit"
    BY <2>3 DEF DisplacedControlsShow, Answered
  <2> QED
    BY <2>1, <2>2, <2>3
<1> QED
  BY <1>1, <1>2, <1>3, PTL DEF Spec

-----------------------------------------------------------------------------
(* Order.  Keys of one length are ordered by the first number that differs. *)

Keys(n) == [1..n -> Int]

LEMMA KeysCompare ==
    ASSUME NEW n \in Nat, NEW a \in Keys(n), NEW b \in Keys(n), a # b
    PROVE  Lexicographic(a, b) \/ Lexicographic(b, a)
<1> DEFINE Bad == {i \in 1..n : a[i] # b[i]}
<1>1. Bad # {} /\ Bad \in SUBSET Nat
  BY DEF Keys
<1>2. PICK i \in Bad : \A j \in Bad : i <= j
  <2> HIDE DEF Bad
  <2> QED
    BY <1>1, SmallestNumber
<1>3. i \in 1..n /\ a[i] # b[i] /\ a[i] \in Int /\ b[i] \in Int
  BY DEF Keys
<1>4. \A j \in 1..(i - 1) : a[j] = b[j]
  <2>1. \A j \in 1..(i - 1) : j \in 1..n /\ ~(i <= j)
    BY <1>3
  <2> QED
    BY <1>2, <2>1
<1>5. DOMAIN a = 1..n /\ DOMAIN b = 1..n
  BY DEF Keys
<1>6. CASE a[i] < b[i]
  BY <1>3, <1>4, <1>5, <1>6 DEF Lexicographic
<1>7. CASE b[i] < a[i]
  BY <1>3, <1>4, <1>5, <1>7 DEF Lexicographic
<1> QED
  BY <1>3, <1>6, <1>7

LEMMA KeysAreStrict ==
    ASSUME NEW n \in Nat, NEW a \in Keys(n) PROVE ~Lexicographic(a, a)
  BY DEF Keys, Lexicographic

LEMMA KeysFollow ==
    ASSUME NEW n \in Nat, NEW a \in Keys(n), NEW b \in Keys(n), NEW c \in Keys(n),
           Lexicographic(a, b), Lexicographic(b, c)
    PROVE  Lexicographic(a, c)
<1>1. DOMAIN a = 1..n /\ DOMAIN b = 1..n /\ DOMAIN c = 1..n
  BY DEF Keys
<1>2. PICK i \in 1..n : a[i] < b[i] /\ \A j \in 1..(i - 1) : a[j] = b[j]
  BY <1>1 DEF Lexicographic
<1>3. PICK k \in 1..n : b[k] < c[k] /\ \A j \in 1..(k - 1) : b[j] = c[j]
  BY <1>1 DEF Lexicographic
<1>4. \A j \in 1..n : a[j] \in Int /\ b[j] \in Int /\ c[j] \in Int
  BY DEF Keys
<1>5. CASE i < k
  <2>1. i \in 1..(k - 1) /\ \A j \in 1..(i - 1) : j \in 1..(k - 1)
    BY <1>5
  <2>2. a[i] < c[i] /\ \A j \in 1..(i - 1) : a[j] = c[j]
    BY <1>2, <1>3, <2>1
  <2> QED
    BY <1>1, <2>2 DEF Lexicographic
<1>6. CASE k < i
  <2>1. k \in 1..(i - 1) /\ \A j \in 1..(k - 1) : j \in 1..(i - 1)
    BY <1>6
  <2>2. a[k] < c[k] /\ \A j \in 1..(k - 1) : a[j] = c[j]
    BY <1>2, <1>3, <2>1
  <2> QED
    BY <1>1, <2>2 DEF Lexicographic
<1>7. CASE i = k
  <2>1. a[i] < c[i]
    BY <1>2, <1>3, <1>4, <1>7
  <2>2. \A j \in 1..(i - 1) : a[j] = c[j]
    BY <1>2, <1>3, <1>7
  <2> QED
    BY <1>1, <2>1, <2>2 DEF Lexicographic
<1> QED
  BY <1>5, <1>6, <1>7

IsKeyed(S, n, key) ==
    /\ IsFiniteSet(S)
    /\ key \in [S -> Keys(n)]
    /\ \A a, b \in S : key[a] = key[b] => a = b

(* What precedes a member, of which there are as many as its rank.          *)
Precede(S, key, a) == {b \in S : Lexicographic(key[b], key[a])}

LEMMA RanksAreOrdered ==
    ASSUME NEW n \in Nat, NEW S, NEW key, IsKeyed(S, n, key), NEW a \in S, NEW b \in S,
           Lexicographic(key[a], key[b])
    PROVE  Cardinality(Precede(S, key, a)) < Cardinality(Precede(S, key, b))
<1>1. \A c \in S : key[c] \in Keys(n)
  BY DEF IsKeyed
<1>2. Precede(S, key, a) \subseteq Precede(S, key, b)
  BY <1>1, KeysFollow DEF Precede
<1>3. a \in Precede(S, key, b) /\ a \notin Precede(S, key, a)
  BY <1>1, KeysAreStrict DEF Precede
<1>4. IsFiniteSet(Precede(S, key, a)) /\ IsFiniteSet(Precede(S, key, b))
  <2>1. IsFiniteSet(S) /\ \A c : Precede(S, key, c) \in SUBSET S
    BY DEF IsKeyed, Precede
  <2> QED
    BY <2>1, FS_Subset
<1> HIDE DEF Precede
<1>5. Cardinality(Precede(S, key, a)) <= Cardinality(Precede(S, key, b))
  BY <1>2, <1>4, FS_Subset
<1>6. Cardinality(Precede(S, key, a)) # Cardinality(Precede(S, key, b))
  BY <1>2, <1>3, <1>4, FS_Subset
<1> QED
  BY <1>4, <1>5, <1>6, FS_CardinalityType

(* The ranks of the members are the numbers below their number.             *)
LEMMA RanksAreTaken ==
    ASSUME NEW n \in Nat, NEW S, NEW key, IsKeyed(S, n, key)
    PROVE  /\ Cardinality(S) \in Nat
           /\ \A a \in S : Cardinality(Precede(S, key, a)) \in 0..(Cardinality(S) - 1)
           /\ \A k \in 0..(Cardinality(S) - 1) : \E a \in S : Cardinality(Precede(S, key, a)) = k
<1> DEFINE m == Cardinality(S)
           rank == [a \in S |-> Cardinality(Precede(S, key, a))]
<1>1. IsFiniteSet(S) /\ m \in Nat
  BY FS_CardinalityType DEF IsKeyed
<1>2. \A c \in S : key[c] \in Keys(n)
  BY DEF IsKeyed
<1>3. \A a \in S : rank[a] \in 0..(m - 1)
  <2> SUFFICES ASSUME NEW a \in S PROVE Cardinality(Precede(S, key, a)) \in 0..(m - 1)
    OBVIOUS
  <2>1. Precede(S, key, a) \in SUBSET S /\ a \notin Precede(S, key, a)
    BY <1>2, KeysAreStrict DEF Precede
  <2>2. IsFiniteSet(Precede(S, key, a)) /\ Cardinality(Precede(S, key, a)) <= m
        /\ (m = Cardinality(Precede(S, key, a)) => S = Precede(S, key, a))
    BY <1>1, <2>1, FS_Subset
  <2>3. Cardinality(Precede(S, key, a)) \in Nat
    BY <2>2, FS_CardinalityType
  <2>4. Cardinality(Precede(S, key, a)) # m
    BY <2>1, <2>2
  <2> QED
    BY <1>1, <2>2, <2>3, <2>4
<1>4. ASSUME NEW a \in S, NEW b \in S, rank[a] = rank[b] PROVE a = b
  <2>1. ~Lexicographic(key[a], key[b])
    <3>1. rank[a] \in Int /\ rank[b] \in Int
      BY <1>3
    <3> QED
      BY <1>4, <3>1, RanksAreOrdered
  <2>2. ~Lexicographic(key[b], key[a])
    <3>1. rank[a] \in Int /\ rank[b] \in Int
      BY <1>3
    <3> QED
      BY <1>4, <3>1, RanksAreOrdered
  <2>3. key[a] = key[b]
    BY <1>2, <2>1, <2>2, KeysCompare
  <2> QED
    BY <2>3 DEF IsKeyed
<1> HIDE DEF m
<1>5. rank \in Injection(S, 0..(m - 1))
  <2>1. rank \in [S -> 0..(m - 1)]
    BY <1>3
  <2> HIDE DEF rank
  <2> QED
    BY <1>4, <2>1 DEF Injection, IsInjective
<1>6. IsFiniteSet(0..(m - 1)) /\ Cardinality(0..(m - 1)) = m
  BY <1>1, FS_Interval
<1>7. rank \in Surjection(S, 0..(m - 1))
  <2>1. Cardinality(S) = Cardinality(0..(m - 1))
    BY <1>6 DEF m
  <2> QED
    BY <1>5, <1>6, <2>1, FS_Injection
<1>8. \A k \in 0..(m - 1) : \E a \in S : rank[a] = k
  <2> HIDE DEF rank
  <2> QED
    BY <1>7 DEF Surjection
<1> QED
  BY <1>1, <1>3, <1>8 DEF m

(* Every member occurs once, in the order of the keys.                      *)
LEMMA SortedIsOrdered ==
    ASSUME NEW n \in Nat, NEW S, NEW key, IsKeyed(S, n, key)
    PROVE  /\ Sorted(S, key) \in Seq(S)
           /\ Len(Sorted(S, key)) = Cardinality(S)
           /\ DOMAIN Sorted(S, key) = 1..Cardinality(S)
           /\ Cardinality(S) \in Nat
           /\ \A a \in S : \E k \in 1..Cardinality(S) : Sorted(S, key)[k] = a
           /\ \A i, j \in 1..Cardinality(S) :
                  i < j => Lexicographic(key[Sorted(S, key)[i]], key[Sorted(S, key)[j]])
<1> DEFINE m == Cardinality(S)
           s == Sorted(S, key)
           Rank(a) == Cardinality(Precede(S, key, a))
<1>1. m \in Nat
  BY RanksAreTaken
<1>2. \A a \in S : Rank(a) \in 0..(m - 1)
  BY RanksAreTaken
<1>3. \A k \in 0..(m - 1) : \E a \in S : Rank(a) = k
  BY RanksAreTaken
<1>4. s = [k \in 1..m |-> CHOOSE a \in S : Rank(a) = k - 1]
  BY DEF Sorted, Precede
<1>5. \A a, b \in S : Lexicographic(key[a], key[b]) => Rank(a) < Rank(b)
  BY RanksAreOrdered
<1>6. \A a, b \in S : a = b \/ Lexicographic(key[a], key[b]) \/ Lexicographic(key[b], key[a])
  <2>1. \A c \in S : key[c] \in Keys(n)
    BY DEF IsKeyed
  <2>2. \A a, b \in S : key[a] = key[b] => a = b
    BY DEF IsKeyed
  <2> QED
    BY <2>1, <2>2, KeysCompare
<1> HIDE DEF m, s, Rank
<1>7. \A k \in 1..m : s[k] \in S /\ Rank(s[k]) = k - 1
  <2> SUFFICES ASSUME NEW k \in 1..m PROVE s[k] \in S /\ Rank(s[k]) = k - 1
    OBVIOUS
  <2>1. k - 1 \in 0..(m - 1)
    BY <1>1
  <2>2. \E a \in S : Rank(a) = k - 1
    BY <1>3, <2>1
  <2>3. s[k] = CHOOSE a \in S : Rank(a) = k - 1
    BY <1>4
  <2> QED
    BY <2>2, <2>3
<1>8. DOMAIN s = 1..m
  BY <1>4
<1>9. s \in Seq(S) /\ Len(s) = m
  <2>1. s \in [1..m -> S]
    BY <1>4, <1>7
  <2> QED
    BY <1>1, <2>1
<1>10. \A a \in S : \E k \in 1..m : s[k] = a
  <2> SUFFICES ASSUME NEW a \in S PROVE \E k \in 1..m : s[k] = a
    OBVIOUS
  <2>1. Rank(a) + 1 \in 1..m /\ (Rank(a) + 1) - 1 = Rank(a) /\ Rank(a) \in Int
    BY <1>1, <1>2
  <2> DEFINE k == Rank(a) + 1
  <2>2. s[k] \in S /\ Rank(s[k]) = Rank(a)
    BY <1>7, <2>1
  <2>3. s[k] = a
    BY <1>5, <1>6, <2>1, <2>2
  <2> QED
    BY <2>1, <2>3
<1>11. \A i, j \in 1..m : i < j => Lexicographic(key[s[i]], key[s[j]])
  <2> SUFFICES ASSUME NEW i \in 1..m, NEW j \in 1..m, i < j PROVE Lexicographic(key[s[i]], key[s[j]])
    OBVIOUS
  <2>1. s[i] \in S /\ s[j] \in S /\ Rank(s[i]) = i - 1 /\ Rank(s[j]) = j - 1
    BY <1>7
  <2>2. s[i] # s[j] /\ ~(Rank(s[j]) < Rank(s[i]))
    BY <2>1
  <2> QED
    BY <1>5, <1>6, <2>1, <2>2
<1> QED
  BY <1>1, <1>8, <1>9, <1>10, <1>11 DEF m, s

-----------------------------------------------------------------------------
(* Chains.                                                                   *)

IsDash(f) == f.low \in Int /\ f.high \in Int /\ f.low <= f.high /\ f.id \in Int \X Int

IsDashes(F) ==
    /\ IsFiniteSet(F)
    /\ \A f \in F : IsDash(f)
    /\ \A f, g \in F : f.id = g.id => f = g

LEMMA NearIsMutual ==
    /\ \A f, g : Near(f, g) => Near(g, f) /\ f.line = g.line
    /\ \A f : IsDash(f) => Near(f, f)
  BY DEF Near, IsDash, MaximumGap, Unit

(* Chains with near members are one.                                        *)
LEMMA ChainsMeet ==
    ASSUME NEW all, NEW C \in SUBSET all, NEW D \in SUBSET all, IsChain(C, all), IsChain(D, all),
           NEW f \in C, NEW g \in D, Near(f, g)
    PROVE  C = D
<1>1. /\ \A A \in (SUBSET C) \ {{}, C} : \E h \in A, k \in C \ A : Near(h, k)
      /\ \A h \in C, k \in all \ C : ~Near(h, k)
  BY DEF IsChain
<1>2. /\ \A A \in (SUBSET D) \ {{}, D} : \E h \in A, k \in D \ A : Near(h, k)
      /\ \A h \in D, k \in all \ D : ~Near(h, k)
  BY DEF IsChain
<1>3. f \in D
  BY <1>2, NearIsMutual
<1>4. C \subseteq D
  <2> DEFINE A == C \cap D
  <2> SUFFICES ASSUME A # C PROVE FALSE
    OBVIOUS
  <2>1. A \in (SUBSET C) \ {{}, C}
    BY <1>3
  <2>2. PICK h \in A, k \in C \ A : Near(h, k)
    BY <1>1, <2>1
  <2> QED
    BY <1>2, <2>2
<1>5. D \subseteq C
  <2> DEFINE A == C \cap D
  <2> SUFFICES ASSUME A # D PROVE FALSE
    OBVIOUS
  <2>1. A \in (SUBSET D) \ {{}, D}
    BY <1>3
  <2>2. PICK h \in A, k \in D \ A : Near(h, k)
    BY <1>2, <2>1
  <2> QED
    BY <1>1, <2>2
<1> QED
  BY <1>4, <1>5

(* The dashes of one line, in order.                                        *)
IsRow(F, s) ==
    /\ IsDashes(F) /\ \A f, g \in F : f.line = g.line
    /\ s \in Seq(F) /\ Len(s) \in Nat \ {0}
    /\ \A f \in F : \E i \in 1..Len(s) : s[i] = f
    /\ \A i, j \in 1..Len(s) : i < j => s[i] # s[j] /\ s[i].low <= s[j].low

(* Where a chain starts, and which dashes it has.                           *)
Starts(s, k) == \A i \in 1..(k - 1) : s[k].low - s[i].high > MaximumGap
Segment(s, b, e) == {s[i] : i \in b..e}
IsRun(s, b, e) == b <= e /\ Starts(s, b) /\ \A i \in (b + 1)..e : ~Starts(s, i)
RowEnds(s, e) == e = Len(s) \/ Starts(s, e + 1)

LEMMA RowIsTyped ==
    ASSUME NEW F, NEW s, IsRow(F, s)
    PROVE  /\ Len(s) \in Nat /\ Len(s) >= 1
           /\ \A i \in 1..Len(s) : s[i] \in F /\ IsDash(s[i])
           /\ \A i, j \in 1..Len(s) : i <= j => s[i].low <= s[j].low
<1>1. \A i \in 1..Len(s) : s[i] \in F /\ IsDash(s[i])
  BY DEF IsRow, IsDashes
<1>2. Len(s) \in Nat /\ Len(s) >= 1
  BY DEF IsRow
<1>3. ASSUME NEW i \in 1..Len(s), NEW j \in 1..Len(s), i <= j PROVE s[i].low <= s[j].low
  <2>1. CASE i = j
    BY <1>1, <2>1 DEF IsDash
  <2>2. CASE i < j
    BY <2>2 DEF IsRow
  <2> QED
    BY <1>3, <2>1, <2>2
<1> QED
  BY <1>1, <1>2, <1>3

LEMMA RunIsChain ==
    ASSUME NEW F, NEW s, IsRow(F, s), NEW b \in 1..Len(s), NEW e \in 1..Len(s),
           IsRun(s, b, e), RowEnds(s, e)
    PROVE  Segment(s, b, e) \in SUBSET F /\ IsChain(Segment(s, b, e), F)
<1> DEFINE C == Segment(s, b, e)
           m == Len(s)
<1>1. /\ m \in Nat
      /\ \A i \in 1..m : s[i] \in F /\ IsDash(s[i])
      /\ \A i, j \in 1..m : i <= j => s[i].low <= s[j].low
  BY RowIsTyped
<1>2. /\ \A f, g \in F : f.line = g.line
      /\ \A f \in F : \E i \in 1..m : s[i] = f
  BY DEF IsRow
<1>3. b <= e /\ Starts(s, b) /\ \A i \in (b + 1)..e : ~Starts(s, i)
  BY DEF IsRun
<1>4. \A i \in b..e : i \in 1..m
  BY <1>1
<1>5. C \in SUBSET F /\ C # {}
  <2>1. b \in b..e
    BY <1>3
  <2> QED
    BY <1>1, <1>4, <2>1 DEF Segment
<1>6. MaximumGap = 24
  BY DEF MaximumGap, Unit
<1>7. ASSUME NEW i \in b..e, i # b PROVE \E j \in b..(i - 1) : Near(s[i], s[j]) /\ Near(s[j], s[i])
  <2>1. i \in (b + 1)..e
    BY <1>7
  <2>2. PICK j \in 1..(i - 1) : ~(s[i].low - s[j].high > MaximumGap)
    BY <1>3, <2>1 DEF Starts
  <2>3. i \in 1..m /\ j \in 1..m /\ j <= i
    BY <1>4, <2>2
  <2>4. IsDash(s[i]) /\ IsDash(s[j]) /\ s[j].low <= s[i].low /\ s[i] \in F /\ s[j] \in F
    BY <1>1, <2>3
  <2>5. j \in b..(i - 1)
    <3> SUFFICES ASSUME j < b PROVE FALSE
      BY <2>2
    <3>1. s[b].low - s[j].high > MaximumGap
      <4>1. j \in 1..(b - 1)
        BY <2>2
      <4> QED
        BY <1>3, <4>1 DEF Starts
    <3>2. s[b].low <= s[i].low /\ IsDash(s[b])
      BY <1>1, <2>3
    <3>3. PICK u \in Int, v \in Int, w \in Int, x \in Int :
              /\ u = s[b].low /\ v = s[j].high /\ w = s[i].low /\ x = s[j].low
      BY <2>4, <3>2 DEF IsDash
    <3>4. u - v > 24 /\ u <= w /\ ~(w - v > 24)
      BY <1>6, <2>2, <3>1, <3>2, <3>3, Zenon
    <3> QED
      BY <3>4
  <2>6. s[i].low - s[j].high <= MaximumGap /\ s[j].low - s[i].high <= MaximumGap
    <3>1. PICK u \in Int, v \in Int, w \in Int, x \in Int :
              /\ u = s[i].high /\ v = s[j].high /\ w = s[i].low /\ x = s[j].low
              /\ x <= w /\ w <= u
      BY <2>4 DEF IsDash
    <3>2. ~(w - v > 24)
      BY <1>6, <2>2, <3>1, Zenon
    <3>3. w - v <= 24 /\ x - u <= 24
      BY <3>1, <3>2
    <3> QED
      BY <1>6, <3>1, <3>3, Zenon
  <2>7. Near(s[i], s[j])
    BY <1>2, <2>4, <2>6 DEF Near
  <2> QED
    BY <2>5, <2>7, NearIsMutual
<1>8. ASSUME NEW A \in (SUBSET C) \ {{}, C} PROVE \E f \in A, g \in C \ A : Near(f, g)
  <2> DEFINE Parts(i) == s[i] \in A
             Others == {i \in b..e : Parts(i) # Parts(b)}
  <2>1. Others # {}
    <3>1. b \in b..e
      BY <1>3
    <3>2. PICK f \in A : TRUE
      OBVIOUS
    <3>3. PICK g \in C \ A : TRUE
      OBVIOUS
    <3>4. PICK i \in b..e : s[i] = f
      BY <3>2 DEF Segment
    <3>5. PICK j \in b..e : s[j] = g
      BY <3>3 DEF Segment
    <3> QED
      BY <3>2, <3>3, <3>4, <3>5
  <2>2. PICK i \in Others : \A j \in Others : i <= j
    <3>1. Others \in SUBSET Nat
      BY <1>4
    <3> HIDE DEF Others
    <3> QED
      BY <2>1, <3>1, SmallestNumber
  <2>3. i \in b..e /\ i # b /\ Parts(i) # Parts(b)
    BY <2>2
  <2>4. PICK j \in b..(i - 1) : Near(s[i], s[j]) /\ Near(s[j], s[i])
    BY <1>7, <2>3
  <2>5. j \in b..e /\ Parts(j) = Parts(b)
    <3>1. j \in b..e /\ ~(i <= j)
      BY <2>3, <2>4
    <3> QED
      BY <2>2, <3>1
  <2>6. s[i] \in C /\ s[j] \in C
    BY <2>3, <2>5 DEF Segment
  <2>7. CASE s[i] \in A
    <3>1. s[j] \in C \ A
      BY <2>3, <2>5, <2>6, <2>7
    <3> QED
      BY <2>4, <2>7, <3>1
  <2>8. CASE s[i] \notin A
    <3>1. s[j] \in A
      BY <2>3, <2>5, <2>6, <2>8
    <3> QED
      BY <2>4, <2>6, <2>8, <3>1
  <2> QED
    BY <2>7, <2>8
<1>9. ASSUME NEW f \in C, NEW g \in F \ C PROVE ~Near(f, g)
  <2>1. PICK i \in b..e : s[i] = f
    BY DEF Segment
  <2>2. PICK j \in 1..m : s[j] = g
    BY <1>2
  <2>3. j \notin b..e
    BY <2>2 DEF Segment
  <2>4. i \in 1..m /\ IsDash(f) /\ IsDash(g)
    BY <1>1, <1>4, <2>1, <2>2
  <2>5. CASE j < b
    <3>1. s[b].low - g.high > MaximumGap
      <4>1. j \in 1..(b - 1)
        BY <2>5
      <4> QED
        BY <1>3, <2>2, <4>1 DEF Starts
    <3>2. s[b].low <= f.low /\ IsDash(s[b])
      BY <1>1, <2>1, <2>4
    <3>3. f.low - g.high > MaximumGap
      <4>1. PICK u, v, w \in Int : u = s[b].low /\ v = g.high /\ w = f.low
        BY <2>4, <3>2 DEF IsDash
      <4>2. u - v > 24 /\ u <= w
        BY <1>6, <3>1, <3>2, <4>1, Zenon
      <4>3. w - v > 24
        BY <4>2
      <4> QED
        BY <1>6, <4>1, <4>3, Zenon
    <3> QED
      BY <1>6, <2>4, <3>3 DEF Near, IsDash
  <2>6. CASE e < j
    <3>1. e + 1 \in 1..m /\ e + 1 <= j /\ Starts(s, e + 1)
      BY <2>6 DEF RowEnds
    <3>2. s[e + 1].low - f.high > MaximumGap
      <4>1. i \in 1..((e + 1) - 1)
        BY <2>4
      <4> QED
        BY <2>1, <3>1, <4>1 DEF Starts
    <3>3. s[e + 1].low <= g.low /\ IsDash(s[e + 1])
      BY <1>1, <2>2, <3>1
    <3>4. g.low - f.high > MaximumGap
      <4>1. PICK u, v, w \in Int : u = s[e + 1].low /\ v = f.high /\ w = g.low
        BY <2>4, <3>3 DEF IsDash
      <4>2. u - v > 24 /\ u <= w
        BY <1>6, <3>2, <3>3, <4>1, Zenon
      <4>3. w - v > 24
        BY <4>2
      <4> QED
        BY <1>6, <4>1, <4>3, Zenon
    <3> QED
      BY <1>6, <2>4, <3>4 DEF Near, IsDash
  <2> QED
    BY <1>3, <2>3, <2>5, <2>6
<1> QED
  BY <1>5, <1>8, <1>9 DEF IsChain

(* Every dash is of a run that starts and ends as a chain does.             *)
LEMMA RunOfDash ==
    ASSUME NEW F, NEW s, IsRow(F, s), NEW i \in 1..Len(s)
    PROVE  \E b, e \in 1..Len(s) : IsRun(s, b, e) /\ RowEnds(s, e) /\ b <= i /\ i <= e
<1>1. Len(s) \in Nat
  BY RowIsTyped
<1>2. PICK b \in 1..i : Starts(s, b) /\ \A j \in (b + 1)..i : ~Starts(s, j)
  <2> DEFINE Back == {n \in Nat : n < i /\ Starts(s, i - n)}
  <2>1. i - 1 \in Back
    BY DEF Starts
  <2>2. PICK n \in Back : \A k \in Back : n <= k
    <3>1. Back \in SUBSET Nat
      OBVIOUS
    <3> HIDE DEF Back
    <3> QED
      BY <2>1, <3>1, SmallestNumber
  <2>3. i - n \in 1..i /\ Starts(s, i - n)
    BY <2>2
  <2>4. ASSUME NEW j \in ((i - n) + 1)..i PROVE ~Starts(s, j)
    <3>1. i - j \in Nat /\ i - j < i /\ ~(n <= i - j) /\ i - (i - j) = j
      BY <2>2
    <3> QED
      BY <2>2, <3>1
  <2> QED
    BY <2>3, <2>4
<1> DEFINE Later == {k \in (i + 1)..Len(s) : Starts(s, k)}
<1>3. CASE Later = {}
  <2>1. \A j \in (b + 1)..Len(s) : ~Starts(s, j)
    <3> SUFFICES ASSUME NEW j \in (b + 1)..Len(s) PROVE ~Starts(s, j)
      OBVIOUS
    <3>1. j \in (b + 1)..i \/ j \in (i + 1)..Len(s)
      BY <1>1
    <3> QED
      BY <1>2, <1>3, <3>1
  <2>2. b \in 1..Len(s) /\ Len(s) \in 1..Len(s) /\ b <= Len(s) /\ b <= i /\ i <= Len(s)
    BY <1>1
  <2> QED
    BY <1>2, <2>1, <2>2 DEF IsRun, RowEnds
<1>4. CASE Later # {}
  <2>1. PICK k \in Later : \A j \in Later : k <= j
    <3>1. Later \in SUBSET Nat
      OBVIOUS
    <3> HIDE DEF Later
    <3> QED
      BY <1>4, <3>1, SmallestNumber
  <2>2. k \in (i + 1)..Len(s) /\ Starts(s, k)
    BY <2>1
  <2>3. \A j \in (b + 1)..(k - 1) : ~Starts(s, j)
    <3> SUFFICES ASSUME NEW j \in (b + 1)..(k - 1) PROVE ~Starts(s, j)
      OBVIOUS
    <3>1. j \in (b + 1)..i \/ (j \in (i + 1)..Len(s) /\ ~(k <= j))
      BY <1>1, <2>2
    <3> QED
      BY <1>2, <2>1, <3>1
  <2>4. b \in 1..Len(s) /\ k - 1 \in 1..Len(s) /\ b <= k - 1 /\ b <= i /\ i <= k - 1
        /\ (k - 1) + 1 = k
    BY <1>1, <2>2
  <2>5. IsRun(s, b, k - 1)
    BY <1>2, <2>3, <2>4 DEF IsRun
  <2>6. RowEnds(s, k - 1)
    BY <2>2, <2>4 DEF RowEnds
  <2> QED
    BY <2>4, <2>5, <2>6
<1> QED
  BY <1>3, <1>4

LEMMA SmallestIs ==
    ASSUME NEW S \in SUBSET Int, NEW x \in S, \A y \in S : x <= y PROVE Min(S) = x
<1>1. \A z \in S : (\A y \in S : z <= y) => z = x
  <2> SUFFICES ASSUME NEW z \in S, \A y \in S : z <= y PROVE z = x
    OBVIOUS
  <2>1. z \in Int /\ x \in Int /\ z <= x /\ x <= z
    OBVIOUS
  <2> QED
    BY <2>1
<1> QED
  BY <1>1 DEF Min

LEMMA LargestIs ==
    ASSUME NEW S \in SUBSET Int, NEW x \in S, \A y \in S : x >= y PROVE Max(S) = x
<1>1. \A z \in S : (\A y \in S : z >= y) => z = x
  <2> SUFFICES ASSUME NEW z \in S, \A y \in S : z >= y PROVE z = x
    OBVIOUS
  <2>1. z \in Int /\ x \in Int /\ z >= x /\ x >= z
    OBVIOUS
  <2> QED
    BY <2>1
<1> QED
  BY <1>1 DEF Max

(* The end of the dashes b..e that lies furthest.                           *)
IsTop(h, s, b, e) == h \in Int /\ (\E i \in b..e : s[i].high = h) /\ \A i \in b..e : s[i].high <= h

LEMMA IntervalOfSegment ==
    ASSUME NEW F, NEW s, IsRow(F, s), NEW b \in 1..Len(s), NEW e \in 1..Len(s), b <= e,
           NEW h, IsTop(h, s, b, e)
    PROVE  Interval(Segment(s, b, e)) = [low |-> s[b].low, high |-> h, count |-> (e - b) + 1]
<1> DEFINE C == Segment(s, b, e)
<1>1. /\ Len(s) \in Nat
      /\ \A i \in 1..Len(s) : IsDash(s[i])
      /\ \A i, j \in 1..Len(s) : i <= j => s[i].low <= s[j].low
  BY RowIsTyped
<1>2. \A i \in b..e : i \in 1..Len(s)
  BY <1>1
<1>3. Min({f.low : f \in C}) = s[b].low
  <2> DEFINE L == {f.low : f \in C}
  <2>1. L \in SUBSET Int
    BY <1>1, <1>2 DEF Segment, IsDash
  <2>2. s[b].low \in L
    <3>1. b \in b..e
      OBVIOUS
    <3> QED
      BY <3>1 DEF Segment
  <2>3. \A y \in L : s[b].low <= y
    <3>1. \A i \in b..e : s[b].low <= s[i].low
      BY <1>1, <1>2
    <3> QED
      BY <3>1 DEF Segment
  <2> HIDE DEF L
  <2> QED
    BY <2>1, <2>2, <2>3, SmallestIs DEF L
<1>4. Max({f.high : f \in C}) = h
  <2> DEFINE L == {f.high : f \in C}
  <2>1. L \in SUBSET Int
    BY <1>1, <1>2 DEF Segment, IsDash
  <2>2. h \in L
    BY DEF Segment, IsTop
  <2>3. \A y \in L : h >= y
    <3>1. \A i \in b..e : h >= s[i].high
      <4> SUFFICES ASSUME NEW i \in b..e PROVE h >= s[i].high
        OBVIOUS
      <4>1. s[i].high \in Int /\ h \in Int /\ s[i].high <= h
        BY <1>1, <1>2 DEF IsTop, IsDash
      <4> QED
        BY <4>1
    <3> QED
      BY <3>1 DEF Segment
  <2> HIDE DEF L
  <2> QED
    BY <2>1, <2>2, <2>3, LargestIs DEF L
<1>5. Cardinality(C) = (e - b) + 1
  <2> DEFINE g == [i \in b..e |-> s[i]]
  <2>1. g \in [b..e -> C] /\ \A y \in C : \E i \in b..e : g[i] = y
    BY DEF Segment
  <2>2. \A i, j \in b..e : g[i] = g[j] => i = j
    <3> SUFFICES ASSUME NEW i \in b..e, NEW j \in b..e, s[i] = s[j] PROVE i = j
      OBVIOUS
    <3>1. ~(i < j) /\ ~(j < i)
      BY <1>2 DEF IsRow
    <3> QED
      BY <3>1
  <2> HIDE DEF g
  <2>3. g \in Bijection(b..e, C)
    BY <2>1, <2>2 DEF Bijection, Injection, Surjection, IsInjective
  <2>4. ExistsBijection(b..e, C)
    BY <2>3 DEF ExistsBijection
  <2>5. IsFiniteSet(b..e) /\ Cardinality(b..e) = (e - b) + 1
    BY FS_Interval
  <2> QED
    BY <2>4, <2>5, FS_Bijection
<1> QED
  BY <1>3, <1>4, <1>5 DEF Interval

-----------------------------------------------------------------------------
(* The sweep.                                                                *)

NextRun(s, r, k) == IF k = 1 THEN Open(s[1], {}) ELSE Join(r[k - 1], s[k])
Runs(s, n, r) == r = [k \in 1..n |-> NextRun(s, r, k)]

LEMMA RunsExist ==
    ASSUME NEW s, NEW n \in Nat PROVE \E r : Runs(s, n, r)
<1> DEFINE Bad == {k \in Nat : ~\E r : Runs(s, k, r)}
<1> SUFFICES ASSUME Bad # {} PROVE FALSE
  OBVIOUS
<1>1. PICK k \in Bad : \A j \in Bad : k <= j
  <2>1. Bad \in SUBSET Nat
    OBVIOUS
  <2> HIDE DEF Bad
  <2> QED
    BY <2>1, SmallestNumber
<1>2. k # 0
  <2>1. Runs(s, 0, <<>>)
    BY DEF Runs
  <2> QED
    BY <2>1
<1>3. k \in Nat /\ k - 1 \in Nat /\ ~(k <= k - 1)
  BY <1>1, <1>2
<1>4. PICK r : Runs(s, k - 1, r)
  BY <1>1, <1>3
<1> DEFINE q == [j \in 1..k |-> NextRun(s, r, j)]
<1>5. \A j \in 1..(k - 1) : q[j] = r[j]
  BY <1>3, <1>4 DEF Runs
<1>6. \A j \in 1..k : NextRun(s, r, j) = NextRun(s, q, j)
  <2> SUFFICES ASSUME NEW j \in 1..k PROVE NextRun(s, r, j) = NextRun(s, q, j)
    OBVIOUS
  <2>1. CASE j = 1
    BY <2>1 DEF NextRun
  <2>2. CASE j # 1
    <3>1. j - 1 \in 1..(k - 1)
      BY <1>3, <2>2
    <3>2. q[j - 1] = r[j - 1]
      BY <1>5, <3>1
    <3> HIDE DEF q
    <3> QED
      BY <2>2, <3>2 DEF NextRun
  <2> QED
    BY <2>1, <2>2
<1>7. Runs(s, k, q)
  BY <1>6 DEF Runs
<1> HIDE DEF q
<1> QED
  BY <1>1, <1>7

(* What is completed before a chain starts at a: the chains before it.      *)
Before(s, a) ==
    {Interval(Segment(s, p[1], p[2])) :
        p \in {p \in (1..Len(s)) \X (1..Len(s)) :
                   /\ p[2] + 1 <= a /\ IsRun(s, p[1], p[2]) /\ Starts(s, p[2] + 1)
                   /\ IsLong(Interval(Segment(s, p[1], p[2])))}}

RunIs(s, run, a, k) ==
    /\ IsRun(s, a, k)
    /\ run = [low |-> s[a].low, high |-> run.high, count |-> (k - a) + 1, done |-> Before(s, a)]
    /\ IsTop(run.high, s, a, k) /\ IsTop(run.high, s, 1, k)

LEMMA FirstRun ==
    ASSUME NEW F, NEW s, IsRow(F, s) PROVE RunIs(s, Open(s[1], {}), 1, 1)
<1>1. Len(s) \in Nat /\ Len(s) >= 1 /\ IsDash(s[1])
  BY RowIsTyped
<1>2. IsRun(s, 1, 1)
  BY DEF IsRun, Starts
<1>3. Before(s, 1) = {}
  BY <1>1 DEF Before
<1>4. \A i \in 1..1 : i = 1
  OBVIOUS
<1>5. IsTop(s[1].high, s, 1, 1)
  BY <1>1, <1>4 DEF IsTop, IsDash
<1> QED
  BY <1>2, <1>3, <1>5 DEF RunIs, Open

(* A run that is extended.                                                  *)
LEMMA RunGoesOn ==
    ASSUME NEW F, NEW s, IsRow(F, s), NEW k \in 1..(Len(s) - 1), NEW a \in 1..k, NEW run,
           RunIs(s, run, a, k), s[k + 1].low - run.high <= MaximumGap
    PROVE  RunIs(s, Join(run, s[k + 1]), a, k + 1)
<1>1. Len(s) \in Nat /\ IsDash(s[k + 1]) /\ \A i \in 1..k : IsDash(s[i])
  <2>1. k + 1 \in 1..Len(s) /\ \A i \in 1..k : i \in 1..Len(s)
    OBVIOUS
  <2> QED
    BY <2>1, RowIsTyped
<1>2. IsTop(run.high, s, a, k) /\ IsTop(run.high, s, 1, k) /\ IsRun(s, a, k)
  BY DEF RunIs
<1> DEFINE h == Max({run.high, s[k + 1].high})
<1>3. run.high \in Int /\ s[k + 1].high \in Int
  BY <1>1, <1>2 DEF IsTop, IsDash
<1>4. h = IF run.high >= s[k + 1].high THEN run.high ELSE s[k + 1].high
  BY <1>3, MaxOfTwo
<1>5. Join(run, s[k + 1]) =
         [low |-> s[a].low, high |-> h, count |-> ((k + 1) - a) + 1, done |-> Before(s, a)]
  <2>1. run = [low |-> s[a].low, high |-> run.high, count |-> (k - a) + 1, done |-> Before(s, a)]
    BY DEF RunIs
  <2>2. Join(run, s[k + 1]) = Extended(run, h)
    BY DEF Join
  <2>3. ((k - a) + 1) + 1 = ((k + 1) - a) + 1
    OBVIOUS
  <2> HIDE DEF h
  <2>4. run.low = s[a].low /\ run.count = (k - a) + 1 /\ run.done = Before(s, a)
    BY <2>1
  <2> QED
    BY <2>2, <2>3, <2>4, Zenon DEF Extended
<1> HIDE DEF h
<1>6. IsRun(s, a, k + 1)
  <2>1. ~Starts(s, k + 1)
    <3>1. PICK i \in 1..k : s[i].high = run.high
      BY <1>2 DEF IsTop
    <3>2. i \in 1..((k + 1) - 1)
      OBVIOUS
    <3>3. s[k + 1].low \in Int /\ MaximumGap = 24
      BY <1>1 DEF IsDash, MaximumGap, Unit
    <3>4. ~(s[k + 1].low - s[i].high > MaximumGap)
      BY <1>3, <3>1, <3>3
    <3> QED
      BY <3>2, <3>4 DEF Starts
  <2>2. a <= k + 1 /\ \A i \in (a + 1)..(k + 1) : i \in (a + 1)..k \/ i = k + 1
    OBVIOUS
  <2> QED
    BY <1>2, <2>1, <2>2 DEF IsRun
<1>7. ASSUME NEW c \in 1..k, IsTop(run.high, s, c, k) PROVE IsTop(h, s, c, k + 1)
  <2>1. \A i \in c..(k + 1) : i \in c..k \/ i = k + 1
    OBVIOUS
  <2>2. \A i \in c..k : i \in c..(k + 1) /\ s[i].high \in Int
    BY <1>1 DEF IsDash
  <2>3. h \in Int /\ run.high <= h /\ s[k + 1].high <= h
    BY <1>3, <1>4
  <2>4. \E i \in c..(k + 1) : s[i].high = h
    <3>1. CASE h = run.high
      BY <1>7, <2>2, <3>1 DEF IsTop
    <3>2. CASE h = s[k + 1].high
      BY <3>2
    <3> QED
      BY <1>4, <3>1, <3>2
  <2>5. \A i \in c..(k + 1) : s[i].high <= h
    <3> SUFFICES ASSUME NEW i \in c..(k + 1) PROVE s[i].high <= h
      OBVIOUS
    <3>1. CASE i \in c..k
      <4>1. s[i].high <= run.high /\ s[i].high \in Int
        BY <1>7, <2>2, <3>1 DEF IsTop
      <4> QED
        BY <1>3, <2>3, <4>1
    <3> QED
      BY <2>1, <2>3, <3>1
  <2> QED
    BY <2>3, <2>4, <2>5 DEF IsTop
<1>8. IsTop(h, s, a, k + 1) /\ IsTop(h, s, 1, k + 1)
  BY <1>2, <1>7
<1> QED
  BY <1>5, <1>6, <1>8 DEF RunIs

(* A run that starts.                                                       *)
LEMMA RunStarts ==
    ASSUME NEW F, NEW s, IsRow(F, s), NEW k \in 1..(Len(s) - 1), NEW a \in 1..k, NEW run,
           RunIs(s, run, a, k), ~(s[k + 1].low - run.high <= MaximumGap)
    PROVE  RunIs(s, Join(run, s[k + 1]), k + 1, k + 1)
<1> DEFINE m == Len(s)
           piece == Interval(Segment(s, a, k))
           done == IF IsLong(piece) THEN {piece} ELSE {}
<1>1. m \in Nat /\ k + 1 \in 1..m /\ k \in 1..m /\ a \in 1..m /\ \A i \in 1..k : i \in 1..m
  <2>1. m \in Nat
    BY RowIsTyped
  <2> HIDE DEF m
  <2>2. k + 1 \in 1..m /\ k \in 1..m /\ a \in 1..m /\ \A i \in 1..k : i \in 1..m
    BY <2>1 DEF m
  <2> QED
    BY <2>1, <2>2
<1>2. IsDash(s[k + 1]) /\ \A i \in 1..k : IsDash(s[i])
  BY <1>1, RowIsTyped
<1>3. IsTop(run.high, s, a, k) /\ IsTop(run.high, s, 1, k) /\ IsRun(s, a, k)
  BY DEF RunIs
<1>4. run = [low |-> s[a].low, high |-> run.high, count |-> (k - a) + 1, done |-> Before(s, a)]
  BY DEF RunIs
<1>5. piece = [low |-> s[a].low, high |-> run.high, count |-> (k - a) + 1]
  BY <1>1, <1>3, IntervalOfSegment
<1>6. Join(run, s[k + 1]) = Open(s[k + 1], Before(s, a) \cup done)
  <2>1. run.low = s[a].low /\ run.count = (k - a) + 1 /\ run.done = Before(s, a)
    BY <1>4
  <2>2. Completed(run) = Before(s, a) \cup done
    <3>1. piece.low = s[a].low /\ piece.high = run.high
      BY <1>5
    <3> HIDE DEF piece
    <3> QED
      BY <1>5, <2>1, <3>1 DEF Completed, IsLong
  <2> QED
    BY <2>2 DEF Join
<1> HIDE DEF piece, done
<1>7. Starts(s, k + 1)
  <2> SUFFICES ASSUME NEW i \in 1..k PROVE s[k + 1].low - s[i].high > MaximumGap
    BY DEF Starts
  <2>1. s[i].high <= run.high /\ s[i].high \in Int /\ run.high \in Int /\ s[k + 1].low \in Int
    BY <1>2, <1>3 DEF IsTop, IsDash
  <2> QED
    BY <2>1 DEF MaximumGap, Unit
<1>8. IsRun(s, k + 1, k + 1)
  BY <1>7 DEF IsRun
<1>9. IsTop(s[k + 1].high, s, k + 1, k + 1)
  <2>1. \A i \in (k + 1)..(k + 1) : i = k + 1
    OBVIOUS
  <2> QED
    BY <1>2, <2>1 DEF IsTop, IsDash
<1>10. IsTop(s[k + 1].high, s, 1, k + 1)
  <2>1. s[k + 1].high \in Int /\ k + 1 \in 1..(k + 1)
    BY <1>2 DEF IsDash
  <2>2. \A i \in 1..(k + 1) : s[i].high <= s[k + 1].high
    <3> SUFFICES ASSUME NEW i \in 1..(k + 1) PROVE s[i].high <= s[k + 1].high
      OBVIOUS
    <3>1. CASE i = k + 1
      BY <2>1, <3>1
    <3>2. CASE i \in 1..k
      <4>1. s[k + 1].low - s[i].high > 24
        <5>1. i \in 1..((k + 1) - 1)
          BY <3>2
        <5> QED
          BY <1>7, <5>1 DEF Starts, MaximumGap, Unit
      <4> QED
        BY <1>2, <3>2, <4>1 DEF IsDash
    <3> QED
      BY <3>1, <3>2
  <2> QED
    BY <2>1, <2>2 DEF IsTop
<1>11. Before(s, k + 1) = Before(s, a) \cup done
  <2> DEFINE Is(p, c) == /\ p[2] + 1 <= c /\ IsRun(s, p[1], p[2]) /\ Starts(s, p[2] + 1)
                         /\ IsLong(Interval(Segment(s, p[1], p[2])))
             P == (1..m) \X (1..m)
  <2>1. \A p \in P : Is(p, a) => Is(p, k + 1)
    <3> SUFFICES ASSUME NEW p \in P, p[2] + 1 <= a PROVE p[2] + 1 <= k + 1
      OBVIOUS
    <3>1. p[2] \in Int
      OBVIOUS
    <3> QED
      BY <1>1, <3>1
  <2>2. IsLong(piece) => Is(<<a, k>>, k + 1) /\ <<a, k>> \in P
    BY <1>1, <1>3, <1>7 DEF piece
  <2>3. ASSUME NEW p \in P, Is(p, k + 1), ~Is(p, a) PROVE p = <<a, k>>
    <3>1. PICK b, e \in 1..m : p = <<b, e>>
      OBVIOUS
    <3>2. e + 1 <= k + 1 /\ IsRun(s, b, e) /\ Starts(s, e + 1) /\ ~(e + 1 <= a)
      BY <2>3, <3>1
    <3>3. Starts(s, a) /\ (\A i \in (a + 1)..k : ~Starts(s, i)) /\ a <= k
      BY <1>3 DEF IsRun
    <3>4. Starts(s, b) /\ (\A i \in (b + 1)..e : ~Starts(s, i)) /\ b <= e
      BY <3>2 DEF IsRun
    <3>5. e = k
      <4>1. e + 1 \in (a + 1)..k \/ e = k
        BY <1>1, <3>1, <3>2
      <4> QED
        BY <3>2, <3>3, <4>1
    <3>6. ~(b < a)
      <4>1. b < a => a \in (b + 1)..e
        BY <1>1, <3>1, <3>2, <3>5
      <4> QED
        BY <3>3, <3>4, <4>1
    <3>7. ~(a < b)
      <4>1. a < b => b \in (a + 1)..k
        BY <1>1, <3>1, <3>4, <3>5
      <4> QED
        BY <3>3, <3>4, <4>1
    <3> QED
      BY <3>1, <3>5, <3>6, <3>7
  <2>4. \A c : Before(s, c) = {Interval(Segment(s, p[1], p[2])) : p \in {p \in P : Is(p, c)}}
    BY DEF Before
  <2>5. \A z : z \in done <=> IsLong(piece) /\ z = piece
    BY DEF done
  <2>6. piece = Interval(Segment(s, <<a, k>>[1], <<a, k>>[2]))
    BY DEF piece
  <2> HIDE DEF Is, P
  <2>7. Before(s, k + 1) \subseteq Before(s, a) \cup done
    <3> SUFFICES ASSUME NEW p \in P, Is(p, k + 1)
                 PROVE  Interval(Segment(s, p[1], p[2])) \in Before(s, a) \cup done
      BY <2>4
    <3>1. CASE Is(p, a)
      BY <2>4, <3>1
    <3>2. CASE ~Is(p, a)
      <4>1. p = <<a, k>>
        BY <2>3, <3>2
      <4>2. IsLong(piece)
        BY <4>1 DEF piece, Is
      <4> QED
        BY <2>5, <2>6, <4>1, <4>2
    <3> QED
      BY <3>1, <3>2
  <2>8. Before(s, a) \cup done \subseteq Before(s, k + 1)
    BY <2>1, <2>2, <2>4, <2>5, <2>6
  <2> QED
    BY <2>7, <2>8
<1>12. (k + 1) - (k + 1) + 1 = 1
  OBVIOUS
<1>13. PICK h : h = s[k + 1].high
  OBVIOUS
<1>14. Join(run, s[k + 1]) =
          [low |-> s[k + 1].low, high |-> h, count |-> (k + 1) - (k + 1) + 1, done |-> Before(s, k + 1)]
  BY <1>6, <1>11, <1>12, <1>13 DEF Open
<1>15. Join(run, s[k + 1]).high = h
  BY <1>14
<1> QED
  BY <1>8, <1>9, <1>10, <1>13, <1>14, <1>15, Zenon DEF RunIs

(* After each dash, the run is that of the chain it is in.                  *)
LEMMA RunsAreRuns ==
    ASSUME NEW F, NEW s, IsRow(F, s), NEW r, Runs(s, Len(s), r)
    PROVE  \E a \in 1..Len(s) : RunIs(s, r[Len(s)], a, Len(s))
<1> DEFINE m == Len(s)
           Good(k) == \E a \in 1..k : RunIs(s, r[k], a, k)
           Bad == {k \in 1..m : ~Good(k)}
<1>1. m \in Nat /\ m >= 1
  BY RowIsTyped
<1>2. \A k \in 1..m : r[k] = NextRun(s, r, k)
  BY DEF Runs
<1>3. Good(1)
  <2>1. r[1] = Open(s[1], {})
    BY <1>1, <1>2 DEF NextRun
  <2> QED
    BY <2>1, FirstRun
<1>4. ASSUME NEW k \in 1..(m - 1), Good(k) PROVE Good(k + 1)
  <2>1. PICK a \in 1..k : RunIs(s, r[k], a, k)
    BY <1>4
  <2>2. r[k + 1] = Join(r[k], s[k + 1])
    <3>1. k + 1 \in 1..m /\ k + 1 # 1 /\ (k + 1) - 1 = k
      BY <1>1
    <3> QED
      BY <1>2, <3>1 DEF NextRun
  <2>3. CASE s[k + 1].low - r[k].high <= MaximumGap
    <3>1. RunIs(s, r[k + 1], a, k + 1)
      BY <2>1, <2>2, <2>3, RunGoesOn
    <3>2. a \in 1..(k + 1)
      OBVIOUS
    <3> QED
      BY <3>1, <3>2
  <2>4. CASE ~(s[k + 1].low - r[k].high <= MaximumGap)
    <3>1. RunIs(s, r[k + 1], k + 1, k + 1)
      BY <2>1, <2>2, <2>4, RunStarts
    <3>2. k + 1 \in 1..(k + 1)
      OBVIOUS
    <3> QED
      BY <3>1, <3>2
  <2> QED
    BY <2>3, <2>4
<1> HIDE DEF Good
<1>5. Bad = {}
  <2> SUFFICES ASSUME Bad # {} PROVE FALSE
    OBVIOUS
  <2>1. PICK k \in Bad : \A j \in Bad : k <= j
    <3>1. Bad \in SUBSET Nat
      OBVIOUS
    <3> HIDE DEF Bad
    <3> QED
      BY <3>1, SmallestNumber
  <2>2. k \in 1..m /\ k # 1 /\ ~Good(k)
    BY <1>3, <2>1
  <2>3. k - 1 \in 1..(m - 1) /\ k - 1 \in 1..m /\ (k - 1) + 1 = k /\ ~(k <= k - 1)
    BY <1>1, <2>2
  <2>4. Good(k - 1)
    BY <2>1, <2>3
  <2>5. Good((k - 1) + 1)
    BY <1>4, <2>3, <2>4
  <2> QED
    BY <2>2, <2>3, <2>5
<1>6. Good(m)
  BY <1>1, <1>5
<1> QED
  BY <1>6 DEF Good

LEMMA JoinOfPairs ==
    ASSUME NEW s \in Int \X Int, NEW z \in Int \X Int
    PROVE  /\ s \o z \in Keys(4)
           /\ (s \o z)[1] = s[1] /\ (s \o z)[2] = s[2] /\ (s \o z)[3] = z[1] /\ (s \o z)[4] = z[2]
<1> DEFINE j == s \o z
<1>1. s \in Seq(Int) /\ z \in Seq(Int) /\ Len(s) = 2 /\ Len(z) = 2
  <2>1. \A p \in Int \X Int : p = <<p[1], p[2]>> /\ p[1] \in Int /\ p[2] \in Int
    OBVIOUS
  <2>2. \A a, b \in Int : <<a, b>> \in Seq(Int) /\ Len(<<a, b>>) = 2
    OBVIOUS
  <2> QED
    BY <2>1, <2>2, Zenon
<1>2. /\ j \in Seq(Int) /\ Len(j) = Len(s) + Len(z)
      /\ \A i \in 1..(Len(s) + Len(z)) : j[i] = IF i <= Len(s) THEN s[i] ELSE z[i - Len(s)]
  BY <1>1, ConcatProperties
<1> HIDE DEF j
<1>3. Len(j) = 4 /\ \A i \in 1..4 : j[i] = IF i <= 2 THEN s[i] ELSE z[i - 2]
  BY <1>1, <1>2
<1>4. j \in Keys(4)
  <2>1. j \in [1..Len(j) -> Int]
    BY <1>2
  <2> QED
    BY <1>3, <2>1, Zenon DEF Keys
<1>5. j[1] = s[1] /\ j[2] = s[2] /\ j[3] = z[1] /\ j[4] = z[2]
  BY <1>3
<1> QED
  BY <1>4, <1>5 DEF j

KeyOfDash(f) == <<f.low, f.high>> \o f.id
InOrder(F) == Sorted(F, [f \in F |-> KeyOfDash(f)])

LEMMA RowOfDashes ==
    ASSUME NEW F, IsDashes(F), F # {}, \A f, g \in F : f.line = g.line
    PROVE  IsRow(F, InOrder(F))
<1> DEFINE key == [f \in F |-> KeyOfDash(f)]
           s == InOrder(F)
           m == Cardinality(F)
<1>1. IsFiniteSet(F) /\ \A f \in F : IsDash(f)
  BY DEF IsDashes
<1>2. \A f \in F : /\ KeyOfDash(f) \in Keys(4) /\ KeyOfDash(f)[1] = f.low
                   /\ KeyOfDash(f)[3] = f.id[1] /\ KeyOfDash(f)[4] = f.id[2]
  <2> SUFFICES ASSUME NEW f \in F
               PROVE  /\ KeyOfDash(f) \in Keys(4) /\ KeyOfDash(f)[1] = f.low
                      /\ KeyOfDash(f)[3] = f.id[1] /\ KeyOfDash(f)[4] = f.id[2]
    OBVIOUS
  <2>1. <<f.low, f.high>> \in Int \X Int /\ f.id \in Int \X Int /\ <<f.low, f.high>>[1] = f.low
    BY <1>1 DEF IsDash
  <2> QED
    BY <2>1, JoinOfPairs DEF KeyOfDash
<1>3. IsKeyed(F, 4, key)
  <2>1. key \in [F -> Keys(4)]
    BY <1>2
  <2>2. \A f, g \in F : KeyOfDash(f) = KeyOfDash(g) => f = g
    <3> SUFFICES ASSUME NEW f \in F, NEW g \in F, KeyOfDash(f) = KeyOfDash(g) PROVE f.id = g.id
      BY DEF IsDashes
    <3>1. f.id[1] = g.id[1] /\ f.id[2] = g.id[2]
      BY <1>2
    <3>2. f.id \in Int \X Int /\ g.id \in Int \X Int
      BY <1>1 DEF IsDash
    <3> QED
      BY <3>1, <3>2
  <2> QED
    BY <1>1, <2>1, <2>2 DEF IsKeyed
<1>4. s = Sorted(F, key)
  BY DEF InOrder
<1> HIDE DEF s, key
<1>5. /\ s \in Seq(F) /\ Len(s) = m /\ m \in Nat
      /\ \A f \in F : \E i \in 1..m : s[i] = f
      /\ \A i, j \in 1..m : i < j => Lexicographic(key[s[i]], key[s[j]])
  BY <1>3, <1>4, SortedIsOrdered
<1>6. ASSUME NEW i \in 1..m, NEW j \in 1..m, i < j PROVE s[i] # s[j] /\ s[i].low <= s[j].low
  <2>1. s[i] \in F /\ s[j] \in F
    BY <1>5
  <2>2. key[s[i]] = KeyOfDash(s[i]) /\ key[s[j]] = KeyOfDash(s[j])
    BY <2>1 DEF key
  <2>3. Lexicographic(KeyOfDash(s[i]), KeyOfDash(s[j]))
    BY <1>5, <1>6, <2>2
  <2>4. s[i] # s[j]
    BY <1>2, <2>1, <2>3, KeysAreStrict
  <2>5. s[i].low <= s[j].low
    <3> DEFINE a == KeyOfDash(s[i])
               b == KeyOfDash(s[j])
    <3>1. a \in Keys(4) /\ a[1] = s[i].low /\ b[1] = s[j].low /\ a[1] \in Int /\ b[1] \in Int
      BY <1>1, <1>2, <2>1 DEF IsDash
    <3> HIDE DEF a, b
    <3>2. PICK k \in DOMAIN a : a[k] < b[k] /\ \A l \in 1..(k - 1) : a[l] = b[l]
      BY <2>3 DEF Lexicographic, a, b
    <3>3. k \in 1..4
      BY <3>1 DEF Keys
    <3>4. CASE k = 1
      BY <3>1, <3>2, <3>4
    <3>5. CASE k # 1
      <4>1. 1 \in 1..(k - 1)
        BY <3>3, <3>5
      <4> QED
        BY <3>1, <3>2, <4>1
    <3> QED
      BY <3>4, <3>5
  <2> QED
    BY <2>4, <2>5
<1>7. m # 0
  <2>1. PICK f \in F : TRUE
    OBVIOUS
  <2> QED
    BY <1>5, <2>1
<1> HIDE DEF m
<1>8. Len(s) \in Nat \ {0} /\ 1..m = 1..Len(s)
  BY <1>5, <1>7
<1>9. IsRow(F, s)
  BY <1>5, <1>6, <1>8 DEF IsRow
<1> QED
  BY <1>9 DEF s

LongChains(F) == {C \in Chains(F) : IsLong(Interval(C))}

LEMMA SweptChains ==
    ASSUME NEW F, IsDashes(F), F # {}, \A f, g \in F : f.line = g.line
    PROVE  Sweep(F) = {Interval(C) : C \in LongChains(F)}
<1> DEFINE s == InOrder(F)
           m == Len(s)
           r == CHOOSE r : Runs(s, m, r)
<1>1. IsRow(F, s) /\ m \in Nat /\ m >= 1
  BY RowOfDashes, RowIsTyped
<1>2. Runs(s, m, r)
  BY <1>1, RunsExist
<1>3. Sweep(F) = Completed(r[m])
  BY DEF Sweep, InOrder, KeyOfDash, Runs, NextRun
<1> HIDE DEF r, s
<1>4. PICK a \in 1..m : RunIs(s, r[m], a, m)
  BY <1>1, <1>2, RunsAreRuns
<1> DEFINE piece == Interval(Segment(s, a, m))
<1> HIDE DEF m
<1>5. IsRun(s, a, m) /\ IsTop(r[m].high, s, a, m) /\ r[m].low = s[a].low /\ r[m].done = Before(s, a)
      /\ r[m].count = (m - a) + 1
  BY <1>4 DEF RunIs
<1>6. piece = [low |-> r[m].low, high |-> r[m].high, count |-> r[m].count]
  <2>1. m \in 1..m /\ a <= m
    BY <1>1
  <2> QED
    BY <1>1, <1>5, <2>1, IntervalOfSegment DEF m
<1>7. Sweep(F) = Before(s, a) \cup IF IsLong(piece) THEN {piece} ELSE {}
  <2>1. piece.low = r[m].low /\ piece.high = r[m].high
    BY <1>6
  <2> HIDE DEF piece
  <2> QED
    BY <1>3, <1>5, <1>6, <2>1 DEF Completed, IsLong
<1>8. RowEnds(s, m)
  BY DEF RowEnds, m
<1>9. ASSUME NEW t \in Sweep(F) PROVE \E C \in LongChains(F) : t = Interval(C)
  <2>1. PICK b \in 1..m, e \in 1..m : /\ IsRun(s, b, e) /\ RowEnds(s, e)
                                      /\ t = Interval(Segment(s, b, e)) /\ IsLong(t)
    <3>1. CASE t \in Before(s, a)
      <4>1. PICK p \in (1..m) \X (1..m) : /\ IsRun(s, p[1], p[2]) /\ Starts(s, p[2] + 1)
                                          /\ t = Interval(Segment(s, p[1], p[2])) /\ IsLong(t)
        BY <3>1 DEF Before, m
      <4>2. p[1] \in 1..m /\ p[2] \in 1..m /\ RowEnds(s, p[2])
        BY <4>1 DEF RowEnds
      <4> QED
        BY <4>1, <4>2
    <3>2. CASE t = piece /\ IsLong(piece)
      <4>1. m \in 1..m
        BY <1>1
      <4> QED
        BY <1>5, <1>8, <3>2, <4>1
    <3> QED
      BY <1>7, <1>9, <3>1, <3>2
  <2>2. Segment(s, b, e) \in SUBSET F /\ IsChain(Segment(s, b, e), F)
    BY <1>1, <2>1, RunIsChain DEF m
  <2> QED
    BY <2>1, <2>2 DEF LongChains, Chains
<1>10. ASSUME NEW C \in LongChains(F) PROVE Interval(C) \in Sweep(F)
  <2>1. C \in SUBSET F /\ IsChain(C, F) /\ IsLong(Interval(C)) /\ C # {}
    BY DEF LongChains, Chains, IsChain
  <2>2. PICK f \in C : TRUE
    BY <2>1
  <2>3. PICK i \in 1..m : s[i] = f
    BY <1>1, <2>1, <2>2 DEF IsRow, m
  <2>4. PICK b \in 1..m, e \in 1..m : IsRun(s, b, e) /\ RowEnds(s, e) /\ b <= i /\ i <= e
    BY <1>1, RunOfDash DEF m
  <2>5. C = Segment(s, b, e)
    <3>1. Segment(s, b, e) \in SUBSET F /\ IsChain(Segment(s, b, e), F)
      BY <1>1, <2>4, RunIsChain DEF m
    <3>2. f \in Segment(s, b, e)
      <4>1. i \in b..e
        BY <2>4
      <4> QED
        BY <2>3, <4>1 DEF Segment
    <3>3. Near(f, f)
      BY <2>1, <2>2, NearIsMutual DEF IsDashes
    <3> QED
      BY <2>1, <2>2, <3>1, <3>2, <3>3, ChainsMeet
  <2>6. CASE e = m
    <3>1. b = a
      <4>1. Starts(s, a) /\ (\A j \in (a + 1)..m : ~Starts(s, j)) /\ a <= m
        BY <1>5 DEF IsRun
      <4>2. Starts(s, b) /\ (\A j \in (b + 1)..m : ~Starts(s, j)) /\ b <= m
        BY <2>4, <2>6 DEF IsRun
      <4>3. ~(a < b)
        <5>1. a < b => b \in (a + 1)..m
          BY <1>1, <4>2
        <5> QED
          BY <4>1, <4>2, <5>1
      <4>4. ~(b < a)
        <5>1. b < a => a \in (b + 1)..m
          BY <1>1, <4>1
        <5> QED
          BY <4>1, <4>2, <5>1
      <4> QED
        BY <1>1, <4>3, <4>4
    <3>2. Interval(C) = piece /\ IsLong(piece)
      BY <2>1, <2>5, <2>6, <3>1
    <3> QED
      BY <1>7, <3>2
  <2>7. CASE e # m
    <3>1. Starts(s, e + 1) /\ e + 1 \in 1..m
      BY <1>1, <2>4, <2>7 DEF RowEnds, m
    <3>2. e + 1 <= a
      <4>1. \A j \in (a + 1)..m : ~Starts(s, j)
        BY <1>5 DEF IsRun
      <4>2. a < e + 1 => e + 1 \in (a + 1)..m
        BY <1>1, <3>1
      <4> QED
        BY <1>1, <3>1, <4>1, <4>2
    <3>3. <<b, e>> \in (1..m) \X (1..m) /\ <<b, e>>[1] = b /\ <<b, e>>[2] = e
      OBVIOUS
    <3>4. Interval(C) \in Before(s, a)
      BY <2>1, <2>4, <2>5, <3>1, <3>2, <3>3 DEF Before, m
    <3> QED
      BY <1>7, <3>4
  <2> QED
    BY <2>6, <2>7
<1> QED
  BY <1>9, <1>10

ReachOfChain(C) == ReachOf((CHOOSE f \in C : TRUE).line, Interval(C))
OnLine(F, line) == {f \in F : f.line = line}

(* A chain lies on one line, and is found among the dashes of that line.    *)
LEMMA ChainsOfLine ==
    ASSUME NEW all
    PROVE  /\ \A C \in Chains(all) : \A f, g \in C : f.line = g.line
           /\ \A line : LongChains(OnLine(all, line)) =
                            {C \in LongChains(all) : \A f \in C : f.line = line}
<1>1. ASSUME NEW C \in Chains(all), NEW f \in C, NEW g \in C PROVE f.line = g.line
  <2> SUFFICES ASSUME f.line # g.line PROVE FALSE
    OBVIOUS
  <2> DEFINE A == {h \in C : h.line = f.line}
  <2>1. A \in (SUBSET C) \ {{}, C}
    <3>1. f \in A /\ g \notin A
      OBVIOUS
    <3> QED
      BY <3>1
  <2>2. PICK h \in A, k \in C \ A : Near(h, k)
    BY <2>1 DEF Chains, IsChain
  <2> QED
    BY <2>2 DEF Near
<1>2. ASSUME NEW line, NEW C
      PROVE  C \in Chains(OnLine(all, line)) <=> C \in Chains(all) /\ \A f \in C : f.line = line
  <2> DEFINE F == OnLine(all, line)
  <2>1. C \in SUBSET F <=> C \in SUBSET all /\ \A f \in C : f.line = line
    BY DEF OnLine
  <2>2. ASSUME C \in SUBSET F
        PROVE  (\A f \in C, g \in F \ C : ~Near(f, g)) <=> (\A f \in C, g \in all \ C : ~Near(f, g))
    <3>1. F \subseteq all
      BY DEF OnLine
    <3>2. ASSUME NEW f \in C, NEW g \in all \ C, Near(f, g) PROVE g \in F
      BY <2>1, <2>2, <3>2 DEF OnLine, Near
    <3> QED
      BY <3>1, <3>2
  <2> HIDE DEF F
  <2> QED
    BY <2>1, <2>2 DEF Chains, IsChain, F
<1> QED
  BY <1>1, <1>2 DEF LongChains

LEMMA ReachesOfChains ==
    ASSUME NEW all, IsDashes(all)
    PROVE  Reaches(all) = {ReachOfChain(C) : C \in LongChains(all)}
<1> DEFINE lines == {f.line : f \in all}
<1>1. ASSUME NEW line \in lines
      PROVE  Sweep({f \in all : f.line = line}) = {Interval(C) : C \in LongChains(OnLine(all, line))}
  <2> DEFINE F == OnLine(all, line)
  <2>1. F # {} /\ F \in SUBSET all /\ \A f, g \in F : f.line = g.line
    BY DEF OnLine
  <2>2. IsDashes(F)
    BY <2>1, FS_Subset DEF IsDashes
  <2> HIDE DEF F
  <2>3. Sweep(F) = {Interval(C) : C \in LongChains(F)}
    BY <2>1, <2>2, SweptChains
  <2> QED
    BY <2>3 DEF F, OnLine
<1>2. ASSUME NEW C \in LongChains(all)
      PROVE  /\ (CHOOSE f \in C : TRUE).line \in lines
             /\ \A f \in C : f.line = (CHOOSE g \in C : TRUE).line
  <2>1. C # {} /\ C \in SUBSET all /\ C \in Chains(all)
    BY DEF LongChains, Chains, IsChain
  <2>2. (CHOOSE f \in C : TRUE) \in C
    BY <2>1
  <2> QED
    BY <2>1, <2>2, ChainsOfLine
<1>3. ASSUME NEW line, NEW C \in LongChains(OnLine(all, line))
      PROVE  C \in LongChains(all) /\ line = (CHOOSE f \in C : TRUE).line
  <2>1. C \in LongChains(all) /\ \A f \in C : f.line = line
    BY ChainsOfLine
  <2>2. C # {}
    BY <2>1 DEF LongChains, Chains, IsChain
  <2>3. (CHOOSE f \in C : TRUE) \in C
    BY <2>2
  <2> QED
    BY <2>1, <2>3
<1>4. Reaches(all) = UNION {{ReachOf(line, run) : run \in {Interval(C) : C \in LongChains(OnLine(all, line))}} : line \in lines}
  <2> DEFINE Of(line) == {ReachOf(line, run) : run \in Sweep({f \in all : f.line = line})}
             By(line) == {ReachOf(line, run) : run \in {Interval(C) : C \in LongChains(OnLine(all, line))}}
  <2>1. \A line \in lines : Of(line) = By(line)
    BY <1>1
  <2>2. Reaches(all) = UNION {Of(line) : line \in lines}
    BY DEF Reaches
  <2> HIDE DEF Of, By
  <2>3. UNION {Of(line) : line \in lines} = UNION {By(line) : line \in lines}
    BY <2>1
  <2> QED
    BY <2>2, <2>3 DEF By
<1> HIDE DEF lines
<1>5. ASSUME NEW reach \in Reaches(all) PROVE \E C \in LongChains(all) : reach = ReachOfChain(C)
  <2>1. PICK line \in lines : \E C \in LongChains(OnLine(all, line)) : reach = ReachOf(line, Interval(C))
    BY <1>4
  <2>2. PICK C \in LongChains(OnLine(all, line)) : reach = ReachOf(line, Interval(C))
    BY <2>1
  <2> QED
    BY <1>3, <2>2 DEF ReachOfChain
<1>6. ASSUME NEW C \in LongChains(all) PROVE ReachOfChain(C) \in Reaches(all)
  <2> DEFINE line == (CHOOSE f \in C : TRUE).line
  <2>1. line \in lines /\ C \in LongChains(OnLine(all, line))
    BY <1>2, ChainsOfLine
  <2> HIDE DEF line
  <2>2. ReachOf(line, Interval(C)) \in Reaches(all)
    BY <1>4, <2>1
  <2> QED
    BY <2>2 DEF ReachOfChain, line
<1> QED
  BY <1>5, <1>6

-----------------------------------------------------------------------------
(* Where a reach lies: what its ends tell of its line and of its interval.  *)

Lines == [bin : {"east", "north", "west"}, offset : Int]
Spot(bin, far, t) ==
    IF bin = "east" THEN <<t, far>> ELSE IF bin = "north" THEN <<-far, t>> ELSE <<-t, -far>>

LEMMA AxesOfBins ==
    /\ Along("east") = <<1, 0>> /\ Along("north") = <<0, 1>> /\ Along("west") = <<-1, 0>>
    /\ Across("east") = <<0, 1>> /\ Across("north") = <<-1, 0>> /\ Across("west") = <<0, -1>>
<1>1. Along("east") = <<1, 0>> /\ Along("north") = <<0, 1>> /\ Along("west") = <<-1, 0>>
  BY DEF Along
<1>2. -0 = 0 /\ -(-1) = 1
  <2>1. \A x, y \in Int : x + y = 0 => -x = y
    OBVIOUS
  <2>2. 0 + 0 = 0 /\ (-1) + 1 = 0 /\ 0 \in Int /\ 1 \in Int /\ -1 \in Int
    OBVIOUS
  <2> QED
    BY <2>1, <2>2, Zenon
<1>3. \A b : Across(b) = <<-Along(b)[2], Along(b)[1]>>
  BY DEF Across
<1>4. Across("east") = <<-0, 1>> /\ Across("north") = <<-1, 0>> /\ Across("west") = <<-0, -1>>
  BY <1>1, <1>3
<1> QED
  BY <1>1, <1>2, <1>4, Zenon

LEMMA SpotOfLine ==
    ASSUME NEW line \in Lines, NEW t \in Int
    PROVE  [k \in 1..2 |-> t * Along(line.bin)[k] + line.offset * OffsetBin * Across(line.bin)[k]]
               = Spot(line.bin, 8 * line.offset, t)
<1>1. PICK o \in Int : line.offset = o
  BY DEF Lines
<1>2. OffsetBin = 8
  BY DEF OffsetBin, Unit
<1>3. line.bin \in {"east", "north", "west"}
  BY DEF Lines
<1>4. CASE line.bin = "east"
  <2>1. Along("east") = <<1, 0>> /\ Across("east") = <<0, 1>>
    BY AxesOfBins
  <2>2. t * 1 + o * 8 * 0 = t /\ t * 0 + o * 8 * 1 = 8 * o
    OBVIOUS
  <2> QED
    BY <1>1, <1>2, <1>4, <2>1, <2>2 DEF Spot
<1>5. CASE line.bin = "north"
  <2>1. Along("north") = <<0, 1>> /\ Across("north") = <<-1, 0>>
    BY AxesOfBins
  <2>2. t * 0 + o * 8 * (-1) = -(8 * o) /\ t * 1 + o * 8 * 0 = t
    OBVIOUS
  <2> QED
    BY <1>1, <1>2, <1>5, <2>1, <2>2 DEF Spot
<1>6. CASE line.bin = "west"
  <2>1. Along("west") = <<-1, 0>> /\ Across("west") = <<0, -1>>
    BY AxesOfBins
  <2>2. t * (-1) + o * 8 * 0 = -t /\ t * 0 + o * 8 * (-1) = -(8 * o)
    OBVIOUS
  <2> QED
    BY <1>1, <1>2, <1>6, <2>1, <2>2 DEF Spot
<1> QED
  BY <1>3, <1>4, <1>5, <1>6

LEMMA ReachIsThere ==
    ASSUME NEW line \in Lines, NEW run, run.low \in Int, run.high \in Int
    PROVE  ReachOf(line, run) = [start |-> Spot(line.bin, 8 * line.offset, run.low),
                                 end |-> Spot(line.bin, 8 * line.offset, run.high),
                                 count |-> run.count]
<1> DEFINE place(t) == [k \in 1..2 |-> t * Along(line.bin)[k] + line.offset * OffsetBin * Across(line.bin)[k]]
<1>1. /\ place(run.low) = Spot(line.bin, 8 * line.offset, run.low)
      /\ place(run.high) = Spot(line.bin, 8 * line.offset, run.high)
  BY SpotOfLine
<1>2. ReachOf(line, run) = [start |-> place(run.low), end |-> place(run.high), count |-> run.count]
  BY DEF ReachOf
<1> HIDE DEF place
<1> QED
  BY <1>1, <1>2

LEMMA SpotsTell ==
    ASSUME NEW bin \in {"east", "north", "west"}, NEW far \in Int, NEW low \in Int, NEW high \in Int,
           NEW bin2 \in {"east", "north", "west"}, NEW far2 \in Int, NEW low2 \in Int, NEW high2 \in Int,
           low < high, low2 < high2,
           Spot(bin, far, low) = Spot(bin2, far2, low2), Spot(bin, far, high) = Spot(bin2, far2, high2)
    PROVE  bin = bin2 /\ far = far2 /\ low = low2 /\ high = high2
<1>1. \A a, b, c, d : <<a, b>> = <<c, d>> => a = c /\ b = d
  OBVIOUS
<1>2. CASE bin = "east"
  <2>1. CASE bin2 = "east"
    BY <1>1, <1>2, <2>1 DEF Spot
  <2>2. CASE bin2 = "north"
    BY <1>1, <1>2, <2>2 DEF Spot
  <2>3. CASE bin2 = "west"
    BY <1>1, <1>2, <2>3 DEF Spot
  <2> QED
    BY <2>1, <2>2, <2>3
<1>3. CASE bin = "north"
  <2>1. CASE bin2 = "east"
    BY <1>1, <1>3, <2>1 DEF Spot
  <2>2. CASE bin2 = "north"
    BY <1>1, <1>3, <2>2 DEF Spot
  <2>3. CASE bin2 = "west"
    BY <1>1, <1>3, <2>3 DEF Spot
  <2> QED
    BY <2>1, <2>2, <2>3
<1>4. CASE bin = "west"
  <2>1. CASE bin2 = "east"
    BY <1>1, <1>4, <2>1 DEF Spot
  <2>2. CASE bin2 = "north"
    BY <1>1, <1>4, <2>2 DEF Spot
  <2>3. CASE bin2 = "west"
    BY <1>1, <1>4, <2>3 DEF Spot
  <2> QED
    BY <2>1, <2>2, <2>3
<1> QED
  BY <1>2, <1>3, <1>4

LEMMA ImagesAreFinite ==
    ASSUME NEW A, IsFiniteSet(A), NEW f PROVE IsFiniteSet({f[x] : x \in A})
<1> DEFINE T == {f[x] : x \in A}
           g == [x \in A |-> f[x]]
<1>1. g \in [A -> T] /\ \A t \in T : \E x \in A : g[x] = t
  OBVIOUS
<1> HIDE DEF T, g
<1>2. g \in Surjection(A, T)
  BY <1>1 DEF Surjection
<1>3. IsFiniteSet(T)
  BY <1>2, FS_Surjection
<1> QED
  BY <1>3 DEF T

(* A chain has a first end, of one of its dashes, and a last.               *)
LEMMA IntervalIsThere ==
    ASSUME NEW all, IsDashes(all), NEW C \in SUBSET all, C # {}
    PROVE  /\ Interval(C).low \in Int /\ Interval(C).high \in Int
           /\ \E f \in C : f.low = Interval(C).low
<1> DEFINE L == {f.low : f \in C}
           H == {f.high : f \in C}
<1>1. IsFiniteSet(C) /\ \A f \in C : IsDash(f)
  BY FS_Subset DEF IsDashes
<1>2. L \in SUBSET Int /\ H \in SUBSET Int /\ L # {} /\ H # {}
  BY <1>1 DEF IsDash
<1>3. IsFiniteSet(L) /\ IsFiniteSet(H)
  <2> DEFINE low == [f \in C |-> f.low]
             high == [f \in C |-> f.high]
  <2>1. L = {low[f] : f \in C} /\ H = {high[f] : f \in C}
    OBVIOUS
  <2> HIDE DEF L, H, low, high
  <2> QED
    BY <1>1, <2>1, ImagesAreFinite
<1>4. Interval(C).low = Min(L) /\ Interval(C).high = Max(H)
  BY DEF Interval
<1> HIDE DEF L, H
<1>5. Min(L) \in L /\ Max(H) \in H
  BY <1>2, <1>3, Extremes
<1> QED
  BY <1>2, <1>4, <1>5 DEF L

IsDrawn(all) == IsDashes(all) /\ \A f \in all : f.line \in Lines

(* The line and the interval of a long chain, and the reach they make.      *)
ChainMakes(C, bin, offset, low, high) ==
    /\ bin \in {"east", "north", "west"} /\ offset \in Int /\ low \in Int /\ high \in Int
    /\ high - low >= 24
    /\ \E f \in C : f.low = low /\ f.line = [bin |-> bin, offset |-> offset]
    /\ ReachOfChain(C).start = Spot(bin, 8 * offset, low)
    /\ ReachOfChain(C).end = Spot(bin, 8 * offset, high)

LEMMA ChainIsThere ==
    ASSUME NEW all, IsDrawn(all), NEW C \in LongChains(all)
    PROVE  \E bin, offset, low, high : ChainMakes(C, bin, offset, low, high)
<1> DEFINE line == (CHOOSE f \in C : TRUE).line
<1>1. C \in SUBSET all /\ C # {} /\ C \in Chains(all) /\ IsLong(Interval(C))
  BY DEF LongChains, Chains, IsChain
<1>2. (CHOOSE f \in C : TRUE) \in C
  BY <1>1
<1>3. line \in Lines /\ \A f \in C : f.line = line
  BY <1>1, <1>2, ChainsOfLine DEF IsDrawn
<1> HIDE DEF line
<1>4. PICK low \in Int, high \in Int : low = Interval(C).low /\ high = Interval(C).high
  BY <1>1, IntervalIsThere DEF IsDrawn
<1>5. high - low >= 24
  BY <1>1, <1>4 DEF IsLong, MinimumLength, Unit
<1>6. PICK bin \in {"east", "north", "west"}, offset \in Int : line = [bin |-> bin, offset |-> offset]
  BY <1>3 DEF Lines
<1>7. PICK f \in C : f.low = low
  BY <1>1, <1>4, IntervalIsThere DEF IsDrawn
<1>8. /\ ReachOfChain(C).start = Spot(bin, 8 * offset, low)
      /\ ReachOfChain(C).end = Spot(bin, 8 * offset, high)
  <2>1. line.bin = bin /\ line.offset = offset
    BY <1>6
  <2>2. ReachOfChain(C) = ReachOf(line, Interval(C))
    BY DEF ReachOfChain, line
  <2>3. ReachOf(line, Interval(C)) = [start |-> Spot(bin, 8 * offset, low), end |-> Spot(bin, 8 * offset, high),
                                      count |-> Interval(C).count]
    BY <1>3, <1>4, <2>1, ReachIsThere
  <2> QED
    BY <2>2, <2>3
<1>9. \E g \in C : g.low = low /\ g.line = [bin |-> bin, offset |-> offset]
  BY <1>3, <1>6, <1>7
<1>10. ChainMakes(C, bin, offset, low, high)
  BY <1>4, <1>5, <1>8, <1>9, Zenon DEF ChainMakes
<1> QED
  BY <1>10, Zenon

LEMMA SpotIsPoint ==
    ASSUME NEW bin, NEW far \in Int, NEW t \in Int PROVE Spot(bin, far, t) \in Int \X Int
  BY DEF Spot

KeyOfReach(r) == r.start \o r.end
HasEnds(r) == r.start \in Int \X Int /\ r.end \in Int \X Int

LEMMA KeyTellsEnds ==
    ASSUME NEW r, HasEnds(r), NEW q, HasEnds(q), KeyOfReach(r) = KeyOfReach(q)
    PROVE  r.start = q.start /\ r.end = q.end
<1>1. ASSUME NEW p, HasEnds(p)
      PROVE  /\ KeyOfReach(p)[1] = p.start[1] /\ KeyOfReach(p)[2] = p.start[2]
             /\ KeyOfReach(p)[3] = p.end[1] /\ KeyOfReach(p)[4] = p.end[2]
  <2>1. PICK s \in Int \X Int, z \in Int \X Int : s = p.start /\ z = p.end
    BY <1>1 DEF HasEnds
  <2>2. KeyOfReach(p) = s \o z
    BY <2>1 DEF KeyOfReach
  <2>3. /\ (s \o z)[1] = s[1] /\ (s \o z)[2] = s[2]
        /\ (s \o z)[3] = z[1] /\ (s \o z)[4] = z[2]
    BY JoinOfPairs
  <2> QED
    BY <2>1, <2>2, <2>3, Zenon
<1>2. PICK k : k = KeyOfReach(r) /\ k = KeyOfReach(q)
  OBVIOUS
<1>3. \A p, t \in Int \X Int : p[1] = t[1] /\ p[2] = t[2] => p = t
  OBVIOUS
<1>4. r.start[1] = q.start[1] /\ r.start[2] = q.start[2] /\ r.end[1] = q.end[1] /\ r.end[2] = q.end[2]
  <2>1. k[1] = r.start[1] /\ k[2] = r.start[2] /\ k[3] = r.end[1] /\ k[4] = r.end[2]
    BY <1>1, <1>2
  <2>2. k[1] = q.start[1] /\ k[2] = q.start[2] /\ k[3] = q.end[1] /\ k[4] = q.end[2]
    BY <1>1, <1>2
  <2> QED
    BY <2>1, <2>2
<1> QED
  BY <1>3, <1>4 DEF HasEnds

(* No two chains make reaches with the same ends.                           *)
LEMMA ReachesAreKeyed ==
    ASSUME NEW all, IsDrawn(all)
    PROVE  /\ IsKeyed(Reaches(all), 4, [r \in Reaches(all) |-> KeyOfReach(r)])
           /\ \A r \in Reaches(all) : \E bin \in {"east", "north", "west"}, far, low, high \in Int :
                  r.start = Spot(bin, far, low) /\ r.end = Spot(bin, far, high) /\ low < high
<1> DEFINE R == Reaches(all)
<1>1. R = {ReachOfChain(C) : C \in LongChains(all)}
  BY ReachesOfChains DEF IsDrawn
<1>2. IsFiniteSet(R)
  <2> DEFINE of == [C \in LongChains(all) |-> ReachOfChain(C)]
  <2>1. IsFiniteSet(SUBSET all) /\ LongChains(all) \in SUBSET SUBSET all
    BY FS_SUBSET DEF IsDrawn, IsDashes, LongChains, Chains
  <2>2. IsFiniteSet(LongChains(all))
    BY <2>1, FS_Subset
  <2>3. R = {of[C] : C \in LongChains(all)}
    BY <1>1
  <2> HIDE DEF R, of
  <2> QED
    BY <2>2, <2>3, ImagesAreFinite
<1> HIDE DEF R
<1>3. ASSUME NEW r \in R
      PROVE  /\ r.start \in Int \X Int /\ r.end \in Int \X Int
             /\ \E bin \in {"east", "north", "west"}, far, low, high \in Int :
                  r.start = Spot(bin, far, low) /\ r.end = Spot(bin, far, high) /\ low < high
  <2>1. PICK C \in LongChains(all) : r = ReachOfChain(C)
    BY <1>1
  <2>2. PICK bin, offset, low, high : ChainMakes(C, bin, offset, low, high)
    BY ChainIsThere, Zenon
  <2>3. /\ bin \in {"east", "north", "west"} /\ low \in Int /\ high \in Int
        /\ 8 * offset \in Int /\ low < high
    BY <2>2 DEF ChainMakes
  <2>4. r.start = Spot(bin, 8 * offset, low) /\ r.end = Spot(bin, 8 * offset, high)
    BY <2>1, <2>2, Zenon DEF ChainMakes
  <2>5. r.start \in Int \X Int /\ r.end \in Int \X Int
    BY <2>3, <2>4, SpotIsPoint
  <2> QED
    BY <2>3, <2>4, <2>5, Zenon
<1>4. ASSUME NEW C \in LongChains(all), NEW D \in LongChains(all),
             KeyOfReach(ReachOfChain(C)) = KeyOfReach(ReachOfChain(D))
      PROVE  C = D
  <2>1. PICK bin, offset, low, high : ChainMakes(C, bin, offset, low, high)
    BY ChainIsThere, Zenon
  <2>2. PICK bin2, offset2, low2, high2 : ChainMakes(D, bin2, offset2, low2, high2)
    BY ChainIsThere, Zenon
  <2>3. ReachOfChain(C).start = ReachOfChain(D).start /\ ReachOfChain(C).end = ReachOfChain(D).end
    <3>1. PICK r \in R, q \in R : r = ReachOfChain(C) /\ q = ReachOfChain(D)
      BY <1>1
    <3>2. HasEnds(r) /\ HasEnds(q)
      BY <1>3 DEF HasEnds
    <3>3. KeyOfReach(r) = KeyOfReach(q)
      BY <1>4, <3>1, Zenon
    <3>4. r.start = q.start /\ r.end = q.end
      BY <3>2, <3>3, KeyTellsEnds, Zenon
    <3> QED
      BY <3>1, <3>4, Zenon
  <2>4. /\ Spot(bin, 8 * offset, low) = Spot(bin2, 8 * offset2, low2)
        /\ Spot(bin, 8 * offset, high) = Spot(bin2, 8 * offset2, high2)
    BY <2>1, <2>2, <2>3, Zenon DEF ChainMakes
  <2>5. /\ bin \in {"east", "north", "west"} /\ bin2 \in {"east", "north", "west"}
        /\ low \in Int /\ high \in Int /\ low2 \in Int /\ high2 \in Int
        /\ offset \in Int /\ offset2 \in Int
        /\ 8 * offset \in Int /\ 8 * offset2 \in Int /\ low < high /\ low2 < high2
    BY <2>1, <2>2 DEF ChainMakes
  <2>6. bin = bin2 /\ 8 * offset = 8 * offset2 /\ low = low2
    BY <2>4, <2>5, SpotsTell
  <2>7. offset = offset2
    BY <2>5, <2>6
  <2>8. PICK f \in C, g \in D : f.low = low /\ g.low = low /\ f.line = g.line
    BY <2>1, <2>2, <2>6, <2>7, Zenon DEF ChainMakes
  <2>9. C \in SUBSET all /\ D \in SUBSET all /\ IsChain(C, all) /\ IsChain(D, all)
    BY DEF LongChains, Chains
  <2>10. Near(f, g)
    <3>1. IsDash(f) /\ IsDash(g)
      BY <2>9 DEF IsDrawn, IsDashes
    <3> QED
      BY <2>8, <3>1 DEF Near, IsDash, MaximumGap, Unit
  <2> QED
    BY <2>9, <2>10, ChainsMeet
<1>5. \A r, q \in R : KeyOfReach(r) = KeyOfReach(q) => r = q
  BY <1>1, <1>4
<1>6. [r \in R |-> KeyOfReach(r)] \in [R -> Keys(4)]
  <2>1. \A r \in R : KeyOfReach(r) \in Keys(4)
    BY <1>3, JoinOfPairs DEF KeyOfReach
  <2> QED
    BY <2>1
<1>7. IsKeyed(R, 4, [r \in R |-> KeyOfReach(r)])
  BY <1>2, <1>5, <1>6 DEF IsKeyed
<1> QED
  BY <1>3, <1>7 DEF R

-----------------------------------------------------------------------------
(* What is drawn.                                                            *)

IsPage(drawn) ==
    /\ IsFiniteSet(DOMAIN drawn) /\ DOMAIN drawn \subseteq Int
    /\ \A i \in DOMAIN drawn : drawn[i].points \in Seq(Int \X Int) /\ Len(drawn[i].points) >= 2

FragmentOf(drawn, i, j) ==
    LET p == drawn[i].points[j]  q == drawn[i].points[j + 1]
        u == Along(LineOf(p, q).bin)
    IN  [id |-> <<i, j>>, line |-> LineOf(p, q),
         low |-> Min({Dot(p, u), Dot(q, u)}), high |-> Max({Dot(p, u), Dot(q, u)})]

LEMMA RoundedIsNear ==
    ASSUME NEW n \in Int
    PROVE  /\ RoundHalfEven(n, 16) \in Int
           /\ -8 <= n - 16 * RoundHalfEven(n, 16) /\ n - 16 * RoundHalfEven(n, 16) <= 8
<1>1. PICK q \in Int, r \in Int : n \div 16 = q /\ n % 16 = r /\ n = 16 * q + r /\ 0 <= r /\ r < 16
  OBVIOUS
<1>2. RoundHalfEven(n, 16) = q \/ RoundHalfEven(n, 16) = q + 1
  BY <1>1 DEF RoundHalfEven
<1>3. CASE 2 * r < 16
  <2>1. RoundHalfEven(n, 16) = q
    BY <1>1, <1>3 DEF RoundHalfEven
  <2> QED
    BY <1>1, <1>3, <2>1
<1>4. CASE 2 * r = 16
  BY <1>1, <1>2, <1>4
<1>5. CASE 2 * r > 16
  <2>1. RoundHalfEven(n, 16) = q + 1
    BY <1>1, <1>5 DEF RoundHalfEven
  <2> QED
    BY <1>1, <1>5, <2>1
<1> QED
  BY <1>1, <1>3, <1>4, <1>5

LEMMA LineIsThere ==
    ASSUME NEW p \in Int \X Int, NEW q \in Int \X Int
    PROVE  /\ LineOf(p, q) \in Lines
           /\ Dot(p, Along(LineOf(p, q).bin)) \in Int /\ Dot(q, Along(LineOf(p, q).bin)) \in Int
           /\ LET off == Dot(p, Across(LineOf(p, q).bin)) + Dot(q, Across(LineOf(p, q).bin))
                             - 2 * LineOf(p, q).offset * OffsetBin
              IN  Abs(off) <= OffsetBin
<1> DEFINE bin == AngleBin(p, q)
           n == Dot(p, Across(bin)) + Dot(q, Across(bin))
<1>1. bin \in {"east", "north", "west"}
  BY DEF AngleBin
<1>2. /\ Along(bin)[1] \in Int /\ Along(bin)[2] \in Int
      /\ Across(bin)[1] \in Int /\ Across(bin)[2] \in Int
  <2> HIDE DEF bin
  <2>1. -1 \in Int /\ 0 \in Int /\ 1 \in Int
    OBVIOUS
  <2> QED
    BY <1>1, <2>1, AxesOfBins
<1>3. ASSUME NEW u, u[1] \in Int, u[2] \in Int PROVE Dot(p, u) \in Int /\ Dot(q, u) \in Int
  <2>1. p[1] \in Int /\ p[2] \in Int /\ q[1] \in Int /\ q[2] \in Int
    OBVIOUS
  <2> QED
    BY <1>3, <2>1 DEF Dot
<1>4. /\ Dot(p, Along(bin)) \in Int /\ Dot(q, Along(bin)) \in Int
      /\ Dot(p, Across(bin)) \in Int /\ Dot(q, Across(bin)) \in Int
  <2> HIDE DEF bin
  <2> QED
    BY <1>2, <1>3
<1>5. n \in Int
  BY <1>4
<1>6. OffsetBin = 8 /\ 2 * OffsetBin = 16
  BY DEF OffsetBin, Unit
<1>7. LineOf(p, q) = [bin |-> bin, offset |-> RoundHalfEven(n, 16)]
  BY <1>6 DEF LineOf
<1> HIDE DEF n, bin
<1>8. PICK o \in Int : o = RoundHalfEven(n, 16) /\ -8 <= n - 16 * o /\ n - 16 * o <= 8
  BY <1>5, RoundedIsNear
<1>9. LineOf(p, q).bin = bin /\ LineOf(p, q).offset = o /\ LineOf(p, q) \in Lines
  BY <1>1, <1>7, <1>8 DEF Lines
<1>10. 2 * o * 8 = 16 * o
  OBVIOUS
<1>11. Abs(n - 2 * o * OffsetBin) <= OffsetBin
  BY <1>5, <1>6, <1>8, <1>10 DEF Abs
<1>12. Abs(Dot(p, Across(bin)) + Dot(q, Across(bin)) - 2 * o * OffsetBin) <= OffsetBin
  <2>1. PICK a \in Int, b \in Int : a = Dot(p, Across(bin)) /\ b = Dot(q, Across(bin))
    BY <1>4
  <2>2. PICK c \in Int : c = 2 * o * OffsetBin
    BY <1>6
  <2>3. n = a + b
    BY <2>1, Zenon DEF n
  <2>4. (a + b) - c = a + b - c
    OBVIOUS
  <2> QED
    BY <1>11, <2>1, <2>2, <2>3, <2>4, Zenon
<1> QED
  BY <1>4, <1>9, <1>12, Zenon

LEMMA FragmentIsDash ==
    ASSUME NEW drawn, IsPage(drawn), NEW i \in DOMAIN drawn, NEW j \in 1..(Len(drawn[i].points) - 1)
    PROVE  /\ IsDash(FragmentOf(drawn, i, j)) /\ FragmentOf(drawn, i, j).line \in Lines
           /\ FragmentOf(drawn, i, j).id = <<i, j>>
           /\ Abs(OffLine(drawn, FragmentOf(drawn, i, j))) <= OffsetBin
<1> DEFINE f == FragmentOf(drawn, i, j)
<1>1. i \in Int /\ drawn[i].points \in Seq(Int \X Int) /\ j \in Int
  BY DEF IsPage
<1>2. PICK p \in Int \X Int, q \in Int \X Int :
          p = drawn[i].points[j] /\ q = drawn[i].points[j + 1]
  <2>1. j \in 1..Len(drawn[i].points) /\ j + 1 \in 1..Len(drawn[i].points)
    BY <1>1
  <2>2. \A s \in Seq(Int \X Int) : \A k \in 1..Len(s) : s[k] \in Int \X Int
    OBVIOUS
  <2>3. drawn[i].points[j] \in Int \X Int /\ drawn[i].points[j + 1] \in Int \X Int
    BY <1>1, <2>1, <2>2, Zenon
  <2> QED
    BY <2>3, Zenon
<1>3. PICK a \in Int, b \in Int : a = Dot(p, Along(LineOf(p, q).bin)) /\ b = Dot(q, Along(LineOf(p, q).bin))
  BY LineIsThere
<1>4. f = [id |-> <<i, j>>, line |-> LineOf(p, q), low |-> Min({a, b}), high |-> Max({a, b})]
  BY <1>2, <1>3, Zenon DEF FragmentOf
<1> HIDE DEF f
<1>5. f.id = <<i, j>> /\ f.line = LineOf(p, q) /\ f.low = Min({a, b}) /\ f.high = Max({a, b})
  BY <1>4
<1>6. f.low \in Int /\ f.high \in Int /\ f.low <= f.high
  BY <1>5, MinOfTwo, MaxOfTwo
<1>7. IsDash(f) /\ f.line \in Lines
  BY <1>1, <1>5, <1>6, LineIsThere DEF IsDash
<1>8. Abs(OffLine(drawn, f)) <= OffsetBin
  <2>1. f.id[1] = i /\ f.id[2] = j
    BY <1>5
  <2>2. OffLine(drawn, f) = Dot(p, Across(LineOf(p, q).bin)) + Dot(q, Across(LineOf(p, q).bin))
                                - 2 * LineOf(p, q).offset * OffsetBin
    BY <1>2, <1>5, <2>1, Zenon DEF OffLine
  <2> QED
    BY <2>2, LineIsThere
<1> QED
  BY <1>5, <1>7, <1>8 DEF f

LEMMA FragmentsAreDrawn ==
    ASSUME NEW drawn, IsPage(drawn)
    PROVE  /\ IsDrawn(Fragments(drawn))
           /\ \A f \in Fragments(drawn) : Abs(OffLine(drawn, f)) <= OffsetBin
<1> DEFINE red == {i \in DOMAIN drawn : drawn[i].colour = "red"}
           strokes(i) == {j \in 1..(Len(drawn[i].points) - 1) :
                             Square(drawn[i].points[j], drawn[i].points[j + 1]) >= MinimumStroke * MinimumStroke}
           of == [i \in red |-> {FragmentOf(drawn, i, j) : j \in strokes(i)}]
<1>1. Fragments(drawn) = UNION {of[i] : i \in red}
  <2>1. Fragments(drawn) = UNION {{FragmentOf(drawn, i, j) : j \in strokes(i)} : i \in red}
    BY DEF Fragments, FragmentOf
  <2> HIDE DEF red, strokes
  <2> QED
    BY <2>1
<1>2. \A i \in red : strokes(i) \subseteq 1..(Len(drawn[i].points) - 1)
  OBVIOUS
<1>3. red \subseteq DOMAIN drawn /\ IsFiniteSet(red)
  <2>1. IsFiniteSet(DOMAIN drawn) /\ red \subseteq DOMAIN drawn
    BY DEF IsPage
  <2> HIDE DEF red
  <2> QED
    BY <2>1, FS_Subset
<1>4. \A i \in red : IsFiniteSet(of[i])
  <2> SUFFICES ASSUME NEW i \in red PROVE IsFiniteSet(of[i])
    OBVIOUS
  <2>1. IsFiniteSet(strokes(i))
    <3>1. Len(drawn[i].points) - 1 \in Int /\ 1 \in Int
      BY <1>3 DEF IsPage
    <3>2. IsFiniteSet(1..(Len(drawn[i].points) - 1))
      BY <3>1, FS_Interval
    <3> QED
      BY <1>2, <3>2, FS_Subset
  <2> DEFINE fragment == [j \in strokes(i) |-> FragmentOf(drawn, i, j)]
  <2> HIDE DEF strokes, red
  <2>2. of[i] = {fragment[j] : j \in strokes(i)}
    OBVIOUS
  <2> HIDE DEF of, fragment
  <2> QED
    BY <2>1, <2>2, ImagesAreFinite
<1>5. ASSUME NEW f \in Fragments(drawn)
      PROVE  \E i \in DOMAIN drawn : \E j \in 1..(Len(drawn[i].points) - 1) : f = FragmentOf(drawn, i, j)
  <2> HIDE DEF red, strokes
  <2>1. PICK i \in red : f \in of[i]
    BY <1>1
  <2>2. PICK j \in strokes(i) : f = FragmentOf(drawn, i, j)
    BY <2>1
  <2> QED
    BY <1>2, <1>3, <2>2
<1>6. IsFiniteSet(Fragments(drawn))
  <2> HIDE DEF red, of
  <2>1. IsFiniteSet({of[i] : i \in red})
    BY <1>3, ImagesAreFinite
  <2>2. \A T \in {of[i] : i \in red} : IsFiniteSet(T)
    BY <1>4
  <2> QED
    BY <1>1, <2>1, <2>2, FS_UNION
<1> HIDE DEF red, of, strokes
<1>7. \A f \in Fragments(drawn) : IsDash(f) /\ f.line \in Lines /\ Abs(OffLine(drawn, f)) <= OffsetBin
  BY <1>5, FragmentIsDash
<1>8. ASSUME NEW f \in Fragments(drawn), NEW g \in Fragments(drawn), f.id = g.id PROVE f = g
  <2>1. PICK i \in DOMAIN drawn : \E j \in 1..(Len(drawn[i].points) - 1) : f = FragmentOf(drawn, i, j)
    BY <1>5
  <2>2. PICK j \in 1..(Len(drawn[i].points) - 1) : f = FragmentOf(drawn, i, j)
    BY <2>1
  <2>3. PICK k \in DOMAIN drawn : \E l \in 1..(Len(drawn[k].points) - 1) : g = FragmentOf(drawn, k, l)
    BY <1>5
  <2>4. PICK l \in 1..(Len(drawn[k].points) - 1) : g = FragmentOf(drawn, k, l)
    BY <2>3
  <2>5. f.id = <<i, j>> /\ g.id = <<k, l>>
    BY <2>2, <2>4, FragmentIsDash
  <2>6. i = k /\ j = l
    <3>1. \A a, b, c, d : <<a, b>> = <<c, d>> => a = c /\ b = d
      OBVIOUS
    <3>2. <<i, j>> = <<k, l>>
      BY <1>8, <2>5, Zenon
    <3> QED
      BY <3>1, <3>2, Zenon
  <2> QED
    BY <2>2, <2>4, <2>6
<1> QED
  BY <1>6, <1>7, <1>8 DEF IsDrawn, IsDashes

LEMMA PagesAreTyped ==
    ASSUME NEW dashes \in Dashes, NEW symbols \in Symbols PROVE IsPage(dashes \o symbols)
<1> DEFINE P == [points : Seq({n \in Int : n % Unit = 0} \X {n \in Int : n % Unit = 0}),
                 colour : {"red", "cyan", "black"}, closed : BOOLEAN]
           drawn == dashes \o symbols
<1>1. dashes \in Seq(P) /\ symbols \in Seq(P)
  BY TracingAssumption
<1>2. \A p \in P : p.points \in Seq(Int \X Int)
  <2> DEFINE E == {n \in Int : n % Unit = 0}
  <2>1. E \subseteq Int
    OBVIOUS
  <2>2. ASSUME NEW p \in P PROVE p.points \in Seq(E \X E)
    OBVIOUS
  <2> HIDE DEF E, P
  <2>3. \A s \in Seq(E \X E) : s \in Seq(Int \X Int)
    <3>1. E \X E \subseteq Int \X Int
      BY <2>1
    <3> QED
      BY <3>1
  <2> QED
    BY <2>2, <2>3
<1>3. /\ \A i \in DOMAIN dashes : Len(dashes[i].points) >= 2
      /\ \A i \in DOMAIN symbols : Len(symbols[i].points) >= 2
  BY TracingAssumption
<1> HIDE DEF P
<1>4. /\ drawn \in Seq(P) /\ Len(drawn) = Len(dashes) + Len(symbols)
      /\ \A i \in 1..(Len(dashes) + Len(symbols)) :
             drawn[i] = IF i <= Len(dashes) THEN dashes[i] ELSE symbols[i - Len(dashes)]
  BY <1>1, ConcatProperties
<1> HIDE DEF drawn
<1>5. DOMAIN drawn = 1..Len(drawn) /\ Len(drawn) \in Nat /\ 1 \in Int /\ Len(drawn) \in Int
  BY <1>4
<1>6. IsFiniteSet(DOMAIN drawn)
  BY <1>5, FS_Interval
<1>7. ASSUME NEW i \in DOMAIN drawn
      PROVE  drawn[i].points \in Seq(Int \X Int) /\ Len(drawn[i].points) >= 2
  <2>1. drawn[i] \in P
    BY <1>4, <1>5
  <2>2. Len(drawn[i].points) >= 2
    <3>1. CASE i <= Len(dashes)
      <4>1. i \in DOMAIN dashes /\ drawn[i] = dashes[i]
        BY <1>1, <1>4, <1>5, <3>1
      <4> QED
        BY <1>3, <4>1
    <3>2. CASE ~(i <= Len(dashes))
      <4>1. i - Len(dashes) \in DOMAIN symbols /\ drawn[i] = symbols[i - Len(dashes)]
        BY <1>1, <1>4, <1>5, <3>2
      <4> QED
        BY <1>3, <4>1
    <3> QED
      BY <3>1, <3>2
  <2> QED
    BY <1>2, <2>1, <2>2
<1>8. DOMAIN drawn \subseteq Int
  BY <1>5
<1> QED
  BY <1>6, <1>7, <1>8 DEF IsPage, drawn

LEMMA SortedHasAll ==
    ASSUME NEW n \in Nat, NEW S, NEW key, IsKeyed(S, n, key)
    PROVE  ToSet(Sorted(S, key)) = S
<1> DEFINE s == Sorted(S, key)
<1>1. s \in Seq(S) /\ DOMAIN s = 1..Cardinality(S) /\ \A a \in S : \E k \in 1..Cardinality(S) : s[k] = a
  BY SortedIsOrdered
<1> HIDE DEF s
<1>2. \A k \in DOMAIN s : s[k] \in S
  <2>1. \A z \in Seq(S) : \A k \in DOMAIN z : z[k] \in S
    OBVIOUS
  <2> QED
    BY <1>1, <2>1, Zenon
<1>3. ToSet(s) = S
  BY <1>1, <1>2 DEF ToSet
<1> QED
  BY <1>3 DEF s

LEMMA DrainsAreTheReaches ==
    ASSUME NEW drawn, IsPage(drawn)
    PROVE  /\ ToSet(CleanDrains(drawn)) = Reaches(Fragments(drawn))
           /\ CleanDrains(drawn) \in Seq(Reaches(Fragments(drawn)))
<1> DEFINE R == Reaches(Fragments(drawn))
           key == [r \in R |-> KeyOfReach(r)]
<1>1. IsKeyed(R, 4, key) /\ 4 \in Nat
  BY FragmentsAreDrawn, ReachesAreKeyed
<1>2. CleanDrains(drawn) = Sorted(R, key)
  BY DEF CleanDrains, KeyOfReach
<1> HIDE DEF R, key
<1>3. ToSet(Sorted(R, key)) = R /\ Sorted(R, key) \in Seq(R)
  BY <1>1, SortedHasAll, SortedIsOrdered
<1> QED
  BY <1>2, <1>3 DEF R

(* What the reaches of a page are to be.                                    *)
ReachesShow(drawn, drains) ==
    /\ ToSet(drains) =
           {ReachOf((CHOOSE f \in C : TRUE).line, Interval(C)) :
               C \in {D \in Chains(Fragments(drawn)) : IsLong(Interval(D))}}
    /\ \A f \in Fragments(drawn) : Abs(OffLine(drawn, f)) <= OffsetBin

LEMMA ReachesAreShown ==
    ASSUME NEW drawn, IsPage(drawn) PROVE ReachesShow(drawn, CleanDrains(drawn))
<1>1. IsDashes(Fragments(drawn))
  BY FragmentsAreDrawn DEF IsDrawn
<1>2. Reaches(Fragments(drawn)) = {ReachOfChain(C) : C \in LongChains(Fragments(drawn))}
  BY <1>1, ReachesOfChains
<1>3. ToSet(CleanDrains(drawn)) = {ReachOfChain(C) : C \in LongChains(Fragments(drawn))}
  BY <1>2, DrainsAreTheReaches
<1> QED
  BY <1>3, FragmentsAreDrawn, Zenon DEF ReachesShow, ReachOfChain, LongChains

(* The reaches of a map are the chains of its red dashes that are long      *)
(* enough, each from its first end to its last, in whatever order they are  *)
(* drawn and however they overlap (pdf_native.py:300-377).                  *)
THEOREM ReachesAreTheChains == Spec => []ReachesAreChains
<1>1. Init => ReachesAreChains
  BY DEF Init, NoCall, ReachesAreChains, Answered
<1>2. ASSUME CallTrace PROVE ReachesAreChains'
  <2> SUFFICES ASSUME answer' # None PROVE ReachesShow(request'.drawn, answer'.drains)
    BY Zenon DEF ReachesAreChains, ReachesShow, Answered
  <2>1. PICK dashes \in Dashes, symbols \in Symbols, spans \in Texts :
            LET q == [call |-> "trace", drawn |-> dashes \o symbols, spans |-> spans] IN
            Answer(q, CleanDrains(q.drawn) # <<>> /\ Structures(q.drawn) # <<>> /\ Labels(spans) # <<>>,
                   Trace(q))
    BY <1>2 DEF CallTrace
  <2> DEFINE drawn == dashes \o symbols
  <2>2. PICK q : q = [call |-> "trace", drawn |-> drawn, spans |-> spans]
    OBVIOUS
  <2>3. q.drawn = drawn
    BY <2>2
  <2>4. request' = q /\ answer' = Trace(q)
    BY <2>1, <2>2 DEF Answer
  <2>5. answer'.drains = CleanDrains(drawn) /\ request'.drawn = drawn
    BY <2>3, <2>4 DEF Trace
  <2>6. IsPage(drawn)
    BY PagesAreTyped
  <2> HIDE DEF drawn
  <2> QED
    BY <2>5, <2>6, ReachesAreShown
<1>3. ASSUME ReachesAreChains, [Next]_<<calls, drawing>>, ~CallTrace PROVE ReachesAreChains'
  <2>1. UNCHANGED calls \/ request'.call # "trace"
    BY <1>3, OneCall
  <2>2. CASE UNCHANGED calls
    BY <1>3, <2>2 DEF ReachesAreChains, Answered, calls
  <2>3. CASE request'.call # "trace"
    BY <2>3 DEF ReachesAreChains, Answered
  <2> QED
    BY <2>1, <2>2, <2>3
<1> QED
  BY <1>1, <1>2, <1>3, PTL DEF Spec

-----------------------------------------------------------------------------
(* What is nearest.                                                          *)

LEMMA SquaresGrow ==
    /\ \A a \in Int : a * a \in Nat
    /\ \A a, b \in Nat : a <= b => a * a <= b * b
    /\ \A a, b \in Nat : a * a = (-a) * (-a)
<1>1. ASSUME NEW a \in Nat, NEW b \in Nat, a <= b PROVE a * a <= b * b
  <2>1. PICK d \in Nat : b = a + d
    <3>1. b - a \in Nat /\ b = a + (b - a)
      BY <1>1
    <3> QED
      BY <3>1
  <2>2. b * b = a * a + (2 * (a * d) + d * d)
    <3>1. (a + d) * (a + d) = a * a + (2 * (a * d) + d * d)
      OBVIOUS
    <3> QED
      BY <2>1, <3>1
  <2>3. a * a \in Nat /\ a * d \in Nat /\ d * d \in Nat
    OBVIOUS
  <2> QED
    BY <2>2, <2>3
<1>2. \A a \in Int : a * a \in Nat
  OBVIOUS
<1>3. \A a, b \in Nat : a * a = (-a) * (-a)
  OBVIOUS
<1> QED
  BY <1>1, <1>2, <1>3

(* The whole numbers from the smaller to the larger.                        *)
Spanned(a, b) == Min({a, b})..Max({a, b})

LEMMA ClampIsNearest ==
    ASSUME NEW z \in Int, NEW a \in Int, NEW b \in Int
    PROVE  /\ Between(z, a, b) \in Spanned(a, b)
           /\ \A x \in Spanned(a, b) :
                  (z - Between(z, a, b)) * (z - Between(z, a, b)) <= (z - x) * (z - x)
<1> DEFINE lo == Min({a, b})
           hi == Max({a, b})
           c == Between(z, a, b)
<1>1. lo \in Int /\ hi \in Int /\ lo <= hi
  BY MinOfTwo, MaxOfTwo
<1>2. c = Max({lo, Min({z, hi})})
  BY DEF Between
<1> HIDE DEF lo, hi, c
<1>3. Min({z, hi}) = IF z <= hi THEN z ELSE hi
  BY <1>1, MinOfTwo
<1>4. c = IF z < lo THEN lo ELSE IF hi < z THEN hi ELSE z
  <2>1. PICK m \in Int : m = Min({z, hi}) /\ m = IF z <= hi THEN z ELSE hi
    BY <1>1, <1>3
  <2>2. c = IF lo >= m THEN lo ELSE m
    BY <1>1, <1>2, <2>1, MaxOfTwo
  <2> QED
    BY <1>1, <2>1, <2>2
<1>5. c \in lo..hi
  BY <1>1, <1>4
<1>6. ASSUME NEW x \in lo..hi PROVE (z - c) * (z - c) <= (z - x) * (z - x)
  <2>1. x \in Int /\ c \in Int
    BY <1>1, <1>5
  <2>2. CASE z < lo
    <3>1. c - z \in Nat /\ x - z \in Nat /\ c - z <= x - z
      BY <1>1, <1>4, <2>1, <2>2
    <3>2. (c - z) * (c - z) <= (x - z) * (x - z)
      BY <3>1, SquaresGrow
    <3>3. (c - z) * (c - z) = (z - c) * (z - c) /\ (x - z) * (x - z) = (z - x) * (z - x)
      BY <2>1
    <3> QED
      BY <3>2, <3>3
  <2>3. CASE hi < z
    <3>1. z - c \in Nat /\ z - x \in Nat /\ z - c <= z - x
      BY <1>1, <1>4, <2>1, <2>3
    <3> QED
      BY <3>1, SquaresGrow
  <2>4. CASE ~(z < lo) /\ ~(hi < z)
    <3>1. z - c = 0
      BY <1>4, <2>4
    <3>2. (z - x) * (z - x) \in Nat
      <4>1. z - x \in Int
        BY <2>1
      <4> QED
        BY <4>1, SquaresGrow
    <3> QED
      BY <3>1, <3>2
  <2> QED
    BY <2>2, <2>3, <2>4
<1> QED
  BY <1>5, <1>6 DEF Spanned, lo, hi, c

(* The ground of a reach that is nearest is that found by coordinate.       *)
LEMMA SquareToReachIsAway ==
    ASSUME NEW p \in Int \X Int, NEW r, HasEnds(r)
    PROVE  SquareToReach(p, r) = Away(p, r) /\ SquareToReach(p, r) \in Nat
<1> DEFINE X == Spanned(r.start[1], r.end[1])
           Y == Spanned(r.start[2], r.end[2])
           u == Between(p[1], r.start[1], r.end[1])
           v == Between(p[2], r.start[2], r.end[2])
           S == {Square(p, z) : z \in Ground(r)}
<1>1. /\ p[1] \in Int /\ p[2] \in Int
      /\ r.start[1] \in Int /\ r.start[2] \in Int /\ r.end[1] \in Int /\ r.end[2] \in Int
  BY DEF HasEnds
<1>2. /\ u \in X /\ \A x \in X : (p[1] - u) * (p[1] - u) <= (p[1] - x) * (p[1] - x)
      /\ v \in Y /\ \A y \in Y : (p[2] - v) * (p[2] - v) <= (p[2] - y) * (p[2] - y)
  BY <1>1, ClampIsNearest
<1>3. X \subseteq Int /\ Y \subseteq Int
  BY DEF Spanned
<1>4. Ground(r) = {<<x, y>> : x \in X, y \in Y}
  BY DEF Ground, Spanned
<1>5. SquareToReach(p, r) = Square(p, <<u, v>>)
  <2>1. [k \in 1..2 |-> Between(p[k], r.start[k], r.end[k])] = <<u, v>>
    OBVIOUS
  <2> QED
    BY <2>1 DEF SquareToReach
<1> HIDE DEF X, Y, u, v
<1>6. ASSUME NEW x \in Int, NEW y \in Int
      PROVE  /\ Square(p, <<x, y>>) = (p[1] - x) * (p[1] - x) + (p[2] - y) * (p[2] - y)
             /\ Square(p, <<x, y>>) \in Nat
  <2>1. Square(p, <<x, y>>) = (p[1] - x) * (p[1] - x) + (p[2] - y) * (p[2] - y)
    BY DEF Square
  <2>2. (p[1] - x) * (p[1] - x) \in Nat /\ (p[2] - y) * (p[2] - y) \in Nat
    <3>1. p[1] - x \in Int /\ p[2] - y \in Int
      BY <1>1
    <3> QED
      BY <3>1, SquaresGrow
  <2> QED
    BY <2>1, <2>2
<1>7. S \in SUBSET Int
  <2> SUFFICES ASSUME NEW x \in X, NEW y \in Y PROVE Square(p, <<x, y>>) \in Int
    BY <1>4
  <2>1. x \in Int /\ y \in Int
    BY <1>3
  <2>2. Square(p, <<x, y>>) \in Nat
    BY <1>6, <2>1
  <2> QED
    BY <2>2
<1>8. Square(p, <<u, v>>) \in S
  BY <1>2, <1>4
<1>9. \A s \in S : Square(p, <<u, v>>) <= s
  <2> SUFFICES ASSUME NEW x \in X, NEW y \in Y PROVE Square(p, <<u, v>>) <= Square(p, <<x, y>>)
    BY <1>4
  <2>1. x \in Int /\ y \in Int /\ u \in Int /\ v \in Int
    BY <1>2, <1>3
  <2>2. PICK a \in Int, b \in Int, c \in Int, d \in Int :
            /\ a = (p[1] - u) * (p[1] - u) /\ b = (p[1] - x) * (p[1] - x)
            /\ c = (p[2] - v) * (p[2] - v) /\ d = (p[2] - y) * (p[2] - y)
    BY <1>1, <2>1
  <2>3. a <= b /\ c <= d
    BY <1>2, <2>2, Zenon
  <2>4. Square(p, <<u, v>>) = a + c /\ Square(p, <<x, y>>) = b + d
    BY <1>6, <2>1, <2>2, Zenon
  <2> QED
    BY <2>3, <2>4
<1> HIDE DEF S
<1>10. Min(S) = Square(p, <<u, v>>)
  BY <1>7, <1>8, <1>9, SmallestIs
<1>11. u \in Int /\ v \in Int
  BY <1>2, <1>3
<1> QED
  BY <1>5, <1>6, <1>10, <1>11 DEF Away, S

(* Of some places the first of the nearest.                                 *)
IsFirst(i, places, g) == i \in places /\ \A j \in places : g[i] < g[j] \/ (g[i] = g[j] /\ i <= j)

LEMMA FirstIsThere ==
    ASSUME NEW places \in SUBSET Nat, places # {}, NEW g, \A k \in places : g[k] \in Nat
    PROVE  \E i \in places : IsFirst(i, places, g)
<1> DEFINE V == {g[k] : k \in places}
<1>1. V \in SUBSET Nat /\ V # {}
  OBVIOUS
<1>2. PICK m \in V : \A n \in V : m <= n
  <2> HIDE DEF V
  <2> QED
    BY <1>1, SmallestNumber
<1> DEFINE W == {k \in places : g[k] = m}
<1>3. W \in SUBSET Nat /\ W # {}
  OBVIOUS
<1>4. PICK i \in W : \A k \in W : i <= k
  <2> HIDE DEF W
  <2> QED
    BY <1>3, SmallestNumber
<1>5. ASSUME NEW j \in places PROVE g[i] < g[j] \/ (g[i] = g[j] /\ i <= j)
  <2>1. g[i] = m /\ m <= g[j] /\ m \in Nat /\ g[j] \in Nat
    BY <1>1, <1>2, <1>4
  <2>2. CASE g[j] = m
    BY <1>4, <2>1, <2>2
  <2>3. CASE g[j] # m
    BY <2>1, <2>3
  <2> QED
    BY <2>2, <2>3
<1> QED
  BY <1>4, <1>5 DEF IsFirst

IsReaches(drains) ==
    Len(drains) \in Nat /\ DOMAIN drains = 1..Len(drains) /\ (drains = <<>> <=> Len(drains) = 0)
    /\ \A k \in DOMAIN drains : HasEnds(drains[k])

IsTied(drain, p, drains) ==
    IF drain = 0 THEN \A k \in DOMAIN drains : Away(p, drains[k]) > 80 * 80
    ELSE /\ drain \in DOMAIN drains /\ Away(p, drains[drain]) <= 80 * 80
         /\ \A k \in DOMAIN drains :
                \/ Away(p, drains[drain]) < Away(p, drains[k])
                \/ Away(p, drains[drain]) = Away(p, drains[k]) /\ drain <= k

LEMMA NearestDrainIsTied ==
    ASSUME NEW p \in Int \X Int, NEW drains, IsReaches(drains)
    PROVE  IsTied(NearestDrain(p, drains), p, drains)
<1>1. CASE drains = <<>>
  <2>1. NearestDrain(p, drains) = 0
    BY <1>1 DEF NearestDrain
  <2>2. \A k \in DOMAIN drains : FALSE
    BY <1>1 DEF IsReaches
  <2> QED
    BY <2>1, <2>2 DEF IsTied
<1>2. CASE drains # <<>>
  <2> DEFINE D == DOMAIN drains
             g == [k \in D |-> SquareToReach(p, drains[k])]
             i == CHOOSE i \in D : IsFirst(i, D, g)
  <2>1. D \in SUBSET Nat /\ D # {} /\ 0 \notin D
    <3>1. D = 1..Len(drains) /\ Len(drains) \in Nat /\ Len(drains) # 0
      BY <1>2 DEF IsReaches
    <3> HIDE DEF D
    <3>2. 1 \in D
      BY <3>1
    <3> QED
      BY <3>1, <3>2
  <2>2. \A k \in D : g[k] \in Nat /\ g[k] = Away(p, drains[k])
    BY SquareToReachIsAway DEF IsReaches
  <2>3. FirstNearest(D, LAMBDA k : SquareToReach(p, drains[k])) = i
    <3>1. \A k \in D : IsFirst(k, D, g) <=>
             \A j \in D : SquareToReach(p, drains[k]) < SquareToReach(p, drains[j])
                          \/ (SquareToReach(p, drains[k]) = SquareToReach(p, drains[j]) /\ k <= j)
      BY DEF IsFirst
    <3> QED
      BY <3>1 DEF FirstNearest
  <2>4. NearestDrain(p, drains) = IF g[i] <= 80 * 80 THEN i ELSE 0
    <3>1. 40 * Unit * 40 * Unit = 80 * 80
      BY DEF Unit
    <3>2. \E k \in D : IsFirst(k, D, g)
      <4> HIDE DEF D, g
      <4> QED
        BY <2>1, <2>2, FirstIsThere
    <3>3. i \in D
      <4> HIDE DEF D, g
      <4> QED
        BY <3>2
    <3>4. g[i] = SquareToReach(p, drains[i])
      <4> HIDE DEF i
      <4> QED
        BY <3>3
    <3> HIDE DEF g, i
    <3> QED
      BY <1>2, <2>3, <3>1, <3>4 DEF NearestDrain
  <2>5. IsFirst(i, D, g)
    <3> HIDE DEF D, g
    <3>1. \E k \in D : IsFirst(k, D, g)
      BY <2>1, <2>2, FirstIsThere
    <3> QED
      BY <3>1
  <2> HIDE DEF i, g, D
  <2>6. i \in D /\ \A j \in D : g[i] < g[j] \/ (g[i] = g[j] /\ i <= j)
    BY <2>5 DEF IsFirst
  <2>7. CASE g[i] <= 80 * 80
    <3>1. NearestDrain(p, drains) = i /\ i # 0
      BY <2>1, <2>4, <2>6, <2>7
    <3> QED
      BY <2>2, <2>6, <2>7, <3>1 DEF IsTied, D
  <2>8. CASE ~(g[i] <= 80 * 80)
    <3>1. NearestDrain(p, drains) = 0
      BY <2>4, <2>8
    <3>2. \A j \in D : g[j] > 80 * 80
      <4> SUFFICES ASSUME NEW j \in D PROVE g[j] > 80 * 80
        OBVIOUS
      <4>1. g[i] \in Nat /\ g[j] \in Nat /\ g[i] <= g[j]
        BY <2>2, <2>6
      <4> QED
        BY <2>8, <4>1
    <3> QED
      BY <2>2, <3>1, <3>2 DEF IsTied, D
  <2> QED
    BY <2>7, <2>8
<1> QED
  BY <1>1, <1>2

IsNotes(labels) ==
    DOMAIN labels \subseteq Nat /\ \A k \in DOMAIN labels : labels[k].point \in Int \X Int

IsNamed(name, p, labels) ==
    LET near == {t \in ToSet(labels) : t.manhole /\ Square(p, t.point) <= 60 * 60} IN
    IF near = {} THEN name = None
    ELSE \E t \in near : name = t.text /\
             \A u \in near : Square(p, t.point) <= Square(p, u.point)

LEMMA NearestLabelIsNamed ==
    ASSUME NEW p \in Int \X Int, NEW labels, IsNotes(labels)
    PROVE  IsNamed(NearestManholeLabel(p, labels), p, labels)
<1> DEFINE named == {k \in DOMAIN labels : labels[k].manhole}
           near == {t \in ToSet(labels) : t.manhole /\ Square(p, t.point) <= 60 * 60}
           g == [k \in DOMAIN labels |-> Square(p, labels[k].point)]
           i == CHOOSE i \in named : IsFirst(i, named, g)
           name == NearestManholeLabel(p, labels)
<1>1. named \in SUBSET Nat /\ named \subseteq DOMAIN labels
  BY DEF IsNotes
<1>2. \A k \in named : g[k] \in Nat /\ g[k] = Square(p, labels[k].point)
  <2> SUFFICES ASSUME NEW k \in DOMAIN labels PROVE Square(p, labels[k].point) \in Nat
    OBVIOUS
  <2>1. PICK z \in Int \X Int : z = labels[k].point
    BY DEF IsNotes
  <2>2. p[1] - z[1] \in Int /\ p[2] - z[2] \in Int
    OBVIOUS
  <2>3. (p[1] - z[1]) * (p[1] - z[1]) \in Nat /\ (p[2] - z[2]) * (p[2] - z[2]) \in Nat
    BY <2>2, SquaresGrow
  <2>4. Square(p, z) \in Nat
    BY <2>3 DEF Square
  <2> QED
    BY <2>1, <2>4
<1>3. \A t : t \in near <=> \E k \in named : t = labels[k] /\ g[k] <= 60 * 60
  BY DEF ToSet
<1>4. IsNamed(name, p, labels) <=>
          IF near = {} THEN name = None
          ELSE \E t \in near : name = t.text /\ \A u \in near : Square(p, t.point) <= Square(p, u.point)
  BY DEF IsNamed
<1>5. CASE named = {}
  <2>1. name = None
    BY <1>5 DEF NearestManholeLabel
  <2>2. near = {}
    BY <1>3, <1>5
  <2> HIDE DEF name, near
  <2> QED
    BY <1>4, <2>1, <2>2, Zenon DEF name
<1>6. CASE named # {}
  <2>1. FirstNearest(named, LAMBDA k : Square(p, labels[k].point)) = i
    <3>1. \A k \in named : IsFirst(k, named, g) <=>
             \A j \in named : Square(p, labels[k].point) < Square(p, labels[j].point)
                          \/ (Square(p, labels[k].point) = Square(p, labels[j].point) /\ k <= j)
      BY DEF IsFirst
    <3> QED
      BY <3>1 DEF FirstNearest
  <2>2. i \in named /\ \A j \in named : g[i] < g[j] \/ (g[i] = g[j] /\ i <= j)
    <3> HIDE DEF named, g
    <3>1. \E k \in named : IsFirst(k, named, g)
      BY <1>1, <1>2, <1>6, FirstIsThere
    <3>2. IsFirst(i, named, g)
      BY <3>1
    <3> QED
      BY <3>2 DEF IsFirst
  <2>3. name = IF g[i] <= 60 * 60 THEN labels[i].text ELSE None
    <3>1. 30 * Unit * 30 * Unit = 60 * 60
      BY DEF Unit
    <3>2. g[i] = Square(p, labels[i].point)
      <4> HIDE DEF i, g
      <4> QED
        BY <1>2, <2>2
    <3> HIDE DEF g, i
    <3> QED
      BY <1>6, <2>1, <3>1, <3>2 DEF NearestManholeLabel
  <2> HIDE DEF name, i, g, named, near
  <2>4. CASE g[i] <= 60 * 60
    <3>1. labels[i] \in near
      BY <1>3, <2>2, <2>4
    <3>2. ASSUME NEW u \in near PROVE Square(p, labels[i].point) <= Square(p, u.point)
      <4>1. PICK k \in named : u = labels[k]
        BY <1>3
      <4>2. g[i] \in Nat /\ g[k] \in Nat /\ g[i] <= g[k]
        BY <1>2, <2>2
      <4> QED
        BY <1>2, <2>2, <4>1, <4>2
    <3> QED
      <4>1. IsNamed(name, p, labels)
        BY <1>4, <2>3, <2>4, <3>1, <3>2
      <4> QED
        BY <4>1, Zenon DEF name
  <2>5. CASE ~(g[i] <= 60 * 60)
    <3>1. near = {}
      <4> SUFFICES ASSUME NEW t \in near PROVE FALSE
        OBVIOUS
      <4>1. PICK k \in named : g[k] <= 60 * 60
        BY <1>3
      <4>2. g[i] \in Nat /\ g[k] \in Nat /\ g[i] <= g[k]
        BY <1>2, <2>2
      <4> QED
        BY <2>5, <4>1, <4>2
    <3>2. name = None
      BY <2>3, <2>5
    <3> QED
      <4>1. IsNamed(name, p, labels)
        BY <1>4, <3>1, <3>2
      <4> QED
        BY <4>1, Zenon DEF name
  <2> QED
    BY <2>4, <2>5
<1> QED
  BY <1>5, <1>6

LEMMA CenterIsPoint ==
    ASSUME NEW drawn, drawn.points \in Seq(Int \X Int), Len(drawn.points) >= 2
    PROVE  Center(drawn) \in Int \X Int
<1>1. PICK s \in Seq(Int \X Int) : s = drawn.points
  OBVIOUS
<1>2. DOMAIN s = 1..Len(s) /\ Len(s) \in Int /\ 1 \in DOMAIN s /\ \A i \in DOMAIN s : s[i] \in Int \X Int
  <2>1. \A z \in Seq(Int \X Int) : DOMAIN z = 1..Len(z) /\ Len(z) \in Int /\ \A i \in DOMAIN z : z[i] \in Int \X Int
    OBVIOUS
  <2>2. DOMAIN s = 1..Len(s) /\ Len(s) \in Int /\ \A i \in DOMAIN s : s[i] \in Int \X Int
    BY <2>1, Zenon
  <2>3. Len(s) >= 2
    BY <1>1
  <2> QED
    BY <2>2, <2>3
<1>3. ASSUME NEW k \in 1..2 PROVE (Max(Extent(drawn, k)) + Min(Extent(drawn, k))) \div 2 \in Int
  <2> DEFINE T == Extent(drawn, k)
             of == [i \in DOMAIN s |-> s[i][k]]
  <2>1. T = {of[i] : i \in DOMAIN s}
    BY <1>1 DEF Extent
  <2>2. \A i \in DOMAIN s : of[i] \in Int
    BY <1>2
  <2>3. IsFiniteSet(DOMAIN s)
    <3>1. 1 \in Int /\ Len(s) \in Int
      BY <1>2
    <3> QED
      BY <1>2, <3>1, FS_Interval
  <2> HIDE DEF T, of
  <2>4. IsFiniteSet(T)
    BY <2>1, <2>3, ImagesAreFinite
  <2>5. T \in SUBSET Int /\ T # {}
    BY <1>2, <2>1, <2>2
  <2>6. Max(T) \in Int /\ Min(T) \in Int
    BY <2>4, <2>5, Extremes
  <2>7. \A a, b \in Int : (a + b) \div 2 \in Int
    OBVIOUS
  <2> QED
    BY <2>6, <2>7 DEF T
<1>4. \A f : (\A k \in 1..2 : f[k] \in Int) => [k \in 1..2 |-> f[k]] \in Int \X Int
  OBVIOUS
<1> DEFINE f == [k \in 1..2 |-> (Max(Extent(drawn, k)) + Min(Extent(drawn, k))) \div 2]
<1>5. Center(drawn) = f /\ f = [k \in 1..2 |-> f[k]] /\ \A k \in 1..2 : f[k] \in Int
  BY <1>3 DEF Center
<1> HIDE DEF f
<1> QED
  BY <1>4, <1>5

LEMMA JoinOfPairAndOne ==
    ASSUME NEW s \in Int \X Int, NEW i \in Int
    PROVE  s \o <<i>> \in Keys(3) /\ (s \o <<i>>)[3] = i
<1> DEFINE j == s \o <<i>>
<1>1. s \in Seq(Int) /\ <<i>> \in Seq(Int) /\ Len(s) = 2 /\ Len(<<i>>) = 1 /\ <<i>>[1] = i
  <2>1. \A p \in Int \X Int : p = <<p[1], p[2]>> /\ p[1] \in Int /\ p[2] \in Int
    OBVIOUS
  <2>2. \A a, b \in Int : <<a, b>> \in Seq(Int) /\ Len(<<a, b>>) = 2
    OBVIOUS
  <2>3. s \in Seq(Int) /\ Len(s) = 2
    BY <2>1, <2>2, Zenon
  <2> QED
    BY <2>3
<1>2. PICK z : z = <<i>>
  OBVIOUS
<1>3. /\ j \in Seq(Int) /\ Len(j) = Len(s) + Len(z)
      /\ \A k \in 1..(Len(s) + Len(z)) : j[k] = IF k <= Len(s) THEN s[k] ELSE z[k - Len(s)]
  BY <1>1, <1>2, ConcatProperties
<1> HIDE DEF j
<1>4. Len(j) = 3 /\ j[3] = z[1] /\ z[1] = i
  <2>1. Len(s) = 2 /\ Len(z) = 1 /\ z[1] = i
    BY <1>1, <1>2, Zenon
  <2> QED
    BY <1>3, <2>1
<1>5. j \in Keys(3)
  <2>1. j \in [1..Len(j) -> Int]
    BY <1>3
  <2> QED
    BY <1>4, <2>1, Zenon DEF Keys
<1> QED
  BY <1>4, <1>5 DEF j

LEMMA StructuresAreThere ==
    ASSUME NEW drawn, IsPage(drawn)
    PROVE  \E n \in Nat : /\ DOMAIN Structures(drawn) = 1..n
                          /\ \A k \in 1..n : Structures(drawn)[k] \in Int \X Int
<1> DEFINE rings == {i \in DOMAIN drawn : IsManhole(drawn[i])}
           key == [i \in rings |-> Center(drawn[i]) \o <<i>>]
           order == Sorted(rings, key)
           n == Cardinality(rings)
<1>1. IsFiniteSet(DOMAIN drawn) /\ rings \in SUBSET DOMAIN drawn /\ DOMAIN drawn \subseteq Int
  BY DEF IsPage
<1>2. \A i \in DOMAIN drawn : Center(drawn[i]) \in Int \X Int
  BY CenterIsPoint DEF IsPage
<1> HIDE DEF rings
<1>3. IsFiniteSet(rings)
  BY <1>1, FS_Subset
<1>4. \A i \in rings : key[i] \in Keys(3) /\ key[i][3] = i
  <2> SUFFICES ASSUME NEW i \in rings PROVE Center(drawn[i]) \o <<i>> \in Keys(3) /\ (Center(drawn[i]) \o <<i>>)[3] = i
    OBVIOUS
  <2>1. i \in Int /\ Center(drawn[i]) \in Int \X Int
    BY <1>1, <1>2
  <2> QED
    BY <2>1, JoinOfPairAndOne
<1>5. key = [i \in rings |-> key[i]]
  OBVIOUS
<1> HIDE DEF key
<1>6. IsKeyed(rings, 3, key)
  <2>1. key \in [rings -> Keys(3)]
    BY <1>4, <1>5
  <2>2. \A a, b \in rings : key[a] = key[b] => a = b
    <3> SUFFICES ASSUME NEW a \in rings, NEW b \in rings, key[a] = key[b] PROVE a = b
      OBVIOUS
    <3>1. key[a][3] = a /\ key[b][3] = b
      BY <1>4
    <3> QED
      BY <3>1
  <2> QED
    BY <1>3, <2>1, <2>2 DEF IsKeyed
<1>7. order \in Seq(rings) /\ DOMAIN order = 1..n /\ n \in Nat
  <2>1. 3 \in Nat
    OBVIOUS
  <2> QED
    BY <1>6, <2>1, SortedIsOrdered
<1>8. Structures(drawn) = [k \in DOMAIN order |-> Center(drawn[order[k]])]
  BY DEF Structures, rings, key
<1> HIDE DEF order, n
<1>9. \A k \in 1..n : order[k] \in rings
  <2>1. \A z \in Seq(rings) : \A k \in DOMAIN z : z[k] \in rings
    OBVIOUS
  <2> QED
    BY <1>7, <2>1, Zenon
<1>10. DOMAIN Structures(drawn) = 1..n
  BY <1>7, <1>8
<1>11. ASSUME NEW k \in 1..n PROVE Structures(drawn)[k] \in Int \X Int
  <2>1. Structures(drawn)[k] = Center(drawn[order[k]])
    BY <1>7, <1>8
  <2>2. order[k] \in DOMAIN drawn
    BY <1>1, <1>9
  <2> QED
    BY <1>2, <2>1, <2>2, Zenon
<1> QED
  BY <1>7, <1>10, <1>11, Zenon

LEMMA LabelsAreThere ==
    ASSUME NEW spans \in Texts
    PROVE  \E n \in Nat : /\ DOMAIN Labels(spans) = 1..n
                          /\ \A k \in 1..n : Labels(spans)[k].point \in Int \X Int
<1> DEFINE T == [text : STRING, drainage : BOOLEAN, manhole : BOOLEAN, point : Int \X Int]
           inside(z, size) == 5 * Unit < z /\ z < size - 5 * Unit
           kept == {i \in DOMAIN spans : /\ spans[i].drainage
                                         /\ inside(spans[i].point[1], PageWidth)
                                         /\ inside(spans[i].point[2], PageHeight)}
           key == [i \in kept |-> spans[i].point]
           order == Sorted(kept, key)
           n == Cardinality(kept)
<1>1. spans \in Seq(T) /\ \A i, j \in DOMAIN spans : spans[i].point = spans[j].point => i = j
  BY TracingAssumption
<1>2. \A t \in T : t.point \in Int \X Int
  OBVIOUS
<1> HIDE DEF T
<1>3. DOMAIN spans = 1..Len(spans) /\ Len(spans) \in Int /\ \A i \in DOMAIN spans : spans[i] \in T
  <2>1. \A z \in Seq(T) : DOMAIN z = 1..Len(z) /\ Len(z) \in Int /\ \A i \in DOMAIN z : z[i] \in T
    OBVIOUS
  <2> QED
    BY <1>1, <2>1, Zenon
<1>4. \A i \in DOMAIN spans : spans[i].point \in Int \X Int
  BY <1>2, <1>3
<1>5. kept \in SUBSET DOMAIN spans /\ Labels(spans) = [k \in DOMAIN order |-> spans[order[k]]]
  BY DEF Labels
<1> HIDE DEF kept
<1>6. IsFiniteSet(kept)
  <2>1. IsFiniteSet(1..Len(spans))
    <3>1. 1 \in Int
      OBVIOUS
    <3> QED
      BY <1>3, <3>1, FS_Interval
  <2> QED
    BY <1>3, <1>5, <2>1, FS_Subset
<1>7. IsKeyed(kept, 2, key)
  <2>1. \A p \in Int \X Int : p \in Keys(2)
    BY DEF Keys
  <2>2. \A i \in kept : spans[i].point \in Keys(2)
    BY <1>4, <1>5, <2>1
  <2>3. key \in [kept -> Keys(2)]
    BY <2>2
  <2>4. \A a, b \in kept : key[a] = key[b] => a = b
    BY <1>1, <1>5
  <2> HIDE DEF key
  <2> QED
    BY <1>6, <2>3, <2>4 DEF IsKeyed
<1>8. order \in Seq(kept) /\ DOMAIN order = 1..n /\ n \in Nat
  <2>1. 2 \in Nat
    OBVIOUS
  <2> HIDE DEF key
  <2> QED
    BY <1>7, <2>1, SortedIsOrdered
<1> HIDE DEF order, n, key
<1>9. \A k \in 1..n : order[k] \in kept
  <2>1. \A z \in Seq(kept) : \A k \in DOMAIN z : z[k] \in kept
    OBVIOUS
  <2> QED
    BY <1>8, <2>1, Zenon
<1> QED
  BY <1>4, <1>5, <1>8, <1>9
LEMMA OneOfThree ==
    ASSUME NEW S, NEW a \in Seq(S), NEW b \in Seq(S), NEW c \in Seq(S),
           NEW l, l = (a \o b) \o c, NEW i \in DOMAIN l
    PROVE  \/ \E k \in DOMAIN a : l[i] = a[k]
           \/ \E k \in DOMAIN b : l[i] = b[k]
           \/ \E k \in DOMAIN c : l[i] = c[k]
<1>1. PICK j : j = a \o b
  OBVIOUS
<1>2. /\ j \in Seq(S) /\ Len(j) = Len(a) + Len(b)
      /\ \A k \in 1..(Len(a) + Len(b)) : j[k] = IF k <= Len(a) THEN a[k] ELSE b[k - Len(a)]
  BY <1>1, ConcatProperties
<1>3. l = j \o c
  BY <1>1
<1>4. /\ l \in Seq(S) /\ Len(l) = Len(j) + Len(c)
      /\ \A k \in 1..(Len(j) + Len(c)) : l[k] = IF k <= Len(j) THEN j[k] ELSE c[k - Len(j)]
  <2>1. j \in Seq(S) /\ c \in Seq(S)
    BY <1>2
  <2>2. /\ j \o c \in Seq(S) /\ Len(j \o c) = Len(j) + Len(c)
        /\ \A k \in 1..(Len(j) + Len(c)) : (j \o c)[k] = IF k <= Len(j) THEN j[k] ELSE c[k - Len(j)]
    BY <2>1, ConcatProperties
  <2> QED
    BY <1>3, <2>2
<1>5. /\ DOMAIN a = 1..Len(a) /\ DOMAIN b = 1..Len(b) /\ DOMAIN c = 1..Len(c) /\ DOMAIN l = 1..Len(l)
      /\ Len(a) \in Nat /\ Len(b) \in Nat /\ Len(c) \in Nat
  BY <1>4
<1>6. i \in 1..((Len(a) + Len(b)) + Len(c))
  BY <1>2, <1>4, <1>5
<1>7. CASE i <= Len(a)
  <2>1. l[i] = a[i] /\ i \in DOMAIN a
    BY <1>2, <1>4, <1>5, <1>6, <1>7
  <2> QED
    BY <2>1
<1>8. CASE ~(i <= Len(a)) /\ i <= Len(a) + Len(b)
  <2>1. l[i] = b[i - Len(a)] /\ i - Len(a) \in DOMAIN b
    BY <1>2, <1>4, <1>5, <1>6, <1>8
  <2> QED
    BY <2>1
<1>9. CASE ~(i <= Len(a) + Len(b))
  <2>1. l[i] = c[i - Len(j)] /\ i - Len(j) \in DOMAIN c
    BY <1>2, <1>4, <1>5, <1>6, <1>9
  <2> QED
    BY <2>1
<1> QED
  BY <1>7, <1>8, <1>9

(* What the ties of a feature are to be.                                    *)
IsAssociated(f, drains, labels) ==
    /\ f.kind # "DRAIN" => BelongsToNearest(f, drains)
    /\ f.kind = "STRUCTURE" => IsNamedByNearest(f, labels)

LEMMA FeaturesAreAssociated ==
    ASSUME NEW drains, IsReaches(drains), NEW structures, NEW labels,
           \E n \in Nat : DOMAIN structures = 1..n /\ \A k \in 1..n : structures[k] \in Int \X Int,
           \E n \in Nat : DOMAIN labels = 1..n /\ \A k \in 1..n : labels[k].point \in Int \X Int
    PROVE  \A i \in DOMAIN Features(drains, structures, labels) :
               IsAssociated(Features(drains, structures, labels)[i], drains, labels)
<1> DEFINE a == [i \in DOMAIN drains |->
                   [kind |-> "DRAIN", at |-> drains[i].start, drain |-> i, label |-> None,
                    band |-> Band(IF drains[i].count >= 3 THEN 90 ELSE 78)]]
           b == [i \in DOMAIN structures |->
                   [kind |-> "STRUCTURE", at |-> structures[i], drain |-> NearestDrain(structures[i], drains),
                    label |-> NearestManholeLabel(structures[i], labels), band |-> Band(86)]]
           c == [i \in DOMAIN labels |->
                   [kind |-> "LABEL", at |-> labels[i].point, drain |-> NearestDrain(labels[i].point, drains),
                    label |-> labels[i].text, band |-> Band(90)]]
<1>1. Features(drains, structures, labels) = (a \o b) \o c
  BY DEF Features
<1>2. \A k \in DOMAIN a : a[k].kind = "DRAIN"
  OBVIOUS
<1>3. \A k \in DOMAIN b : /\ b[k].kind = "STRUCTURE" /\ b[k].at = structures[k] /\ k \in DOMAIN structures
                          /\ b[k].drain = NearestDrain(structures[k], drains)
                          /\ b[k].label = NearestManholeLabel(structures[k], labels)
  OBVIOUS
<1>4. \A k \in DOMAIN c : /\ c[k].kind = "LABEL" /\ c[k].at = labels[k].point /\ k \in DOMAIN labels
                          /\ c[k].drain = NearestDrain(labels[k].point, drains)
  OBVIOUS
<1>5. PICK l \in Nat, m \in Nat, n \in Nat : DOMAIN a = 1..l /\ DOMAIN b = 1..m /\ DOMAIN c = 1..n
  BY DEF IsReaches
<1>6. a = [k \in DOMAIN a |-> a[k]] /\ b = [k \in DOMAIN b |-> b[k]] /\ c = [k \in DOMAIN c |-> c[k]]
  OBVIOUS
<1> HIDE DEF a, b, c
<1> DEFINE S == {a[k] : k \in DOMAIN a} \cup {b[k] : k \in DOMAIN b} \cup {c[k] : k \in DOMAIN c}
<1>7. a \in Seq(S) /\ b \in Seq(S) /\ c \in Seq(S)
  <2>1. a \in [1..l -> S] /\ b \in [1..m -> S] /\ c \in [1..n -> S]
    BY <1>5, <1>6
  <2> HIDE DEF S
  <2>2. a \in Seq(S)
    BY <2>1
  <2>3. b \in Seq(S)
    BY <2>1
  <2>4. c \in Seq(S)
    BY <2>1
  <2> QED
    BY <2>2, <2>3, <2>4
<1> HIDE DEF S
<1>8. IsNotes(labels)
  BY DEF IsNotes
<1>9. PICK all : all = (a \o b) \o c
  OBVIOUS
<1>10. ASSUME NEW i \in DOMAIN all PROVE IsAssociated(all[i], drains, labels)
  <2>1. PICK f : f = all[i]
    OBVIOUS
  <2>2. \/ \E k \in DOMAIN a : f = a[k]
        \/ \E k \in DOMAIN b : f = b[k]
        \/ \E k \in DOMAIN c : f = c[k]
    BY <1>7, <1>9, <2>1, OneOfThree
  <2>3. CASE \E k \in DOMAIN a : f = a[k]
    <3>1. f.kind = "DRAIN"
      BY <1>2, <2>3
    <3> QED
      BY <2>1, <3>1 DEF IsAssociated
  <2>4. CASE \E k \in DOMAIN b : f = b[k]
    <3>1. PICK k \in DOMAIN b : f = b[k]
      BY <2>4
    <3>2. PICK p \in Int \X Int : p = structures[k]
      BY <1>3, <3>1
    <3>3. f.at = p /\ f.drain = NearestDrain(p, drains) /\ f.label = NearestManholeLabel(p, labels)
      BY <1>3, <3>1, <3>2
    <3>4. IsTied(f.drain, f.at, drains)
      BY <3>3, NearestDrainIsTied
    <3>5. IsNamed(f.label, f.at, labels)
      BY <1>8, <3>3, NearestLabelIsNamed
    <3>6. BelongsToNearest(f, drains)
      BY <3>4, Zenon DEF IsTied, BelongsToNearest
    <3>7. IsNamedByNearest(f, labels)
      BY <3>5, Zenon DEF IsNamed, IsNamedByNearest
    <3> QED
      BY <2>1, <3>6, <3>7, Zenon DEF IsAssociated
  <2>5. CASE \E k \in DOMAIN c : f = c[k]
    <3>1. PICK k \in DOMAIN c : f = c[k]
      BY <2>5
    <3>2. PICK p \in Int \X Int : p = labels[k].point
      BY <1>4, <3>1
    <3>3. f.at = p /\ f.drain = NearestDrain(p, drains) /\ f.kind = "LABEL"
      BY <1>4, <3>1, <3>2
    <3>4. IsTied(f.drain, f.at, drains)
      BY <3>3, NearestDrainIsTied
    <3>5. BelongsToNearest(f, drains)
      BY <3>4, Zenon DEF IsTied, BelongsToNearest
    <3>6. f.kind # "STRUCTURE"
      BY <3>3
    <3> QED
      BY <2>1, <3>5, <3>6, Zenon DEF IsAssociated
  <2> QED
    BY <2>2, <2>3, <2>4, <2>5
<1> QED
  BY <1>1, <1>9, <1>10

LEMMA CleanDrainsAreReaches ==
    ASSUME NEW drawn, IsPage(drawn) PROVE IsReaches(CleanDrains(drawn))
<1> DEFINE R == Reaches(Fragments(drawn))
           s == CleanDrains(drawn)
<1>1. \A r \in R : HasEnds(r)
  <2> SUFFICES ASSUME NEW r \in R PROVE HasEnds(r)
    OBVIOUS
  <2>1. PICK bin \in {"east", "north", "west"}, far \in Int, low \in Int, high \in Int :
            r.start = Spot(bin, far, low) /\ r.end = Spot(bin, far, high)
    BY FragmentsAreDrawn, ReachesAreKeyed
  <2> QED
    BY <2>1, SpotIsPoint DEF HasEnds
<1>2. s \in Seq(R)
  BY DrainsAreTheReaches
<1> HIDE DEF R, s
<1>3. \A z \in Seq(R) : /\ Len(z) \in Nat /\ DOMAIN z = 1..Len(z) /\ (z = <<>> <=> Len(z) = 0)
                       /\ \A k \in DOMAIN z : z[k] \in R
  OBVIOUS
<1>4. Len(s) \in Nat /\ DOMAIN s = 1..Len(s) /\ (s = <<>> <=> Len(s) = 0) /\ \A k \in DOMAIN s : s[k] \in R
  BY <1>2, <1>3, Zenon
<1> QED
  BY <1>1, <1>4 DEF IsReaches, s

(* A manhole or a label belongs to the first of the reaches whose ground is *)
(* nearest to it, within reach; a manhole has the name of the nearest       *)
(* manhole label, within reach (service.py:87-131 and 487-552).             *)
THEOREM NeighboursAreNearest == Spec => []AssociationsAreNearest
<1>1. Init => AssociationsAreNearest
  BY DEF Init, NoCall, AssociationsAreNearest, Answered
<1>2. ASSUME CallTrace PROVE AssociationsAreNearest'
  <2> SUFFICES ASSUME answer' # None, NEW i \in DOMAIN answer'.features
               PROVE  IsAssociated(answer'.features[i], answer'.drains, answer'.labels)
    BY Zenon DEF AssociationsAreNearest, IsAssociated, Answered
  <2>1. PICK dashes \in Dashes, symbols \in Symbols, spans \in Texts :
            LET q == [call |-> "trace", drawn |-> dashes \o symbols, spans |-> spans] IN
            Answer(q, CleanDrains(q.drawn) # <<>> /\ Structures(q.drawn) # <<>> /\ Labels(spans) # <<>>,
                   Trace(q))
    BY <1>2 DEF CallTrace
  <2> DEFINE drawn == dashes \o symbols
  <2>2. PICK q : q = [call |-> "trace", drawn |-> drawn, spans |-> spans]
    OBVIOUS
  <2>3. q.drawn = drawn /\ q.spans = spans
    BY <2>2
  <2>4. answer' = Trace(q)
    BY <2>1, <2>2 DEF Answer
  <2>5. /\ answer'.drains = CleanDrains(drawn) /\ answer'.labels = Labels(spans)
        /\ answer'.features = Features(CleanDrains(drawn), Structures(drawn), Labels(spans))
    BY <2>3, <2>4 DEF Trace
  <2>6. IsPage(drawn)
    BY PagesAreTyped
  <2> HIDE DEF drawn
  <2>7. \A k \in DOMAIN Features(CleanDrains(drawn), Structures(drawn), Labels(spans)) :
            IsAssociated(Features(CleanDrains(drawn), Structures(drawn), Labels(spans))[k],
                         CleanDrains(drawn), Labels(spans))
    BY <2>6, CleanDrainsAreReaches, StructuresAreThere, LabelsAreThere, FeaturesAreAssociated
  <2> QED
    BY <2>5, <2>7, Zenon
<1>3. ASSUME AssociationsAreNearest, [Next]_<<calls, drawing>>, ~CallTrace PROVE AssociationsAreNearest'
  <2>1. UNCHANGED calls \/ request'.call # "trace"
    BY <1>3, OneCall
  <2>2. CASE UNCHANGED calls
    BY <1>3, <2>2 DEF AssociationsAreNearest, Answered, calls
  <2>3. CASE request'.call # "trace"
    BY <2>3 DEF AssociationsAreNearest, Answered
  <2> QED
    BY <2>1, <2>2, <2>3
<1> QED
  BY <1>1, <1>2, <1>3, PTL DEF Spec
-----------------------------------------------------------------------------
(* The same files under the same names.                                      *)

(* The places that are kept, each once.                                     *)
LEMMA InPlaceIsBijection ==
    ASSUME NEW P \in SUBSET Nat, IsFiniteSet(P)
    PROVE  Cardinality(P) \in Nat /\ InPlace(P) \in Bijection(1..Cardinality(P), P)
<1> DEFINE key == [i \in P |-> <<i>>]
           m == Cardinality(P)
           s == Sorted(P, key)
<1>1. \A i \in P : <<i>> \in Keys(1)
  BY DEF Keys
<1>2. key \in [P -> Keys(1)]
  BY <1>1
<1>3. IsKeyed(P, 1, key)
  BY <1>2 DEF IsKeyed
<1>4. s = InPlace(P)
  BY DEF InPlace
<1> HIDE DEF key, m, s
<1>5. /\ s \in Seq(P) /\ DOMAIN s = 1..m /\ m \in Nat
      /\ \A a \in P : \E k \in 1..m : s[k] = a
      /\ \A i, j \in 1..m : i < j => Lexicographic(key[s[i]], key[s[j]])
  BY <1>3, SortedIsOrdered DEF m, s
<1>6. \A k \in 1..m : s[k] \in P
  BY <1>5
<1>7. ASSUME NEW i \in 1..m, NEW j \in 1..m, i < j PROVE s[i] # s[j]
  <2>1. key[s[i]] \in Keys(1)
    BY <1>2, <1>6
  <2> QED
    BY <1>5, <1>7, <2>1, KeysAreStrict
<1>8. \A i, j \in 1..m : s[i] = s[j] => i = j
  BY <1>5, <1>7
<1>9. s \in [1..m -> P]
  BY <1>5, <1>6
<1> QED
  BY <1>4, <1>5, <1>8, <1>9, Fun_IsBij DEF m

(* The values of a family, each as often as it occurs, and a bijection that *)
(* keeps them.                                                              *)
BagOf(v, P) == [x \in {v[i] : i \in P} |-> Cardinality({i \in P : v[i] = x})]
Follows(v, P, w, b) == \A i \in P : w[b[i]] = v[i]

LEMMA ValuesAreMatched ==
    ASSUME NEW P, NEW Q, IsFiniteSet(P), NEW b \in Bijection(P, Q), NEW v, NEW w,
           Follows(v, P, w, b)
    PROVE  BagOf(v, P) = BagOf(w, Q)
<1> USE DEF Follows
<1>1. /\ \A i \in P : b[i] \in Q
      /\ \A i, k \in P : b[i] = b[k] => i = k
      /\ \A j \in Q : \E i \in P : b[i] = j
  BY Fun_BijectionProperties
<1>2. {v[i] : i \in P} = {w[j] : j \in Q}
  BY <1>1
<1>3. ASSUME NEW x PROVE Cardinality({i \in P : v[i] = x}) = Cardinality({j \in Q : w[j] = x})
  <2> DEFINE A == {i \in P : v[i] = x}
             B == {j \in Q : w[j] = x}
             f == [i \in A |-> b[i]]
  <2>1. f \in [A -> B]
    BY <1>1
  <2>2. \A i, k \in A : f[i] = f[k] => i = k
    BY <1>1
  <2>3. \A j \in B : \E i \in A : f[i] = j
    BY <1>1
  <2>4. IsFiniteSet(A)
    BY FS_Subset
  <2> HIDE DEF A, B, f
  <2>5. f \in Bijection(A, B)
    BY <2>1, <2>2, <2>3, Fun_IsBij
  <2>6. ExistsBijection(A, B)
    BY <2>5 DEF ExistsBijection
  <2>7. Cardinality(A) = Cardinality(B)
    BY <2>4, <2>6, FS_Bijection
  <2> QED
    BY <2>7 DEF A, B
<1> QED
  BY <1>2, <1>3 DEF BagOf

(* Of two families with as many members of each value, one is the other in  *)
(* another order.                                                           *)
SameValues(v, P, w, Q) ==
    /\ {v[i] : i \in P} = {w[j] : j \in Q}
    /\ \A i \in P : Cardinality({k \in P : v[k] = v[i]}) = Cardinality({j \in Q : w[j] = v[i]})

LEMMA FamiliesAreMatched ==
    ASSUME NEW P, NEW Q, IsFiniteSet(P), IsFiniteSet(Q), NEW v, NEW w,
           SameValues(v, P, w, Q)
    PROVE  \E b \in Bijection(P, Q) : Follows(v, P, w, b)
<1> DEFINE A(x) == {i \in P : v[i] = x}
           B(x) == {j \in Q : w[j] = x}
           R == {v[i] : i \in P}
           match == [x \in R |-> CHOOSE f : f \in Bijection(A(x), B(x))]
           b == [i \in P |-> match[v[i]][i]]
<1>1. ASSUME NEW x \in R PROVE match[x] \in Bijection(A(x), B(x))
  <2>1. PICK i \in P : x = v[i]
    OBVIOUS
  <2>2. Cardinality(A(x)) = Cardinality(B(x))
    BY <2>1 DEF SameValues
  <2>3. IsFiniteSet(A(x)) /\ IsFiniteSet(B(x))
    <3>1. A(x) \in SUBSET P /\ B(x) \in SUBSET Q
      OBVIOUS
    <3> HIDE DEF A, B
    <3> QED
      BY <3>1, FS_Subset
  <2>4. match[x] = CHOOSE f : f \in Bijection(A(x), B(x))
    BY <1>1
  <2> HIDE DEF A, B, match, R
  <2>5. ExistsBijection(A(x), B(x))
    BY <2>2, <2>3, FS_SameCardinalityBij
  <2>6. \E f : f \in Bijection(A(x), B(x))
    BY <2>5 DEF ExistsBijection
  <2> QED
    BY <2>4, <2>6
<1>2. \A i \in P : v[i] \in R /\ i \in A(v[i])
  OBVIOUS
<1>3. \A j \in Q : w[j] \in R /\ j \in B(w[j])
  BY DEF SameValues
<1>4. \A i \in P : b[i] = match[v[i]][i]
  OBVIOUS
<1>5. DOMAIN b = P /\ b = [i \in P |-> b[i]]
  OBVIOUS
<1>6. \A x : A(x) \subseteq P /\ B(x) \subseteq Q
  OBVIOUS
<1>7. \A x : (\A i \in A(x) : v[i] = x) /\ \A j \in B(x) : w[j] = x
  OBVIOUS
<1> HIDE DEF A, B, R, match, b
<1>8. \A x \in R : /\ \A i \in A(x) : match[x][i] \in B(x)
                   /\ \A i, k \in A(x) : match[x][i] = match[x][k] => i = k
                   /\ \A j \in B(x) : \E i \in A(x) : match[x][i] = j
  BY <1>1, Fun_BijectionProperties
<1>9. \A i \in P : b[i] \in Q /\ w[b[i]] = v[i]
  BY <1>2, <1>4, <1>6, <1>7, <1>8
<1>10. \A i, k \in P : b[i] = b[k] => i = k
  BY <1>2, <1>4, <1>8, <1>9
<1>11. \A j \in Q : \E i \in P : b[i] = j
  BY <1>3, <1>4, <1>6, <1>7, <1>8
<1>12. b \in [P -> Q]
  BY <1>5, <1>9
<1>13. b \in Bijection(P, Q)
  BY <1>10, <1>11, <1>12, Fun_IsBij
<1> QED
  BY <1>9, <1>13 DEF Follows

(* A resource that has a name of its own is called so in any place.         *)
LEMMA NamedInAnyPlace ==
    ASSUME NEW r, Named(r), NEW i, NEW j
    PROVE  ResourceName(r, i) = ResourceName(r, j)
  BY DEF Named, ResourceName, UrlFilename, SafeFilename

(* The places of a listing that are kept, and what is asked for each.       *)
KeptPlaces(listing) == {i \in DOMAIN listing : Downloadable(listing[i])}
RequestsOf(listing) == [i \in KeptPlaces(listing) |-> Get(listing[i].url, ResourceName(listing[i], i))]

LEMMA KeptIsFinite ==
    ASSUME NEW S, NEW listing \in Seq(S)
    PROVE  IsFiniteSet(KeptPlaces(listing)) /\ KeptPlaces(listing) \in SUBSET Nat
<1>1. DOMAIN listing = 1..Len(listing) /\ Len(listing) \in Nat
  OBVIOUS
<1>2. KeptPlaces(listing) \in SUBSET (1..Len(listing))
  BY <1>1 DEF KeptPlaces
<1>3. IsFiniteSet(1..Len(listing))
  BY <1>1, FS_Interval
<1> QED
  BY <1>1, <1>2, <1>3, FS_Subset

Packaged(endpoint) == LastSegment(WithoutEndSlashes(endpoint.path)) # <<>>

LEMMA PlanAsksForKept ==
    ASSUME NEW S, NEW listing \in Seq(S), NEW endpoint, Packaged(endpoint), KeptPlaces(listing) # {}
    PROVE  ToBag(PlanCkan(endpoint, listing)) = BagOf(RequestsOf(listing), KeptPlaces(listing))
<1> DEFINE P == KeptPlaces(listing)
           m == Cardinality(P)
           b == InPlace(P)
           w == RequestsOf(listing)
           v == PlanCkan(endpoint, listing)
<1>1. v = [k \in 1..m |-> LET i == b[k] IN Get(listing[i].url, ResourceName(listing[i], i))]
  BY DEF PlanCkan, Packaged, KeptPlaces
<1>2. \A i \in P : w[i] = Get(listing[i].url, ResourceName(listing[i], i))
  BY DEF RequestsOf
<1>3. IsFiniteSet(P) /\ P \in SUBSET Nat
  BY KeptIsFinite
<1> HIDE DEF P, b, w, v
<1>4. m \in Nat /\ b \in Bijection(1..m, P)
  BY <1>3, InPlaceIsBijection DEF b
<1>5. \A k \in 1..m : b[k] \in P
  BY <1>4, Fun_BijectionProperties
<1>6. \A k \in 1..m : w[b[k]] = v[k]
  BY <1>1, <1>2, <1>5
<1>7. IsFiniteSet(1..m)
  BY <1>4, FS_Interval
<1> HIDE DEF m
<1>8. BagOf(v, 1..m) = BagOf(w, P)
  <2>1. Follows(v, 1..m, w, b)
    BY <1>6 DEF Follows
  <2> QED
    BY <1>4, <1>7, <2>1, ValuesAreMatched
<1>9. DOMAIN v = 1..m
  BY <1>1 DEF m
<1>10. ToBag(v) = BagOf(v, 1..m)
  BY <1>9 DEF ToBag, Range, BagOf
<1> QED
  BY <1>8, <1>10 DEF v, w, P

(* What a listing asks for, whatever the order of it.                       *)
Asked(listing) ==
    [r \in {q \in ToSet(listing) : Downloadable(q)} |-> Cardinality({i \in DOMAIN listing : listing[i] = r})]

LEMMA ListingsAreMatched ==
    ASSUME NEW S, NEW s \in Seq(S), NEW t \in Seq(S), Asked(s) = Asked(t)
    PROVE  \E b \in Bijection(KeptPlaces(s), KeptPlaces(t)) : Follows(s, KeptPlaces(s), t, b)
<1>1. /\ {s[i] : i \in KeptPlaces(s)} = {q \in ToSet(s) : Downloadable(q)}
      /\ {t[j] : j \in KeptPlaces(t)} = {q \in ToSet(t) : Downloadable(q)}
  BY DEF KeptPlaces, ToSet
<1>2. /\ DOMAIN Asked(s) = {q \in ToSet(s) : Downloadable(q)}
      /\ DOMAIN Asked(t) = {q \in ToSet(t) : Downloadable(q)}
  BY DEF Asked
<1>3. {s[i] : i \in KeptPlaces(s)} = {t[j] : j \in KeptPlaces(t)}
  BY <1>1, <1>2
<1>4. ASSUME NEW i \in KeptPlaces(s)
      PROVE  Cardinality({k \in KeptPlaces(s) : s[k] = s[i]}) = Cardinality({j \in KeptPlaces(t) : t[j] = s[i]})
  <2> DEFINE r == s[i]
  <2>1. Downloadable(r) /\ r \in DOMAIN Asked(s) /\ r \in DOMAIN Asked(t)
    BY <1>2 DEF KeptPlaces, ToSet
  <2>2. /\ Asked(s)[r] = Cardinality({k \in DOMAIN s : s[k] = r})
        /\ Asked(t)[r] = Cardinality({j \in DOMAIN t : t[j] = r})
    BY <1>2, <2>1 DEF Asked
  <2>3. /\ {k \in DOMAIN s : s[k] = r} = {k \in KeptPlaces(s) : s[k] = r}
        /\ {j \in DOMAIN t : t[j] = r} = {j \in KeptPlaces(t) : t[j] = r}
    BY <2>1 DEF KeptPlaces
  <2> QED
    BY <2>2, <2>3
<1>5. IsFiniteSet(KeptPlaces(s)) /\ IsFiniteSet(KeptPlaces(t))
  BY KeptIsFinite
<1>6. SameValues(s, KeptPlaces(s), t, KeptPlaces(t))
  BY <1>3, <1>4 DEF SameValues
<1> QED
  BY <1>5, <1>6, FamiliesAreMatched

LEMMA ReorderedPlans ==
    ASSUME NEW S, NEW s \in Seq(S), NEW t \in Seq(S), Asked(s) = Asked(t),
           \A r \in DOMAIN Asked(s) : Named(r),
           NEW endpoint, Packaged(endpoint), KeptPlaces(t) # {}
    PROVE  ToBag(PlanCkan(endpoint, s)) = ToBag(PlanCkan(endpoint, t))
<1>1. PICK b \in Bijection(KeptPlaces(s), KeptPlaces(t)) : \A i \in KeptPlaces(s) : t[b[i]] = s[i]
  BY ListingsAreMatched DEF Follows
<1>2. /\ \A i \in KeptPlaces(s) : b[i] \in KeptPlaces(t)
      /\ \A j \in KeptPlaces(t) : \E i \in KeptPlaces(s) : b[i] = j
  BY Fun_BijectionProperties
<1>3. KeptPlaces(s) # {}
  BY <1>2
<1>4. ASSUME NEW i \in KeptPlaces(s) PROVE RequestsOf(t)[b[i]] = RequestsOf(s)[i]
  <2>1. s[i] \in DOMAIN Asked(s)
    BY DEF Asked, KeptPlaces, ToSet
  <2>2. ResourceName(s[i], b[i]) = ResourceName(s[i], i)
    BY <2>1, NamedInAnyPlace
  <2>3. /\ RequestsOf(s)[i] = Get(s[i].url, ResourceName(s[i], i))
        /\ RequestsOf(t)[b[i]] = Get(t[b[i]].url, ResourceName(t[b[i]], b[i]))
    BY <1>2 DEF RequestsOf
  <2> QED
    BY <1>1, <2>2, <2>3
<1> DEFINE v == RequestsOf(s)
           w == RequestsOf(t)
           P == KeptPlaces(s)
           Q == KeptPlaces(t)
<1>5. IsFiniteSet(P)
  BY KeptIsFinite
<1>6. Follows(v, P, w, b)
  BY <1>4 DEF Follows
<1>7. b \in Bijection(P, Q)
  OBVIOUS
<1> HIDE DEF v, w, P, Q
<1>8. BagOf(v, P) = BagOf(w, Q)
  BY <1>5, <1>6, <1>7, ValuesAreMatched
<1>9. /\ ToBag(PlanCkan(endpoint, s)) = BagOf(v, P)
      /\ ToBag(PlanCkan(endpoint, t)) = BagOf(w, Q)
  BY <1>3, PlanAsksForKept DEF v, w, P, Q
<1> QED
  BY <1>8, <1>9

(* A listing in another order, or with other entries that cannot be         *)
(* downloaded, is asked for the same files under the same names, unless a   *)
(* resource is known by its place only (acquisition.py:236-253).            *)
THEOREM OrderChangesNothing == Spec => []ReorderedListingsPlanTheSame
<1>1. Init => ReorderedListingsPlanTheSame
  BY DEF Init, NoCall, ReorderedListingsPlanTheSame, Answered
<1>2. ASSUME CallPlan PROVE ReorderedListingsPlanTheSame'
  <2> SUFFICES ASSUME answer' # None, request'.call = "plan", request'.method = "CKAN",
                      NEW listing \in Listings \ {None},
                      Asked(listing) = Asked(request'.p.listing),
                      \A r \in DOMAIN Asked(listing) : Named(r)
               PROVE  ToBag(PlanCkan(request'.endpoint, listing)) = ToBag(answer')
    BY DEF ReorderedListingsPlanTheSame, Answered, Asked
  <2>1. PICK method \in AccessMethods, endpoint \in Endpoints :
             \E p \in Inputs(method) :
                 LET planned == Plan(method, endpoint, p) IN
                 Answer([call |-> "plan", method |-> method, endpoint |-> endpoint, p |-> p],
                        planned # None, planned)
    BY <1>2 DEF CallPlan
  <2>2. PICK p \in Inputs(method) :
             Answer([call |-> "plan", method |-> method, endpoint |-> endpoint, p |-> p],
                    Plan(method, endpoint, p) # None, Plan(method, endpoint, p))
    BY <2>1
  <2>3. request' = [call |-> "plan", method |-> method, endpoint |-> endpoint, p |-> p]
    BY <2>2 DEF Answer
  <2>4. method = "CKAN" /\ request'.endpoint = endpoint /\ request'.p = p
    BY <2>3
  <2>5. answer' = Plan("CKAN", endpoint, p)
    BY <2>2, <2>4 DEF Answer
  <2>6. p.listing # None /\ answer' = PlanCkan(endpoint, p.listing)
    BY <2>5 DEF Plan
  <2>7. p.listing \in Listings
    BY <2>2, <2>4 DEF Inputs
  <2>8. Packaged(endpoint) /\ KeptPlaces(p.listing) # {}
    BY <2>6 DEF PlanCkan, Packaged, KeptPlaces
  <2>9. PICK S : listing \in Seq(S) /\ p.listing \in Seq(S)
    BY <2>6, <2>7, PlanningAssumption DEF PlanningAssumption
  <2> QED
    BY <2>4, <2>6, <2>8, <2>9, ReorderedPlans
<1>3. ASSUME ReorderedListingsPlanTheSame, [Next]_<<calls, drawing>>, ~CallPlan PROVE ReorderedListingsPlanTheSame'
  <2>1. UNCHANGED calls \/ request'.call # "plan"
    BY <1>3, OneCall
  <2>2. CASE UNCHANGED calls
    BY <1>3, <2>2 DEF ReorderedListingsPlanTheSame, Answered, calls
  <2>3. CASE request'.call # "plan"
    BY <2>3 DEF ReorderedListingsPlanTheSame, Answered
  <2> QED
    BY <2>1, <2>2, <2>3
<1> QED
  BY <1>1, <1>2, <1>3, PTL DEF Spec

-----------------------------------------------------------------------------
(* The name of a file that is taken up.                                      *)

LEMMA PlacesAreFinite ==
    ASSUME NEW T, NEW s \in Seq(T), NEW P \in SUBSET (1..Len(s))
    PROVE  IsFiniteSet(P) /\ P \in SUBSET Int
<1>1. Len(s) \in Nat
  OBVIOUS
<1>2. IsFiniteSet(1..Len(s)) /\ P \in SUBSET Int
  BY <1>1, FS_Interval
<1>3. IsFiniteSet(P)
  BY <1>2, FS_Subset
<1> QED
  BY <1>2, <1>3

LEMMA LastSegmentOfWords ==
    ASSUME NEW T, NEW s \in Seq(T) PROVE LastSegment(s) \in Seq(T)
<1> DEFINE slashes == {i \in DOMAIN s : s[i] = Slash}
           a == Max({0} \cup slashes)
<1>1. Len(s) \in Nat /\ DOMAIN s = 1..Len(s)
  OBVIOUS
<1>2. slashes \subseteq 1..Len(s)
  BY <1>1
<1>3. IsFiniteSet({0} \cup slashes) /\ {0} \cup slashes \in SUBSET Int /\ {0} \cup slashes # {}
  <2>1. IsFiniteSet(slashes)
    <3> HIDE DEF slashes
    <3> QED
      BY <1>2, PlacesAreFinite
  <2>2. {0} \cup slashes = slashes \cup {0}
    OBVIOUS
  <2> HIDE DEF slashes
  <2>3. IsFiniteSet(slashes \cup {0})
    BY <2>1, FS_AddElement
  <2>4. slashes \cup {0} \in SUBSET Int
    BY <1>1, <1>2
  <2> QED
    BY <2>2, <2>3, <2>4
<1>4. a \in {0} \cup slashes
  <2> HIDE DEF slashes
  <2> QED
    BY <1>3, Extremes
<1>5. a \in 0..Len(s)
  BY <1>1, <1>2, <1>4
<1> HIDE DEF a
<1>6. \A i \in (a + 1)..Len(s) : s[i] \in T
  BY <1>1, <1>5
<1>7. SubSeq(s, a + 1, Len(s)) \in Seq(T)
  BY <1>1, <1>5, <1>6, SubSeqProperties
<1> QED
  BY <1>7 DEF LastSegment, a

LEMMA StrippedOfWords ==
    ASSUME NEW T, NEW s \in Seq(T) PROVE Stripped(s) \in Seq(T)
<1> DEFINE kept == {i \in DOMAIN s : s[i] \notin {".", Underscore}}
<1>1. Len(s) \in Nat /\ DOMAIN s = 1..Len(s)
  OBVIOUS
<1>2. kept \subseteq 1..Len(s)
  BY <1>1
<1>3. CASE kept = {}
  <2>1. Stripped(s) = <<>>
    BY <1>3 DEF Stripped
  <2> QED
    BY <2>1
<1>4. CASE kept # {}
  <2>1. IsFiniteSet(kept) /\ kept \in SUBSET Int
    <3> HIDE DEF kept
    <3> QED
      BY <1>2, PlacesAreFinite
  <2> DEFINE a == Min(kept)
             b == Max(kept)
  <2>2. a \in kept /\ b \in kept
    <3> HIDE DEF kept
    <3> QED
      BY <1>4, <2>1, Extremes
  <2>3. a \in 1..Len(s) /\ b \in 1..Len(s)
    BY <1>2, <2>2
  <2>4. Stripped(s) = SubSeq(s, a, b)
    BY <1>4 DEF Stripped
  <2> HIDE DEF a, b
  <2>5. \A i \in a..b : s[i] \in T
    BY <1>1, <2>3
  <2>6. SubSeq(s, a, b) \in Seq(T)
    BY <2>3, <2>5, SubSeqProperties
  <2> QED
    BY <2>4, <2>6
<1> QED
  BY <1>3, <1>4

(* What is safe to use as a name, of a name.                                *)
Safe(s) == Stripped(ReplaceAll(LastSegment(s), Unsafe, Underscore))

LEMMA SafeOfWords ==
    ASSUME NEW T, Underscore \in T, NEW s \in Seq(T) PROVE Safe(s) \in Seq(T)
<1> DEFINE t == LastSegment(s)
           u == ReplaceAll(t, Unsafe, Underscore)
<1>1. t \in Seq(T)
  BY LastSegmentOfWords
<1> HIDE DEF t
<1>2. Len(t) \in Nat
  BY <1>1, LenProperties
<1>3. \A i \in 1..Len(t) : t[i] \in T
  BY <1>1, ElementOfSeq
<1>4. u = [i \in 1..Len(t) |-> IF t[i] = Unsafe THEN Underscore ELSE t[i]]
  BY DEF ReplaceAll
<1>5. u \in Seq(T)
  <2>1. \A i \in 1..Len(t) : (IF t[i] = Unsafe THEN Underscore ELSE t[i]) \in T
    BY <1>3
  <2>2. u \in [1..Len(t) -> T]
    BY <1>4, <2>1
  <2> HIDE DEF u
  <2> QED
    BY <1>2, <2>2
<1> HIDE DEF u
<1> QED
  BY <1>5, StrippedOfWords DEF Safe, u, t

(* A resource with a name of its own, and no dot in it, gets a name without *)
(* one.                                                                     *)
LEMMA OwnNameIsPlain ==
    ASSUME NEW T, Underscore \in T, NEW r, Named(r), r.name \in Seq(T), r.url.path \in Seq(T), NEW fallback
    PROVE  LET name == SafeFilename(r.name, UrlFilename(r.url, fallback))
           IN  name \in Seq(T) /\ name # <<>>
<1>1. Safe(r.name) \in Seq(T)
  BY SafeOfWords
<1>2. Safe(LastSegment(r.url.path)) \in Seq(T)
  <2>1. LastSegment(r.url.path) \in Seq(T)
    BY LastSegmentOfWords
  <2> QED
    BY <2>1, SafeOfWords
<1>3. \A z, f : SafeFilename(z, f) = IF Safe(z) = <<>> THEN f ELSE Safe(z)
  BY DEF SafeFilename, Safe
<1>4. \A f : UrlFilename(r.url, f) = SafeFilename(LastSegment(r.url.path), f)
  BY DEF UrlFilename
<1>5. Safe(r.name) # <<>> \/ Safe(LastSegment(r.url.path)) # <<>>
  BY <1>3, <1>4 DEF Named
<1> QED
  BY <1>1, <1>2, <1>3, <1>4, <1>5

LEMMA OnlyIsLast == \A x \in Int : Max({x}) = x /\ Min({x}) = x
<1> SUFFICES ASSUME NEW x \in Int PROVE Max({x}) = x /\ Min({x}) = x
  OBVIOUS
<1>1. Max({x}) \in {x} /\ Min({x}) \in {x}
  <2>1. IsFiniteSet({x}) /\ {x} \in SUBSET Int /\ {x} # {}
    BY FS_Singleton
  <2> QED
    BY <2>1, Extremes
<1> QED
  BY <1>1

LEMMA WordIsSafe ==
    ASSUME NEW T, NEW s \in Seq(T), Len(s) = 1, s[1] \notin {Slash, Unsafe, ".", Underscore}
    PROVE  Safe(s) = s
<1>1. DOMAIN s = {1} /\ s = [i \in {1} |-> s[i]] /\ 1..Len(s) = {1}
  <2>1. s \in [1..1 -> T] /\ DOMAIN s = 1..1
    BY LenProperties
  <2>2. 1..1 = {1}
    OBVIOUS
  <2> QED
    BY <2>1, <2>2
<1>2. SubSeq(s, 1, 1) = s
  BY SubSeqFull
<1>3. LastSegment(s) = s
  <2>1. {0} \cup {i \in DOMAIN s : s[i] = Slash} = {0}
    BY <1>1
  <2>2. Max({0}) = 0
    BY OnlyIsLast
  <2>3. Max({0} \cup {i \in DOMAIN s : s[i] = Slash}) = 0
    BY <2>1, <2>2
  <2> QED
    <3>1. LastSegment(s) = SubSeq(s, 0 + 1, Len(s))
      BY <2>3 DEF LastSegment
    <3> QED
      BY <1>2, <3>1
<1>4. ReplaceAll(s, Unsafe, Underscore) = s
  BY <1>1 DEF ReplaceAll
<1>5. Stripped(s) = s
  <2> DEFINE kept == {i \in DOMAIN s : s[i] \notin {".", Underscore}}
  <2>1. kept = {1}
    <3>1. s[1] \notin {".", Underscore}
      OBVIOUS
    <3> QED
      BY <1>1, <3>1
  <2>2. Max({1}) = 1 /\ Min({1}) = 1
    BY OnlyIsLast
  <2>3. Stripped(s) = SubSeq(s, Min(kept), Max(kept))
    BY <2>1 DEF Stripped
  <2> QED
    BY <1>2, <2>1, <2>2, <2>3
<1> QED
  BY <1>3, <1>4, <1>5 DEF Safe

(* What follows the dot that is put behind a name is its suffix.            *)
LEMMA SuffixIsRead ==
    ASSUME NEW T, NEW name \in Seq(T), name # <<>>, NEW e, e # "."
    PROVE  Suffix(name \o <<".">> \o <<e>>) = <<e>>
<1> DEFINE n == Len(name)
           full == name \o <<".">> \o <<e>>
           dots == {i \in DOMAIN full : full[i] = "." /\ i > 1}
<1>1. n \in Nat /\ n >= 1
  OBVIOUS
<1>2. DOMAIN full = 1..(n + 2) /\ Len(full) = n + 2 /\ full[n + 1] = "." /\ full[n + 2] = e
  OBVIOUS
<1>3. full \in Seq(T \cup {".", e})
  OBVIOUS
<1> HIDE DEF n, full
<1>4. n + 1 \in dots /\ \A i \in dots : i \in Int /\ n + 1 >= i
  BY <1>1, <1>2
<1>5. Max(dots) = n + 1
  <2>1. dots \in SUBSET Int
    BY <1>4
  <2> HIDE DEF dots
  <2> QED
    BY <1>4, <2>1, LargestIs
<1>6. Suffix(full) = SubSeq(full, n + 2, n + 2)
  <2>1. (n + 1) + 1 = n + 2
    BY <1>1
  <2> QED
    BY <1>2, <1>4, <1>5, <2>1 DEF Suffix
<1>7. SubSeq(full, n + 2, n + 2) = <<e>>
  <2>1. \A i \in (n + 2)..(n + 2) : full[i] \in {e}
    BY <1>1, <1>2
  <2>2. /\ SubSeq(full, n + 2, n + 2) \in Seq({e})
        /\ Len(SubSeq(full, n + 2, n + 2)) = 1
    BY <1>1, <2>1, SubSeqProperties
  <2> DEFINE t == SubSeq(full, n + 2, n + 2)
  <2>3. t \in Seq({e}) /\ Len(t) = 1
    BY <2>2
  <2> HIDE DEF t
  <2>4. t \in [1..1 -> {e}]
    BY <2>3, LenProperties
  <2>5. t = <<e>>
    BY <2>4
  <2> QED
    BY <2>5 DEF t
<1> QED
  BY <1>6, <1>7 DEF full

(* The words of a name without a dot.                                       *)
Undotted == (DOMAIN LowerCase \cup {Underscore}) \ {"."}

LEMMA UnderscoreIsUndotted == Underscore \in Undotted
<1>1. Underscore # "."
  BY DEF Underscore
<1> QED
  BY <1>1 DEF Undotted

LEMMA UndottedNames ==
    ASSUME NEW s \in Seq(DOMAIN LowerCase), "." \notin ToSet(s) PROVE s \in Seq(Undotted)
<1>1. Len(s) \in Nat /\ DOMAIN s = 1..Len(s) /\ s \in [1..Len(s) -> DOMAIN LowerCase]
  BY LenProperties
<1>2. \A i \in 1..Len(s) : s[i] \in DOMAIN LowerCase /\ s[i] # "."
  BY <1>1 DEF ToSet
<1>3. \A i \in 1..Len(s) : s[i] \in Undotted
  BY <1>2 DEF Undotted
<1>4. s \in [1..Len(s) -> Undotted]
  BY <1>1, <1>3
<1> QED
  BY <1>1, <1>4

Extensions == {"kml", "geojson", "json"}

LEMMA ExtensionsAreWords ==
    ASSUME NEW t \in VectorSuffixes
    PROVE  \E e \in Extensions : t = <<e>> /\ e # "." /\ Safe(t) = t
<1>1. PICK e \in Extensions : t = <<e>>
  BY DEF VectorSuffixes, Extensions
<1>2. e # Slash
  BY DEF Extensions, Slash
<1>3. e # Unsafe
  BY DEF Extensions, Unsafe
<1>4. e # Underscore
  BY DEF Extensions, Underscore
<1>5. e # "."
  BY DEF Extensions
<1>6. t \in Seq(Extensions) /\ Len(t) = 1 /\ t[1] = e
  BY <1>1
<1>7. Safe(t) = t
  BY <1>2, <1>3, <1>4, <1>5, <1>6, WordIsSafe
<1> QED
  BY <1>1, <1>5, <1>7

(* A resource that a plain name and a vector format describe.               *)
IsPlain(r) ==
    /\ r.format \in VectorFormats /\ Named(r)
    /\ "." \notin ToSet(r.name) \cup ToSet(r.url.path)

LEMMA PlainIsTakenUp ==
    ASSUME NEW r, IsPlain(r), r.name \in Seq(DOMAIN LowerCase), r.url.path \in Seq(DOMAIN LowerCase),
           NEW i
    PROVE  Suffix(ResourceName(r, i)) \in VectorSuffixes
<1> DEFINE fallback == <<"resource-", ToString(i - 1)>>
           name == SafeFilename(r.name, UrlFilename(r.url, fallback))
           t == Lower(r.format)
<1>1. r.name \in Seq(Undotted) /\ r.url.path \in Seq(Undotted)
  BY UndottedNames DEF IsPlain
<1>2. Named(r) /\ r.format \in VectorFormats
  BY DEF IsPlain
<1> HIDE DEF fallback
<1>3. name \in Seq(Undotted) /\ name # <<>>
  BY <1>1, <1>2, UnderscoreIsUndotted, OwnNameIsPlain
<1>4. t \in VectorSuffixes
  BY <1>2, CatalogueAssumption DEF CatalogueAssumption
<1>5. ResourceName(r, i) = WithExtension(name, r.format)
  BY DEF ResourceName, fallback
<1> HIDE DEF name
<1>6. PICK e \in Extensions : t = <<e>> /\ e # "." /\ Safe(t) = t
  BY <1>4, ExtensionsAreWords
<1>7. r.format # <<>>
  <2>1. DOMAIN t = DOMAIN r.format
    BY DEF Lower
  <2>2. DOMAIN <<e>> # {}
    <3>1. DOMAIN <<e>> = 1..1 /\ 1 \in 1..1
      OBVIOUS
    <3> QED
      BY <3>1
  <2>3. DOMAIN t # {}
    BY <1>6, <2>2
  <2>4. \A s : s = <<>> => DOMAIN s = {}
    OBVIOUS
  <2> QED
    BY <2>1, <2>3, <2>4
<1>8. "." \notin ToSet(name)
  <2>1. \A k \in DOMAIN name : name[k] \in Undotted
    BY <1>3
  <2> QED
    BY <2>1 DEF ToSet, Undotted
<1>9. SafeFilename(t, <<"bin">>) = <<e>>
  <2>1. <<e>> # <<>>
    OBVIOUS
  <2>2. SafeFilename(t, <<"bin">>) = IF Safe(t) = <<>> THEN <<"bin">> ELSE Safe(t)
    BY DEF SafeFilename, Safe
  <2> QED
    BY <1>6, <2>1, <2>2
<1>10. ResourceName(r, i) = name \o <<".">> \o <<e>>
  BY <1>5, <1>7, <1>8, <1>9 DEF WithExtension
<1>11. Suffix(ResourceName(r, i)) = <<e>>
  BY <1>3, <1>6, <1>10, SuffixIsRead
<1> QED
  BY <1>4, <1>6, <1>11

-----------------------------------------------------------------------------
(* The seeds.                                                                *)

CoreSlug(category) ==
    CASE category = "WARD_BOUNDARY" -> "wards"
      [] category = "CATCHMENT" -> "microwatersheds"
      [] category = "WATER_BODY" -> "water_bodies"

LEMMA CoreSeeds ==
    ASSUME NEW category \in CoreCategories
    PROVE  LET slug == CoreSlug(category) IN
           slug \in Slugs /\ Seeds[slug] = Seeded(category, "CKAN")
<1> DEFINE slug == CoreSlug(category)
<1>1. slug \in DOMAIN OpenCity /\ OpenCity[slug] = Seeded(category, "CKAN")
  BY DEF CoreSlug, CoreCategories, OpenCity
<1>2. /\ slug \notin DOMAIN OpenStreetMap /\ slug \notin DOMAIN Satellites
      /\ slug \notin DOMAIN Weather /\ slug \notin DOMAIN Municipal /\ slug \notin DOMAIN RoadSpeeds
  BY DEF CoreSlug, CoreCategories, OpenStreetMap, Satellites, Weather, Municipal, RoadSpeeds
<1> HIDE DEF slug
<1>3. OpenCity \in Groups /\ slug \in Slugs
  BY <1>1 DEF Groups, Slugs
<1>4. \A group \in Groups : slug \in DOMAIN group => group = OpenCity
  BY <1>2 DEF Groups
<1>5. (CHOOSE group \in Groups : slug \in DOMAIN group) = OpenCity
  BY <1>1, <1>3, <1>4
<1>6. Seeds[slug] = OpenCity[slug]
  BY <1>3, <1>5 DEF Seeds
<1> QED
  BY <1>1, <1>3, <1>6 DEF slug

(* What None stands for, an error or a field without a value, is not a      *)
(* sequence.                                                                *)
NoneIsNoSequence == \A S : None \notin Seq(S)

LEMMA PlanIsSequence ==
    ASSUME NoneIsNoSequence, NEW S, NEW listing \in Seq(S), NEW endpoint, Packaged(endpoint),
           KeptPlaces(listing) # {}
    PROVE  /\ PlanCkan(endpoint, listing) # None
           /\ \A i \in KeptPlaces(listing) : RequestsOf(listing)[i] \in ToSet(PlanCkan(endpoint, listing))
<1> DEFINE P == KeptPlaces(listing)
           m == Cardinality(P)
           b == InPlace(P)
           w == RequestsOf(listing)
           v == PlanCkan(endpoint, listing)
<1>1. v = [k \in 1..m |-> LET i == b[k] IN Get(listing[i].url, ResourceName(listing[i], i))]
  BY DEF PlanCkan, Packaged, KeptPlaces
<1>2. \A i \in P : w[i] = Get(listing[i].url, ResourceName(listing[i], i))
  BY DEF RequestsOf
<1>3. IsFiniteSet(P) /\ P \in SUBSET Nat
  BY KeptIsFinite
<1> HIDE DEF P, b, w, v
<1>4. m \in Nat /\ b \in Bijection(1..m, P)
  BY <1>3, InPlaceIsBijection DEF b
<1>5. (\A k \in 1..m : b[k] \in P) /\ \A i \in P : \E k \in 1..m : b[k] = i
  BY <1>4, Fun_BijectionProperties
<1> HIDE DEF m
<1>6. DOMAIN v = 1..m /\ v = [k \in 1..m |-> v[k]]
  BY <1>1
<1>7. v \in Seq({v[k] : k \in 1..m})
  <2> DEFINE R == {v[k] : k \in 1..m}
  <2>1. \A k \in 1..m : v[k] \in R
    OBVIOUS
  <2> HIDE DEF R
  <2>2. v \in [1..m -> R]
    BY <1>6, <2>1
  <2>3. v \in Seq(R)
    BY <1>4, <2>2
  <2> QED
    BY <2>3 DEF R
<1>8. v # None
  BY <1>7 DEF NoneIsNoSequence
<1>9. \A i \in P : w[i] \in ToSet(v)
  BY <1>1, <1>2, <1>5, <1>6 DEF ToSet
<1> QED
  BY <1>8, <1>9 DEF v, w, P

LEMMA CoreIsRequested ==
    ASSUME NoneIsNoSequence, NEW category \in CoreCategories, NEW q, q.listing # None,
           NEW S, q.listing \in Seq(S), KeptPlaces(q.listing) # {}
    PROVE  LET slug == CoreSlug(category) IN
           /\ Packaged(Catalogued[slug])
           /\ Outcome(slug, q) = <<"requested", PlanCkan(Catalogued[slug], q.listing)>>
<1> DEFINE slug == CoreSlug(category)
           r == Registered(slug, q.environment)
           plan == PlanCkan(Catalogued[slug], q.listing)
<1>1. slug \in Slugs /\ Seeds[slug] = Seeded(category, "CKAN")
  BY CoreSeeds
<1> HIDE DEF slug
<1>2. Packaged(Catalogued[slug])
  <2>1. Seeds[slug].method = "CKAN"
    BY <1>1 DEF Seeded
  <2> QED
    BY <1>1, <2>1, CatalogueAssumption DEF CatalogueAssumption, Packaged
<1>3. plan # None
  BY <1>2, PlanIsSequence
<1>4. /\ r.method = "CKAN" /\ r.status = "AVAILABLE" /\ r.automation
      /\ r.access = "OPEN_AUTOMATED" /\ r.auth = "NONE"
  BY <1>1 DEF Registered, Seeded
<1>5. \A p : p.listing = q.listing => Plan("CKAN", Catalogued[slug], p) = plan
  BY DEF Plan
<1> HIDE DEF r, plan
<1>6. \A overpass : /\ Rules(q.authorized, q.pbf, overpass)!MethodSelected(r)
                    /\ Rules(q.authorized, q.pbf, overpass)!Permitted(r)
                    /\ Rules(q.authorized, q.pbf, overpass)!HeadersResolve(r)
  BY <1>4 DEF Rules!MethodSelected, Rules!Permitted, Rules!HeadersResolve
<1>7. Plan(r.method, Catalogued[slug], [listing |-> q.listing, query |-> q.query]) = plan
  BY <1>4, <1>5
<1>8. Outcome(slug, q) = <<"requested", plan>>
  BY <1>3, <1>6, <1>7 DEF Outcome, r
<1> QED
  BY <1>2, <1>8 DEF slug, plan

LEMMA CoreFileIsTakenUp ==
    ASSUME NoneIsNoSequence, NEW endpoint, Packaged(endpoint),
           NEW listing \in Listings \ {None},
           NEW r \in ToSet(listing), Downloadable(r), IsPlain(r)
    PROVE  \E f \in ToSet(PlanCkan(endpoint, listing)) :
               f.url = r.url.id /\ Suffix(f.filename) \in VectorSuffixes
<1> DEFINE R == [object : BOOLEAN,
                 url : {None} \cup [id : STRING, http : BOOLEAN, path : Seq(DOMAIN LowerCase)],
                 name : Seq(DOMAIN LowerCase), format : Seq(DOMAIN LowerCase)]
<1>1. listing \in Seq(R)
  BY PlanningAssumption DEF PlanningAssumption
<1>2. PICK i \in DOMAIN listing : r = listing[i]
  BY DEF ToSet
<1> HIDE DEF R
<1>3. r \in R
  BY <1>1, <1>2
<1>4. r.name \in Seq(DOMAIN LowerCase) /\ r.url.path \in Seq(DOMAIN LowerCase)
  BY <1>3 DEF R, Downloadable
<1>5. i \in KeptPlaces(listing)
  BY <1>2 DEF KeptPlaces
<1>6. RequestsOf(listing)[i] \in ToSet(PlanCkan(endpoint, listing))
  BY <1>1, <1>5, PlanIsSequence
<1>7. RequestsOf(listing)[i] = Get(r.url, ResourceName(r, i))
  BY <1>2, <1>5 DEF RequestsOf
<1>8. Suffix(ResourceName(r, i)) \in VectorSuffixes
  BY <1>4, PlainIsTakenUp
<1> DEFINE f == Get(r.url, ResourceName(r, i))
<1>9. f.url = r.url.id /\ f.filename = ResourceName(r, i)
  BY DEF Get
<1> QED
  BY <1>6, <1>7, <1>8, <1>9

LEMMA CoreCategoryIsServed ==
    ASSUME NoneIsNoSequence, NEW category \in CoreCategories,
           NEW q, q.listing \in Listings
    PROVE  LET slug == CoreSlug(category)
               listed == IF q.listing = None THEN {}
                         ELSE {r \in ToSet(q.listing) : Downloadable(r)}
           IN  /\ slug \in Slugs /\ Seeds[slug].category = category
               /\ listed # {} => Outcome(slug, q)[1] = "requested"
               /\ \A r \in listed : IsPlain(r) =>
                      \E f \in ToSet(Outcome(slug, q)[2]) :
                          f.url = r.url.id /\ Suffix(f.filename) \in VectorSuffixes
<1> DEFINE slug == CoreSlug(category)
           listed == IF q.listing = None THEN {}
                     ELSE {r \in ToSet(q.listing) : Downloadable(r)}
           plan == PlanCkan(Catalogued[slug], q.listing)
<1>1. slug \in Slugs /\ Seeds[slug].category = category
  <2>1. slug \in Slugs /\ Seeds[slug] = Seeded(category, "CKAN")
    BY CoreSeeds
  <2> QED
    BY <2>1 DEF Seeded
<1>2. CASE listed = {}
  BY <1>1, <1>2
<1>3. CASE listed # {}
  <2>1. q.listing # None /\ \E r \in ToSet(q.listing) : Downloadable(r)
    BY <1>3
  <2>2. PICK S : q.listing \in Seq(S)
    BY <2>1, PlanningAssumption DEF PlanningAssumption
  <2>3. KeptPlaces(q.listing) # {}
    BY <2>1 DEF KeptPlaces, ToSet
  <2>4. Packaged(Catalogued[slug]) /\ Outcome(slug, q) = <<"requested", plan>>
    BY <2>1, <2>2, <2>3, CoreIsRequested
  <2>5. q.listing \in Listings \ {None}
    BY <2>1
  <2>6. \A r \in listed : r \in ToSet(q.listing) /\ Downloadable(r)
    BY <2>1
  <2> HIDE DEF slug, listed
  <2>7. ASSUME NEW r \in listed, IsPlain(r)
        PROVE  \E f \in ToSet(plan) : f.url = r.url.id /\ Suffix(f.filename) \in VectorSuffixes
    BY <2>4, <2>5, <2>6, <2>7, CoreFileIsTakenUp
  <2> HIDE DEF plan
  <2>8. Outcome(slug, q)[1] = "requested" /\ Outcome(slug, q)[2] = plan
    BY <2>4
  <2>9. \A r \in listed : IsPlain(r) =>
            \E f \in ToSet(Outcome(slug, q)[2]) :
                f.url = r.url.id /\ Suffix(f.filename) \in VectorSuffixes
    BY <2>7, <2>8
  <2> QED
    BY <1>1, <2>8, <2>9 DEF slug, listed
<1> QED
  BY <1>2, <1>3

(* Under any options, the job requests a source of every core category when *)
(* its catalogue lists something to download, and a file that is listed in  *)
(* a vector format by a name without a dot gets a suffix by which the       *)
(* normalizer takes it up (seed.py:96-160, acquisition.py:236-254,          *)
(* spatial/service.py:162).                                                 *)
THEOREM CategoriesAreServed ==
    NoneIsNoSequence => (Spec => []CoreCategoriesAreServed)
<1> SUFFICES ASSUME NoneIsNoSequence PROVE Spec => []CoreCategoriesAreServed
  OBVIOUS
<1>1. Init => CoreCategoriesAreServed
  BY DEF Init, NoCall, CoreCategoriesAreServed, Answered
<1>2. ASSUME CallBootstrap PROVE CoreCategoriesAreServed'
  <2> DEFINE Asking(authorized, pbf, environment, listing, query) ==
                 [call |-> "bootstrap", authorized |-> authorized, pbf |-> pbf,
                  environment |-> environment, listing |-> listing, query |-> query]
             Made(q) == Answer(q, TRUE, [s \in Slugs |-> Outcome(s, q)])
  <2>1. \E authorized, pbf \in BOOLEAN, environment \in Environments, listing \in Listings,
           query \in {t \in Queries : t = None \/ t.kind = "text"} :
               Made(Asking(authorized, pbf, environment, listing, query))
    BY <1>2, Zenon DEF CallBootstrap
  <2>2. \A authorized, pbf, environment, listing, query :
            Asking(authorized, pbf, environment, listing, query).listing = listing
    OBVIOUS
  <2>3. PICK q : q.listing \in Listings /\ Made(q)
    <3> HIDE DEF Made, Asking
    <3> QED
      BY <2>1, <2>2
  <2>4. request' = q /\ answer' = [s \in Slugs |-> Outcome(s, q)]
    BY <2>3 DEF Answer
  <2> DEFINE listed == IF q.listing = None THEN {}
                       ELSE {r \in ToSet(q.listing) : Downloadable(r)}
  <2>5. ASSUME NEW category \in CoreCategories
        PROVE  \E slug \in Slugs :
                   /\ Seeds[slug].category = category
                   /\ listed # {} => answer'[slug][1] = "requested"
                   /\ \A r \in listed : IsPlain(r) =>
                          \E f \in ToSet(answer'[slug][2]) :
                              f.url = r.url.id /\ Suffix(f.filename) \in VectorSuffixes
    <3> DEFINE slug == CoreSlug(category)
    <3>1. /\ slug \in Slugs /\ Seeds[slug].category = category
          /\ listed # {} => Outcome(slug, q)[1] = "requested"
          /\ \A r \in listed : IsPlain(r) =>
                 \E f \in ToSet(Outcome(slug, q)[2]) :
                     f.url = r.url.id /\ Suffix(f.filename) \in VectorSuffixes
      BY <2>3, CoreCategoryIsServed
    <3> HIDE DEF slug, listed
    <3>2. answer'[slug] = Outcome(slug, q)
      BY <2>4, <3>1
    <3> QED
      BY <3>1, <3>2
  <2> QED
    BY <2>4, <2>5 DEF CoreCategoriesAreServed, IsPlain
<1>3. ASSUME CoreCategoriesAreServed, [Next]_<<calls, drawing>>, ~CallBootstrap PROVE CoreCategoriesAreServed'
  <2>1. UNCHANGED calls \/ request'.call # "bootstrap"
    BY <1>3, OneCall
  <2>2. CASE UNCHANGED calls
    BY <1>3, <2>2 DEF CoreCategoriesAreServed, Answered, calls
  <2>3. CASE request'.call # "bootstrap"
    BY <2>3 DEF CoreCategoriesAreServed, Answered
  <2> QED
    BY <2>1, <2>2, <2>3
<1> QED
  BY <1>1, <1>2, <1>3, PTL DEF Spec
=============================================================================
