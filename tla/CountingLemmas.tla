---------------------------- MODULE CountingLemmas ----------------------------
(*****************************************************************************)
(* Sums of functions over finite sets (SumFunctionOnSet of the community     *)
(* modules): that the sum exists, does not depend on the order of addition,  *)
(* and how it changes with the function.                                     *)
(*                                                                           *)
(* SumFunctionOnSet is a CHOOSE of a function that satisfies a recursive     *)
(* equation, so each fact needs an induction on the set. Instead of an       *)
(* induction theorem the proofs take, among the subsets that contradict the  *)
(* fact, one that has no smaller one inside (SmallestSubset), and derive a   *)
(* smaller one.                                                              *)
(*                                                                           *)
(* Then the inductions that the proofs about folds over a sequence and about *)
(* functions defined by recursion take: on a finite set of numbers without   *)
(* its last one and from a number to the next, each on a set Good of which   *)
(* the fact is the membership; and that a fold (FoldExists) and a recursion  *)
(* (RecursionExists) have a solution, whatever the step.                     *)
(*****************************************************************************)
EXTENDS Functions, FiniteSetTheorems, TLAPS

(* The element the fold takes out first, and its recursive equation. *)
First(S) == CHOOSE x \in S : TRUE
SumStep(f, g, S) == IF S = {} THEN 0 ELSE f[First(S)] + g[S \ {First(S)}]

(* The induction: of the subsets of S in T, one has no other inside. *)
LEMMA SmallestSubset ==
  ASSUME NEW S, IsFiniteSet(S), NEW T, T \subseteq SUBSET S, T # {}
  PROVE  \E U \in T : \A V \in T : V \subseteq U => V = U
<1>1. FiniteSubsetsOf(S) = SUBSET S
  BY FS_FiniteSubsetsOfFinite
<1>2. IsWellFoundedOn(StrictSubsetOrdering(S), SUBSET S)
  BY <1>1, FS_StrictSubsetOrderingWellFounded
<1>3. PICK U \in T : \A V \in T : <<V, U>> \notin StrictSubsetOrdering(S)
  BY <1>2, WFMin
<1>4. ASSUME NEW V \in T, V \subseteq U, V # U PROVE FALSE
  <2>1. <<V, U>> \in StrictSubsetOrdering(S)
    BY <1>4 DEF StrictSubsetOrdering
  <2> QED BY <2>1, <1>3
<1> QED BY <1>4

LEMMA FirstIsIn == ASSUME NEW S, S # {} PROVE First(S) \in S
  BY DEF First

(* Two functions that satisfy the recursive equation agree. *)
LEMMA SumFunctionsAgree ==
  ASSUME NEW S, IsFiniteSet(S), NEW f, NEW g, NEW h,
         \A T \in SUBSET S : g[T] = SumStep(f, g, T) /\ h[T] = SumStep(f, h, T)
  PROVE  g[S] = h[S]
<1> DEFINE Bad == {T \in SUBSET S : g[T] # h[T]}
<1> SUFFICES ASSUME Bad # {} PROVE FALSE
  BY DEF Bad
<1>0. Bad \subseteq SUBSET S
  OBVIOUS
<1>1. PICK T \in Bad : \A V \in Bad : V \subseteq T => V = T
  <2> HIDE DEF Bad
  <2> QED BY <1>0, SmallestSubset
<1>2. CASE T = {}
  BY <1>2, <1>1 DEF SumStep
<1>3. CASE T # {}
  <2>1. First(T) \in T /\ T \ {First(T)} \in SUBSET S
    BY <1>3, FirstIsIn
  <2>2. g[T \ {First(T)}] = h[T \ {First(T)}]
    BY <2>1, <1>1
  <2> QED BY <2>2, <1>1, <1>3 DEF SumStep
<1> QED BY <1>2, <1>3

(* g gives the sums of f over the subsets of S. *)
IsSum(f, S, g) == g = [T \in SUBSET S |-> SumStep(f, g, T)]

LEMMA SumIsFunction ==
  ASSUME NEW f, NEW S
  PROVE  SumFunctionOnSet(f, S) = (CHOOSE g : IsSum(f, S, g))[S]
  BY DEF SumFunctionOnSet, FoldFunctionOnSet, MapThenFoldSet, SumStep, First, IsSum

LEMMA FunctionGivesSum ==
  ASSUME NEW f, NEW S, \E g : IsSum(f, S, g)
  PROVE  \E g : IsSum(f, S, g) /\ SumFunctionOnSet(f, S) = g[S]
<1> DEFINE c == CHOOSE g : IsSum(f, S, g)
<1>1. IsSum(f, S, c)
  OBVIOUS
<1>2. SumFunctionOnSet(f, S) = c[S]
  BY SumIsFunction
<1> QED BY <1>1, <1>2

LEMMA SumSteps ==
  ASSUME NEW f, NEW S, NEW g, IsSum(f, S, g)
  PROVE  \A T \in SUBSET S : g[T] = SumStep(f, g, T)
<1> SUFFICES ASSUME NEW T \in SUBSET S PROVE g[T] = SumStep(f, g, T)
  OBVIOUS
<1> DEFINE F(x) == SumStep(f, g, x)
<1> HIDE DEF F
<1>1. g = [x \in SUBSET S |-> F(x)]
  BY DEF IsSum, F
<1>2. g[T] = F(T)
  BY <1>1
<1> QED BY <1>2 DEF F

(* There is such a function: a smallest set without one would get it from     *)
(* those of its subsets.                                                      *)
LEMMA SumFunctionExists ==
  ASSUME NEW f, NEW S, IsFiniteSet(S)
  PROVE  \E g : IsSum(f, S, g)
<1> DEFINE Bad == {T \in SUBSET S : ~ \E g : IsSum(f, T, g)}
<1> SUFFICES ASSUME Bad # {} PROVE FALSE
  BY DEF Bad
<1>0. Bad \subseteq SUBSET S
  OBVIOUS
<1>1. PICK T \in Bad : \A V \in Bad : V \subseteq T => V = T
  <2> HIDE DEF Bad
  <2> QED BY <1>0, SmallestSubset
<1>2. IsFiniteSet(T)
  BY <1>0, FS_Subset
<1> DEFINE Sum(U) == SumFunctionOnSet(f, U)
           G == [U \in SUBSET T |-> IF U = {} THEN 0 ELSE f[First(U)] + Sum(U \ {First(U)})]
<1> HIDE DEF Sum
<1>3. ASSUME NEW U \in SUBSET T, U # T PROVE
         \E g : IsSum(f, U, g) /\ Sum(U) = g[U]
  <2>1. U \notin Bad /\ U \in SUBSET S
    BY <1>3, <1>1, <1>0
  <2> QED BY <2>1, FunctionGivesSum DEF Sum
<1>4. ASSUME NEW U \in SUBSET T, U # T, U # {} PROVE Sum(U) = f[First(U)] + Sum(U \ {First(U)})
  <2>1. PICK g : IsSum(f, U, g) /\ Sum(U) = g[U]
    BY <1>3, <1>4
  <2>a. First(U) \in U
    BY <1>4, FirstIsIn
  <2> DEFINE V == U \ {First(U)}
  <2>2. V \in SUBSET T /\ V # T /\ IsFiniteSet(V) /\ V \in SUBSET U
    BY <1>2, <2>a, FS_Subset
  <2>3. PICK h : IsSum(f, V, h) /\ Sum(V) = h[V]
    BY <1>3, <2>2
  <2>4. \A W \in SUBSET V : g[W] = SumStep(f, g, W) /\ h[W] = SumStep(f, h, W)
    <3>1. \A W \in SUBSET U : g[W] = SumStep(f, g, W)
      BY <2>1, SumSteps
    <3>2. \A W \in SUBSET V : h[W] = SumStep(f, h, W)
      BY <2>3, SumSteps
    <3> QED BY <3>1, <3>2, <2>2
  <2>5. g[V] = h[V]
    BY <2>2, <2>4, SumFunctionsAgree
  <2>6. g[U] = SumStep(f, g, U)
    BY <2>1, SumSteps
  <2> QED BY <2>1, <2>3, <2>5, <2>6, <1>4 DEF SumStep
<1>5. Sum({}) = 0 \/ T = {}
  <2> SUFFICES ASSUME T # {} PROVE Sum({}) = 0
    OBVIOUS
  <2>1. PICK g : IsSum(f, {}, g) /\ Sum({}) = g[{}]
    BY <1>3
  <2>2. g[{}] = SumStep(f, g, {})
    BY <2>1, SumSteps
  <2> QED BY <2>1, <2>2 DEF SumStep
<1>6. \A U \in SUBSET T : U # {} => First(U) \in U /\ U \ {First(U)} \in SUBSET T /\ U \ {First(U)} # T
  BY FirstIsIn
<1>7. \A V \in SUBSET T : V # T => G[V] = Sum(V)
  BY <1>4, <1>5, <1>6
<1>8. \A U \in SUBSET T : G[U] = SumStep(f, G, U)
  <2> SUFFICES ASSUME NEW U \in SUBSET T PROVE G[U] = SumStep(f, G, U)
    OBVIOUS
  <2>1. CASE U = {}
    BY <2>1 DEF SumStep
  <2>2. CASE U # {}
    <3>1. G[U \ {First(U)}] = Sum(U \ {First(U)})
      BY <1>6, <1>7, <2>2
    <3>2. G[U] = f[First(U)] + Sum(U \ {First(U)})
      BY <2>2
    <3> HIDE DEF G
    <3> QED BY <3>1, <3>2, <2>2 DEF SumStep
  <2> QED BY <2>1, <2>2
<1>9. IsSum(f, T, G)
  <2> DEFINE F(x) == SumStep(f, G, x)
  <2>1. \A U \in SUBSET T : G[U] = F(U)
    BY <1>8
  <2>2. G = [U \in SUBSET T |-> G[U]]
    OBVIOUS
  <2> HIDE DEF F, G
  <2>3. G = [U \in SUBSET T |-> F(U)]
    BY <2>1, <2>2
  <2> QED BY <2>3 DEF IsSum, F
<1> QED BY <1>9, <1>1

(* The recursive equation, for the sum itself. *)
LEMMA SumUnfolds ==
  ASSUME NEW f, NEW S, IsFiniteSet(S)
  PROVE  SumFunctionOnSet(f, S) =
           IF S = {} THEN 0 ELSE f[First(S)] + SumFunctionOnSet(f, S \ {First(S)})
<1>1. PICK g : IsSum(f, S, g) /\ SumFunctionOnSet(f, S) = g[S]
  BY SumFunctionExists, FunctionGivesSum
<1>2. g[S] = SumStep(f, g, S)
  BY <1>1, SumSteps
<1> SUFFICES ASSUME S # {} PROVE SumFunctionOnSet(f, S \ {First(S)}) = g[S \ {First(S)}]
  BY <1>1, <1>2 DEF SumStep
<1> DEFINE V == S \ {First(S)}
<1>3. IsFiniteSet(V) /\ V \in SUBSET S
  BY FS_Subset
<1>4. PICK h : IsSum(f, V, h) /\ SumFunctionOnSet(f, V) = h[V]
  BY <1>3, SumFunctionExists, FunctionGivesSum
<1>5. \A W \in SUBSET V : g[W] = SumStep(f, g, W) /\ h[W] = SumStep(f, h, W)
  <2>1. \A W \in SUBSET S : g[W] = SumStep(f, g, W)
    BY <1>1, SumSteps
  <2>2. \A W \in SUBSET V : h[W] = SumStep(f, h, W)
    BY <1>4, SumSteps
  <2> QED BY <2>1, <2>2
<1>6. g[V] = h[V]
  <2> HIDE DEF V
  <2> QED BY <1>3, <1>5, SumFunctionsAgree
<1> QED BY <1>4, <1>6

LEMMA SumOfNone == ASSUME NEW f PROVE SumFunctionOnSet(f, {}) = 0
  BY SumUnfolds, FS_EmptySet

LEMMA SumIsInt ==
  ASSUME NEW S, IsFiniteSet(S), NEW f, \A x \in S : f[x] \in Int
  PROVE  SumFunctionOnSet(f, S) \in Int
<1> DEFINE Bad == {T \in SUBSET S : SumFunctionOnSet(f, T) \notin Int}
<1> SUFFICES ASSUME Bad # {} PROVE FALSE
  BY DEF Bad
<1>1. PICK T \in Bad : \A V \in Bad : V \subseteq T => V = T
  <2>1. Bad \subseteq SUBSET S
    OBVIOUS
  <2> HIDE DEF Bad
  <2> QED BY <2>1, SmallestSubset
<1>2. T # {} /\ IsFiniteSet(T) /\ T \in SUBSET S
  <2>1. SumFunctionOnSet(f, {}) \in Int
    BY SumOfNone
  <2>2. T \in SUBSET S /\ SumFunctionOnSet(f, T) \notin Int
    BY <1>1
  <2> QED BY <2>1, <2>2, FS_Subset
<1>3. First(T) \in T
  BY <1>2, FirstIsIn
<1>4. SumFunctionOnSet(f, T \ {First(T)}) \in Int
  BY <1>1, <1>2, <1>3
<1>5. SumFunctionOnSet(f, T) = f[First(T)] + SumFunctionOnSet(f, T \ {First(T)})
  BY <1>2, SumUnfolds
<1> QED BY <1>1, <1>2, <1>3, <1>4, <1>5

(* Any element may be taken out first. *)
LEMMA SumTakesOut ==
  ASSUME NEW S, IsFiniteSet(S), NEW f, \A x \in S : f[x] \in Int, NEW e \in S
  PROVE  SumFunctionOnSet(f, S) = f[e] + SumFunctionOnSet(f, S \ {e})
<1> DEFINE Splits(T, x) == SumFunctionOnSet(f, T) = f[x] + SumFunctionOnSet(f, T \ {x})
           Bad == {T \in SUBSET S : \E x \in T : ~Splits(T, x)}
<1> SUFFICES ASSUME Bad # {} PROVE FALSE
  BY DEF Bad
<1>1. PICK T \in Bad : \A V \in Bad : V \subseteq T => V = T
  <2>1. Bad \subseteq SUBSET S
    OBVIOUS
  <2> HIDE DEF Bad
  <2> QED BY <2>1, SmallestSubset
<1>2. PICK x \in T : ~Splits(T, x)
  OBVIOUS
<1>3. IsFiniteSet(T) /\ T \in SUBSET S /\ First(T) \in T
  BY FS_Subset, FirstIsIn
<1> DEFINE c == First(T)
           rest == SumFunctionOnSet(f, (T \ {c}) \ {x})
<1>4. SumFunctionOnSet(f, T) = f[c] + SumFunctionOnSet(f, T \ {c})
  BY <1>3, SumUnfolds
<1>5. c # x
  BY <1>2, <1>4
<1>6. SumFunctionOnSet(f, T \ {c}) = f[x] + rest
  <2>1. T \ {c} \in SUBSET S /\ T \ {c} # T /\ x \in T \ {c}
    BY <1>3, <1>5
  <2>2. Splits(T \ {c}, x)
    BY <2>1, <1>1
  <2> QED BY <2>2
<1>7. SumFunctionOnSet(f, T \ {x}) = f[c] + rest
  <2>1. T \ {x} \in SUBSET S /\ T \ {x} # T /\ c \in T \ {x}
    BY <1>3, <1>5
  <2>2. Splits(T \ {x}, c)
    BY <2>1, <1>1
  <2>3. (T \ {x}) \ {c} = (T \ {c}) \ {x}
    OBVIOUS
  <2> QED BY <2>2, <2>3
<1>8. rest \in Int
  <2>1. IsFiniteSet((T \ {c}) \ {x}) /\ \A y \in (T \ {c}) \ {x} : f[y] \in Int
    BY <1>3, FS_Subset
  <2> QED BY <2>1, SumIsInt
<1>9. f[c] \in Int /\ f[x] \in Int
  BY <1>3
<1> HIDE DEF rest, c
<1>10. SumFunctionOnSet(f, T) = f[x] + SumFunctionOnSet(f, T \ {x})
  BY <1>4, <1>6, <1>7, <1>8, <1>9
<1> QED BY <1>10, <1>2

(* g is f with w added to it on R. *)
LEMMA SumOfRaised ==
  ASSUME NEW S, IsFiniteSet(S), NEW R \in SUBSET S, NEW f, NEW g, NEW w,
         \A x \in S : f[x] \in Int /\ w[x] \in Int,
         \A x \in S : g[x] = IF x \in R THEN f[x] + w[x] ELSE f[x]
  PROVE  SumFunctionOnSet(g, S) = SumFunctionOnSet(f, S) + SumFunctionOnSet(w, R)
<1> DEFINE Adds(T) == SumFunctionOnSet(g, T) = SumFunctionOnSet(f, T) + SumFunctionOnSet(w, T \cap R)
           Bad == {T \in SUBSET S : ~Adds(T)}
<1>0. SUFFICES ASSUME Bad # {} PROVE FALSE
  <2>1. S \cap R = R
    OBVIOUS
  <2> QED BY <2>1 DEF Bad
<1>1. PICK T \in Bad : \A V \in Bad : V \subseteq T => V = T
  <2>1. Bad \subseteq SUBSET S
    OBVIOUS
  <2> HIDE DEF Bad
  <2> QED BY <2>1, <1>0, SmallestSubset
<1>2. CASE T = {}
  <2>1. T \cap R = {}
    BY <1>2
  <2> QED BY <1>1, <1>2, <2>1, SumOfNone
<1>3. CASE T # {}
  <2>1. PICK x \in T : TRUE
    BY <1>3
  <2> DEFINE V == T \ {x}
  <2>2. V \in SUBSET S /\ V # T /\ IsFiniteSet(T) /\ IsFiniteSet(V)
    BY FS_Subset
  <2>3. Adds(V)
    BY <2>2, <1>1
  <2>4. SumFunctionOnSet(f, T) = f[x] + SumFunctionOnSet(f, V)
    BY <2>2, SumTakesOut
  <2>5. SumFunctionOnSet(g, T) = g[x] + SumFunctionOnSet(g, V)
    BY <2>2, SumTakesOut
  <2>6. IsFiniteSet(T \cap R) /\ IsFiniteSet(V \cap R)
    BY <2>2, FS_Intersection
  <2>7. SumFunctionOnSet(w, T \cap R) = IF x \in R THEN w[x] + SumFunctionOnSet(w, V \cap R)
                                                 ELSE SumFunctionOnSet(w, V \cap R)
    <3>1. CASE x \in R
      <4>1. V \cap R = (T \cap R) \ {x} /\ x \in T \cap R /\ \A y \in T \cap R : w[y] \in Int
        BY <3>1
      <4>2. SumFunctionOnSet(w, T \cap R) = w[x] + SumFunctionOnSet(w, (T \cap R) \ {x})
        BY <4>1, <2>6, SumTakesOut
      <4> QED BY <4>1, <4>2, <3>1
    <3>2. CASE x \notin R
      <4>1. V \cap R = T \cap R
        BY <3>2
      <4> QED BY <4>1, <3>2
    <3> QED BY <3>1, <3>2
  <2>8. /\ SumFunctionOnSet(f, V) \in Int
        /\ SumFunctionOnSet(w, V \cap R) \in Int
        /\ f[x] \in Int /\ w[x] \in Int
        /\ g[x] = IF x \in R THEN f[x] + w[x] ELSE f[x]
    BY <2>2, <2>6, SumIsInt
  <2> DEFINE a == SumFunctionOnSet(f, V)  b == SumFunctionOnSet(w, V \cap R)
             fx == f[x]  wx == w[x]
  <2>9. SumFunctionOnSet(g, V) = a + b
    BY <2>3
  <2>10. a \in Int /\ b \in Int /\ fx \in Int /\ wx \in Int
    BY <2>8
  <2>11. g[x] = IF x \in R THEN fx + wx ELSE fx
    BY <2>8
  <2>12. SumFunctionOnSet(f, T) = fx + a
    BY <2>4
  <2>13. SumFunctionOnSet(w, T \cap R) = IF x \in R THEN wx + b ELSE b
    BY <2>7
  <2> HIDE DEF a, b, fx, wx, V
  <2>14. Adds(T)
    BY <2>5, <2>9, <2>10, <2>11, <2>12, <2>13
  <2> QED BY <2>14, <1>1
<1> QED BY <1>2, <1>3

LEMMA SumOfSame ==
  ASSUME NEW S, IsFiniteSet(S), NEW f, NEW g,
         \A x \in S : f[x] \in Int /\ g[x] = f[x]
  PROVE  SumFunctionOnSet(g, S) = SumFunctionOnSet(f, S)
<1>1. SumFunctionOnSet(g, S) = SumFunctionOnSet(f, S) + SumFunctionOnSet(f, {})
  BY SumOfRaised
<1>2. SumFunctionOnSet(f, S) \in Int
  BY SumIsInt
<1> QED BY <1>1, <1>2, SumOfNone

LEMMA SumIsNat ==
  ASSUME NEW S, IsFiniteSet(S), NEW f, \A x \in S : f[x] \in Nat
  PROVE  SumFunctionOnSet(f, S) \in Nat
<1> DEFINE Bad == {T \in SUBSET S : SumFunctionOnSet(f, T) \notin Nat}
<1> SUFFICES ASSUME Bad # {} PROVE FALSE
  BY DEF Bad
<1>1. PICK T \in Bad : \A V \in Bad : V \subseteq T => V = T
  <2>1. Bad \subseteq SUBSET S
    OBVIOUS
  <2> HIDE DEF Bad
  <2> QED BY <2>1, SmallestSubset
<1>2. T \in SUBSET S /\ IsFiniteSet(T) /\ SumFunctionOnSet(f, T) \notin Nat
  BY <1>1, FS_Subset
<1>3. PICK e \in T : TRUE
  BY <1>2, SumOfNone
<1>4. T \ {e} \in SUBSET S /\ T \ {e} \subseteq T /\ T \ {e} # T
  BY <1>2, <1>3
<1>5. SumFunctionOnSet(f, T \ {e}) \in Nat
  BY <1>1, <1>4
<1>6. SumFunctionOnSet(f, T) = f[e] + SumFunctionOnSet(f, T \ {e})
  BY <1>2, SumTakesOut
<1>7. f[e] \in Nat
  BY <1>2
<1> QED BY <1>2, <1>5, <1>6, <1>7

(* What a part adds up to, with nothing negative, is at most the whole. *)
LEMMA SumOfPart ==
  ASSUME NEW S, IsFiniteSet(S), NEW f, \A x \in S : f[x] \in Nat, NEW A \in SUBSET S
  PROVE  /\ SumFunctionOnSet(f, A) \in Nat
         /\ SumFunctionOnSet(f, S) \in Nat
         /\ SumFunctionOnSet(f, A) <= SumFunctionOnSet(f, S)
<1> DEFINE rest == [x \in S |-> IF x \in A THEN 0 ELSE f[x]]
<1>1. /\ \A x \in S : rest[x] \in Nat
      /\ \A x \in S : rest[x] \in Int /\ f[x] \in Int
      /\ \A x \in S : f[x] = IF x \in A THEN rest[x] + f[x] ELSE rest[x]
  OBVIOUS
<1> HIDE DEF rest
<1>2. SumFunctionOnSet(f, S) = SumFunctionOnSet(rest, S) + SumFunctionOnSet(f, A)
  BY <1>1, SumOfRaised
<1>3. IsFiniteSet(A) /\ \A x \in A : f[x] \in Nat
  BY FS_Subset
<1>4. SumFunctionOnSet(rest, S) \in Nat /\ SumFunctionOnSet(f, A) \in Nat
  BY <1>1, <1>3, SumIsNat
<1> QED BY <1>2, <1>4

LEMMA SumOfZeros ==
  ASSUME NEW S, IsFiniteSet(S), NEW f, \A x \in S : f[x] = 0
  PROVE  SumFunctionOnSet(f, S) = 0
<1>0. /\ \A x \in S : f[x] \in Int
      /\ \A x \in S : f[x] = IF x \in S THEN f[x] + f[x] ELSE f[x]
      /\ S \in SUBSET S
  OBVIOUS
<1>1. SumFunctionOnSet(f, S) = SumFunctionOnSet(f, S) + SumFunctionOnSet(f, S)
  BY ONLY <1>0, IsFiniteSet(S), SumOfRaised
<1>2. SumFunctionOnSet(f, S) \in Int
  BY <1>0, SumIsInt
<1>3. \A n \in Int : n = n + n => n = 0
  OBVIOUS
<1> QED BY <1>1, <1>2, <1>3, Zenon

(* g is f except at e. *)
LEMMA SumOfChanged ==
  ASSUME NEW S, IsFiniteSet(S), NEW f, NEW g, NEW e \in S,
         \A x \in S : f[x] \in Int /\ g[x] \in Int /\ (x # e => g[x] = f[x])
  PROVE  SumFunctionOnSet(g, S) = SumFunctionOnSet(f, S) - f[e] + g[e]
<1>0. IsFiniteSet(S \ {e})
  BY FS_Subset
<1>1. SumFunctionOnSet(f, S) = f[e] + SumFunctionOnSet(f, S \ {e})
  BY SumTakesOut
<1>2. SumFunctionOnSet(g, S) = g[e] + SumFunctionOnSet(g, S \ {e})
  BY SumTakesOut
<1>3. SumFunctionOnSet(g, S \ {e}) = SumFunctionOnSet(f, S \ {e})
  BY <1>0, SumOfSame
<1>4. SumFunctionOnSet(f, S \ {e}) \in Int
  BY <1>0, SumIsInt
<1> QED BY <1>1, <1>2, <1>3, <1>4

-------------------------------------------------------------------------------
(* Counting. *)

(* The image of a finite set. *)
LEMMA ImageCounts ==
  ASSUME NEW S, IsFiniteSet(S), NEW f, DOMAIN f = S, NEW T, T = {f[x] : x \in S}
  PROVE  /\ IsFiniteSet(T) /\ Cardinality(T) \in Nat /\ Cardinality(T) <= Cardinality(S)
         /\ (\A x, y \in S : f[x] = f[y] => x = y) => Cardinality(T) = Cardinality(S)
<1> DEFINE g == [x \in S |-> f[x]]
<1>1. g \in Surjection(S, T)
  BY DEF Surjection
<1>2. (\A x, y \in S : f[x] = f[y] => x = y) => g \in Injection(S, T)
  BY DEF Injection, IsInjective
<1> HIDE DEF g
<1>3. /\ IsFiniteSet(T) /\ Cardinality(T) <= Cardinality(S)
      /\ Cardinality(T) = Cardinality(S) <=> g \in Injection(S, T)
  BY <1>1, FS_Surjection
<1> QED BY <1>2, <1>3, FS_CardinalityType

(* A part of a group does not count more than the group. *)
LEMMA PartOfGroup ==
  ASSUME NEW R, IsFiniteSet(R), NEW S, S \subseteq R
  PROVE  Cardinality(S) \in Nat /\ Cardinality(R) \in Nat /\ Cardinality(S) <= Cardinality(R)
  BY FS_Subset, FS_CardinalityType

(* Rows counted by a key, over keys that hold them all, are the rows. *)
Keyed(R, key, T) == {r \in R : key[r] \in T}

LEMMA PartitionCounts ==
  ASSUME NEW R, IsFiniteSet(R), NEW K, IsFiniteSet(K), NEW key, \A r \in R : key[r] \in K,
         NEW c, \A k \in K : c[k] = Cardinality(Keyed(R, key, {k}))
  PROVE  SumFunctionOnSet(c, K) = Cardinality(R)
<1>0. Keyed(R, key, K) = R
  BY DEF Keyed
<1>1. \A T : IsFiniteSet(Keyed(R, key, T)) /\ Cardinality(Keyed(R, key, T)) \in Nat
  <2> SUFFICES ASSUME NEW T PROVE IsFiniteSet(Keyed(R, key, T)) /\ Cardinality(Keyed(R, key, T)) \in Nat
    OBVIOUS
  <2>1. Keyed(R, key, T) \subseteq R
    BY DEF Keyed
  <2> QED BY <2>1, FS_Subset, FS_CardinalityType
<1>3. \A T \in SUBSET K : \A e \in T :
        Cardinality(Keyed(R, key, T)) = Cardinality(Keyed(R, key, {e})) + Cardinality(Keyed(R, key, T \ {e}))
  <2> SUFFICES ASSUME NEW T \in SUBSET K, NEW e \in T
               PROVE  Cardinality(Keyed(R, key, T))
                         = Cardinality(Keyed(R, key, {e})) + Cardinality(Keyed(R, key, T \ {e}))
    OBVIOUS
  <2> DEFINE A == Keyed(R, key, {e})
             B == Keyed(R, key, T \ {e})
  <2>1. Keyed(R, key, T) = A \union B /\ A \cap B = {}
    BY DEF Keyed
  <2>2. IsFiniteSet(A) /\ IsFiniteSet(B) /\ Cardinality(A) \in Nat /\ Cardinality(B) \in Nat
    BY <1>1
  <2> HIDE DEF A, B
  <2>3. Cardinality(A \union B) = Cardinality(A) + Cardinality(B) - Cardinality(A \cap B)
    BY <2>2, FS_Union
  <2>4. Cardinality(A \union B) = Cardinality(A) + Cardinality(B)
    <3>1. Cardinality(A \cap B) = 0
      BY <2>1, FS_EmptySet
    <3> QED BY ONLY <3>1, <2>2, <2>3
  <2> QED BY <2>1, <2>4 DEF A, B
<1>4. \A k \in K : c[k] \in Int
  <2> TAKE k \in K
  <2>1. c[k] = Cardinality(Keyed(R, key, {k}))
    OBVIOUS
  <2>2. Cardinality(Keyed(R, key, {k})) \in Nat
    BY <1>1
  <2> QED BY ONLY <2>1, <2>2
<1> DEFINE Adds(T) == SumFunctionOnSet(c, T) = Cardinality(Keyed(R, key, T))
           Bad == {T \in SUBSET K : ~Adds(T)}
<1>5. SUFFICES ASSUME Bad # {} PROVE FALSE
  BY <1>0
<1>6. PICK U \in Bad : \A V \in Bad : V \subseteq U => V = U
  <2>1. Bad \subseteq SUBSET K
    OBVIOUS
  <2> HIDE DEF Bad
  <2> QED BY <1>5, <2>1, SmallestSubset
<1>7. IsFiniteSet(U) /\ U \in SUBSET K /\ ~Adds(U)
  BY FS_Subset
<1>8. CASE U = {}
  <2>1. Keyed(R, key, {}) = {}
    BY DEF Keyed
  <2> QED BY <2>1, <1>7, <1>8, SumOfNone, FS_EmptySet
<1>9. CASE U # {}
  <2>1. PICK e \in U : TRUE
    BY <1>9
  <2>2. Adds(U \ {e})
    BY <1>6, <1>7
  <2>3. SumFunctionOnSet(c, U) = c[e] + SumFunctionOnSet(c, U \ {e})
    BY <1>4, <1>7, SumTakesOut
  <2>4. c[e] = Cardinality(Keyed(R, key, {e}))
    BY <1>7
  <2> QED BY <2>2, <2>3, <2>4, <1>3, <1>7
<1> QED BY <1>8, <1>9

LEMMA KeyedCounts ==
  ASSUME NEW E, IsFiniteSet(E), NEW F, F \subseteq E, NEW key, NEW k
  PROVE  /\ IsFiniteSet(Keyed(E, key, {k})) /\ Cardinality(Keyed(E, key, {k})) \in Nat
         /\ Cardinality(Keyed(F, key, {k})) \in Nat
         /\ Cardinality(Keyed(F, key, {k})) <= Cardinality(Keyed(E, key, {k}))
<1>1. Keyed(F, key, {k}) \subseteq Keyed(E, key, {k}) /\ Keyed(E, key, {k}) \subseteq E
  BY DEF Keyed
<1>2. IsFiniteSet(Keyed(E, key, {k}))
  BY <1>1, FS_Subset
<1> QED BY <1>1, <1>2, PartOfGroup

-------------------------------------------------------------------------------
(* Inductions, folds and recursions. *)

(* A finite set of integers has a last element: a smallest one without would *)
(* still have none after losing an element.                                  *)
LastOf(S) == CHOOSE i \in S : \A j \in S : i >= j

LEMMA SomeIsLast ==
  ASSUME NEW S, S \subseteq Int, IsFiniteSet(S), S # {}
  PROVE  LastOf(S) \in S /\ \A j \in S : LastOf(S) >= j
<1> DEFINE Ends(T) == \E i \in T : \A j \in T : i >= j
           Bad == {T \in SUBSET S : T # {} /\ ~Ends(T)}
<1>0. SUFFICES ASSUME Bad # {} PROVE FALSE
  BY DEF LastOf
<1>1. PICK T \in Bad : \A V \in Bad : V \subseteq T => V = T
  <2>1. Bad \subseteq SUBSET S
    OBVIOUS
  <2> HIDE DEF Bad, Ends
  <2> QED BY ONLY <1>0, <2>1, IsFiniteSet(S), SmallestSubset
<1>2. PICK x \in T : TRUE
  OBVIOUS
<1>3. T \subseteq Int /\ ~Ends(T)
  OBVIOUS
<1>4. CASE T = {x}
  BY <1>2, <1>3, <1>4
<1>5. CASE T # {x}
  <2>1. T \ {x} \in SUBSET S /\ T \ {x} # {} /\ T \ {x} # T
    BY <1>2, <1>5
  <2>2. PICK b \in T \ {x} : \A j \in T \ {x} : b >= j
    BY <2>1, <1>1
  <2>3. b \in Int /\ x \in Int
    BY <1>2, <1>3, <2>2
  <2>4. \A j \in T : IF b >= x THEN b >= j ELSE x >= j
    <3> SUFFICES ASSUME NEW j \in T PROVE IF b >= x THEN b >= j ELSE x >= j
      OBVIOUS
    <3>1. j \in Int /\ (j = x \/ b >= j)
      BY <1>3, <2>2
    <3> QED BY <2>3, <3>1
  <2> QED BY <1>2, <1>3, <2>2, <2>4
<1> QED BY <1>4, <1>5

(* What holds of no number, and of more numbers when it holds without the     *)
(* last of them, holds of any finite set of numbers.                          *)
LEMMA LastInduction ==
  ASSUME NEW D, D \subseteq Int, IsFiniteSet(D), NEW Good, {} \in Good,
         \A s \in SUBSET D : s # {} /\ s \ {LastOf(s)} \in Good => s \in Good
  PROVE  \A s \in SUBSET D : s \in Good
<1> DEFINE Bad == (SUBSET D) \ Good
<1> SUFFICES ASSUME Bad # {} PROVE FALSE
  OBVIOUS
<1>1. PICK s \in Bad : \A v \in Bad : v \subseteq s => v = s
  <2>1. Bad \subseteq SUBSET D /\ Bad # {} /\ IsFiniteSet(D)
    OBVIOUS
  <2> HIDE DEF Bad
  <2> QED BY ONLY <2>1, SmallestSubset
<1>2. s # {} /\ s \subseteq Int /\ IsFiniteSet(s)
  BY <1>1, FS_Subset
<1>3. LastOf(s) \in s
  BY <1>2, SomeIsLast
<1>4. s \ {LastOf(s)} \in SUBSET D /\ s \ {LastOf(s)} # s
  <2>1. s \in SUBSET D
    BY <1>1
  <2> QED BY ONLY <2>1, <1>3
<1>5. s \ {LastOf(s)} \in Good
  BY <1>1, <1>4
<1> QED BY <1>1, <1>2, <1>5

(* The same from number to number. *)
LEMMA StepInduction ==
  ASSUME NEW Good, 0 \in Good, \A n \in Nat : n \in Good => n + 1 \in Good
  PROVE  \A n \in Nat : n \in Good
<1> DEFINE Bad == Nat \ Good
           R == OpToRel(<, Nat)
<1> SUFFICES ASSUME Bad # {} PROVE FALSE
  OBVIOUS
<1>1. IsWellFoundedOn(R, Nat)
  BY NatLessThanWellFounded
<1>2. Bad \subseteq Nat /\ Bad # {}
  OBVIOUS
<1>3. PICK n \in Bad : \A k \in Bad : <<k, n>> \notin R
  <2> HIDE DEF Bad, R
  <2> QED BY ONLY <1>1, <1>2, WFMin
<1>4. n - 1 \in Nat /\ n - 1 < n
  OBVIOUS
<1>5. <<n - 1, n>> \in R
  BY <1>4 DEF OpToRel
<1>6. n - 1 \in Good
  BY <1>3, <1>4, <1>5
<1> QED BY <1>4, <1>6

(* A fold from the least number to the greatest: step adds a number to the    *)
(* value of those below it.                                                   *)
FoldStep(base, step, g, s) ==
    IF s = {} THEN base ELSE step[<<g[s \ {LastOf(s)}], LastOf(s)>>]

(* What is below the last number has the same last number with it. *)
LEMMA LastOfGrown ==
  ASSUME NEW T, T \subseteq Int, IsFiniteSet(T), T # {}, NEW s \in SUBSET T, LastOf(T) \in s
  PROVE  LastOf(s) = LastOf(T)
<1>1. LastOf(T) \in T /\ \A j \in T : LastOf(T) >= j
  BY SomeIsLast
<1>2. s \subseteq Int /\ IsFiniteSet(s) /\ s # {}
  BY FS_Subset
<1>3. LastOf(s) \in s /\ LastOf(s) >= LastOf(T)
  BY <1>2, SomeIsLast
<1>4. LastOf(T) >= LastOf(s) /\ LastOf(T) \in Int /\ LastOf(s) \in Int
  BY <1>1, <1>3
<1> QED BY <1>3, <1>4

Folds(V, base, step, T, g) ==
    g \in [SUBSET T -> V] /\ \A s \in SUBSET T : g[s] = FoldStep(base, step, g, s)

(* Each step of a fold has a value, whatever it adds. *)
LEMMA FoldExists ==
  ASSUME NEW D, D \subseteq Int, IsFiniteSet(D), NEW V, NEW base \in V, NEW step \in [V \X D -> V]
  PROVE  \E g : Folds(V, base, step, D, g)
<1> DEFINE Good == {T \in SUBSET D : \E g : Folds(V, base, step, T, g)}
<1>1. {} \in Good
  <2> DEFINE g == [s \in SUBSET {} |-> base]
  <2>1. g \in [SUBSET {} -> V]
    OBVIOUS
  <2>2. \A s \in SUBSET {} : g[s] = FoldStep(base, step, g, s)
    BY DEF FoldStep
  <2>3. Folds(V, base, step, {}, g)
    BY <2>1, <2>2 DEF Folds
  <2> QED BY <2>3
<1>2. ASSUME NEW T \in SUBSET D, T # {}, T \ {LastOf(T)} \in Good
      PROVE  T \in Good
  <2> DEFINE m == LastOf(T)
             U == T \ {m}
  <2>1. T \subseteq Int /\ IsFiniteSet(T)
    BY FS_Subset
  <2>2. m \in T /\ m \in D
    BY <1>2, <2>1, SomeIsLast
  <2>3. PICK g : Folds(V, base, step, U, g)
    BY <1>2
  <2> DEFINE h == [s \in SUBSET T |-> IF m \in s THEN step[<<g[s \ {m}], m>>] ELSE g[s]]
  <2>4. ASSUME NEW s \in SUBSET T, m \in s
        PROVE  LastOf(s) = m /\ s \ {m} \in SUBSET U /\ g[s \ {m}] \in V
    <3>1. LastOf(s) = m
      BY <1>2, <2>1, <2>4, LastOfGrown
    <3> QED BY <3>1, <2>3 DEF Folds
  <2>5. ASSUME NEW s \in SUBSET T, m \notin s
        PROVE  s \in SUBSET U /\ g[s] \in V /\ g[s] = FoldStep(base, step, g, s)
    <3>1. s \in SUBSET U
      BY <2>5
    <3> QED BY <3>1, <2>3 DEF Folds
  <2> HIDE DEF m, U
  <2>6. \A s \in SUBSET T : h[s] = IF m \in s THEN step[<<g[s \ {m}], m>>] ELSE g[s]
    OBVIOUS
  <2>7. h \in [SUBSET T -> V]
    <3> SUFFICES ASSUME NEW s \in SUBSET T
                 PROVE  (IF m \in s THEN step[<<g[s \ {m}], m>>] ELSE g[s]) \in V
      OBVIOUS
    <3> QED BY <2>2, <2>4, <2>5
  <2> HIDE DEF h
  <2>8. ASSUME NEW s \in SUBSET T PROVE h[s] = FoldStep(base, step, h, s)
    <3>1. CASE m \in s
      <4>1. h[s \ {m}] = g[s \ {m}]
        BY <2>6
      <4>2. h[s] = step[<<g[s \ {m}], m>>]
        BY <3>1, <2>6
      <4> QED BY <3>1, <2>4, <4>1, <4>2 DEF FoldStep
    <3>2. CASE m \notin s
      <4> DEFINE t == s \ {LastOf(s)}
      <4>1. h[s] = g[s] /\ h[t] = g[t]
        BY <3>2, <2>6
      <4> QED BY <3>2, <2>5, <4>1 DEF FoldStep
    <3> QED BY <3>1, <3>2
  <2>9. Folds(V, base, step, T, h)
    BY <2>7, <2>8 DEF Folds
  <2> QED BY <2>9
<1>3. D \in Good
  <2> HIDE DEF Good
  <2>1. \A s \in SUBSET D : s # {} /\ s \ {LastOf(s)} \in Good => s \in Good
    BY <1>2
  <2> QED BY <1>1, <2>1, LastInduction
<1> QED BY <1>3

(* A recursion over the numbers. *)
Recurs(base, step, n, g) == g[0] = base /\ \A i \in 1 .. n : g[i] = step[<<g[i - 1], i>>]

(* Two recursions as far as n agree as far as n. *)
LEMMA RecursionAgrees ==
  ASSUME NEW base, NEW step, NEW n \in Nat, NEW g, NEW h,
         Recurs(base, step, n, g), Recurs(base, step, n, h)
  PROVE  \A k \in 0 .. n : g[k] = h[k]
<1> DEFINE Good == {k \in Nat : k <= n => g[k] = h[k]}
<1>1. 0 \in Good
  BY DEF Recurs
<1>2. ASSUME NEW k \in Nat, k \in Good PROVE k + 1 \in Good
  <2> SUFFICES ASSUME k + 1 <= n PROVE g[k + 1] = h[k + 1]
    OBVIOUS
  <2>1. k + 1 \in 1 .. n /\ (k + 1) - 1 = k /\ g[k] = h[k]
    BY <1>2
  <2>2. g[k + 1] = step[<<g[(k + 1) - 1], k + 1>>] /\ h[k + 1] = step[<<h[(k + 1) - 1], k + 1>>]
    BY <2>1 DEF Recurs
  <2> QED BY <2>1, <2>2
<1>3. \A k \in Nat : k \in Good
  <2> HIDE DEF Good
  <2> QED BY <1>1, <1>2, StepInduction
<1> QED BY <1>3

IsRecursion(V, base, step, f) ==
    f \in [Nat -> V] /\ f[0] = base /\ \A n \in Nat : f[n + 1] = step[<<f[n], n + 1>>]

(* A recursion has a solution: that of each n, as far as n. *)
LEMMA RecursionExists ==
  ASSUME NEW V, NEW base \in V, NEW step \in [V \X Nat -> V]
  PROVE  \E f : IsRecursion(V, base, step, f)
<1> DEFINE Good == {n \in Nat : \E g \in [0 .. n -> V] : Recurs(base, step, n, g)}
<1>1. 0 \in Good
  <2> DEFINE g == [k \in 0 .. 0 |-> base]
  <2>1. g \in [0 .. 0 -> V] /\ g[0] = base
    OBVIOUS
  <2>2. Recurs(base, step, 0, g)
    BY <2>1 DEF Recurs
  <2> HIDE DEF g
  <2> QED BY <2>1, <2>2
<1>2. ASSUME NEW n \in Nat, n \in Good PROVE n + 1 \in Good
  <2>1. PICK g \in [0 .. n -> V] : Recurs(base, step, n, g)
    BY <1>2
  <2> DEFINE h == [k \in 0 .. n + 1 |-> IF k = n + 1 THEN step[<<g[n], n + 1>>] ELSE g[k]]
  <2>2. h \in [0 .. n + 1 -> V]
    <3>1. \A k \in 0 .. n + 1 : k # n + 1 => k \in 0 .. n
      OBVIOUS
    <3>2. step[<<g[n], n + 1>>] \in V
      OBVIOUS
    <3> QED BY <3>1, <3>2
  <2>3. h[n + 1] = step[<<g[n], n + 1>>] /\ \A k \in 0 .. n : h[k] = g[k]
    OBVIOUS
  <2> HIDE DEF h
  <2>4. ASSUME NEW i \in 1 .. n + 1 PROVE h[i] = step[<<h[i - 1], i>>]
    <3>1. CASE i = n + 1
      <4>1. i - 1 = n /\ n \in 0 .. n
        BY <3>1
      <4> QED BY <2>3, <3>1, <4>1
    <3>2. CASE i # n + 1
      <4>1. i \in 1 .. n /\ i \in 0 .. n /\ i - 1 \in 0 .. n
        BY <3>2
      <4> QED BY <2>1, <2>3, <4>1 DEF Recurs
    <3> QED BY <3>1, <3>2
  <2>5. h[0] = base
    BY <2>1, <2>3 DEF Recurs
  <2>6. Recurs(base, step, n + 1, h)
    BY <2>4, <2>5 DEF Recurs
  <2> QED BY <2>2, <2>6
<1>3. \A n \in Nat : n \in Good
  <2> HIDE DEF Good
  <2> QED BY <1>1, <1>2, StepInduction
<1> DEFINE G(n) == CHOOSE g : g \in [0 .. n -> V] /\ Recurs(base, step, n, g)
           f == [n \in Nat |-> G(n)[n]]
<1>4. ASSUME NEW n \in Nat PROVE G(n) \in [0 .. n -> V] /\ Recurs(base, step, n, G(n))
  <2>1. \E g : g \in [0 .. n -> V] /\ Recurs(base, step, n, g)
    BY <1>3
  <2> QED BY <2>1
<1> HIDE DEF G
<1>5. \A n \in Nat : f[n] = G(n)[n] /\ f[n] \in V
  <2> SUFFICES ASSUME NEW n \in Nat PROVE G(n)[n] \in V
    OBVIOUS
  <2> QED BY <1>4
<1>6. f \in [Nat -> V]
  BY <1>5
<1> HIDE DEF f
<1>7. f[0] = base
  BY <1>4, <1>5 DEF Recurs
<1>8. ASSUME NEW n \in Nat PROVE f[n + 1] = step[<<f[n], n + 1>>]
  <2>1. Recurs(base, step, n, G(n)) /\ Recurs(base, step, n + 1, G(n + 1))
    BY <1>4
  <2>2. Recurs(base, step, n, G(n + 1))
    <3>1. \A i \in 1 .. n : i \in 1 .. n + 1
      OBVIOUS
    <3> QED BY <2>1, <3>1 DEF Recurs
  <2>3. G(n + 1)[n] = G(n)[n]
    BY <2>1, <2>2, RecursionAgrees
  <2>4. n + 1 \in 1 .. n + 1 /\ (n + 1) - 1 = n
    OBVIOUS
  <2>5. G(n + 1)[n + 1] = step[<<G(n + 1)[n], n + 1>>]
    BY <2>1, <2>4 DEF Recurs
  <2> QED BY <2>3, <2>5, <1>5
<1>9. IsRecursion(V, base, step, f)
  BY <1>6, <1>7, <1>8 DEF IsRecursion
<1> QED BY <1>9
===============================================================================
