------------------------------ MODULE SumTheorems ------------------------------
(***************************************************************************)
(* What the sums of the community modules are: SumFunctionOnSet adds the   *)
(* values of a function over a finite set one by one, choosing an element  *)
(* of what is left.  The induction is over a set of sets, so that it needs *)
(* no operator parameter.  Then what the lists of Ordering are, and what   *)
(* follows for the sums of values that grow or fall together.              *)
(***************************************************************************)
EXTENDS Ordering, Integers, FiniteSets, Functions, FiniteSetTheorems,
        WellFoundedInduction, TLAPS

(* Every set of naturals that is not empty has a least element.            *)
LEMMA LeastNatural ==
  ASSUME NEW N \in SUBSET Nat, N # {}
  PROVE  \E n \in N : \A m \in N : n <= m
<1>1. PICK n \in N : \A m \in N : <<m, n>> \notin OpToRel(<, Nat)
  BY NatLessThanWellFounded, WFMin
<1>2. ASSUME NEW m \in N PROVE n <= m
  <2>1. m \in Nat /\ n \in Nat
    OBVIOUS
  <2>2. ~(m < n)
    BY <1>1, <2>1 DEF OpToRel
  <2> QED
    BY <2>1, <2>2
<1> QED
  BY <1>2

(* Induction over the subsets of a finite set.                             *)
LEMMA SubsetInduction ==
  ASSUME NEW S, IsFiniteSet(S), NEW P,
         \A s \in SUBSET S : (\A x \in s : s \ {x} \in P) => s \in P
  PROVE  \A s \in SUBSET S : s \in P
<1> SUFFICES ASSUME NEW r \in SUBSET S, r \notin P PROVE FALSE
  OBVIOUS
<1> DEFINE Bad == {s \in SUBSET S : s \notin P}
           Sizes == {Cardinality(s) : s \in Bad}
<1>1. \A s \in SUBSET S : IsFiniteSet(s) /\ Cardinality(s) \in Nat
  BY FS_Subset, FS_CardinalityType
<1>2. Sizes \in SUBSET Nat /\ Sizes # {}
  BY <1>1
<1>3. PICK n \in Sizes : \A m \in Sizes : n <= m
  <2> HIDE DEF Sizes
  <2> QED
    BY <1>2, LeastNatural
<1>4. PICK s \in Bad : Cardinality(s) = n
  OBVIOUS
<1>5. ASSUME NEW x \in s PROVE s \ {x} \in P
  <2>1. s \ {x} \in SUBSET S /\ Cardinality(s \ {x}) = n - 1
    BY <1>1, <1>4, FS_RemoveElement
  <2>2. n \in Nat /\ ~(n <= n - 1)
    BY <1>2
  <2> QED
    BY <1>3, <2>1, <2>2
<1> QED
  BY <1>4, <1>5

-----------------------------------------------------------------------------
(* The values of f are summed, in the order in which c chooses.            *)
IntValued(f, S) == \A x \in S : f[x] \in Int
Chooses(c, S) == \A s \in SUBSET S : s # {} => c[s] \in s
Folds(g, f, c, S) ==
    g = [s \in SUBSET S |-> IF s = {} THEN 0 ELSE f[c[s]] + g[s \ {c[s]}]]

(* A function that sums f over every subset of S, in whatever order.       *)
Sums(g, f, S) ==
    /\ g \in [SUBSET S -> Int]
    /\ g[{}] = 0
    /\ \A s \in SUBSET S : \A x \in s : g[s] = f[x] + g[s \ {x}]

(* What the recursion of the folds defines sums, whichever element the     *)
(* choice takes first.                                                     *)
LEMMA FoldSums ==
  ASSUME NEW S, IsFiniteSet(S), NEW f, IntValued(f, S), NEW c, Chooses(c, S),
         NEW g, Folds(g, f, c, S)
  PROVE  Sums(g, f, S)
<1>0. /\ \A x \in S : f[x] \in Int
      /\ \A s \in SUBSET S : s # {} => c[s] \in s
  BY DEF IntValued, Chooses
<1>1. /\ DOMAIN g = SUBSET S
      /\ \A s \in SUBSET S : g[s] = IF s = {} THEN 0 ELSE f[c[s]] + g[s \ {c[s]}]
  BY DEF Folds
<1>2. \A s \in SUBSET S : g[s] \in Int
  <2> DEFINE P == {s \in SUBSET S : g[s] \in Int}
  <2>1. ASSUME NEW s \in SUBSET S, \A y \in s : s \ {y} \in P
        PROVE  s \in P
    <3>1. CASE s = {}
      <4>1. g[s] = 0
        BY <1>1, <3>1
      <4> QED
        BY <4>1
    <3>2. CASE s # {}
      <4>1. c[s] \in s /\ f[c[s]] \in Int /\ g[s \ {c[s]}] \in Int
        BY <1>0, <2>1, <3>2
      <4>2. g[s] = f[c[s]] + g[s \ {c[s]}]
        BY <1>1, <3>2
      <4> QED
        BY <4>1, <4>2
    <3> QED
      BY <3>1, <3>2
  <2> HIDE DEF P
  <2>2. \A s \in SUBSET S : s \in P
    BY <2>1, SubsetInduction
  <2> QED
    BY <2>2 DEF P
<1>3. g \in [SUBSET S -> Int]
  BY <1>1, <1>2 DEF Folds
<1>4. \A s \in SUBSET S : \A x \in s : g[s] = f[x] + g[s \ {x}]
  <2> DEFINE P == {s \in SUBSET S : \A x \in s : g[s] = f[x] + g[s \ {x}]}
  <2>1. ASSUME NEW s \in SUBSET S, \A y \in s : s \ {y} \in P, NEW x \in s
        PROVE  g[s] = f[x] + g[s \ {x}]
    <3>1. c[s] \in s /\ g[s] = f[c[s]] + g[s \ {c[s]}]
      BY <1>0, <1>1
    <3>2. CASE x = c[s]
      BY <3>1, <3>2
    <3>3. CASE x # c[s]
      <4>1. g[s \ {c[s]}] = f[x] + g[(s \ {c[s]}) \ {x}]
        BY <2>1, <3>1, <3>3
      <4>2. g[s \ {x}] = f[c[s]] + g[(s \ {x}) \ {c[s]}]
        BY <2>1, <3>1, <3>3
      <4>3. (s \ {c[s]}) \ {x} = (s \ {x}) \ {c[s]}
        OBVIOUS
      <4>4. /\ f[x] \in Int /\ f[c[s]] \in Int /\ g[(s \ {x}) \ {c[s]}] \in Int
        BY <1>0, <1>3, <3>1
      <4> DEFINE a == f[x]
                 b == f[c[s]]
                 k == g[(s \ {x}) \ {c[s]}]
      <4>5. g[s] = b + (a + k) /\ g[s \ {x}] = b + k
        BY <3>1, <4>1, <4>2, <4>3
      <4>6. a \in Int /\ b \in Int /\ k \in Int
        BY <4>4
      <4> HIDE DEF a, b, k
      <4>7. g[s] = a + g[s \ {x}]
        BY <4>5, <4>6
      <4> QED
        BY <4>7 DEF a
    <3> QED
      BY <3>2, <3>3
  <2>2. \A s \in SUBSET S : (\A y \in s : s \ {y} \in P) => s \in P
    BY <2>1
  <2> HIDE DEF P
  <2>3. \A s \in SUBSET S : s \in P
    BY <2>2, SubsetInduction
  <2> QED
    BY <2>3 DEF P
<1> QED
  BY <1>1, <1>3, <1>4 DEF Sums

(* The recursion has a solution.                                           *)
LEMMA FoldSolved ==
  ASSUME NEW S, IsFiniteSet(S), NEW f, IntValued(f, S), NEW c, Chooses(c, S)
  PROVE  \E g : Folds(g, f, c, S)
<1>0. /\ \A x \in S : f[x] \in Int
      /\ \A s \in SUBSET S : s # {} => c[s] \in s
  BY DEF IntValued, Chooses
<1> DEFINE D(n) == {s \in SUBSET S : Cardinality(s) <= n}
           Solves(g, n) ==
               /\ g \in [D(n) -> Int]
               /\ \A s \in D(n) : g[s] = IF s = {} THEN 0 ELSE f[c[s]] + g[s \ {c[s]}]
           Solved == {n \in Nat : \E g : Solves(g, n)}
<1>1. \A s \in SUBSET S : IsFiniteSet(s) /\ Cardinality(s) \in Nat
  BY FS_Subset, FS_CardinalityType
<1>2. \A s \in SUBSET S : Cardinality(s) = 0 <=> s = {}
  BY <1>1, FS_EmptySet
<1>3. \A s \in SUBSET S : s # {} =>
          /\ c[s] \in s /\ s \ {c[s]} \in SUBSET S /\ f[c[s]] \in Int
          /\ Cardinality(s \ {c[s]}) = Cardinality(s) - 1
  BY <1>0, <1>1, FS_RemoveElement
<1>4. 0 \in Solved
  <2> DEFINE z == [s \in D(0) |-> 0]
  <2>1. \A s \in D(0) : s = {}
    BY <1>1, <1>2
  <2>2. Solves(z, 0)
    BY <2>1
  <2> QED
    BY <2>2
<1>5. ASSUME NEW n \in Nat, n \in Solved
      PROVE  n + 1 \in Solved
  <2>1. PICK g : Solves(g, n)
    BY <1>5
  <2> DEFINE h == [s \in D(n + 1) |-> IF s = {} THEN 0 ELSE f[c[s]] + g[s \ {c[s]}]]
  <2>2. ASSUME NEW s \in D(n + 1), s # {}
        PROVE  s \ {c[s]} \in D(n) /\ s \ {c[s]} \in D(n + 1)
    BY <1>1, <1>3, <2>2
  <2>3. \A s \in D(n) : s \in D(n + 1) /\ h[s] = g[s]
    <3>1. \A s \in D(n) : s \in D(n + 1)
      BY <1>1
    <3> QED
      BY <2>1, <3>1
  <2>4. h \in [D(n + 1) -> Int]
    <3> SUFFICES ASSUME NEW s \in D(n + 1), s # {}
                 PROVE  f[c[s]] + g[s \ {c[s]}] \in Int
      OBVIOUS
    <3>1. g[s \ {c[s]}] \in Int /\ f[c[s]] \in Int
      BY <1>3, <2>1, <2>2
    <3> QED
      BY <3>1
  <2>5. \A s \in D(n + 1) : h[s] = IF s = {} THEN 0 ELSE f[c[s]] + h[s \ {c[s]}]
    BY <2>2, <2>3
  <2>6. Solves(h, n + 1)
    <3> HIDE DEF h
    <3> QED
      BY <2>4, <2>5
  <2>7. n + 1 \in Nat
    OBVIOUS
  <2> HIDE DEF h, Solves
  <2> QED
    BY <2>6, <2>7
<1>6. Solved = Nat
  <2> DEFINE Bad == Nat \ Solved
  <2> SUFFICES ASSUME Bad # {} PROVE FALSE
    <3> HIDE DEF Solved
    <3>1. Solved \subseteq Nat
      BY DEF Solved
    <3> QED
      BY <3>1
  <2>1. PICK n \in Bad : \A m \in Bad : n <= m
    <3> HIDE DEF Solved
    <3> QED
      BY LeastNatural
  <2>2. n # 0
    BY <1>4
  <2>3. n - 1 \in Nat /\ n - 1 \in Solved
    <3> HIDE DEF Solved
    <3> QED
      BY <2>1, <2>2
  <2>4. (n - 1) + 1 \in Solved
    <3> HIDE DEF Solved
    <3> QED
      BY <1>5, <2>3
  <2>5. (n - 1) + 1 = n
    BY <2>3
  <2> QED
    BY <2>1, <2>4, <2>5
<1>7. PICK g : Solves(g, Cardinality(S))
  BY <1>1, <1>6
<1>8. D(Cardinality(S)) = SUBSET S
  BY FS_Subset, FS_CardinalityType
<1>9. /\ g \in [SUBSET S -> Int]
      /\ \A s \in SUBSET S : g[s] = IF s = {} THEN 0 ELSE f[c[s]] + g[s \ {c[s]}]
  BY <1>7, <1>8
<1>10. Folds(g, f, c, S)
  BY <1>9 DEF Folds
<1> QED
  BY <1>10

(* Two sums of values that agree are the same wherever both are defined.   *)
LEMMA SumsAgree ==
  ASSUME NEW S, IsFiniteSet(S), NEW T \in SUBSET S,
         NEW g, NEW f, Sums(g, f, S), NEW h, NEW e, Sums(h, e, T),
         \A x \in T : e[x] = f[x]
  PROVE  \A s \in SUBSET T : h[s] = g[s]
<1> DEFINE P == {s \in SUBSET T : h[s] = g[s]}
<1>1. ASSUME NEW s \in SUBSET T, \A x \in s : s \ {x} \in P
      PROVE  s \in P
  <2>1. CASE s = {}
    BY <2>1 DEF Sums
  <2>2. CASE s # {}
    <3>1. PICK x \in s : TRUE
      BY <2>2
    <3>2. h[s] = e[x] + h[s \ {x}] /\ g[s] = f[x] + g[s \ {x}]
      BY <3>1 DEF Sums
    <3>3. e[x] = f[x] /\ h[s \ {x}] = g[s \ {x}]
      BY <1>1, <3>1
    <3> QED
      BY <3>2, <3>3
  <2> QED
    BY <2>1, <2>2
<1>2. IsFiniteSet(T)
  BY FS_Subset
<1> HIDE DEF P
<1>3. \A s \in SUBSET T : s \in P
  BY <1>1, <1>2, SubsetInduction
<1> QED
  BY <1>3 DEF P

LEMMA SumIsOne ==
  ASSUME NEW T, IsFiniteSet(T), NEW f, IntValued(f, T)
  PROVE  \E g : Sums(g, f, T) /\ SumFunctionOnSet(f, T) = g[T]
<1> DEFINE c == [s \in SUBSET T |-> CHOOSE x \in s : TRUE]
           Step(g) == [s \in SUBSET T |->
                          IF s = {} THEN 0
                          ELSE LET x == CHOOSE x \in s : TRUE IN f[x] + g[s \ {x}]]
           iter == CHOOSE g : g = Step(g)
<1>1. SumFunctionOnSet(f, T) = iter[T]
  BY DEF SumFunctionOnSet, FoldFunctionOnSet, MapThenFoldSet
<1>2. Chooses(c, T)
  BY DEF Chooses
<1>3. PICK g : Folds(g, f, c, T)
  <2> HIDE DEF c
  <2> QED
    BY <1>2, FoldSolved
<1>4. g = Step(g)
  BY <1>3 DEF Folds
<1>5. iter = Step(iter)
  <2> HIDE DEF Step
  <2> QED
    BY <1>4
<1> HIDE DEF iter
<1>6. Folds(iter, f, c, T)
  BY <1>5 DEF Folds
<1>7. Sums(iter, f, T)
  <2> HIDE DEF c
  <2> QED
    BY <1>2, <1>6, FoldSums
<1> QED
  BY <1>1, <1>7

LEMMA SumTypes ==
  ASSUME NEW S, IsFiniteSet(S), NEW f, IntValued(f, S)
  PROVE  SumFunctionOnSet(f, S) \in Int
<1>1. PICK g : Sums(g, f, S) /\ SumFunctionOnSet(f, S) = g[S]
  BY SumIsOne
<1>2. S \in SUBSET S
  OBVIOUS
<1> QED
  BY <1>1, <1>2 DEF Sums

(* The sum over a set is that of an element and of the rest.               *)
LEMMA SumRemoves ==
  ASSUME NEW S, IsFiniteSet(S), NEW f, IntValued(f, S), NEW x \in S
  PROVE  SumFunctionOnSet(f, S) = f[x] + SumFunctionOnSet(f, S \ {x})
<1>1. PICK g : Sums(g, f, S) /\ SumFunctionOnSet(f, S) = g[S]
  BY SumIsOne
<1> DEFINE T == S \ {x}
<1>2. T \in SUBSET S /\ IsFiniteSet(T) /\ IntValued(f, T)
  BY FS_Subset DEF IntValued
<1> HIDE DEF T
<1>3. PICK h : Sums(h, f, T) /\ SumFunctionOnSet(f, T) = h[T]
  BY <1>2, SumIsOne
<1>4. h[T] = g[T]
  BY <1>1, <1>2, <1>3, SumsAgree
<1>5. g[S] = f[x] + g[S \ {x}]
  BY <1>1 DEF Sums
<1> QED
  BY <1>1, <1>3, <1>4, <1>5 DEF T

LEMMA SumOfNone == \A f : SumFunctionOnSet(f, {}) = 0
<1> SUFFICES ASSUME NEW f PROVE SumFunctionOnSet(f, {}) = 0
  OBVIOUS
<1>1. PICK g : Sums(g, f, {}) /\ SumFunctionOnSet(f, {}) = g[{}]
  BY SumIsOne, FS_EmptySet DEF IntValued
<1> QED
  BY <1>1 DEF Sums

LEMMA SumOfSame ==
  ASSUME NEW S, IsFiniteSet(S), NEW f, NEW e, \A x \in S : f[x] \in Int /\ e[x] = f[x]
  PROVE  SumFunctionOnSet(e, S) = SumFunctionOnSet(f, S)
<1> IntValued(f, S) /\ IntValued(e, S)
  BY DEF IntValued
<1>1. PICK g : Sums(g, f, S) /\ SumFunctionOnSet(f, S) = g[S]
  BY SumIsOne
<1>2. PICK h : Sums(h, e, S) /\ SumFunctionOnSet(e, S) = h[S]
  BY SumIsOne
<1>3. \A s \in SUBSET S : h[s] = g[s]
  <2>1. S \in SUBSET S /\ \A x \in S : e[x] = f[x]
    OBVIOUS
  <2> QED
    BY <1>1, <1>2, <2>1, SumsAgree
<1> QED
  BY <1>1, <1>2, <1>3

(* Values that are no larger have a sum that is no larger.                 *)
LEMMA SumGrows ==
  ASSUME NEW S, IsFiniteSet(S), NEW f, NEW e,
         \A x \in S : f[x] \in Int /\ e[x] \in Int /\ f[x] <= e[x]
  PROVE  SumFunctionOnSet(f, S) <= SumFunctionOnSet(e, S)
<1> IntValued(f, S) /\ IntValued(e, S)
  BY DEF IntValued
<1>1. PICK g : Sums(g, f, S) /\ SumFunctionOnSet(f, S) = g[S]
  BY SumIsOne
<1>2. PICK h : Sums(h, e, S) /\ SumFunctionOnSet(e, S) = h[S]
  BY SumIsOne
<1> DEFINE P == {s \in SUBSET S : g[s] <= h[s]}
<1>3. ASSUME NEW s \in SUBSET S, \A x \in s : s \ {x} \in P
      PROVE  s \in P
  <2>1. CASE s = {}
    BY <1>1, <1>2, <2>1 DEF Sums
  <2>2. CASE s # {}
    <3>1. PICK x \in s : TRUE
      BY <2>2
    <3>2. g[s] = f[x] + g[s \ {x}] /\ h[s] = e[x] + h[s \ {x}]
      BY <1>1, <1>2, <3>1 DEF Sums
    <3>3. g[s \ {x}] <= h[s \ {x}] /\ f[x] <= e[x]
      BY <1>3, <3>1
    <3>4. g[s \ {x}] \in Int /\ h[s \ {x}] \in Int /\ f[x] \in Int /\ e[x] \in Int
      BY <1>1, <1>2, <3>1 DEF Sums
    <3> QED
      BY <3>2, <3>3, <3>4
  <2> QED
    BY <2>1, <2>2
<1> HIDE DEF P
<1>4. \A s \in SUBSET S : s \in P
  BY <1>3, SubsetInduction
<1> QED
  BY <1>1, <1>2, <1>4 DEF P

(* A sum of nothing but zeros.                                             *)
LEMMA SumOfZeros ==
  ASSUME NEW S, IsFiniteSet(S), NEW f, \A x \in S : f[x] = 0
  PROVE  SumFunctionOnSet(f, S) = 0
<1>1. IntValued(f, S)
  BY DEF IntValued
<1>2. PICK g : Sums(g, f, S) /\ SumFunctionOnSet(f, S) = g[S]
  BY <1>1, SumIsOne
<1> DEFINE P == {s \in SUBSET S : g[s] = 0}
<1>3. ASSUME NEW s \in SUBSET S, \A x \in s : s \ {x} \in P
      PROVE  s \in P
  <2>1. CASE s = {}
    BY <1>2, <2>1 DEF Sums
  <2>2. CASE s # {}
    <3>1. PICK x \in s : TRUE
      BY <2>2
    <3>2. g[s] = f[x] + g[s \ {x}]
      BY <1>2, <3>1 DEF Sums
    <3> QED
      BY <1>3, <3>1, <3>2
  <2> QED
    BY <2>1, <2>2
<1> HIDE DEF P
<1>4. \A s \in SUBSET S : s \in P
  BY <1>3, SubsetInduction
<1> QED
  BY <1>2, <1>4 DEF P

(* A sum of naturals is a natural, and none of them is greater than it.    *)
LEMMA SumOfNaturals ==
  ASSUME NEW S, IsFiniteSet(S), NEW f, \A x \in S : f[x] \in Nat
  PROVE  /\ SumFunctionOnSet(f, S) \in Nat
         /\ \A x \in S : f[x] <= SumFunctionOnSet(f, S)
<1> DEFINE z == [x \in S |-> 0]
<1>1. \A T \in SUBSET S : IsFiniteSet(T) /\ SumFunctionOnSet(f, T) \in Nat
  <2> TAKE T \in SUBSET S
  <2>1. IsFiniteSet(T)
    BY FS_Subset
  <2>2. SumFunctionOnSet(z, T) = 0
    BY <2>1, SumOfZeros
  <2>3. IntValued(f, T)
    BY DEF IntValued
  <2>4. SumFunctionOnSet(f, T) \in Int
    BY <2>1, <2>3, SumTypes
  <2>5. \A x \in T : z[x] \in Int /\ f[x] \in Int /\ z[x] <= f[x]
    OBVIOUS
  <2> HIDE DEF z
  <2>6. SumFunctionOnSet(z, T) <= SumFunctionOnSet(f, T)
    BY <2>1, <2>5, SumGrows
  <2> QED
    BY <2>1, <2>2, <2>4, <2>6
<1>2. ASSUME NEW x \in S
      PROVE  f[x] <= SumFunctionOnSet(f, S)
  <2>1. IntValued(f, S)
    BY DEF IntValued
  <2>2. SumFunctionOnSet(f, S) = f[x] + SumFunctionOnSet(f, S \ {x})
    BY <2>1, SumRemoves
  <2>3. SumFunctionOnSet(f, S \ {x}) \in Nat /\ f[x] \in Nat
    BY <1>1
  <2> QED
    BY <2>2, <2>3
<1> QED
  BY <1>1, <1>2

(* A cardinality is a sum of ones.                                         *)
LEMMA SumOfOnes ==
  ASSUME NEW S, IsFiniteSet(S), NEW f, \A x \in S : f[x] = 1
  PROVE  SumFunctionOnSet(f, S) = Cardinality(S)
<1>1. IntValued(f, S)
  BY DEF IntValued
<1>2. PICK g : Sums(g, f, S) /\ SumFunctionOnSet(f, S) = g[S]
  BY <1>1, SumIsOne
<1> DEFINE P == {s \in SUBSET S : g[s] = Cardinality(s)}
<1>3. ASSUME NEW s \in SUBSET S, \A x \in s : s \ {x} \in P
      PROVE  s \in P
  <2>1. CASE s = {}
    BY <1>2, <2>1, FS_EmptySet DEF Sums
  <2>2. CASE s # {}
    <3>1. PICK x \in s : TRUE
      BY <2>2
    <3>2. g[s] = f[x] + g[s \ {x}]
      BY <1>2, <3>1 DEF Sums
    <3>3. g[s \ {x}] = Cardinality(s \ {x}) /\ f[x] = 1
      BY <1>3, <3>1
    <3>4. IsFiniteSet(s)
      BY FS_Subset
    <3>5. Cardinality(s \ {x}) = Cardinality(s) - 1 /\ Cardinality(s) \in Nat
      BY <3>1, <3>4, FS_RemoveElement, FS_CardinalityType
    <3> QED
      BY <3>2, <3>3, <3>5
  <2> QED
    BY <2>1, <2>2
<1> HIDE DEF P
<1>4. \A s \in SUBSET S : s \in P
  BY <1>3, SubsetInduction
<1> QED
  BY <1>2, <1>4 DEF P

(* The sum over a set is that over a part and that over the rest.          *)
LEMMA SumSplits ==
  ASSUME NEW S, IsFiniteSet(S), NEW f, IntValued(f, S), NEW T \in SUBSET S
  PROVE  SumFunctionOnSet(f, S) = SumFunctionOnSet(f, T) + SumFunctionOnSet(f, S \ T)
<1>1. PICK g : Sums(g, f, S) /\ SumFunctionOnSet(f, S) = g[S]
  BY SumIsOne
<1>2. \A s \in SUBSET S : SumFunctionOnSet(f, s) = g[s]
  <2> TAKE s \in SUBSET S
  <2>1. IsFiniteSet(s) /\ IntValued(f, s)
    BY FS_Subset DEF IntValued
  <2>2. PICK h : Sums(h, f, s) /\ SumFunctionOnSet(f, s) = h[s]
    BY <2>1, SumIsOne
  <2>3. \A r \in SUBSET s : h[r] = g[r]
    BY <1>1, <2>2, SumsAgree
  <2> QED
    BY <2>2, <2>3
<1> DEFINE P == {s \in SUBSET S : g[s] = g[s \cap T] + g[s \ T]}
<1>3. ASSUME NEW s \in SUBSET S, \A x \in s : s \ {x} \in P
      PROVE  s \in P
  <2>1. CASE s = {}
    <3>1. s \cap T = {} /\ s \ T = {} /\ g[{}] = 0
      BY <1>1, <2>1 DEF Sums
    <3> QED
      BY <2>1, <3>1
  <2>2. CASE s # {}
    <3>1. PICK x \in s : TRUE
      BY <2>2
    <3> DEFINE t == s \ {x}
    <3>2. g[s] = f[x] + g[t] /\ g[t] = g[t \cap T] + g[t \ T]
      BY <1>1, <1>3, <3>1 DEF Sums
    <3>3. /\ f[x] \in Int /\ g[t \cap T] \in Int /\ g[t \ T] \in Int
      BY <1>1, <3>1 DEF Sums, IntValued
    <3>4. CASE x \in T
      <4>1. x \in s \cap T /\ (s \cap T) \ {x} = t \cap T /\ s \ T = t \ T
        BY <3>1, <3>4
      <4>2. g[s \cap T] = f[x] + g[(s \cap T) \ {x}]
        BY <1>1, <4>1 DEF Sums
      <4>3. g[s \cap T] = f[x] + g[t \cap T] /\ g[s \ T] = g[t \ T]
        BY <4>1, <4>2
      <4>4. g[s] = g[s \cap T] + g[s \ T]
        BY <3>2, <3>3, <4>3
      <4> QED
        BY <4>4
    <3>5. CASE x \notin T
      <4>1. x \in s \ T /\ (s \ T) \ {x} = t \ T /\ s \cap T = t \cap T
        BY <3>1, <3>5
      <4>2. g[s \ T] = f[x] + g[(s \ T) \ {x}]
        BY <1>1, <4>1 DEF Sums
      <4>3. g[s \ T] = f[x] + g[t \ T] /\ g[s \cap T] = g[t \cap T]
        BY <4>1, <4>2
      <4>4. g[s] = g[s \cap T] + g[s \ T]
        BY <3>2, <3>3, <4>3
      <4> QED
        BY <4>4
    <3> QED
      BY <3>4, <3>5
  <2> QED
    BY <2>1, <2>2
<1> HIDE DEF P
<1>4. \A s \in SUBSET S : s \in P
  BY <1>3, SubsetInduction
<1>5. g[S] = g[S \cap T] + g[S \ T] /\ S \cap T = T
  BY <1>4 DEF P
<1> QED
  BY <1>2, <1>5

(* As many times the same.                                                 *)
LEMMA SumOfEqual ==
  ASSUME NEW S, IsFiniteSet(S), NEW n \in Int, NEW f, \A x \in S : f[x] = n
  PROVE  SumFunctionOnSet(f, S) = Cardinality(S) * n
<1>1. IntValued(f, S)
  BY DEF IntValued
<1>2. PICK g : Sums(g, f, S) /\ SumFunctionOnSet(f, S) = g[S]
  BY <1>1, SumIsOne
<1> DEFINE P == {s \in SUBSET S : g[s] = Cardinality(s) * n}
<1>3. ASSUME NEW s \in SUBSET S, \A x \in s : s \ {x} \in P
      PROVE  s \in P
  <2>1. CASE s = {}
    <3>1. Cardinality(s) = 0 /\ g[s] = 0
      BY <1>2, <2>1, FS_EmptySet DEF Sums
    <3> QED
      BY <3>1
  <2>2. CASE s # {}
    <3>1. PICK x \in s : TRUE
      BY <2>2
    <3> DEFINE c == Cardinality(s \ {x})
    <3>2. g[s] = f[x] + g[s \ {x}]
      BY <1>2, <3>1 DEF Sums
    <3>3. g[s \ {x}] = c * n /\ f[x] = n
      BY <1>3, <3>1
    <3>4. IsFiniteSet(s)
      BY FS_Subset
    <3>5. Cardinality(s) = c + 1 /\ c \in Nat
      <4>1. Cardinality(s \ {x}) = Cardinality(s) - 1 /\ Cardinality(s) \in Nat
        BY <3>1, <3>4, FS_RemoveElement, FS_CardinalityType
      <4>2. IsFiniteSet(s \ {x})
        BY FS_Subset
      <4>3. c \in Nat
        BY <4>2, FS_CardinalityType
      <4> QED
        BY <4>1, <4>3
    <3> HIDE DEF c
    <3>6. (c + 1) * n = n + c * n
      BY <3>5
    <3> QED
      BY <3>2, <3>3, <3>5, <3>6
  <2> QED
    BY <2>1, <2>2
<1> HIDE DEF P
<1>4. \A s \in SUBSET S : s \in P
  BY <1>3, SubsetInduction
<1> QED
  BY <1>2, <1>4 DEF P

(* Summing class by class comes to the sum of everything.                  *)
LEMMA SumByClass ==
  ASSUME NEW S, IsFiniteSet(S), NEW f, IntValued(f, S),
         NEW C, IsFiniteSet(C), NEW class, \A x \in S : class[x] \in C
  PROVE  SumFunctionOnSet([c \in C |->
             SumFunctionOnSet(f, {x \in S : class[x] = c})], C)
         = SumFunctionOnSet(f, S)
<1> DEFINE In(s, c) == {x \in s : class[x] = c}
           h(s) == [c \in C |-> SumFunctionOnSet(f, In(s, c))]
           P == {s \in SUBSET S : SumFunctionOnSet(h(s), C) = SumFunctionOnSet(f, s)}
<1>1. \A s \in SUBSET S : IsFiniteSet(s) /\ IntValued(f, s)
                          /\ SumFunctionOnSet(f, s) \in Int
  <2> TAKE s \in SUBSET S
  <2>1. IsFiniteSet(s) /\ IntValued(f, s)
    BY FS_Subset DEF IntValued
  <2> QED
    BY <2>1, SumTypes
<1>2. \A s \in SUBSET S : \A c \in C : h(s)[c] \in Int
  BY <1>1
<1>3. ASSUME NEW s \in SUBSET S, \A x \in s : s \ {x} \in P
      PROVE  s \in P
  <2>1. CASE s = {}
    <3>1. \A c \in C : In(s, c) = {}
      BY <2>1
    <3>2. \A c \in C : h(s)[c] = 0
      BY <3>1, SumOfNone
    <3> HIDE DEF h
    <3>3. SumFunctionOnSet(h(s), C) = 0
      BY <3>2, SumOfZeros
    <3> QED
      BY <2>1, <3>3, SumOfNone
  <2>2. CASE s # {}
    <3>1. PICK x \in s : TRUE
      BY <2>2
    <3> DEFINE t == s \ {x}
               k == class[x]
    <3>2. k \in C /\ t \in SUBSET S
      BY <3>1
    <3>3. h(s)[k] = f[x] + h(t)[k]
      <4>1. x \in In(s, k) /\ In(s, k) \ {x} = In(t, k) /\ In(s, k) \in SUBSET S
        BY <3>1
      <4>2. IsFiniteSet(In(s, k)) /\ IntValued(f, In(s, k))
        BY <1>1, <4>1
      <4> HIDE DEF In, k, t
      <4>3. SumFunctionOnSet(f, In(s, k)) = f[x] + SumFunctionOnSet(f, In(s, k) \ {x})
        BY <4>1, <4>2, SumRemoves
      <4> QED
        BY <3>2, <4>1, <4>3
    <3>4. \A c \in C \ {k} : In(s, c) = In(t, c)
      OBVIOUS
    <3>5. \A c \in C \ {k} : h(t)[c] \in Int /\ h(s)[c] = h(t)[c]
      <4> HIDE DEF In, k, t
      <4> QED
        BY <1>2, <3>2, <3>4
    <3>6. SumFunctionOnSet(h(s), C \ {k}) = SumFunctionOnSet(h(t), C \ {k})
      <4>1. IsFiniteSet(C \ {k})
        BY FS_Subset
      <4> HIDE DEF h, k, t
      <4> QED
        BY <3>5, <4>1, SumOfSame
    <3>7. IntValued(h(s), C) /\ IntValued(h(t), C)
      <4> HIDE DEF h, t
      <4> QED
        BY <1>2, <3>2 DEF IntValued
    <3>8. /\ SumFunctionOnSet(h(s), C) = h(s)[k] + SumFunctionOnSet(h(s), C \ {k})
          /\ SumFunctionOnSet(h(t), C) = h(t)[k] + SumFunctionOnSet(h(t), C \ {k})
      <4> HIDE DEF h, k, t
      <4> QED
        BY <3>2, <3>7, SumRemoves
    <3>9. SumFunctionOnSet(f, s) = f[x] + SumFunctionOnSet(f, t)
      BY <1>1, <3>1, SumRemoves
    <3>10. SumFunctionOnSet(h(t), C) = SumFunctionOnSet(f, t)
      BY <1>3, <3>1
    <3>11. /\ f[x] \in Int /\ h(t)[k] \in Int
           /\ SumFunctionOnSet(h(t), C \ {k}) \in Int
      <4>1. IsFiniteSet(C \ {k}) /\ IntValued(h(t), C \ {k})
        <5> HIDE DEF h, k, t
        <5> QED
          BY <3>7, FS_Subset DEF IntValued
      <4>2. SumFunctionOnSet(h(t), C \ {k}) \in Int
        <5> HIDE DEF h, k, t
        <5> QED
          BY <4>1, SumTypes
      <4>3. h(t)[k] \in Int
        <5> HIDE DEF h, k, t
        <5> QED
          BY <1>2, <3>2
      <4> QED
        BY <3>1, <4>2, <4>3 DEF IntValued
    <3> DEFINE a == f[x]
               b == h(t)[k]
               d == SumFunctionOnSet(h(t), C \ {k})
    <3>12. SumFunctionOnSet(h(s), C) = (a + b) + d /\ SumFunctionOnSet(f, s) = a + (b + d)
      BY <3>3, <3>6, <3>8, <3>9, <3>10
    <3>13. a \in Int /\ b \in Int /\ d \in Int
      BY <3>11
    <3> HIDE DEF a, b, d, h
    <3>14. SumFunctionOnSet(h(s), C) = SumFunctionOnSet(f, s)
      BY <3>12, <3>13
    <3> QED
      BY <3>14 DEF h
  <2> QED
    BY <2>1, <2>2
<1> HIDE DEF P
<1>4. \A s \in SUBSET S : s \in P
  BY <1>3, SubsetInduction
<1> QED
  BY <1>4 DEF P

(* Counting class by class comes to the number of all.                     *)
LEMMA CountByClass ==
  ASSUME NEW S, IsFiniteSet(S), NEW C, IsFiniteSet(C),
         NEW class, \A x \in S : class[x] \in C
  PROVE  SumFunctionOnSet([c \in C |-> Cardinality({x \in S : class[x] = c})], C)
         = Cardinality(S)
<1> DEFINE one == [x \in S |-> 1]
           In(c) == {x \in S : class[x] = c}
           h == [c \in C |-> SumFunctionOnSet(one, In(c))]
           n == [c \in C |-> Cardinality(In(c))]
<1>1. \A x \in S : one[x] = 1
  OBVIOUS
<1>2. IntValued(one, S)
  BY DEF IntValued
<1>3. \A c \in C : In(c) \in SUBSET S /\ IsFiniteSet(In(c))
  BY FS_Subset
<1> HIDE DEF one, In
<1>4. \A c \in C : h[c] = Cardinality(In(c))
  BY <1>1, <1>3, SumOfOnes
<1>5. \A c \in C : h[c] \in Int /\ n[c] = h[c]
  BY <1>3, <1>4, FS_CardinalityType
<1>6. SumFunctionOnSet(h, C) = SumFunctionOnSet(one, S)
  BY <1>2, SumByClass DEF In
<1>7. SumFunctionOnSet(n, C) = SumFunctionOnSet(h, C)
  <2> HIDE DEF n, h
  <2> QED
    BY <1>5, SumOfSame
<1>8. SumFunctionOnSet(one, S) = Cardinality(S)
  BY <1>1, SumOfOnes
<1> QED
  BY <1>6, <1>7, <1>8 DEF In

(* The image of a finite set is finite, and so is a finite union.          *)
LEMMA ImageFinite ==
  ASSUME NEW S, IsFiniteSet(S), NEW f
  PROVE  IsFiniteSet({f[x] : x \in S})
<1> DEFINE P == {s \in SUBSET S : IsFiniteSet({f[x] : x \in s})}
<1>1. ASSUME NEW s \in SUBSET S, \A x \in s : s \ {x} \in P
      PROVE  s \in P
  <2>1. CASE s = {}
    BY <2>1, FS_EmptySet
  <2>2. CASE s # {}
    <3>1. PICK x \in s : TRUE
      BY <2>2
    <3>2. IsFiniteSet({f[y] : y \in s \ {x}})
      BY <1>1, <3>1
    <3>3. {f[y] : y \in s} = {f[y] : y \in s \ {x}} \cup {f[x]}
      BY <3>1
    <3>4. IsFiniteSet({f[y] : y \in s \ {x}} \cup {f[x]})
      BY <3>2, FS_AddElement
    <3>5. IsFiniteSet({f[y] : y \in s})
      BY <3>3, <3>4
    <3> QED
      BY <3>5
  <2> QED
    BY <2>1, <2>2
<1> HIDE DEF P
<1>2. \A s \in SUBSET S : s \in P
  BY <1>1, SubsetInduction
<1> QED
  BY <1>2 DEF P

LEMMA UnionFinite ==
  ASSUME NEW S, IsFiniteSet(S), NEW f, \A x \in S : IsFiniteSet(f[x])
  PROVE  IsFiniteSet(UNION {f[x] : x \in S})
<1> DEFINE P == {s \in SUBSET S : IsFiniteSet(UNION {f[x] : x \in s})}
<1>1. ASSUME NEW s \in SUBSET S, \A x \in s : s \ {x} \in P
      PROVE  s \in P
  <2>1. CASE s = {}
    <3>1. UNION {f[x] : x \in s} = {}
      BY <2>1
    <3> QED
      BY <3>1, FS_EmptySet
  <2>2. CASE s # {}
    <3>1. PICK x \in s : TRUE
      BY <2>2
    <3>2. IsFiniteSet(UNION {f[y] : y \in s \ {x}})
      BY <1>1, <3>1
    <3>3. UNION {f[y] : y \in s} = (UNION {f[y] : y \in s \ {x}}) \cup f[x]
      BY <3>1
    <3>4. IsFiniteSet((UNION {f[y] : y \in s \ {x}}) \cup f[x])
      BY <3>1, <3>2, FS_Union
    <3> QED
      BY <3>3, <3>4
  <2> QED
    BY <2>1, <2>2
<1> HIDE DEF P
<1>2. \A s \in SUBSET S : s \in P
  BY <1>1, SubsetInduction
<1> QED
  BY <1>2 DEF P
-----------------------------------------------------------------------------
(* An order of the elements of S: of any two, one is before the other.     *)
OrdersTotally(before, S) ==
    /\ \A x \in S : <<x, x>> \notin before
    /\ \A x, y \in S : x # y => <<x, y>> \in before \/ <<y, x>> \in before
    /\ \A x, y, z \in S :
          <<x, y>> \in before /\ <<y, z>> \in before => <<x, z>> \in before

(* Those that come before x.                                               *)
Earlier(S, before, x) == {y \in S : <<y, x>> \in before}

(* What is before x is a proper part of S, and the more so the earlier.    *)
LEMMA EarlierCounts ==
  ASSUME NEW S, IsFiniteSet(S), NEW before, OrdersTotally(before, S)
  PROVE  /\ \A x \in S : /\ IsFiniteSet(Earlier(S, before, x))
                         /\ Cardinality(Earlier(S, before, x)) \in 0..(Cardinality(S) - 1)
         /\ \A x, y \in S : <<x, y>> \in before =>
               Cardinality(Earlier(S, before, x)) < Cardinality(Earlier(S, before, y))
<1>1. ASSUME NEW x \in S
      PROVE  /\ IsFiniteSet(Earlier(S, before, x))
             /\ Cardinality(Earlier(S, before, x)) \in 0..(Cardinality(S) - 1)
  <2>1. Earlier(S, before, x) \in SUBSET (S \ {x})
    BY DEF Earlier, OrdersTotally
  <2>2. IsFiniteSet(S \ {x}) /\ Cardinality(S \ {x}) = Cardinality(S) - 1
    BY FS_RemoveElement
  <2>3. IsFiniteSet(Earlier(S, before, x))
        /\ Cardinality(Earlier(S, before, x)) <= Cardinality(S \ {x})
    BY <2>1, <2>2, FS_Subset
  <2>4. Cardinality(Earlier(S, before, x)) \in Nat /\ Cardinality(S) \in Nat
    BY <2>3, FS_CardinalityType
  <2> QED
    BY <2>2, <2>3, <2>4
<1>2. ASSUME NEW x \in S, NEW y \in S, <<x, y>> \in before
      PROVE  Cardinality(Earlier(S, before, x)) < Cardinality(Earlier(S, before, y))
  <2>1. Earlier(S, before, x) \in SUBSET Earlier(S, before, y)
    BY <1>2 DEF Earlier, OrdersTotally
  <2>2. x \in Earlier(S, before, y) /\ x \notin Earlier(S, before, x)
    BY <1>2 DEF Earlier, OrdersTotally
  <2>3. /\ Cardinality(Earlier(S, before, x)) <= Cardinality(Earlier(S, before, y))
        /\ Cardinality(Earlier(S, before, x)) # Cardinality(Earlier(S, before, y))
    BY <1>1, <2>1, <2>2, FS_Subset
  <2>4. /\ Cardinality(Earlier(S, before, x)) \in Nat
        /\ Cardinality(Earlier(S, before, y)) \in Nat
    BY <1>1, FS_CardinalityType
  <2> QED
    BY <2>3, <2>4
<1> QED
  BY <1>1, <1>2

(* The place of an element is told by how many come before it.             *)
LEMMA InOrderAt ==
  ASSUME NEW S, IsFiniteSet(S), NEW before, OrdersTotally(before, S),
         NEW x \in S
  PROVE  /\ Cardinality(Earlier(S, before, x)) + 1 \in 1..Cardinality(S)
         /\ InOrder(S, before)[Cardinality(Earlier(S, before, x)) + 1] = x
<1> DEFINE c == Cardinality(Earlier(S, before, x))
<1>1. c \in 0..(Cardinality(S) - 1) /\ Cardinality(S) \in Nat
  BY EarlierCounts, FS_CardinalityType
<1>2. \A y \in S : Cardinality(Earlier(S, before, y)) = c => y = x
  <2> SUFFICES ASSUME NEW y \in S, y # x PROVE Cardinality(Earlier(S, before, y)) # c
    OBVIOUS
  <2>1. <<x, y>> \in before \/ <<y, x>> \in before
    BY DEF OrdersTotally
  <2>2. Cardinality(Earlier(S, before, y)) < c \/ c < Cardinality(Earlier(S, before, y))
    BY <2>1, EarlierCounts
  <2>3. c \in Int /\ Cardinality(Earlier(S, before, y)) \in Int
    BY EarlierCounts
  <2> QED
    BY <2>2, <2>3
<1>3. c + 1 \in 1..Cardinality(S) /\ (c + 1) - 1 = c
  BY <1>1
<1>4. InOrder(S, before)[c + 1]
        = CHOOSE y \in S : Cardinality(Earlier(S, before, y)) = (c + 1) - 1
  BY <1>3 DEF InOrder, Earlier
<1>5. \A y \in S : Cardinality(Earlier(S, before, y)) = (c + 1) - 1 <=> y = x
  BY <1>2, <1>3
<1>6. (CHOOSE y \in S : Cardinality(Earlier(S, before, y)) = (c + 1) - 1) = x
  BY <1>5
<1> QED
  BY <1>3, <1>4, <1>6

(* The list has every element once, and the earlier before the later.      *)
LEMMA InOrderSorts ==
  ASSUME NEW S, IsFiniteSet(S), NEW before, OrdersTotally(before, S)
  PROVE  /\ Cardinality(S) \in Nat
         /\ InOrder(S, before) \in [1..Cardinality(S) -> S]
         /\ \A k \in 1..Cardinality(S) :
               Cardinality(Earlier(S, before, InOrder(S, before)[k])) = k - 1
         /\ \A x \in S : \E k \in 1..Cardinality(S) : InOrder(S, before)[k] = x
         /\ \A i, j \in 1..Cardinality(S) :
               i < j <=> <<InOrder(S, before)[i], InOrder(S, before)[j]>> \in before
<1> DEFINE n == Cardinality(S)
           o == InOrder(S, before)
           place == [x \in S |-> Cardinality(Earlier(S, before, x)) + 1]
<1>1. n \in Nat /\ IsFiniteSet(1..n) /\ Cardinality(1..n) = n
  <2>1. n \in Nat /\ 1 \in Int /\ n \in Int
    BY FS_CardinalityType
  <2> HIDE DEF n
  <2>2. IsFiniteSet(1..n) /\ Cardinality(1..n) = IF 1 > n THEN 0 ELSE n - 1 + 1
    BY <2>1, FS_Interval
  <2> QED
    BY <2>1, <2>2
<1>2. \A x \in S : place[x] \in 1..n /\ o[place[x]] = x
  BY InOrderAt
<1>3. place \in Injection(S, 1..n)
  <2>1. place \in [S -> 1..n]
    BY <1>2
  <2>2. \A x, y \in S : place[x] = place[y] => x = y
    <3> HIDE DEF place, o
    <3> QED
      BY <1>2
  <2> HIDE DEF place
  <2> QED
    BY <2>1, <2>2 DEF Injection, IsInjective
<1>4. \A k \in 1..n : \E x \in S : place[x] = k
  <2> HIDE DEF place
  <2>1. place \in Surjection(S, 1..n)
    <3> HIDE DEF n
    <3>1. Cardinality(S) = Cardinality(1..n)
      BY <1>1 DEF n
    <3> QED
      BY <1>1, <1>3, <3>1, FS_Injection
  <2> QED
    BY <2>1 DEF Surjection
<1>5. \A k \in 1..n : o[k] \in S /\ place[o[k]] = k
  <2> HIDE DEF place, o
  <2> QED
    BY <1>2, <1>4
<1>6. o \in [1..n -> S]
  <2> DEFINE At(k) == CHOOSE x \in S : Cardinality({y \in S : <<y, x>> \in before}) = k - 1
  <2>1. o = [k \in 1..n |-> At(k)]
    BY DEF InOrder
  <2> HIDE DEF o, At
  <2> QED
    BY <1>5, <2>1
<1>7. \A k \in 1..n : Cardinality(Earlier(S, before, o[k])) = k - 1
  <2> TAKE k \in 1..n
  <2>1. o[k] \in S /\ Cardinality(Earlier(S, before, o[k])) + 1 = k
    BY <1>5
  <2>2. Cardinality(Earlier(S, before, o[k])) \in Int
    BY <2>1, EarlierCounts
  <2> HIDE DEF o
  <2> QED
    BY <2>1, <2>2
<1>8. \A x \in S : \E k \in 1..n : o[k] = x
  <2> HIDE DEF place, o
  <2> QED
    BY <1>2
<1>9. ASSUME NEW i \in 1..n, NEW j \in 1..n
      PROVE  i < j <=> <<o[i], o[j]>> \in before
  <2>1. o[i] \in S /\ o[j] \in S
    BY <1>5
  <2>2. /\ Cardinality(Earlier(S, before, o[i])) = i - 1
        /\ Cardinality(Earlier(S, before, o[j])) = j - 1
    BY <1>7
  <2> HIDE DEF o
  <2>3. <<o[i], o[j]>> \in before => i - 1 < j - 1
    BY <2>1, <2>2, EarlierCounts
  <2>4. <<o[j], o[i]>> \in before => j - 1 < i - 1
    BY <2>1, <2>2, EarlierCounts
  <2>5. o[i] # o[j] => <<o[i], o[j]>> \in before \/ <<o[j], o[i]>> \in before
    BY <2>1 DEF OrdersTotally
  <2>6. o[i] = o[j] => i = j
    BY <2>2
  <2> QED
    BY <2>3, <2>4, <2>5, <2>6
<1> QED
  BY <1>1, <1>6, <1>7, <1>8, <1>9

(* Within S the orders agree, and the rest of T comes after S.             *)
Continues(after, T, before, S) ==
    /\ \A x, y \in S : <<x, y>> \in after <=> <<x, y>> \in before
    /\ \A x \in S : \A y \in T \ S : <<x, y>> \in after

(* What is put after everything else leaves the beginning as it was.       *)
LEMMA InOrderPrefix ==
  ASSUME NEW T, IsFiniteSet(T), NEW S \in SUBSET T,
         NEW before, OrdersTotally(before, S), NEW after, OrdersTotally(after, T),
         Continues(after, T, before, S)
  PROVE  /\ Cardinality(S) <= Cardinality(T)
         /\ \A k \in 1..Cardinality(S) : InOrder(T, after)[k] = InOrder(S, before)[k]
<1>1. IsFiniteSet(S) /\ Cardinality(S) <= Cardinality(T)
  BY FS_Subset
<1>2. ASSUME NEW x \in S
      PROVE  Earlier(T, after, x) = Earlier(S, before, x)
  <2>1. \A y \in T : <<y, x>> \in after => y \in S
    <3> SUFFICES ASSUME NEW y \in T, <<y, x>> \in after, y \notin S PROVE FALSE
      OBVIOUS
    <3>1. <<x, y>> \in after
      BY DEF Continues
    <3>2. <<x, x>> \in after
      BY <3>1 DEF OrdersTotally
    <3> QED
      BY <3>2 DEF OrdersTotally
  <2> QED
    BY <2>1 DEF Earlier, Continues
<1>3. ASSUME NEW k \in 1..Cardinality(S)
      PROVE  InOrder(T, after)[k] = InOrder(S, before)[k]
  <2> DEFINE x == InOrder(S, before)[k]
  <2>1. x \in S /\ Cardinality(Earlier(S, before, x)) = k - 1
    <3>1. /\ InOrder(S, before) \in [1..Cardinality(S) -> S]
          /\ \A j \in 1..Cardinality(S) :
                Cardinality(Earlier(S, before, InOrder(S, before)[j])) = j - 1
      BY <1>1, InOrderSorts, Zenon
    <3> QED
      BY <3>1
  <2> HIDE DEF x
  <2>2. x \in T /\ Cardinality(Earlier(T, after, x)) = k - 1
    BY <1>2, <2>1
  <2>3. InOrder(T, after)[(k - 1) + 1] = x
    BY <2>2, InOrderAt
  <2>4. (k - 1) + 1 = k
    BY <1>1, FS_CardinalityType
  <2> QED
    BY <2>3, <2>4 DEF x
<1> QED
  BY <1>1, <1>3

(* The order of places by their keys.                                      *)
KeyOrder(key) ==
    {p \in (DOMAIN key) \X (DOMAIN key) :
        \/ key[p[1]] < key[p[2]]
        \/ key[p[1]] = key[p[2]] /\ p[1] < p[2]}

LEMMA KeyOrderTotal ==
  ASSUME NEW key, DOMAIN key \subseteq Int, \A i \in DOMAIN key : key[i] \in Int
  PROVE  OrdersTotally(KeyOrder(key), DOMAIN key)
<1>1. \A x, y \in DOMAIN key : <<x, y>> \in KeyOrder(key) <=>
          key[x] < key[y] \/ (key[x] = key[y] /\ x < y)
  BY DEF KeyOrder
<1>2. \A x \in DOMAIN key : x \in Int /\ key[x] \in Int
  OBVIOUS
<1> QED
  BY <1>1, <1>2 DEF OrdersTotally

(* Sorting by a key puts every place once, by key and then as it was.      *)
LEMMA ByKeySorts ==
  ASSUME NEW key, IsFiniteSet(DOMAIN key), DOMAIN key \subseteq Int,
         \A i \in DOMAIN key : key[i] \in Int
  PROVE  /\ Cardinality(DOMAIN key) \in Nat
         /\ ByKey(key) \in [1..Cardinality(DOMAIN key) -> DOMAIN key]
         /\ \A x \in DOMAIN key : \E k \in 1..Cardinality(DOMAIN key) : ByKey(key)[k] = x
         /\ \A i, j \in 1..Cardinality(DOMAIN key) : i < j <=>
               \/ key[ByKey(key)[i]] < key[ByKey(key)[j]]
               \/ key[ByKey(key)[i]] = key[ByKey(key)[j]] /\ ByKey(key)[i] < ByKey(key)[j]
<1>1. OrdersTotally(KeyOrder(key), DOMAIN key)
  BY KeyOrderTotal
<1>2. ByKey(key) = InOrder(DOMAIN key, KeyOrder(key))
  BY DEF ByKey, KeyOrder
<1> DEFINE o == ByKey(key)
           n == Cardinality(DOMAIN key)
<1>3. /\ n \in Nat /\ o \in [1..n -> DOMAIN key]
      /\ \A x \in DOMAIN key : \E k \in 1..n : o[k] = x
      /\ \A i, j \in 1..n : i < j <=> <<o[i], o[j]>> \in KeyOrder(key)
  BY <1>1, <1>2, InOrderSorts
<1> HIDE DEF o
<1>4. \A i, j \in 1..n : <<o[i], o[j]>> \in KeyOrder(key) <=>
          \/ key[o[i]] < key[o[j]]
          \/ key[o[i]] = key[o[j]] /\ o[i] < o[j]
  BY <1>3 DEF KeyOrder
<1> QED
  BY <1>3, <1>4 DEF o
-----------------------------------------------------------------------------
(* The sum of a combination is the combination of the sums.                *)
Combines(h, a, f, b, g, S) ==
    \A x \in S : f[x] \in Int /\ g[x] \in Int /\ h[x] = a * f[x] + b * g[x]

LEMMA SumLinear ==
  ASSUME NEW S, IsFiniteSet(S), NEW a \in Int, NEW b \in Int, NEW f, NEW g, NEW h,
         Combines(h, a, f, b, g, S)
  PROVE  SumFunctionOnSet(h, S) = a * SumFunctionOnSet(f, S) + b * SumFunctionOnSet(g, S)
<1> DEFINE P == {s \in SUBSET S : SumFunctionOnSet(h, s) =
                    a * SumFunctionOnSet(f, s) + b * SumFunctionOnSet(g, s)}
<1>1. ASSUME NEW s \in SUBSET S, \A x \in s : s \ {x} \in P
      PROVE  s \in P
  <2>1. CASE s = {}
    <3>1. \A e : SumFunctionOnSet(e, s) = 0
      BY <2>1, SumOfNone
    <3> QED
      BY <3>1
  <2>2. CASE s # {}
    <3>1. PICK x \in s : TRUE
      BY <2>2
    <3>2. IsFiniteSet(s) /\ IsFiniteSet(s \ {x})
      BY FS_Subset
    <3>3. /\ IntValued(f, s) /\ IntValued(g, s) /\ IntValued(h, s)
          /\ IntValued(f, s \ {x}) /\ IntValued(g, s \ {x})
      BY DEF IntValued, Combines
    <3> DEFINE F == SumFunctionOnSet(f, s \ {x})
               G == SumFunctionOnSet(g, s \ {x})
    <3>4. /\ SumFunctionOnSet(f, s) = f[x] + F
          /\ SumFunctionOnSet(g, s) = g[x] + G
          /\ SumFunctionOnSet(h, s) = h[x] + SumFunctionOnSet(h, s \ {x})
      BY <3>1, <3>2, <3>3, SumRemoves
    <3>5. SumFunctionOnSet(h, s \ {x}) = a * F + b * G
      BY <1>1, <3>1
    <3>6. F \in Int /\ G \in Int
      BY <3>2, <3>3, SumTypes
    <3>7. f[x] \in Int /\ g[x] \in Int /\ h[x] = a * f[x] + b * g[x]
      BY <3>1 DEF Combines
    <3>8. \A c, d, e, i \in Int :
             (a * c + b * d) + (a * e + b * i) = a * (c + e) + b * (d + i)
      OBVIOUS
    <3> HIDE DEF F, G
    <3>9. SumFunctionOnSet(h, s) = a * (f[x] + F) + b * (g[x] + G)
      BY <3>4, <3>5, <3>6, <3>7, <3>8
    <3> QED
      BY <3>4, <3>9
  <2> QED
    BY <2>1, <2>2
<1> HIDE DEF P
<1>2. \A s \in SUBSET S : s \in P
  BY <1>1, SubsetInduction
<1> QED
  BY <1>2 DEF P

(* p has the products of f and g, and d those of each less a number.       *)
HasProducts(p, f, g, S) ==
    \A y \in S : f[y] \in Int /\ g[y] \in Int /\ p[y] = f[y] * g[y]

HasSpans(d, f, g, a, b, S) == \A y \in S : d[y] = (f[y] - a) * (g[y] - b)

LEMMA SumProducts ==
  ASSUME NEW S, IsFiniteSet(S), NEW a \in Int, NEW b \in Int,
         NEW f, NEW g, NEW p, HasProducts(p, f, g, S),
         NEW d, HasSpans(d, f, g, a, b, S)
  PROVE  SumFunctionOnSet(d, S) =
           SumFunctionOnSet(p, S) - a * SumFunctionOnSet(g, S)
             - b * SumFunctionOnSet(f, S) + Cardinality(S) * (a * b)
<1> DEFINE u == [x \in S |-> 1 * p[x] + (-a) * g[x]]
           w == [x \in S |-> (-b) * f[x] + (a * b) * 1]
           one == [x \in S |-> 1]
<1>1. \A x \in S : p[x] = f[x] * g[x] /\ d[x] = (f[x] - a) * (g[x] - b)
  BY DEF HasProducts, HasSpans
<1>2. \A x \in S : p[x] \in Int /\ f[x] \in Int /\ g[x] \in Int
  BY DEF HasProducts
<1>3. \A x \in S : u[x] \in Int /\ u[x] = 1 * p[x] + (-a) * g[x]
  BY <1>2
<1>4. \A x \in S : w[x] \in Int /\ w[x] = (-b) * f[x] + (a * b) * one[x] /\ one[x] = 1
  BY <1>2
<1>5. \A c, e \in Int : (c - a) * (e - b)
         = 1 * (1 * (c * e) + (-a) * e) + 1 * ((-b) * c + (a * b) * 1)
  OBVIOUS
<1>6. \A x \in S : d[x] = 1 * u[x] + 1 * w[x]
  BY <1>1, <1>2, <1>5
<1> HIDE DEF u, w, one
<1>7. SumFunctionOnSet(u, S) = 1 * SumFunctionOnSet(p, S) + (-a) * SumFunctionOnSet(g, S)
  <2>1. Combines(u, 1, p, -a, g, S) /\ -a \in Int
    BY <1>2, <1>3 DEF Combines
  <2> QED
    BY <2>1, SumLinear
<1>8. SumFunctionOnSet(w, S) = (-b) * SumFunctionOnSet(f, S) + (a * b) * SumFunctionOnSet(one, S)
  <2> DEFINE i == -b
             j == a * b
  <2>1. i \in Int /\ j \in Int
    OBVIOUS
  <2>2. Combines(w, i, f, j, one, S)
    BY <1>2, <1>4 DEF Combines
  <2> HIDE DEF i, j
  <2>3. SumFunctionOnSet(w, S) = i * SumFunctionOnSet(f, S) + j * SumFunctionOnSet(one, S)
    BY <2>1, <2>2, SumLinear
  <2> QED
    BY <2>3 DEF i, j
<1>9. SumFunctionOnSet(d, S) = 1 * SumFunctionOnSet(u, S) + 1 * SumFunctionOnSet(w, S)
  <2>1. Combines(d, 1, u, 1, w, S)
    BY <1>3, <1>4, <1>6 DEF Combines
  <2> QED
    BY <2>1, SumLinear
<1>10. SumFunctionOnSet(one, S) = Cardinality(S) /\ Cardinality(S) \in Nat
  BY <1>4, SumOfOnes, FS_CardinalityType
<1>11. /\ SumFunctionOnSet(p, S) \in Int /\ SumFunctionOnSet(g, S) \in Int
       /\ SumFunctionOnSet(f, S) \in Int
  BY <1>2, SumTypes DEF IntValued
<1>12. \A c, e, i, n \in Int :
          1 * (1 * c + (-a) * e) + 1 * ((-b) * i + (a * b) * n)
            = c - a * e - b * i + n * (a * b)
  OBVIOUS
<1> QED
  BY <1>7, <1>8, <1>9, <1>10, <1>11, <1>12

(* n times the sum of the products, less the product of the sums: the      *)
(* covariance of f and g, scaled.  p has their products.                   *)
Covariance(S, f, g, p) ==
    Cardinality(S) * SumFunctionOnSet(p, S)
      - SumFunctionOnSet(f, S) * SumFunctionOnSet(g, S)

LEMMA CovarianceGrows ==
  ASSUME NEW S, IsFiniteSet(S), NEW f, NEW g, NEW p, NEW x \in S,
         HasProducts(p, f, g, S), NEW d, HasSpans(d, f, g, f[x], g[x], S \ {x})
  PROVE  /\ Covariance(S \ {x}, f, g, p) \in Int
         /\ Covariance(S, f, g, p)
              = Covariance(S \ {x}, f, g, p) + SumFunctionOnSet(d, S \ {x})
<1> DEFINE T == S \ {x}
<1>1. IsFiniteSet(T) /\ Cardinality(S) = Cardinality(T) + 1 /\ Cardinality(T) \in Nat
  <2>1. IsFiniteSet(T) /\ Cardinality(T) = Cardinality(S) - 1
    BY FS_RemoveElement
  <2>2. Cardinality(T) \in Nat /\ Cardinality(S) \in Nat
    BY <2>1, FS_CardinalityType
  <2> HIDE DEF T
  <2> QED
    BY <2>1, <2>2
<1>2. /\ IntValued(f, S) /\ IntValued(g, S) /\ IntValued(p, S)
      /\ IntValued(f, T) /\ IntValued(g, T) /\ IntValued(p, T)
  BY DEF IntValued, HasProducts
<1>3. /\ SumFunctionOnSet(f, S) = f[x] + SumFunctionOnSet(f, T)
      /\ SumFunctionOnSet(g, S) = g[x] + SumFunctionOnSet(g, T)
      /\ SumFunctionOnSet(p, S) = p[x] + SumFunctionOnSet(p, T)
  BY <1>2, SumRemoves
<1> DEFINE F == SumFunctionOnSet(f, T)
           G == SumFunctionOnSet(g, T)
           Q == SumFunctionOnSet(p, T)
           n == Cardinality(T)
<1>4. F \in Int /\ G \in Int /\ Q \in Int /\ n \in Int
  BY <1>1, <1>2, SumTypes
<1>5. f[x] \in Int /\ g[x] \in Int /\ p[x] = f[x] * g[x]
  BY DEF HasProducts
<1>6. SumFunctionOnSet(d, T) = Q - f[x] * G - g[x] * F + n * (f[x] * g[x])
  <2> DEFINE a == f[x]
             b == g[x]
  <2>1. HasProducts(p, f, g, T)
    BY DEF HasProducts
  <2>2. a \in Int /\ b \in Int /\ HasSpans(d, f, g, a, b, T)
    BY <1>5
  <2> HIDE DEF T, a, b
  <2>3. SumFunctionOnSet(d, T) =
           SumFunctionOnSet(p, T) - a * SumFunctionOnSet(g, T)
             - b * SumFunctionOnSet(f, T) + Cardinality(T) * (a * b)
    BY <1>1, <2>1, <2>2, SumProducts
  <2> QED
    BY <2>3 DEF a, b
<1>7. \A a, b, F1, G1, Q1, m \in Int :
         (m + 1) * (a * b + Q1) - (a + F1) * (b + G1)
           = (m * Q1 - F1 * G1) + (Q1 - a * G1 - b * F1 + m * (a * b))
  OBVIOUS
<1>8. Covariance(S, f, g, p) = (n + 1) * (f[x] * g[x] + Q) - (f[x] + F) * (g[x] + G)
  BY <1>1, <1>3, <1>5 DEF Covariance
<1>9. Covariance(T, f, g, p) = n * Q - F * G
  BY DEF Covariance
<1> HIDE DEF F, G, Q, n
<1>10. Covariance(S, f, g, p) = Covariance(T, f, g, p) + SumFunctionOnSet(d, T)
  <2> DEFINE a == f[x]
             b == g[x]
  <2>1. a \in Int /\ b \in Int
    BY <1>5
  <2> HIDE DEF T, a, b
  <2>2. (n + 1) * (a * b + Q) - (a + F) * (b + G)
           = (n * Q - F * G) + (Q - a * G - b * F + n * (a * b))
    BY <1>4, <1>7, <2>1
  <2> USE DEF a, b
  <2> QED
    BY <1>6, <1>8, <1>9, <2>2, Zenon
<1>11. Covariance(T, f, g, p) \in Int
  BY <1>4, <1>9
<1> QED
  BY <1>10, <1>11

(* What never moves in opposite directions has a covariance that is not    *)
(* negative, and what always moves in the same one a positive covariance.  *)
MoveTogether(f, g, S) == \A x, y \in S : (f[y] - f[x]) * (g[y] - g[x]) >= 0

LEMMA CovarianceSign ==
  ASSUME NEW S, IsFiniteSet(S), NEW f, NEW g, NEW p,
         HasProducts(p, f, g, S), MoveTogether(f, g, S)
  PROVE  /\ Covariance(S, f, g, p) \in Int
         /\ Covariance(S, f, g, p) >= 0
         /\ \A x, y \in S : (f[y] - f[x]) * (g[y] - g[x]) > 0 => Covariance(S, f, g, p) > 0
<1> DEFINE P == {s \in SUBSET S :
                   /\ Covariance(s, f, g, p) \in Int
                   /\ Covariance(s, f, g, p) >= 0
                   /\ \A x, y \in s : (f[y] - f[x]) * (g[y] - g[x]) > 0
                         => Covariance(s, f, g, p) > 0}
<1>1. ASSUME NEW s \in SUBSET S, \A x \in s : s \ {x} \in P
      PROVE  s \in P
  <2>1. CASE s = {}
    <3>1. \A e : SumFunctionOnSet(e, s) = 0
      BY <2>1, SumOfNone
    <3>2. Cardinality(s) = 0
      BY <2>1, FS_EmptySet
    <3>3. Covariance(s, f, g, p) = 0
      BY <3>1, <3>2 DEF Covariance
    <3> QED
      BY <2>1, <3>3
  <2>2. ASSUME NEW x \in s
        PROVE  /\ Covariance(s, f, g, p) \in Int
               /\ Covariance(s, f, g, p) >= 0
               /\ \A y \in s : (f[y] - f[x]) * (g[y] - g[x]) > 0
                     => Covariance(s, f, g, p) > 0
    <3> DEFINE T == s \ {x}
               d == [y \in T |-> (f[y] - f[x]) * (g[y] - g[x])]
    <3>1. IsFiniteSet(s) /\ IsFiniteSet(T)
      BY FS_Subset
    <3>2. \A y \in T : d[y] = (f[y] - f[x]) * (g[y] - g[x])
      OBVIOUS
    <3>3. \A y \in s : f[y] \in Int /\ g[y] \in Int
      BY DEF HasProducts
    <3>4. \A y \in T : d[y] \in Int /\ d[y] >= 0
      BY <3>3 DEF MoveTogether
    <3>5. \A y \in T : d[y] \in Nat
      BY <3>4
    <3> HIDE DEF d
    <3>6. /\ Covariance(T, f, g, p) \in Int
          /\ Covariance(s, f, g, p) = Covariance(T, f, g, p) + SumFunctionOnSet(d, T)
      <4>1. HasProducts(p, f, g, s) /\ HasSpans(d, f, g, f[x], g[x], T)
        BY <3>2 DEF HasProducts, HasSpans
      <4> QED
        BY <3>1, <4>1, CovarianceGrows
    <3> DEFINE new == Covariance(s, f, g, p)
               old == Covariance(T, f, g, p)
               more == SumFunctionOnSet(d, T)
    <3>7. SumFunctionOnSet(d, T) \in Nat /\ \A y \in T : d[y] <= SumFunctionOnSet(d, T)
      BY <3>1, <3>5, SumOfNaturals
    <3>8. Covariance(T, f, g, p) >= 0
      BY <1>1
    <3>9. ASSUME NEW y \in s, (f[y] - f[x]) * (g[y] - g[x]) > 0
          PROVE  Covariance(s, f, g, p) > 0
      <4>1. y # x
        <5> SUFFICES ASSUME y = x PROVE FALSE
          OBVIOUS
        <5>1. f[x] \in Int /\ g[x] \in Int
          BY <3>3
        <5>2. (f[y] - f[x]) * (g[y] - g[x]) = 0
          BY <5>1
        <5> QED
          BY <3>9, <5>2
      <4>2. d[y] > 0 /\ d[y] <= SumFunctionOnSet(d, T) /\ d[y] \in Int
        BY <3>2, <3>4, <3>7, <3>9, <4>1
      <4> QED
        BY <3>6, <3>7, <3>8, <4>2
    <3>10. old \in Int /\ new = old + more /\ more \in Nat /\ old >= 0
      BY <3>6, <3>7, <3>8
    <3> HIDE DEF new, old, more
    <3>11. new \in Int /\ new >= 0
      BY <3>10
    <3> QED
      BY <3>9, <3>11 DEF new
  <2>3. ASSUME s # {} PROVE s \in P
    <3>1. PICK x \in s : TRUE
      BY <2>3
    <3> QED
      BY <2>2, <3>1
  <2> QED
    BY <2>1, <2>3
<1> HIDE DEF P
<1>2. \A s \in SUBSET S : s \in P
  BY <1>1, SubsetInduction
<1> QED
  BY <1>2 DEF P

(* What every step raises (or never lowers) is higher (or no lower) after  *)
(* many of them.                                                           *)
LEMMA StepsRise ==
  ASSUME NEW n \in Nat, NEW z, \A k \in 1..n : z[k] \in Int,
         NEW m \in Int, \A k \in 1..(n - 1) : z[k + 1] - z[k] >= m, m >= 0
  PROVE  \A i, j \in 1..n : i < j => z[j] - z[i] >= m
<1> DEFINE Bad == {j \in 1..n : \E i \in 1..n : i < j /\ ~(z[j] - z[i] >= m)}
<1> SUFFICES ASSUME Bad # {} PROVE FALSE
  OBVIOUS
<1>1. Bad \in SUBSET Nat
  OBVIOUS
<1>2. PICK j \in Bad : \A k \in Bad : j <= k
  <2> HIDE DEF Bad
  <2> QED
    BY <1>1, LeastNatural
<1>3. PICK i \in 1..n : i < j /\ ~(z[j] - z[i] >= m)
  OBVIOUS
<1>4. j \in 1..n /\ j - 1 \in 1..(n - 1) /\ j - 1 \in 1..n /\ (j - 1) + 1 = j
  BY <1>3
<1>5. z[j] - z[j - 1] >= m
  BY <1>4
<1>6. i # j - 1 => z[j - 1] - z[i] >= m
  <2>1. j - 1 \notin Bad
    BY <1>2, <1>4
  <2> QED
    BY <1>3, <1>4, <2>1
<1>7. z[i] \in Int /\ z[j] \in Int /\ z[j - 1] \in Int
  BY <1>3, <1>4
<1> QED
  BY <1>3, <1>5, <1>6, <1>7
-----------------------------------------------------------------------------
(* Places that are listed in rising order, every one of them, are listed   *)
(* in the order in which AtPlaces takes them.                              *)
LEMMA PlacesInOrder ==
  ASSUME NEW P \in SUBSET Int, NEW n \in Nat, NEW o \in [1..n -> P],
         \A x \in P : \E k \in 1..n : o[k] = x,
         \A i, j \in 1..n : i < j => o[i] < o[j]
  PROVE  /\ IsFiniteSet(P) /\ Cardinality(P) = n
         /\ \A s : AtPlaces(s, P) = [k \in 1..n |-> s[o[k]]]
<1>1. ASSUME NEW m \in 0..n
      PROVE  /\ IsFiniteSet({o[j] : j \in 1..m})
             /\ Cardinality({o[j] : j \in 1..m}) = m
  <2> DEFINE f == [j \in 1..m |-> o[j]]
             T == {o[j] : j \in 1..m}
  <2>1. m \in Nat /\ \A j \in 1..m : j \in 1..n /\ o[j] \in Int
    <3>1. m \in Nat /\ \A j \in 1..m : j \in 1..n
      OBVIOUS
    <3>2. \A j \in 1..n : o[j] \in Int
      <4>1. \A j \in 1..n : o[j] \in P
        OBVIOUS
      <4> QED
        BY <4>1
    <3> QED
      BY <3>1, <3>2
  <2>2. IsFiniteSet(1..m) /\ Cardinality(1..m) = m
    <3>1. 1 \in Int /\ m \in Int
      BY <2>1
    <3>2. IsFiniteSet(1..m) /\ Cardinality(1..m) = IF 1 > m THEN 0 ELSE m - 1 + 1
      BY <3>1, FS_Interval
    <3> QED
      BY <2>1, <3>2
  <2>3. \A i, j \in 1..m : o[i] = o[j] => i = j
    <3> SUFFICES ASSUME NEW i \in 1..m, NEW j \in 1..m, o[i] = o[j], i # j PROVE FALSE
      OBVIOUS
    <3>1. i < j \/ j < i
      OBVIOUS
    <3>2. o[i] < o[j] \/ o[j] < o[i]
      BY <2>1, <3>1
    <3> QED
      BY <2>1, <3>2
  <2>4. f \in Bijection(1..m, T)
    <3>1. f \in [1..m -> T] /\ \A j \in 1..m : f[j] = o[j]
      OBVIOUS
    <3>2. \A t \in T : \E j \in 1..m : f[j] = t
      OBVIOUS
    <3> HIDE DEF f, T
    <3> QED
      BY <2>3, <3>1, <3>2 DEF Bijection, Injection, Surjection, IsInjective
  <2> HIDE DEF T, f
  <2>5. IsFiniteSet(T) /\ Cardinality(T) = Cardinality(1..m)
    BY <2>2, <2>4, FS_Bijection DEF ExistsBijection
  <2> QED
    BY <2>2, <2>5 DEF T
<1>2. IsFiniteSet(P) /\ Cardinality(P) = n
  <2>1. n \in 0..n /\ {o[j] : j \in 1..n} \subseteq P
    OBVIOUS
  <2>2. P \subseteq {o[j] : j \in 1..n}
    OBVIOUS
  <2>3. P = {o[j] : j \in 1..n}
    BY <2>1, <2>2
  <2> QED
    BY <1>1, <2>1, <2>3
<1> DEFINE key == [i \in P |-> i]
           before == KeyOrder(key)
<1>3. DOMAIN key = P /\ \A i \in P : key[i] = i /\ key[i] \in Int
  OBVIOUS
<1> HIDE DEF key
<1>4. OrdersTotally(before, P)
  BY <1>3, KeyOrderTotal
<1>5. \A x, y \in P : <<x, y>> \in before <=> x < y
  <2> SUFFICES ASSUME NEW x \in P, NEW y \in P PROVE <<x, y>> \in before <=> x < y
    OBVIOUS
  <2>1. <<x, y>> \in before <=> key[x] < key[y] \/ (key[x] = key[y] /\ x < y)
    BY <1>3 DEF KeyOrder
  <2> QED
    BY <1>3, <2>1
<1> HIDE DEF before
<1>6. ASSUME NEW k \in 1..n
      PROVE  InOrder(P, before)[k] = o[k]
  <2>1. k - 1 \in 0..n /\ o[k] \in P
    OBVIOUS
  <2>2. Earlier(P, before, o[k]) = {o[j] : j \in 1..(k - 1)}
    <3>1. ASSUME NEW y \in Earlier(P, before, o[k])
          PROVE  y \in {o[j] : j \in 1..(k - 1)}
      <4>1. y \in P /\ y < o[k]
        BY <1>5, <2>1 DEF Earlier
      <4>2. PICK j \in 1..n : o[j] = y
        BY <4>1
      <4>3. ~(k < j) /\ j # k
        <5>1. o[j] \in Int /\ o[k] \in Int
          BY <2>1, <4>1, <4>2
        <5> QED
          BY <4>1, <4>2, <5>1
      <4>4. j \in 1..(k - 1)
        BY <4>3
      <4> QED
        BY <4>2, <4>4
    <3>2. ASSUME NEW j \in 1..(k - 1)
          PROVE  o[j] \in Earlier(P, before, o[k])
      <4>1. j \in 1..n /\ j < k
        OBVIOUS
      <4>2. o[j] \in P /\ o[j] < o[k]
        BY <4>1
      <4> QED
        BY <1>5, <2>1, <4>2 DEF Earlier
    <3> QED
      BY <3>1, <3>2
  <2>3. Cardinality(Earlier(P, before, o[k])) = k - 1
    BY <1>1, <2>1, <2>2
  <2>4. InOrder(P, before)[(k - 1) + 1] = o[k]
    BY <1>2, <1>4, <2>1, <2>3, InOrderAt
  <2>5. (k - 1) + 1 = k
    OBVIOUS
  <2> QED
    BY <2>4, <2>5
<1>7. ByKey(key) = InOrder(P, before)
  BY <1>3 DEF ByKey, KeyOrder, before
<1>8. DOMAIN ByKey(key) = 1..n
  BY <1>2, <1>7 DEF InOrder
<1>9. ASSUME NEW s
      PROVE  AtPlaces(s, P) = [k \in 1..n |-> s[o[k]]]
  <2>1. AtPlaces(s, P) = [k \in DOMAIN ByKey(key) |-> s[ByKey(key)[k]]]
    BY DEF AtPlaces, Sorted, key
  <2>2. \A k \in 1..n : ByKey(key)[k] = o[k]
    BY <1>6, <1>7
  <2>3. AtPlaces(s, P) = [k \in 1..n |-> s[ByKey(key)[k]]]
    BY <1>8, <2>1
  <2> QED
    BY <2>2, <2>3
<1> QED
  BY <1>2, <1>9
-----------------------------------------------------------------------------
(* The greatest value of a function over a finite set, or 0.              *)
LEMMA GreatestValue ==
  ASSUME NEW S, IsFiniteSet(S), NEW f, IntValued(f, S)
  PROVE  \E b \in {0} \cup {f[x] : x \in S} : 0 <= b /\ \A x \in S : f[x] <= b
<1>0. \A x \in S : f[x] \in Int
  BY DEF IntValued
<1> DEFINE Above(b, s) == b \in {0} \cup {f[x] : x \in s} /\ 0 <= b /\ \A x \in s : f[x] <= b
           P == {s \in SUBSET S : \E b \in Int : Above(b, s)}
<1>1. ASSUME NEW s \in SUBSET S, \A x \in s : s \ {x} \in P
      PROVE  \E b \in Int : Above(b, s)
  <2>1. CASE s = {}
    <3>1. Above(0, s)
      BY <2>1
    <3> QED
      BY <3>1
  <2>2. ASSUME NEW x \in s PROVE \E b \in Int : Above(b, s)
    <3>1. PICK z \in Int : Above(z, s \ {x})
      BY <1>1, <2>2
    <3>2. f[x] \in Int /\ 0 <= z /\ \A y \in s \ {x} : f[y] <= z /\ f[y] \in Int
      BY <1>0, <3>1
    <3>3. CASE f[x] <= z
      <4>1. Above(z, s)
        BY <3>1, <3>3
      <4> QED
        BY <4>1
    <3>4. CASE ~(f[x] <= z)
      <4>1. 0 <= f[x] /\ \A y \in s \ {x} : f[y] <= f[x]
        BY <3>2, <3>4
      <4>2. \A y \in s : f[y] <= f[x]
        BY <3>2, <4>1
      <4>3. Above(f[x], s)
        BY <4>1, <4>2
      <4> QED
        BY <3>2, <4>3
    <3> QED
      BY <3>3, <3>4
  <2> QED
    BY <2>1, <2>2
<1> HIDE DEF Above
<1>2. \A s \in SUBSET S : (\A x \in s : s \ {x} \in P) => s \in P
  BY <1>1
<1> HIDE DEF P
<1>3. S \in P
  BY <1>2, SubsetInduction
<1> QED
  BY <1>3 DEF P, Above
=============================================================================
