---------------------------- MODULE SumTheorems ----------------------------
(***************************************************************************)
(* What the proofs of the other modules need of sums over finite sets.     *)
(* The models add up weights with the folds of the community modules.      *)
(* The lemmas are about SumFunctionOnSet, the fold of a function: a lemma  *)
(* with an operator parameter, as MapThenSumSet has, could be stated but   *)
(* not be instantiated.                                                    *)
(***************************************************************************)
EXTENDS FiniteSetsExt, FiniteSetTheorems, TLAPS

\* Induction over the subsets of a finite set, with a set in the place of the
\* induction predicate: if a subset of S is in Q whenever all its proper
\* subsets are, then every subset of S is in Q.
LEMMA SubsetInduction ==
  ASSUME NEW S, IsFiniteSet(S), NEW Q,
         \A s \in SUBSET S : (\A u \in SUBSET s : u # s => u \in Q) => s \in Q
  PROVE  \A s \in SUBSET S : s \in Q
<1> DEFINE Bad == {s \in SUBSET S : s \notin Q}
<1> SUFFICES ASSUME Bad # {} PROVE FALSE
  OBVIOUS
<1>1. IsWellFoundedOn(StrictSubsetOrdering(S), FiniteSubsetsOf(S))
  BY FS_StrictSubsetOrderingWellFounded, Zenon
<1>2. FiniteSubsetsOf(S) = SUBSET S
  BY FS_FiniteSubsetsOfFinite, Zenon
<1>3. Bad \subseteq FiniteSubsetsOf(S)
  BY <1>2
<1>4. \E x \in Bad : \A y \in Bad : ~ (<<y, x>> \in StrictSubsetOrdering(S))
  <2> HIDE DEF Bad
  <2> QED BY ONLY <1>1, <1>3, Bad # {}, WFMin, Zenon
<1>5. PICK x \in Bad : \A y \in Bad : ~ (<<y, x>> \in StrictSubsetOrdering(S))
  BY <1>4
<1>6. \A u \in SUBSET x : u # x => u \in Q
  BY <1>5 DEF StrictSubsetOrdering
<1> QED BY <1>6

----------------------------------------------------------------------------
(***************************************************************************)
(* The recursive function inside the fold, and that it is well defined.    *)
(***************************************************************************)

\* The element that the fold takes next.
Pick(s) == CHOOSE x \in s : TRUE

\* g is the recursive function of the fold of f over the subsets of S.
IsIter(g, f, S) ==
  g = [s \in SUBSET S |-> IF s = {} THEN 0 ELSE f[Pick(s)] + g[s \ {Pick(s)}]]

\* The function that the fold of f over S evaluates at S.
Iter(f, S) ==
  CHOOSE g : g = [s \in SUBSET S |-> IF s = {} THEN 0 ELSE f[Pick(s)] + g[s \ {Pick(s)}]]

\* SumFunctionOnSet, spelled out with the operators above.
LEMMA SumIsIter ==
  ASSUME NEW f, NEW S
  PROVE  SumFunctionOnSet(f, S) = Iter(f, S)[S]
BY DEF SumFunctionOnSet, FoldFunctionOnSet, MapThenFoldSet, Iter, Pick

\* A non-empty set has a next element.
LEMMA PickIn ==
  ASSUME NEW S, S # {}
  PROVE  Pick(S) \in S
BY DEF Pick

\* There is at most one such function.
LEMMA IterUnique ==
  ASSUME NEW S, IsFiniteSet(S), NEW f, NEW g, NEW h, IsIter(g, f, S), IsIter(h, f, S)
  PROVE  g = h
<1> DEFINE Q == {s \in SUBSET S : g[s] = h[s]}
<1>1. ASSUME NEW s \in SUBSET S, \A u \in SUBSET s : u # s => u \in Q
      PROVE  s \in Q
  <2>1. CASE s = {}
    BY <2>1 DEF IsIter
  <2>2. CASE s # {}
    <3>1. Pick(s) \in s
      BY <2>2, PickIn
    <3>2. s \ {Pick(s)} \in Q
      BY <1>1, <3>1
    <3>3. g[s] = f[Pick(s)] + g[s \ {Pick(s)}] /\ h[s] = f[Pick(s)] + h[s \ {Pick(s)}]
      BY <2>2 DEF IsIter
    <3> QED BY <3>2, <3>3
  <2> QED BY <2>1, <2>2
<1>2. \A s \in SUBSET S : s \in Q
  <2> HIDE DEF Q
  <2> QED BY <1>1, SubsetInduction
<1>3. g = [s \in SUBSET S |-> g[s]] /\ h = [s \in SUBSET S |-> h[s]]
  BY DEF IsIter
<1> QED BY <1>2, <1>3

\* Such a function for S, restricted to the subsets of T, is the one for T.
LEMMA IterRestrict ==
  ASSUME NEW S, NEW f, NEW g, IsIter(g, f, S), NEW T \in SUBSET S
  PROVE  IsIter([s \in SUBSET T |-> g[s]], f, T)
<1> DEFINE h == [s \in SUBSET T |-> g[s]]
<1>1. ASSUME NEW s \in SUBSET T
      PROVE  h[s] = IF s = {} THEN 0 ELSE f[Pick(s)] + h[s \ {Pick(s)}]
  <2>1. g[s] = IF s = {} THEN 0 ELSE f[Pick(s)] + g[s \ {Pick(s)}]
    BY DEF IsIter
  <2>2. s \ {Pick(s)} \in SUBSET T
    OBVIOUS
  <2> QED BY <2>1, <2>2
<1> QED BY <1>1 DEF IsIter

\* There is such a function for every finite set.
LEMMA IterExists ==
  ASSUME NEW S, IsFiniteSet(S), NEW f
  PROVE  IsIter(Iter(f, S), f, S)
<1> DEFINE Q == {s \in SUBSET S : IsIter(Iter(f, s), f, s)}
<1>1. ASSUME NEW s \in SUBSET S, \A u \in SUBSET s : u # s => u \in Q
      PROVE  s \in Q
  <2> DEFINE val(u) == IF u = {} THEN 0 ELSE f[Pick(u)] + Iter(f, u \ {Pick(u)})[u \ {Pick(u)}]
             G == [u \in SUBSET s |-> val(u)]
  <2>1. ASSUME NEW v \in SUBSET s, v # s
        PROVE  val(v) = Iter(f, v)[v]
    <3>1. IsIter(Iter(f, v), f, v)
      BY <1>1, <2>1
    <3>2. CASE v = {}
      BY <3>1, <3>2 DEF IsIter
    <3>3. CASE v # {}
      <4> DEFINE w == v \ {Pick(v)}
      <4>1. IsIter([x \in SUBSET w |-> Iter(f, v)[x]], f, w)
        <5>1. w \in SUBSET v
          OBVIOUS
        <5> HIDE DEF w
        <5> QED BY <3>1, <5>1, IterRestrict
      <4>2. w \in SUBSET s /\ w # s
        BY <2>1, <3>3, PickIn
      <4>3. IsIter(Iter(f, w), f, w)
        BY <1>1, <4>2
      <4>4. IsFiniteSet(w)
        BY FS_Subset, w \in SUBSET S
      <4>5. [x \in SUBSET w |-> Iter(f, v)[x]] = Iter(f, w)
        <5> HIDE DEF w
        <5> QED BY <4>1, <4>3, <4>4, IterUnique
      <4>6. Iter(f, v)[w] = Iter(f, w)[w]
        BY <4>5
      <4>7. Iter(f, v)[v] = f[Pick(v)] + Iter(f, v)[w]
        BY <3>1, <3>3 DEF IsIter
      <4> QED BY <3>3, <4>6, <4>7
    <3> QED BY <3>2, <3>3
  <2>2. ASSUME NEW u \in SUBSET s
        PROVE  val(u) = IF u = {} THEN 0 ELSE f[Pick(u)] + G[u \ {Pick(u)}]
    <3>1. CASE u = {}
      BY <3>1
    <3>2. CASE u # {}
      <4>1. u \ {Pick(u)} \in SUBSET s /\ u \ {Pick(u)} # s
        BY <3>2, PickIn
      <4>2. G[u \ {Pick(u)}] = Iter(f, u \ {Pick(u)})[u \ {Pick(u)}]
        <5> HIDE DEF val
        <5> QED BY <4>1, <2>1
      <4> QED BY <3>2, <4>2
    <3> QED BY <3>1, <3>2
  <2>3. G = [u \in SUBSET s |-> IF u = {} THEN 0 ELSE f[Pick(u)] + G[u \ {Pick(u)}]]
    <3> HIDE DEF val
    <3> QED BY <2>2
  <2>4. \E g : g = [u \in SUBSET s |-> IF u = {} THEN 0 ELSE f[Pick(u)] + g[u \ {Pick(u)}]]
    <3> HIDE DEF G
    <3> QED BY <2>3
  <2>5. IsIter(Iter(f, s), f, s)
    BY <2>4 DEF IsIter, Iter
  <2> QED BY <2>5
<1>2. \A s \in SUBSET S : s \in Q
  <2> HIDE DEF Q
  <2> QED BY <1>1, SubsetInduction
<1> QED BY <1>2

----------------------------------------------------------------------------
(***************************************************************************)
(* The equations of the sum.                                               *)
(***************************************************************************)

\* The sum over no element is 0.
LEMMA SumEmpty ==
  ASSUME NEW f
  PROVE  SumFunctionOnSet(f, {}) = 0
<1>1. IsIter(Iter(f, {}), f, {})
  BY IterExists, FS_EmptySet
<1> QED BY <1>1, SumIsIter DEF IsIter

\* The sum over a non-empty set: the element taken next, and the rest.
LEMMA SumStep ==
  ASSUME NEW S, IsFiniteSet(S), S # {}, NEW f
  PROVE  SumFunctionOnSet(f, S) = f[Pick(S)] + SumFunctionOnSet(f, S \ {Pick(S)})
<1> DEFINE T == S \ {Pick(S)}
<1>1. IsIter(Iter(f, S), f, S)
  BY IterExists
<1>2. IsFiniteSet(T) /\ T \in SUBSET S
  BY FS_Subset
<1> HIDE DEF T
<1>3. IsIter(Iter(f, T), f, T)
  BY <1>2, IterExists
<1>4. IsIter([s \in SUBSET T |-> Iter(f, S)[s]], f, T)
  BY <1>1, <1>2, IterRestrict
<1>5. [s \in SUBSET T |-> Iter(f, S)[s]] = Iter(f, T)
  BY <1>2, <1>3, <1>4, IterUnique
<1>6. Iter(f, S)[T] = Iter(f, T)[T]
  BY <1>5
<1>7. Iter(f, S)[S] = f[Pick(S)] + Iter(f, S)[T]
  BY <1>1 DEF IsIter, T
<1> QED BY <1>6, <1>7, SumIsIter DEF T

\* A sum of integers is an integer.
LEMMA SumInt ==
  ASSUME NEW S, IsFiniteSet(S), NEW f, \A x \in S : f[x] \in Int
  PROVE  SumFunctionOnSet(f, S) \in Int
<1> DEFINE Q == {s \in SUBSET S : SumFunctionOnSet(f, s) \in Int}
<1>1. ASSUME NEW s \in SUBSET S, \A u \in SUBSET s : u # s => u \in Q
      PROVE  s \in Q
  <2>1. CASE s = {}
    BY <2>1, SumEmpty
  <2>2. CASE s # {}
    <3>1. Pick(s) \in s
      BY <2>2, PickIn
    <3>2. SumFunctionOnSet(f, s \ {Pick(s)}) \in Int
      BY <1>1, <3>1
    <3>3. IsFiniteSet(s)
      BY FS_Subset
    <3>4. SumFunctionOnSet(f, s) = f[Pick(s)] + SumFunctionOnSet(f, s \ {Pick(s)})
      BY <2>2, <3>3, SumStep
    <3>5. f[Pick(s)] \in Int
      BY <3>1
    <3>6. SumFunctionOnSet(f, s) \in Int
      BY <3>2, <3>4, <3>5
    <3> QED BY <3>6
  <2> QED BY <2>1, <2>2
<1>2. \A s \in SUBSET S : s \in Q
  <2> HIDE DEF Q
  <2> QED BY <1>1, SubsetInduction
<1> QED BY <1>2

\* Any element can be taken out of the sum.
LEMMA SumRemove ==
  ASSUME NEW S, IsFiniteSet(S), NEW f, \A x \in S : f[x] \in Int, NEW y \in S
  PROVE  SumFunctionOnSet(f, S) = f[y] + SumFunctionOnSet(f, S \ {y})
<1> DEFINE Sum(s) == SumFunctionOnSet(f, s)
           Q == {s \in SUBSET S : \A z \in s : Sum(s) = f[z] + Sum(s \ {z})}
<1>1. ASSUME NEW s \in SUBSET S, \A u \in SUBSET s : u # s => u \in Q, NEW z \in s
      PROVE  Sum(s) = f[z] + Sum(s \ {z})
  <2> DEFINE p == Pick(s)
             r == s \ {p, z}
  <2>1. p \in s
    BY PickIn
  <2>2. \A u \in SUBSET S : IsFiniteSet(u) /\ Sum(u) \in Int
    <3>1. ASSUME NEW u \in SUBSET S PROVE IsFiniteSet(u)
      BY FS_Subset
    <3> QED BY <3>1, SumInt
  <2>3. Sum(s) = f[p] + Sum(s \ {p})
    BY <2>2, SumStep
  <2>4. CASE p = z
    BY <2>3, <2>4
  <2>5. CASE p # z
    <3>1. s \ {p} \in Q /\ z \in s \ {p} /\ (s \ {p}) \ {z} = r
      BY <1>1, <2>1, <2>5
    <3>2. s \ {z} \in Q /\ p \in s \ {z} /\ (s \ {z}) \ {p} = r
      BY <1>1, <2>1, <2>5
    <3>3. Sum(s \ {p}) = f[z] + Sum(r)
      BY <3>1
    <3>4. Sum(s \ {z}) = f[p] + Sum(r)
      BY <3>2
    <3>5. f[p] \in Int /\ f[z] \in Int /\ Sum(r) \in Int
      BY <2>1, <2>2
    <3> HIDE DEF Sum, r, p
    <3> QED BY <2>3, <3>3, <3>4, <3>5
  <2> QED BY <2>4, <2>5
<1>2. \A s \in SUBSET S : s \in Q
  <2>1. ASSUME NEW s \in SUBSET S, \A u \in SUBSET s : u # s => u \in Q
        PROVE  s \in Q
    BY <1>1, <2>1
  <2> HIDE DEF Q
  <2> QED BY <2>1, SubsetInduction
<1> QED BY <1>2

\* A new element adds its value.
LEMMA SumAdd ==
  ASSUME NEW S, IsFiniteSet(S), NEW y, y \notin S,
         NEW f, \A x \in S \cup {y} : f[x] \in Int
  PROVE  SumFunctionOnSet(f, S \cup {y}) = f[y] + SumFunctionOnSet(f, S)
<1>1. IsFiniteSet(S \cup {y})
  BY FS_AddElement
<1>2. (S \cup {y}) \ {y} = S
  OBVIOUS
<1> QED BY <1>1, <1>2, SumRemove

\* Larger values have a larger sum.
LEMMA SumMonotone ==
  ASSUME NEW S, IsFiniteSet(S), NEW f, NEW g,
         \A x \in S : f[x] \in Int /\ g[x] \in Int /\ f[x] <= g[x]
  PROVE  SumFunctionOnSet(f, S) <= SumFunctionOnSet(g, S)
<1> DEFINE Q == {s \in SUBSET S : SumFunctionOnSet(f, s) <= SumFunctionOnSet(g, s)}
<1>1. ASSUME NEW s \in SUBSET S, \A u \in SUBSET s : u # s => u \in Q
      PROVE  s \in Q
  <2>1. CASE s = {}
    BY <2>1, SumEmpty
  <2>2. CASE s # {}
    <3> DEFINE r == s \ {Pick(s)}
    <3>1. Pick(s) \in s
      BY <2>2, PickIn
    <3>2. SumFunctionOnSet(f, r) <= SumFunctionOnSet(g, r)
      BY <1>1, <3>1
    <3>3. IsFiniteSet(s) /\ IsFiniteSet(r)
      BY FS_Subset, r \in SUBSET S
    <3>4. SumFunctionOnSet(f, r) \in Int /\ SumFunctionOnSet(g, r) \in Int
      BY <3>3, SumInt
    <3>5. /\ SumFunctionOnSet(f, s) = f[Pick(s)] + SumFunctionOnSet(f, r)
          /\ SumFunctionOnSet(g, s) = g[Pick(s)] + SumFunctionOnSet(g, r)
      BY <2>2, <3>3, SumStep
    <3>6. f[Pick(s)] \in Int /\ g[Pick(s)] \in Int /\ f[Pick(s)] <= g[Pick(s)]
      BY <3>1
    <3>7. SumFunctionOnSet(f, s) <= SumFunctionOnSet(g, s)
      <4> HIDE DEF r
      <4> QED BY <3>2, <3>4, <3>5, <3>6
    <3> QED BY <3>7
  <2> QED BY <2>1, <2>2
<1>2. \A s \in SUBSET S : s \in Q
  <2> HIDE DEF Q
  <2> QED BY <1>1, SubsetInduction
<1> QED BY <1>2

\* Functions that agree on a set have the same sum over it.
LEMMA SumCongruence ==
  ASSUME NEW S, IsFiniteSet(S), NEW f, NEW g, \A x \in S : f[x] = g[x]
  PROVE  SumFunctionOnSet(f, S) = SumFunctionOnSet(g, S)
<1> DEFINE Q == {s \in SUBSET S : SumFunctionOnSet(f, s) = SumFunctionOnSet(g, s)}
<1>1. ASSUME NEW s \in SUBSET S, \A u \in SUBSET s : u # s => u \in Q
      PROVE  s \in Q
  <2>1. CASE s = {}
    BY <2>1, SumEmpty
  <2>2. CASE s # {}
    <3>1. Pick(s) \in s
      BY <2>2, PickIn
    <3>2. SumFunctionOnSet(f, s \ {Pick(s)}) = SumFunctionOnSet(g, s \ {Pick(s)})
      BY <1>1, <3>1
    <3>3. IsFiniteSet(s)
      BY FS_Subset
    <3> QED BY <2>2, <3>1, <3>2, <3>3, SumStep
  <2> QED BY <2>1, <2>2
<1>2. \A s \in SUBSET S : s \in Q
  <2> HIDE DEF Q
  <2> QED BY <1>1, SubsetInduction
<1> QED BY <1>2

\* A sum of natural numbers is one, and at least the sum over fewer elements.
LEMMA SumSubset ==
  ASSUME NEW S, IsFiniteSet(S), NEW f, \A x \in S : f[x] \in Nat, NEW T \in SUBSET S
  PROVE  /\ SumFunctionOnSet(f, S) \in Nat
         /\ SumFunctionOnSet(f, T) \in Nat
         /\ SumFunctionOnSet(f, T) <= SumFunctionOnSet(f, S)
<1> DEFINE Sum(s) == SumFunctionOnSet(f, s)
           Q == {s \in SUBSET S : Sum(s) \in Nat /\ \A u \in SUBSET s : Sum(u) <= Sum(s)}
<1>1. ASSUME NEW s \in SUBSET S, \A u \in SUBSET s : u # s => u \in Q
      PROVE  s \in Q
  <2>1. CASE s = {}
    <3>1. Sum(s) = 0 /\ \A u \in SUBSET s : Sum(u) = 0
      BY <2>1, SumEmpty
    <3> QED BY <3>1
  <2>2. CASE s # {}
    <3>1. ASSUME NEW y \in s
          PROVE  s \ {y} \in Q /\ Sum(s) = f[y] + Sum(s \ {y}) /\ f[y] \in Nat
      <4>1. IsFiniteSet(s)
        BY FS_Subset
      <4>2. \A x \in s : f[x] \in Int
        OBVIOUS
      <4>3. Sum(s) = f[y] + Sum(s \ {y})
        BY <4>1, <4>2, SumRemove
      <4> QED BY <1>1, <4>3
    <3> HIDE DEF Sum
    <3>2. Sum(s) \in Nat
      <4>1. PICK y \in s : TRUE
        BY <2>2
      <4>2. Sum(s \ {y}) \in Nat
        BY <3>1
      <4>3. Sum(s) = f[y] + Sum(s \ {y}) /\ f[y] \in Nat
        BY <3>1
      <4> QED BY <4>2, <4>3
    <3>3. ASSUME NEW u \in SUBSET s PROVE Sum(u) <= Sum(s)
      <4>1. CASE u = s
        BY <3>2, <4>1
      <4>2. CASE u # s
        <5>1. PICK y \in s : y \notin u
          BY <4>2
        <5>2. Sum(u) <= Sum(s \ {y}) /\ Sum(s \ {y}) \in Nat /\ Sum(u) \in Nat
          BY <1>1, <3>1, <4>2, <5>1
        <5>3. Sum(s) = f[y] + Sum(s \ {y}) /\ f[y] \in Nat
          BY <3>1
        <5> QED BY <5>2, <5>3, <3>2
      <4> QED BY <4>1, <4>2
    <3> QED BY <3>2, <3>3
  <2> QED BY <2>1, <2>2
<1>2. \A s \in SUBSET S : s \in Q
  <2> HIDE DEF Q
  <2> QED BY <1>1, SubsetInduction
<1> QED BY <1>2

\* A new element, while the values of the others are those of another function.
LEMMA SumGrow ==
  ASSUME NEW S, IsFiniteSet(S), NEW y, y \notin S, NEW f, NEW g,
         \A x \in S : f[x] = g[x] /\ f[x] \in Int, g[y] \in Int
  PROVE  SumFunctionOnSet(g, S \cup {y}) = g[y] + SumFunctionOnSet(f, S)
<1>1. SumFunctionOnSet(g, S \cup {y}) = g[y] + SumFunctionOnSet(g, S)
  <2>1. \A x \in S \cup {y} : g[x] \in Int
    OBVIOUS
  <2> QED BY <2>1, SumAdd
<1>2. SumFunctionOnSet(g, S) = SumFunctionOnSet(f, S)
  BY SumCongruence
<1> QED BY <1>1, <1>2

\* An element less, while the values of the others stay.
LEMMA SumShrink ==
  ASSUME NEW S, IsFiniteSet(S), NEW y \in S, NEW f, NEW g,
         \A x \in S : f[x] \in Int, \A x \in S \ {y} : f[x] = g[x]
  PROVE  SumFunctionOnSet(f, S) = f[y] + SumFunctionOnSet(g, S \ {y})
<1>1. SumFunctionOnSet(f, S) = f[y] + SumFunctionOnSet(f, S \ {y})
  BY SumRemove
<1>2. IsFiniteSet(S \ {y})
  BY FS_RemoveElement
<1>3. SumFunctionOnSet(f, S \ {y}) = SumFunctionOnSet(g, S \ {y})
  BY <1>2, SumCongruence
<1> QED BY <1>1, <1>3

\* The value of one element changes.
LEMMA SumChange ==
  ASSUME NEW S, IsFiniteSet(S), NEW y \in S, NEW f, NEW g,
         \A x \in S : f[x] \in Int /\ g[x] \in Int, \A x \in S \ {y} : f[x] = g[x]
  PROVE  SumFunctionOnSet(g, S) = SumFunctionOnSet(f, S) - f[y] + g[y]
<1> DEFINE T == S \ {y}
<1>1. /\ SumFunctionOnSet(f, S) = f[y] + SumFunctionOnSet(f, T)
      /\ SumFunctionOnSet(g, S) = g[y] + SumFunctionOnSet(g, T)
  BY SumRemove
<1>2. IsFiniteSet(T)
  BY FS_RemoveElement
<1>3. SumFunctionOnSet(f, T) = SumFunctionOnSet(g, T) /\ SumFunctionOnSet(f, T) \in Int
  BY <1>2, SumCongruence, SumInt
<1>4. f[y] \in Int /\ g[y] \in Int
  OBVIOUS
<1> HIDE DEF T
<1> QED BY <1>1, <1>3, <1>4
-----------------------------------------------------------------------------
(***************************************************************************)
(* Bounds                                                                  *)
(***************************************************************************)

\* A sum of numbers that are at most h is at most h times their number.
LEMMA SumBounded ==
  ASSUME NEW S, IsFiniteSet(S), NEW h \in Nat, NEW f,
         \A x \in S : f[x] \in Int /\ f[x] <= h
  PROVE  SumFunctionOnSet(f, S) <= Cardinality(S) * h
<1> DEFINE Q == {s \in SUBSET S : SumFunctionOnSet(f, s) <= Cardinality(s) * h}
<1>1. ASSUME NEW s \in SUBSET S, \A u \in SUBSET s : u # s => u \in Q
      PROVE  s \in Q
  <2>1. CASE s = {}
    BY <2>1, SumEmpty, FS_EmptySet
  <2>2. CASE s # {}
    <3> DEFINE r == s \ {Pick(s)}
    <3>1. Pick(s) \in s
      BY <2>2, PickIn
    <3>2. SumFunctionOnSet(f, r) <= Cardinality(r) * h
      BY <1>1, <3>1
    <3>3. IsFiniteSet(s) /\ IsFiniteSet(r)
      BY FS_Subset, r \in SUBSET S
    <3>4. SumFunctionOnSet(f, r) \in Int
      BY <3>3, SumInt
    <3>5. SumFunctionOnSet(f, s) = f[Pick(s)] + SumFunctionOnSet(f, r)
      BY <2>2, <3>3, SumStep
    <3>6. Cardinality(s) \in Nat /\ Cardinality(r) \in Nat /\ Cardinality(r) = Cardinality(s) - 1
      BY <3>1, <3>3, FS_RemoveElement, FS_CardinalityType
    <3>7. f[Pick(s)] \in Int /\ f[Pick(s)] <= h
      BY <3>1
    <3>8. Cardinality(s) * h = h + Cardinality(r) * h /\ Cardinality(r) * h \in Int
      <4> HIDE DEF r
      <4> QED BY <3>6
    <3>9. SumFunctionOnSet(f, s) <= Cardinality(s) * h
      <4> HIDE DEF r
      <4> QED BY <3>2, <3>4, <3>5, <3>7, <3>8
    <3> QED BY <3>9
  <2> QED BY <2>1, <2>2
<1>2. \A s \in SUBSET S : s \in Q
  <2> HIDE DEF Q
  <2> QED BY <1>1, SubsetInduction
<1> QED BY <1>2

\* The sum of a pointwise sum.
LEMMA SumPlus ==
  ASSUME NEW S, IsFiniteSet(S), NEW f, NEW g, NEW h,
         \A x \in S : f[x] \in Int /\ g[x] \in Int /\ h[x] = f[x] + g[x]
  PROVE  SumFunctionOnSet(h, S) = SumFunctionOnSet(f, S) + SumFunctionOnSet(g, S)
<1> DEFINE Sum(k, s) == SumFunctionOnSet(k, s)
           Q == {s \in SUBSET S : Sum(h, s) = Sum(f, s) + Sum(g, s)}
<1>1. ASSUME NEW s \in SUBSET S, \A u \in SUBSET s : u # s => u \in Q
      PROVE  s \in Q
  <2>1. CASE s = {}
    BY <2>1, SumEmpty
  <2>2. CASE s # {}
    <3> DEFINE r == s \ {Pick(s)}
    <3>1. Pick(s) \in s
      BY <2>2, PickIn
    <3>2. Sum(h, r) = Sum(f, r) + Sum(g, r)
      BY <1>1, <3>1
    <3>3. IsFiniteSet(s) /\ IsFiniteSet(r)
      BY FS_Subset, r \in SUBSET S
    <3>4. Sum(f, r) \in Int /\ Sum(g, r) \in Int
      BY <3>3, SumInt
    <3>5. /\ Sum(f, s) = f[Pick(s)] + Sum(f, r)
          /\ Sum(g, s) = g[Pick(s)] + Sum(g, r)
          /\ Sum(h, s) = h[Pick(s)] + Sum(h, r)
      BY <2>2, <3>3, SumStep
    <3>6. /\ f[Pick(s)] \in Int /\ g[Pick(s)] \in Int
          /\ h[Pick(s)] = f[Pick(s)] + g[Pick(s)]
      BY <3>1
    <3>7. Sum(h, s) = Sum(f, s) + Sum(g, s)
      <4> HIDE DEF r, Sum
      <4> QED BY <3>2, <3>4, <3>5, <3>6
    <3> QED BY <3>7
  <2> QED BY <2>1, <2>2
<1>2. \A s \in SUBSET S : s \in Q
  <2> HIDE DEF Q
  <2> QED BY <1>1, SubsetInduction
<1> QED BY <1>2

\* A common factor of the sum.
LEMMA SumTimes ==
  ASSUME NEW S, IsFiniteSet(S), NEW c \in Int, NEW f, NEW h,
         \A x \in S : f[x] \in Int /\ h[x] = c * f[x]
  PROVE  SumFunctionOnSet(h, S) = c * SumFunctionOnSet(f, S)
<1> DEFINE Sum(k, s) == SumFunctionOnSet(k, s)
           Q == {s \in SUBSET S : Sum(h, s) = c * Sum(f, s)}
<1>1. ASSUME NEW s \in SUBSET S, \A u \in SUBSET s : u # s => u \in Q
      PROVE  s \in Q
  <2>1. CASE s = {}
    BY <2>1, SumEmpty
  <2>2. CASE s # {}
    <3> DEFINE r == s \ {Pick(s)}
    <3>1. Pick(s) \in s
      BY <2>2, PickIn
    <3>2. Sum(h, r) = c * Sum(f, r)
      BY <1>1, <3>1
    <3>3. IsFiniteSet(s) /\ IsFiniteSet(r)
      BY FS_Subset, r \in SUBSET S
    <3>4. Sum(f, r) \in Int
      BY <3>3, SumInt
    <3>5. /\ Sum(f, s) = f[Pick(s)] + Sum(f, r)
          /\ Sum(h, s) = h[Pick(s)] + Sum(h, r)
      BY <2>2, <3>3, SumStep
    <3>6. f[Pick(s)] \in Int /\ h[Pick(s)] = c * f[Pick(s)]
      BY <3>1
    <3>7. Sum(h, s) = c * Sum(f, s)
      <4> HIDE DEF r, Sum
      <4>1. c * (f[Pick(s)] + Sum(f, r)) = c * f[Pick(s)] + c * Sum(f, r)
        BY <3>4, <3>6
      <4> QED BY <3>2, <3>5, <3>6, <4>1
    <3> QED BY <3>7
  <2> QED BY <2>1, <2>2
<1>2. \A s \in SUBSET S : s \in Q
  <2> HIDE DEF Q
  <2> QED BY <1>1, SubsetInduction
<1> QED BY <1>2

\* If one summand loses at least n and no other one grows, the sum loses at least n.
LEMMA SumDrop ==
  ASSUME NEW S, IsFiniteSet(S), NEW y \in S, NEW n \in Int, NEW f, NEW g,
         \A x \in S : f[x] \in Int /\ g[x] \in Int,
         \A x \in S \ {y} : g[x] <= f[x], g[y] <= f[y] - n
  PROVE  SumFunctionOnSet(g, S) <= SumFunctionOnSet(f, S) - n
<1> DEFINE T == S \ {y}
<1>1. /\ SumFunctionOnSet(f, S) = f[y] + SumFunctionOnSet(f, T)
      /\ SumFunctionOnSet(g, S) = g[y] + SumFunctionOnSet(g, T)
  BY SumRemove
<1>2. IsFiniteSet(T)
  BY FS_RemoveElement
<1>3. SumFunctionOnSet(f, T) \in Int /\ SumFunctionOnSet(g, T) \in Int
  BY <1>2, SumInt
<1>4. SumFunctionOnSet(g, T) <= SumFunctionOnSet(f, T)
  <2>1. \A x \in T : g[x] \in Int /\ f[x] \in Int /\ g[x] <= f[x]
    OBVIOUS
  <2> HIDE DEF T
  <2> QED BY <1>2, <2>1, SumMonotone
<1> HIDE DEF T
<1> QED BY <1>1, <1>3, <1>4

\* Counting by a sum of ones.
LEMMA SumCount ==
  ASSUME NEW S, IsFiniteSet(S), NEW R \in SUBSET S, NEW f,
         \A x \in S : f[x] = IF x \in R THEN 1 ELSE 0
  PROVE  SumFunctionOnSet(f, S) = Cardinality(R)
<1> DEFINE Q == {s \in SUBSET S : SumFunctionOnSet(f, s) = Cardinality(s \cap R)}
<1>1. ASSUME NEW s \in SUBSET S, \A u \in SUBSET s : u # s => u \in Q
      PROVE  s \in Q
  <2>1. CASE s = {}
    <3>1. s \cap R = {}
      BY <2>1
    <3> QED BY <2>1, <3>1, SumEmpty, FS_EmptySet
  <2>2. CASE s # {}
    <3> DEFINE p == Pick(s)
               r == s \ {p}
    <3>1. p \in s
      BY <2>2, PickIn
    <3>2. SumFunctionOnSet(f, r) = Cardinality(r \cap R)
      BY <1>1, <3>1
    <3>3. IsFiniteSet(s) /\ IsFiniteSet(s \cap R) /\ IsFiniteSet(r \cap R)
      BY FS_Subset, s \in SUBSET S, s \cap R \in SUBSET S, r \cap R \in SUBSET S
    <3>4. Cardinality(r \cap R) \in Nat /\ Cardinality(s \cap R) \in Nat
      BY <3>3, FS_CardinalityType
    <3>5. SumFunctionOnSet(f, s) = f[p] + SumFunctionOnSet(f, r)
      BY <2>2, <3>3, SumStep
    <3>6. f[p] = IF p \in R THEN 1 ELSE 0
      BY <3>1
    <3>7. r \cap R = (s \cap R) \ {p} /\ (p \in s \cap R <=> p \in R)
      BY <3>1
    <3>8. Cardinality((s \cap R) \ {p}) =
            IF p \in s \cap R THEN Cardinality(s \cap R) - 1 ELSE Cardinality(s \cap R)
      BY <3>3, FS_RemoveElement
    <3>9. SumFunctionOnSet(f, s) = Cardinality(s \cap R)
      <4> DEFINE a == s \cap R
                 b == r \cap R
      <4>1. Cardinality(b) = IF p \in R THEN Cardinality(a) - 1 ELSE Cardinality(a)
        BY <3>7, <3>8
      <4>2. /\ Cardinality(a) \in Nat /\ Cardinality(b) \in Nat
            /\ SumFunctionOnSet(f, s) = f[p] + Cardinality(b)
        BY <3>2, <3>4, <3>5
      <4> HIDE DEF a, b, p, r
      <4>3. SumFunctionOnSet(f, s) = Cardinality(a)
        BY <3>6, <4>1, <4>2
      <4> QED BY <4>3 DEF a
    <3> QED BY <3>9
  <2> QED BY <2>1, <2>2
<1>2. \A s \in SUBSET S : s \in Q
  <2> HIDE DEF Q
  <2> QED BY <1>1, SubsetInduction
<1>3. S \cap R = R
  OBVIOUS
<1> QED BY <1>2, <1>3

\* A function takes a largest value on a non-empty finite set.
LEMMA LargestValue ==
  ASSUME NEW S, IsFiniteSet(S), S # {}, NEW f, \A x \in S : f[x] \in Int
  PROVE  \E m \in S : \A x \in S : f[x] <= f[m]
<1> DEFINE Q == {s \in SUBSET S : s # {} => \E m \in s : \A x \in s : f[x] <= f[m]}
<1>1. ASSUME NEW s \in SUBSET S, \A u \in SUBSET s : u # s => u \in Q
      PROVE  s \in Q
  <2> SUFFICES ASSUME s # {} PROVE \E m \in s : \A x \in s : f[x] <= f[m]
    OBVIOUS
  <2>1. PICK y : y \in s
    OBVIOUS
  <2>2. CASE s \ {y} = {}
    BY <2>1, <2>2
  <2>3. CASE s \ {y} # {}
    <3>0. s \ {y} \in Q
      <4>1. s \ {y} \in SUBSET s /\ s \ {y} # s
        BY <2>1
      <4> HIDE DEF Q
      <4> QED BY <1>1, <4>1
    <3>1. PICK m \in s \ {y} : \A x \in s \ {y} : f[x] <= f[m]
      BY <2>3, <3>0
    <3>2. CASE f[y] <= f[m]
      BY <3>1, <3>2
    <3>3. CASE ~(f[y] <= f[m])
      <4>1. \A x \in s : f[x] \in Int
        OBVIOUS
      <4>2. \A x \in s : f[x] <= f[y]
        BY <2>1, <3>1, <3>3, <4>1
      <4> QED BY <2>1, <4>2
    <3> QED BY <3>2, <3>3
  <2> QED BY <2>2, <2>3
<1>2. \A s \in SUBSET S : s \in Q
  <2> HIDE DEF Q
  <2> QED BY <1>1, SubsetInduction
<1> QED BY <1>2

\* The maximum of the values of a function is one of them and bounds the others.
LEMMA MaxOfValues ==
  ASSUME NEW S, IsFiniteSet(S), S # {}, NEW f, \A x \in S : f[x] \in Int
  PROVE  /\ Max({f[x] : x \in S}) \in {f[x] : x \in S}
         /\ \A x \in S : f[x] <= Max({f[y] : y \in S})
<1> DEFINE V == {f[x] : x \in S}
<1>1. PICK m \in S : \A x \in S : f[x] <= f[m]
  BY LargestValue
<1>2. f[m] \in V /\ \A y \in V : f[m] >= y
  BY <1>1
<1>3. Max(V) \in V /\ \A y \in V : Max(V) >= y
  <2> HIDE DEF V
  <2> QED BY <1>2 DEF Max
<1>4. ASSUME NEW x \in S PROVE f[x] <= Max(V)
  <2>1. f[x] \in V /\ f[x] \in Int /\ Max(V) \in Int
    BY <1>3
  <2> HIDE DEF V
  <2> QED BY <2>1, <1>3
<1> QED BY <1>3, <1>4

\* A non-empty finite set of integers has a largest element.
LEMMA LargestElement ==
  ASSUME NEW S, IsFiniteSet(S), S # {}, S \subseteq Int
  PROVE  Max(S) \in S /\ \A x \in S : x <= Max(S)
<1> DEFINE f == [x \in S |-> x]
<1>1. \A x \in S : f[x] = x /\ f[x] \in Int
  OBVIOUS
<1>2. PICK m \in S : \A x \in S : f[x] <= f[m]
  <2> HIDE DEF f
  <2> QED BY <1>1, LargestValue
<1>3. m \in S /\ \A y \in S : m >= y
  BY <1>1, <1>2
<1>4. Max(S) \in S /\ \A y \in S : Max(S) >= y
  BY <1>3 DEF Max
<1> QED BY <1>4

\* The smallest element of a finite set of numbers.
LEMMA SmallestElement ==
  ASSUME NEW S, IsFiniteSet(S), S # {}, S \subseteq Int
  PROVE  Min(S) \in S /\ \A x \in S : Min(S) <= x
<1> DEFINE f == [x \in S |-> 0 - x]
<1>1. \A x \in S : f[x] = 0 - x /\ f[x] \in Int
  OBVIOUS
<1>2. PICK m \in S : \A x \in S : f[x] <= f[m]
  <2> HIDE DEF f
  <2> QED BY <1>1, LargestValue
<1>3. \A x \in S : m <= x
  BY <1>1, <1>2
<1>4. \E y \in S : \A x \in S : y <= x
  BY <1>3
<1> QED BY <1>4 DEF Min

\* A sum over a subset as a sum over the whole set.
LEMMA SumExtend ==
  ASSUME NEW S, IsFiniteSet(S), NEW T \in SUBSET S, NEW f, NEW g,
         \A x \in T : f[x] \in Int, \A x \in S : g[x] = IF x \in T THEN f[x] ELSE 0
  PROVE  SumFunctionOnSet(g, S) = SumFunctionOnSet(f, T)
<1> DEFINE Q == {s \in SUBSET S : SumFunctionOnSet(g, s) = SumFunctionOnSet(f, s \cap T)}
<1>1. ASSUME NEW s \in SUBSET S, \A u \in SUBSET s : u # s => u \in Q
      PROVE  s \in Q
  <2>1. CASE s = {}
    <3>1. s \cap T = {}
      BY <2>1
    <3> QED BY <2>1, <3>1, SumEmpty
  <2>2. CASE s # {}
    <3> DEFINE p == Pick(s)
               r == s \ {p}
    <3>1. p \in s
      BY <2>2, PickIn
    <3>2. SumFunctionOnSet(g, r) = SumFunctionOnSet(f, r \cap T)
      BY <1>1, <3>1
    <3>3. IsFiniteSet(s) /\ IsFiniteSet(s \cap T) /\ IsFiniteSet(r \cap T)
      BY FS_Subset, s \in SUBSET S, s \cap T \in SUBSET S, r \cap T \in SUBSET S
    <3>4. SumFunctionOnSet(f, r \cap T) \in Int
      BY <3>3, SumInt
    <3>5. SumFunctionOnSet(g, s) = g[p] + SumFunctionOnSet(g, r)
      BY <2>2, <3>3, SumStep
    <3>6. CASE p \in T
      <4>1. p \in s \cap T /\ (s \cap T) \ {p} = r \cap T /\ \A x \in s \cap T : f[x] \in Int
        BY <3>1, <3>6
      <4>2. SumFunctionOnSet(f, s \cap T) = f[p] + SumFunctionOnSet(f, (s \cap T) \ {p})
        BY <3>3, <4>1, SumRemove
      <4>3. g[p] = f[p]
        BY <3>1, <3>6
      <4> QED BY <3>2, <3>5, <4>1, <4>2, <4>3
    <3>7. CASE p \notin T
      <4>1. s \cap T = r \cap T /\ g[p] = 0
        BY <3>1, <3>7
      <4>2. SumFunctionOnSet(g, s) = SumFunctionOnSet(f, r \cap T)
        <5> HIDE DEF p, r
        <5> QED BY <3>2, <3>4, <3>5, <4>1
      <4> QED BY <4>1, <4>2
    <3> QED BY <3>6, <3>7
  <2> QED BY <2>1, <2>2
<1>2. \A s \in SUBSET S : s \in Q
  <2> HIDE DEF Q
  <2> QED BY <1>1, SubsetInduction
<1>3. S \cap T = T
  OBVIOUS
<1> QED BY <1>2, <1>3

----------------------------------------------------------------------------
(***************************************************************************)
(* Folds over sequences (FoldLeft): the recursive function inside such a   *)
(* fold exists, so that the fold has the values of a loop over the         *)
(* sequence.  A step of the loop is a function here.                       *)
(***************************************************************************)

\* Induction up to a number, with a set in the place of the induction predicate.
LEMMA RangeInduction ==
  ASSUME NEW n \in Nat, NEW Q, 0 \in Q, \A k \in 1..n : k - 1 \in Q => k \in Q
  PROVE  \A k \in 0..n : k \in Q
<1> DEFINE R == {s \in SUBSET (1..n) : \A k \in 0..n : s = 1..k => k \in Q}
<1>1. ASSUME NEW s \in SUBSET (1..n), \A u \in SUBSET s : u # s => u \in R
      PROVE  s \in R
  <2> SUFFICES ASSUME NEW k \in 0..n, s = 1..k PROVE k \in Q
    OBVIOUS
  <2>1. CASE k = 0
    BY <2>1
  <2>2. CASE k # 0
    <3>1. k \in 1..n /\ k - 1 \in 0..n /\ 1..(k - 1) \in SUBSET s /\ 1..(k - 1) # s
      BY <2>2
    <3>2. 1..(k - 1) \in R
      BY <1>1, <3>1
    <3>3. k - 1 \in Q
      BY <3>1, <3>2
    <3> QED BY <3>1, <3>3
  <2> QED BY <2>1, <2>2
<1>2. \A s \in SUBSET (1..n) : s \in R
  <2>1. IsFiniteSet(1..n)
    BY FS_Interval
  <2> HIDE DEF R
  <2> QED BY <1>1, <2>1, SubsetInduction
<1> SUFFICES ASSUME NEW k \in 0..n PROVE k \in Q
  OBVIOUS
<1>3. 1..k \in SUBSET (1..n)
  OBVIOUS
<1>4. 1..k \in R
  BY <1>2, <1>3
<1> QED BY <1>4

\* g is the recursive function of a loop over the members of S, in increasing order.
IsLoop(g, H, base, S) ==
  g = [T \in SUBSET S |-> IF T = {} THEN base ELSE H[Max(T)][g[T \ {Max(T)}]]]

\* The function that such a loop evaluates.
Loop(H, base, S) == CHOOSE g : IsLoop(g, H, base, S)

\* The largest member of a set of numbers up to n.
LEMMA MaxUpTo ==
  ASSUME NEW n \in Nat, NEW T \in SUBSET (1..n), T # {}
  PROVE  Max(T) \in T /\ \A x \in T : x <= Max(T)
<1>1. IsFiniteSet(1..n)
  BY FS_Interval
<1>2. IsFiniteSet(T)
  BY <1>1, FS_Subset
<1>3. T \subseteq Int
  OBVIOUS
<1> QED BY <1>2, <1>3, LargestElement

\* There is at most one such function.
LEMMA LoopUnique ==
  ASSUME NEW n \in Nat, NEW S \in SUBSET (1..n), NEW H, NEW base, NEW g, NEW h,
         IsLoop(g, H, base, S), IsLoop(h, H, base, S)
  PROVE  g = h
<1> DEFINE Q == {s \in SUBSET S : g[s] = h[s]}
<1>1. ASSUME NEW s \in SUBSET S, \A u \in SUBSET s : u # s => u \in Q
      PROVE  s \in Q
  <2>1. CASE s = {}
    BY <2>1 DEF IsLoop
  <2>2. CASE s # {}
    <3>1. Max(s) \in s
      BY <2>2, MaxUpTo
    <3>2. s \ {Max(s)} \in Q
      BY <1>1, <3>1
    <3>3. g[s] = H[Max(s)][g[s \ {Max(s)}]] /\ h[s] = H[Max(s)][h[s \ {Max(s)}]]
      BY <2>2 DEF IsLoop
    <3> QED BY <3>2, <3>3
  <2> QED BY <2>1, <2>2
<1>2. \A s \in SUBSET S : s \in Q
  <2>1. IsFiniteSet(1..n)
    BY FS_Interval
  <2>2. IsFiniteSet(S)
    BY <2>1, FS_Subset
  <2> HIDE DEF Q
  <2> QED BY <1>1, <2>2, SubsetInduction
<1>3. g = [s \in SUBSET S |-> g[s]] /\ h = [s \in SUBSET S |-> h[s]]
  BY DEF IsLoop
<1> QED BY <1>2, <1>3

\* Such a function for S, restricted to the subsets of T, is the one for T.
LEMMA LoopRestrict ==
  ASSUME NEW S, NEW H, NEW base, NEW g, IsLoop(g, H, base, S), NEW T \in SUBSET S,
         NEW h, h = [s \in SUBSET T |-> g[s]]
  PROVE  IsLoop(h, H, base, T)
<1>1. ASSUME NEW s \in SUBSET T
      PROVE  h[s] = IF s = {} THEN base ELSE H[Max(s)][h[s \ {Max(s)}]]
  <2>1. g[s] = IF s = {} THEN base ELSE H[Max(s)][g[s \ {Max(s)}]]
    BY DEF IsLoop
  <2>2. s \ {Max(s)} \in SUBSET T
    OBVIOUS
  <2> QED BY <2>1, <2>2
<1> QED BY <1>1 DEF IsLoop

\* There is such a function for every set of numbers up to n.
LEMMA LoopExists ==
  ASSUME NEW n \in Nat, NEW H, NEW base
  PROVE  IsLoop(Loop(H, base, 1..n), H, base, 1..n)
<1> DEFINE S == 1..n
           Q == {s \in SUBSET S : IsLoop(Loop(H, base, s), H, base, s)}
<1>1. ASSUME NEW s \in SUBSET S, \A u \in SUBSET s : u # s => u \in Q
      PROVE  s \in Q
  <2> DEFINE val(u) == IF u = {} THEN base
                       ELSE H[Max(u)][Loop(H, base, u \ {Max(u)})[u \ {Max(u)}]]
             G == [u \in SUBSET s |-> val(u)]
  <2>1. ASSUME NEW v \in SUBSET s, v # s
        PROVE  val(v) = Loop(H, base, v)[v]
    <3>1. IsLoop(Loop(H, base, v), H, base, v)
      BY <1>1, <2>1
    <3>2. CASE v = {}
      BY <3>1, <3>2 DEF IsLoop
    <3>3. CASE v # {}
      <4> DEFINE w == v \ {Max(v)}
      <4>0. w \in SUBSET v /\ w \in SUBSET S
        OBVIOUS
      <4>1. IsLoop([x \in SUBSET w |-> Loop(H, base, v)[x]], H, base, w)
        <5> DEFINE h == [x \in SUBSET w |-> Loop(H, base, v)[x]]
        <5>1. h = [x \in SUBSET w |-> Loop(H, base, v)[x]]
          OBVIOUS
        <5> HIDE DEF w, h
        <5>2. IsLoop(h, H, base, w)
          BY <3>1, <4>0, <5>1, LoopRestrict
        <5> QED BY <5>1, <5>2
      <4>2. w \in SUBSET s /\ w # s
        BY <2>1, <3>3, MaxUpTo
      <4>3. IsLoop(Loop(H, base, w), H, base, w)
        BY <1>1, <4>2
      <4>5. [x \in SUBSET w |-> Loop(H, base, v)[x]] = Loop(H, base, w)
        <5> HIDE DEF w
        <5> QED BY <4>0, <4>1, <4>3, LoopUnique
      <4>6. Loop(H, base, v)[w] = Loop(H, base, w)[w]
        BY <4>5
      <4>7. Loop(H, base, v)[v] = H[Max(v)][Loop(H, base, v)[w]]
        BY <3>1, <3>3 DEF IsLoop
      <4> QED BY <3>3, <4>6, <4>7
    <3> QED BY <3>2, <3>3
  <2>2. ASSUME NEW u \in SUBSET s
        PROVE  val(u) = IF u = {} THEN base ELSE H[Max(u)][G[u \ {Max(u)}]]
    <3>1. CASE u = {}
      BY <3>1
    <3>2. CASE u # {}
      <4>1. u \ {Max(u)} \in SUBSET s /\ u \ {Max(u)} # s
        BY <3>2, MaxUpTo
      <4>2. G[u \ {Max(u)}] = Loop(H, base, u \ {Max(u)})[u \ {Max(u)}]
        <5> HIDE DEF val
        <5> QED BY <4>1, <2>1
      <4> QED BY <3>2, <4>2
    <3> QED BY <3>1, <3>2
  <2>3. IsLoop(G, H, base, s)
    <3> HIDE DEF val
    <3> QED BY <2>2 DEF IsLoop
  <2>4. IsLoop(Loop(H, base, s), H, base, s)
    <3> HIDE DEF G
    <3> QED BY <2>3 DEF Loop
  <2> QED BY <2>4
<1>2. \A s \in SUBSET S : s \in Q
  <2>1. IsFiniteSet(S)
    BY FS_Interval
  <2> HIDE DEF Q, S
  <2> QED BY <1>1, <2>1, SubsetInduction
<1> QED BY <1>2

\* A loop whose steps map X to X stays in X.
LEMMA LoopType ==
  ASSUME NEW n \in Nat, NEW X, NEW base \in X, NEW H \in [1..n -> [X -> X]]
  PROVE  \E g \in [SUBSET (1..n) -> X] : IsLoop(g, H, base, 1..n)
<1> DEFINE g == Loop(H, base, 1..n)
           Q == {s \in SUBSET (1..n) : g[s] \in X}
<1>1. IsLoop(g, H, base, 1..n)
  BY LoopExists
<1> HIDE DEF g
<1>2. ASSUME NEW s \in SUBSET (1..n), \A u \in SUBSET s : u # s => u \in Q
      PROVE  s \in Q
  <2>1. CASE s = {}
    BY <1>1, <2>1 DEF IsLoop
  <2>2. CASE s # {}
    <3>1. Max(s) \in s
      BY <2>2, MaxUpTo
    <3>2. g[s \ {Max(s)}] \in X
      BY <1>2, <3>1
    <3>3. g[s] = H[Max(s)][g[s \ {Max(s)}]]
      BY <1>1, <2>2 DEF IsLoop
    <3>4. H[Max(s)] \in [X -> X]
      BY <3>1
    <3> QED BY <3>2, <3>3, <3>4
  <2> QED BY <2>1, <2>2
<1>3. \A s \in SUBSET (1..n) : s \in Q
  <2> DEFINE S == 1..n
  <2>1. IsFiniteSet(S)
    BY FS_Interval
  <2>2. \A s \in SUBSET S : (\A u \in SUBSET s : u # s => u \in Q) => s \in Q
    BY <1>2
  <2> HIDE DEF Q, S
  <2>3. \A s \in SUBSET S : s \in Q
    BY <2>1, <2>2, SubsetInduction
  <2> QED BY <2>3 DEF S
<1>4. g \in [SUBSET (1..n) -> X]
  BY <1>1, <1>3 DEF IsLoop
<1> QED BY <1>1, <1>4

\* The largest number of an initial segment.
LEMMA MaxOfSegment ==
  ASSUME NEW n \in Nat, NEW k \in 1..n
  PROVE  Max(1..k) = k /\ (1..k) \ {k} = 1..(k - 1) /\ 1..k # {}
<1>1. 1..k \in SUBSET (1..n) /\ 1..k # {} /\ k \in 1..k
  OBVIOUS
<1>2. Max(1..k) \in 1..k /\ k <= Max(1..k)
  BY <1>1, MaxUpTo
<1> QED BY <1>1, <1>2
============================================================================
