----------------------------- MODULE FoldLemmas -----------------------------
(***************************************************************************)
(* What the folds of the community modules compute: SumFunction, which     *)
(* holds counters of the code against a sum of others (hits of all chats,  *)
(* tokens of all dates), and FoldLeft, which reads a text.                 *)
(*                                                                         *)
(* Their definitions are recursive, and the library's principles of        *)
(* induction take a predicate.  So the induction is done here once, for    *)
(* sets, from the minimum principle WFMin, which takes none; and what is   *)
(* folded is a function, as an operator could not be named in a lemma.     *)
(***************************************************************************)
EXTENDS Integers, FiniteSets, Functions, FiniteSetsExt, Sequences,
        FiniteSetTheorems, WellFoundedInduction, TLAPS

-----------------------------------------------------------------------------
(* Induction *)

\* A set of numbers that has zero and the successor of each of its elements is
\* all of Nat: else a least number is missing.
LEMMA SetOfNaturals ==
  ASSUME NEW T \in SUBSET Nat, 0 \in T, \A n \in T : n + 1 \in T
  PROVE  T = Nat
<1> DEFINE Missing == Nat \ T
           Less == OpToRel(<, Nat)
<1> SUFFICES ASSUME Missing # {}
             PROVE  FALSE
  OBVIOUS
<1>1. PICK n \in Missing : \A m \in Missing : <<m, n>> \notin Less
  <2>1. IsWellFoundedOn(Less, Nat)
    BY NatLessThanWellFounded
  <2> HIDE DEF Less
  <2> QED
    BY <2>1, WFMin
<1>2. \A m \in Missing : ~(m < n)
  BY <1>1 DEF OpToRel
<1>3. n # 0 /\ n - 1 \in Nat
  OBVIOUS
<1>4. n - 1 \in T
  BY <1>2, <1>3
<1>5. (n - 1) + 1 \in T
  BY <1>4
<1> QED
  BY <1>3, <1>5

\* The element a fold takes out of a set next.
Pick(s) == CHOOSE x \in s : TRUE

LEMMA PickIn == ASSUME NEW s, s # {} PROVE Pick(s) \in s
BY DEF Pick

\* What holds of the empty set, and of a set whenever it holds of the set without
\* the element a fold takes out, holds of all parts of a finite set.
LEMMA SubsetsByPick ==
  ASSUME NEW D, IsFiniteSet(D), NEW T,
         {} \in T,
         \A s \in SUBSET D : s # {} /\ s \ {Pick(s)} \in T => s \in T
  PROVE  \A s \in SUBSET D : s \in T
<1> DEFINE N == {n \in Nat : \A s \in SUBSET D : Cardinality(s) <= n => s \in T}
<1>1. \A s \in SUBSET D : IsFiniteSet(s) /\ Cardinality(s) \in Nat
  BY FS_Subset, FS_CardinalityType
<1>2. 0 \in N
  BY <1>1, FS_EmptySet
<1>3. ASSUME NEW n \in N
      PROVE  n + 1 \in N
  <2> SUFFICES ASSUME NEW s \in SUBSET D, Cardinality(s) <= n + 1
               PROVE  s \in T
    OBVIOUS
  <2>1. CASE s = {}
    BY <2>1
  <2>2. CASE s # {}
    <3>1. s \ {Pick(s)} \in SUBSET D
      OBVIOUS
    <3>2. Cardinality(s \ {Pick(s)}) = Cardinality(s) - 1
      BY <2>2, <1>1, PickIn, FS_RemoveElement
    <3>3. Cardinality(s \ {Pick(s)}) <= n
      BY <3>2, <1>1
    <3> QED
      BY <2>2, <3>1, <3>3
  <2> QED
    BY <2>1, <2>2
<1> HIDE DEF N
<1>4. N = Nat
  <2>1. N \in SUBSET Nat
    BY DEF N
  <2> QED
    BY <2>1, <1>2, <1>3, SetOfNaturals
<1>5. \A s \in SUBSET D : Cardinality(s) \in N
  BY <1>1, <1>4
<1> QED
  BY <1>1, <1>5 DEF N

-----------------------------------------------------------------------------
(* The recursive function of a fold *)

\* g folds the parts of D, from base, an element at a time: pick says which one
\* of a set is the last, and step what it does to the fold of the others.
FoldsBy(D, base, step, pick, g) ==
  \A S \in SUBSET D :
    g[S] = IF S = {} THEN base ELSE step[g[S \ {pick[S]}]][pick[S]]

\* There is such a function.  It is built size by size: if g is right for sets up
\* to a size, one step of the fold is right for sets of one more.
LEMMA FoldsExist ==
  ASSUME NEW D, IsFiniteSet(D), NEW A, NEW base \in A, NEW step \in [A -> [D -> A]],
         NEW pick, \A S \in SUBSET D : S # {} => pick[S] \in S
  PROVE  \E g \in [SUBSET D -> A] : FoldsBy(D, base, step, pick, g)
<1> DEFINE After(g, S) == IF S = {} THEN base ELSE step[g[S \ {pick[S]}]][pick[S]]
           Upto(n) == {g \in [SUBSET D -> A] :
                         \A S \in SUBSET D : Cardinality(S) <= n => g[S] = After(g, S)}
           N == {n \in Nat : Upto(n) # {}}
<1>1. \A S \in SUBSET D : IsFiniteSet(S) /\ Cardinality(S) \in Nat
  BY FS_Subset, FS_CardinalityType
<1>2. ASSUME NEW S \in SUBSET D, S # {}
      PROVE  /\ pick[S] \in D
             /\ S \ {pick[S]} \in SUBSET D
             /\ Cardinality(S \ {pick[S]}) = Cardinality(S) - 1
  <2>1. pick[S] \in S
    BY <1>2
  <2> QED
    BY <1>1, <2>1, FS_RemoveElement
<1>3. 0 \in N
  <2> DEFINE g == [S \in SUBSET D |-> base]
  <2>1. \A S \in SUBSET D : Cardinality(S) <= 0 => S = {}
    BY <1>1, FS_EmptySet
  <2>2. g \in Upto(0)
    BY <2>1
  <2> QED
    BY <2>2
<1>4. ASSUME NEW n \in N
      PROVE  n + 1 \in N
  <2>1. PICK g \in Upto(n) : TRUE
    OBVIOUS
  <2>2. g \in [SUBSET D -> A]
        /\ \A S \in SUBSET D : Cardinality(S) <= n => g[S] = After(g, S)
    BY <2>1
  <2> DEFINE h == [S \in SUBSET D |-> After(g, S)]
  <2>3. ASSUME NEW S \in SUBSET D
        PROVE  After(g, S) \in A
    <3>1. CASE S = {}
      BY <3>1
    <3>2. CASE S # {}
      <4>1. pick[S] \in D /\ g[S \ {pick[S]}] \in A
        BY <1>2, <2>2, <3>2
      <4>2. \A v \in A, x \in D : step[v][x] \in A
        OBVIOUS
      <4>3. step[g[S \ {pick[S]}]][pick[S]] \in A
        BY <4>1, <4>2
      <4> QED
        BY <3>2, <4>3
    <3> QED
      BY <3>1, <3>2
  <2>4. h \in [SUBSET D -> A]
    BY <2>3
  <2>5. ASSUME NEW S \in SUBSET D, Cardinality(S) <= n + 1
        PROVE  h[S] = After(h, S)
    <3>1. CASE S = {}
      BY <3>1
    <3>2. CASE S # {}
      <4> DEFINE rest == S \ {pick[S]}
      <4>1. rest \in SUBSET D /\ Cardinality(rest) = Cardinality(S) - 1
        BY <1>2, <3>2
      <4>2. Cardinality(rest) <= n
        <5> HIDE DEF rest
        <5>1. n \in Nat /\ Cardinality(S) \in Nat
          BY <1>1
        <5> QED
          BY <2>5, <4>1, <5>1
      <4>3. h[rest] = g[rest]
        BY <2>2, <4>1, <4>2
      <4> QED
        BY <3>2, <4>3
    <3> QED
      BY <3>1, <3>2
  <2>6. h \in Upto(n + 1)
    BY <2>4, <2>5
  <2>7. n + 1 \in Nat
    OBVIOUS
  <2> HIDE DEF h, Upto
  <2> QED
    BY <2>6, <2>7
<1>5. N = Nat
  <2> HIDE DEF N
  <2>1. N \in SUBSET Nat
    BY DEF N
  <2> QED
    BY <1>3, <1>4, <2>1, SetOfNaturals
<1>6. Cardinality(D) \in N
  BY <1>1, <1>5
<1>7. PICK g \in Upto(Cardinality(D)) : TRUE
  BY <1>6
<1>8. \A S \in SUBSET D : Cardinality(S) <= Cardinality(D)
  BY FS_Subset
<1>9. \A S \in SUBSET D : g[S] = After(g, S)
  BY <1>7, <1>8
<1>10. FoldsBy(D, base, step, pick, g)
  BY <1>9 DEF FoldsBy
<1> QED
  BY <1>7, <1>10

-----------------------------------------------------------------------------
(* The recursive function of a sum *)

\* One step of the fold: what g says of s, from what it says of less.
Step(f, g, s) == IF s = {} THEN 0 ELSE f[Pick(s)] + g[s \ {Pick(s)}]

\* g is the recursive function that sums f over the parts of D.
Sums(f, D, g) == g = [s \in SUBSET D |-> Step(f, g, s)]

\* There is such a function.
LEMMA SumsExist ==
  ASSUME NEW D, IsFiniteSet(D), NEW f \in [D -> Int]
  PROVE  \E g \in [SUBSET D -> Int] : Sums(f, D, g)
<1> DEFINE step == [v \in Int |-> [x \in D |-> f[x] + v]]
           pick == [s \in SUBSET D |-> Pick(s)]
<1>1. step \in [Int -> [D -> Int]]
  OBVIOUS
<1>2. \A s \in SUBSET D : s # {} => pick[s] \in s
  BY PickIn
<1>3. 0 \in Int
  OBVIOUS
<1>4. PICK g \in [SUBSET D -> Int] : FoldsBy(D, 0, step, pick, g)
  <2> HIDE DEF step, pick
  <2> QED
    BY <1>1, <1>2, <1>3, FoldsExist
<1>5. ASSUME NEW s \in SUBSET D
      PROVE  g[s] = Step(f, g, s)
  <2>1. CASE s = {}
    BY <1>4, <2>1 DEF FoldsBy, Step
  <2>2. CASE s # {}
    <3>1. pick[s] = Pick(s) /\ Pick(s) \in D /\ g[s \ {Pick(s)}] \in Int
      BY <2>2, PickIn
    <3>2. g[s] = step[g[s \ {Pick(s)}]][Pick(s)]
      BY <1>4, <2>2, <3>1 DEF FoldsBy
    <3> QED
      BY <2>2, <3>1, <3>2 DEF Step
  <2> QED
    BY <2>1, <2>2
<1>6. g = [s \in SUBSET D |-> Step(f, g, s)]
  BY <1>4, <1>5
<1> QED
  BY <1>6 DEF Sums

\* SumFunction unfolded: the value of such a function at the whole domain.
Unfolds(f, D, g) ==
  /\ g \in [SUBSET D -> Int]
  /\ SumFunction(f) = g[D]
  /\ \A s \in SUBSET D : g[s] = Step(f, g, s)

\* Every sum over a finite domain has such a function.
LEMMA SumFunctionUnfolds ==
  ASSUME NEW D, IsFiniteSet(D), NEW f \in [D -> Int]
  PROVE  \E g : Unfolds(f, D, g)
<1> DEFINE g == CHOOSE g : Sums(f, D, g)
<1>1. Sums(f, D, g)
  BY SumsExist
<1>2. SumFunction(f) = g[D]
  BY DEF SumFunction, SumFunctionOnSet, FoldFunctionOnSet, MapThenFoldSet, Sums, Step, Pick
<1> HIDE DEF g
<1>3. DOMAIN g = SUBSET D /\ \A s \in SUBSET D : g[s] = Step(f, g, s)
  BY <1>1 DEF Sums
<1>4. g \in [SUBSET D -> Int]
  <2> DEFINE T == {s \in SUBSET D : g[s] \in Int}
  <2>1. {} \in T
    <3>1. {} \in SUBSET D
      OBVIOUS
    <3>2. g[{}] = 0
      BY <1>3, <3>1 DEF Step
    <3> QED
      BY <3>1, <3>2
  <2>2. \A s \in SUBSET D : s # {} /\ s \ {Pick(s)} \in T => s \in T
    BY <1>3, PickIn DEF Step
  <2> HIDE DEF T
  <2>3. \A s \in SUBSET D : s \in T
    BY <2>1, <2>2, SubsetsByPick
  <2>4. \A s \in SUBSET D : g[s] \in Int
    BY <2>3 DEF T
  <2> QED
    BY <1>1, <2>4 DEF Sums
<1> QED
  BY <1>2, <1>3, <1>4 DEF Unfolds

-----------------------------------------------------------------------------
(* What a sum is *)

\* The sum of two functions, point by point.
Plus(f, h) == [x \in DOMAIN f |-> f[x] + h[x]]

\* A sum of integers is one.
LEMMA SumType ==
  ASSUME NEW D, IsFiniteSet(D), NEW f \in [D -> Int]
  PROVE  SumFunction(f) \in Int
<1>1. PICK g : Unfolds(f, D, g)
  BY SumFunctionUnfolds
<1> QED
  BY <1>1, D \in SUBSET D DEF Unfolds

\* A sum of natural numbers is one, and no less than each of them.
LEMMA SumOfNaturals ==
  ASSUME NEW D, IsFiniteSet(D), NEW f \in [D -> Nat]
  PROVE  /\ SumFunction(f) \in Nat
         /\ \A x \in D : f[x] <= SumFunction(f)
<1>1. PICK g : Unfolds(f, D, g)
  BY SumFunctionUnfolds
<1> USE DEF Unfolds
<1> DEFINE T == {s \in SUBSET D : g[s] \in Nat /\ \A x \in s : f[x] <= g[s]}
<1>2. {} \in T
  <2>1. {} \in SUBSET D
    OBVIOUS
  <2>2. g[{}] = 0
    BY <1>1, <2>1 DEF Step
  <2> QED
    BY <2>1, <2>2
<1>3. ASSUME NEW s \in SUBSET D, s # {}, s \ {Pick(s)} \in T
      PROVE  s \in T
  <2> DEFINE rest == s \ {Pick(s)}
  <2>1. Pick(s) \in s /\ f[Pick(s)] \in Nat
    BY <1>3, PickIn
  <2>2. g[rest] \in Nat /\ \A x \in rest : f[x] <= g[rest]
    BY <1>3
  <2>3. g[s] = f[Pick(s)] + g[rest]
    BY <1>1, <1>3 DEF Step
  <2>4. ASSUME NEW x \in s
        PROVE  f[x] <= g[s]
    <3>1. f[x] \in Nat
      OBVIOUS
    <3>2. x = Pick(s) \/ x \in rest
      OBVIOUS
    <3> HIDE DEF rest
    <3> QED
      BY <2>1, <2>2, <2>3, <3>1, <3>2
  <2>5. g[s] \in Nat
    BY <2>1, <2>2, <2>3
  <2> QED
    BY <2>4, <2>5
<1> HIDE DEF T
<1>4. D \in T
  BY <1>2, <1>3, SubsetsByPick
<1> QED
  BY <1>1, <1>4 DEF T

\* The sum of a pointwise sum is the sum of the sums.
LEMMA SumOfPlus ==
  ASSUME NEW D, IsFiniteSet(D), NEW f \in [D -> Int], NEW h \in [D -> Int]
  PROVE  SumFunction(Plus(f, h)) = SumFunction(f) + SumFunction(h)
<1> DEFINE k == Plus(f, h)
<1>1. k \in [D -> Int] /\ \A x \in D : k[x] = f[x] + h[x]
  BY DEF Plus
<1> HIDE DEF k
<1>2. PICK g1 : Unfolds(f, D, g1)
  BY SumFunctionUnfolds
<1>3. PICK g2 : Unfolds(h, D, g2)
  BY SumFunctionUnfolds
<1>4. PICK g3 : Unfolds(k, D, g3)
  BY <1>1, SumFunctionUnfolds
<1> USE DEF Unfolds
<1> DEFINE T == {s \in SUBSET D : g3[s] = g1[s] + g2[s]}
<1>5. {} \in T
  <2>1. {} \in SUBSET D
    OBVIOUS
  <2>2. g1[{}] = 0 /\ g2[{}] = 0 /\ g3[{}] = 0
    BY <1>2, <1>3, <1>4, <2>1 DEF Step
  <2> QED
    BY <2>1, <2>2
<1>6. ASSUME NEW s \in SUBSET D, s # {}, s \ {Pick(s)} \in T
      PROVE  s \in T
  <2> DEFINE rest == s \ {Pick(s)}
             x == Pick(s)
  <2>1. x \in D /\ rest \in SUBSET D
    BY <1>6, PickIn
  <2>2. g3[rest] = g1[rest] + g2[rest]
    BY <1>6
  <2>3. g1[s] = f[x] + g1[rest] /\ g2[s] = h[x] + g2[rest] /\ g3[s] = k[x] + g3[rest]
    BY <1>2, <1>3, <1>4, <1>6 DEF Step
  <2> HIDE DEF x, rest
  <2>4. g3[s] = g1[s] + g2[s]
    <3>1. f[x] \in Int /\ h[x] \in Int /\ k[x] = f[x] + h[x]
      BY <1>1, <2>1
    <3>2. g1[rest] \in Int /\ g2[rest] \in Int
      BY <1>2, <1>3, <2>1
    <3> QED
      BY <2>2, <2>3, <3>1, <3>2
  <2> QED
    BY <2>4
<1> HIDE DEF T
<1>7. D \in T
  BY <1>5, <1>6, SubsetsByPick, D \in SUBSET D
<1> QED
  BY <1>2, <1>3, <1>4, <1>7 DEF T, k

\* Where there is nothing to add there is no sum.
LEMMA SumOfZeros ==
  ASSUME NEW D, IsFiniteSet(D), NEW f \in [D -> Int], \A x \in D : f[x] = 0
  PROVE  SumFunction(f) = 0
<1>1. Plus(f, f) = f
  BY DEF Plus
<1>2. SumFunction(f) = SumFunction(f) + SumFunction(f)
  BY <1>1, SumOfPlus
<1> QED
  BY <1>2, SumType

\* A function that is zero everywhere but at x sums to what it is there.
LEMMA SumOfOne ==
  ASSUME NEW D, IsFiniteSet(D), NEW f \in [D -> Int], NEW x \in D,
         \A y \in D \ {x} : f[y] = 0
  PROVE  SumFunction(f) = f[x]
<1>1. PICK g : Unfolds(f, D, g)
  BY SumFunctionUnfolds
<1> USE DEF Unfolds
<1> DEFINE T == {s \in SUBSET D : g[s] = IF x \in s THEN f[x] ELSE 0}
<1>2. {} \in T
  <2>1. {} \in SUBSET D
    OBVIOUS
  <2>2. g[{}] = 0
    BY <1>1, <2>1 DEF Step
  <2> QED
    BY <2>1, <2>2
<1>3. ASSUME NEW s \in SUBSET D, s # {}, s \ {Pick(s)} \in T
      PROVE  s \in T
  <2> DEFINE rest == s \ {Pick(s)}
             p == Pick(s)
  <2>1. p \in s /\ g[s] = f[p] + g[rest]
    BY <1>1, <1>3, PickIn DEF Step
  <2>2. g[rest] = IF x \in rest THEN f[x] ELSE 0
    BY <1>3
  <2>3. CASE p = x
    BY <2>1, <2>2, <2>3
  <2>4. CASE p # x
    <3>1. f[p] = 0 /\ (x \in rest <=> x \in s)
      BY <2>1, <2>4
    <3> HIDE DEF p
    <3> QED
      BY <2>1, <2>2, <3>1
  <2> QED
    BY <2>3, <2>4
<1> HIDE DEF T
<1>4. D \in T
  BY <1>2, <1>3, SubsetsByPick
<1> QED
  BY <1>1, <1>4 DEF T

-----------------------------------------------------------------------------
(* What the proofs cite *)

\* One value changes by k: so does the sum.
LEMMA SumChanges ==
  ASSUME NEW D, IsFiniteSet(D), NEW f \in [D -> Int], NEW h \in [D -> Int],
         NEW x \in D, NEW k \in Int,
         h[x] = f[x] + k, \A y \in D \ {x} : h[y] = f[y]
  PROVE  SumFunction(h) = SumFunction(f) + k
<1> DEFINE d == [y \in D |-> IF y = x THEN k ELSE 0]
<1>1. d \in [D -> Int] /\ d[x] = k /\ \A y \in D \ {x} : d[y] = 0
  OBVIOUS
<1> HIDE DEF d
<1>2. SumFunction(d) = k
  BY <1>1, SumOfOne
<1>3. h = Plus(f, d)
  <2>1. \A y \in D : h[y] = f[y] + d[y]
    BY <1>1
  <2> QED
    BY <2>1 DEF Plus
<1> QED
  BY <1>1, <1>2, <1>3, SumOfPlus

\* A function that is nowhere less sums to no less.
LEMMA SumIsMonotone ==
  ASSUME NEW D, IsFiniteSet(D), NEW f \in [D -> Int], NEW h \in [D -> Int],
         \A x \in D : f[x] <= h[x]
  PROVE  SumFunction(f) <= SumFunction(h)
<1> DEFINE d == [x \in D |-> h[x] - f[x]]
<1>1. d \in [D -> Nat] /\ d \in [D -> Int]
  OBVIOUS
<1>2. h = Plus(f, d)
  BY DEF Plus
<1> HIDE DEF d
<1>3. SumFunction(h) = SumFunction(f) + SumFunction(d)
  BY <1>1, <1>2, SumOfPlus
<1> QED
  BY <1>1, <1>3, SumOfNaturals, SumType

-----------------------------------------------------------------------------
(* The largest and the smallest *)

\* A finite set of numbers that is not empty has a largest and a smallest.
LEMMA LargestAndSmallest ==
  ASSUME NEW D \in SUBSET Int, IsFiniteSet(D), D # {}
  PROVE  /\ \E m \in D : \A n \in D : m >= n
         /\ \E m \in D : \A n \in D : m <= n
<1> DEFINE T == {s \in SUBSET D : s # {} => /\ \E m \in s : \A n \in s : m >= n
                                           /\ \E m \in s : \A n \in s : m <= n}
<1>1. {} \in T
  OBVIOUS
<1>2. ASSUME NEW s \in SUBSET D, s # {}, s \ {Pick(s)} \in T
      PROVE  s \in T
  <2> DEFINE p == Pick(s)
             rest == s \ {p}
  <2>1. p \in s /\ p \in Int
    BY <1>2, PickIn
  <2>2. CASE rest = {}
    <3>1. s = {p}
      BY <2>1, <2>2
    <3> QED
      BY <2>1, <3>1
  <2>3. CASE rest # {}
    <3> HIDE DEF p
    <3>1. PICK m \in rest : \A n \in rest : m >= n
      BY <1>2, <2>3 DEF p
    <3>2. PICK k \in rest : \A n \in rest : k <= n
      BY <1>2, <2>3 DEF p
    <3>3. m \in Int /\ k \in Int /\ m \in s /\ k \in s /\ s \subseteq Int
      OBVIOUS
    <3>4. \E l \in s : \A n \in s : l >= n
      <4>1. CASE p >= m
        BY <2>1, <3>1, <3>3, <4>1
      <4>2. CASE m >= p
        BY <2>1, <3>1, <3>3, <4>2
      <4> QED
        BY <2>1, <3>3, <4>1, <4>2
    <3>5. \E l \in s : \A n \in s : l <= n
      <4>1. CASE p <= k
        BY <2>1, <3>2, <3>3, <4>1
      <4>2. CASE k <= p
        BY <2>1, <3>2, <3>3, <4>2
      <4> QED
        BY <2>1, <3>3, <4>1, <4>2
    <3> QED
      BY <3>4, <3>5
  <2> QED
    BY <2>2, <2>3
<1>3. D \in SUBSET D
  OBVIOUS
<1> HIDE DEF T
<1>4. D \in T
  BY <1>1, <1>2, <1>3, SubsetsByPick
<1> QED
  BY <1>4 DEF T

\* So the largest of some positions of a text is one of them,
LEMMA MaxIn ==
  ASSUME NEW n \in Nat, NEW S \in SUBSET (1 .. n), S # {}
  PROVE  Max(S) \in S /\ \A i \in S : Max(S) >= i
<1>1. IsFiniteSet(1 .. n)
  BY FS_Interval
<1>2. IsFiniteSet(S)
  BY <1>1, FS_Subset
<1>3. \E m \in S : \A i \in S : m >= i
  BY <1>2, LargestAndSmallest
<1> QED
  BY <1>3 DEF Max

\* and of a prefix it is the last.
LEMMA MaxOfPrefix ==
  ASSUME NEW n \in Nat, n # 0
  PROVE  Max(1 .. n) = n /\ (1 .. n) \ {n} = 1 .. n - 1
<1>1. Max(1 .. n) \in 1 .. n /\ Max(1 .. n) >= n
  <2>1. n \in 1 .. n
    OBVIOUS
  <2> QED
    BY <2>1, MaxIn
<1> QED
  BY <1>1

-----------------------------------------------------------------------------
(* Sums over a part of a domain *)

\* f where it is of S, and 0 elsewhere.
Within(f, D, S) == [e \in D |-> IF e \in S THEN f[e] ELSE 0]

Part(f, S) == [e \in S |-> f[e]]

LEMMA WithinType ==
  ASSUME NEW D, NEW f \in [D -> Int], NEW S \in SUBSET D
  PROVE  Within(f, D, S) \in [D -> Int] /\ Part(f, S) \in [S -> Int]
BY DEF Within, Part

\* The sum over a part is the sum over all, with 0 elsewhere.
LEMMA SumOfPart ==
  ASSUME NEW D, IsFiniteSet(D), NEW f \in [D -> Int], NEW S \in SUBSET D
  PROVE  SumFunction(Part(f, S)) = SumFunction(Within(f, D, S))
<1> DEFINE h == Part(f, S)
<1>1. IsFiniteSet(S) /\ h \in [S -> Int]
  BY FS_Subset, WithinType
<1>2. PICK g : Unfolds(h, S, g)
  BY <1>1, SumFunctionUnfolds
<1> DEFINE T == {s \in SUBSET S : SumFunction(Within(f, D, s)) = g[s]}
<1>3. {} \in T
  <2>1. g[{}] = 0
    BY <1>2 DEF Unfolds, Step
  <2>2. Within(f, D, {}) \in [D -> Int] /\ \A e \in D : Within(f, D, {})[e] = 0
    BY DEF Within
  <2>3. SumFunction(Within(f, D, {})) = 0
    BY <2>2, SumOfZeros
  <2> QED
    BY <2>1, <2>3
<1>4. ASSUME NEW s \in SUBSET S, s # {}, s \ {Pick(s)} \in T
      PROVE  s \in T
  <2> DEFINE p == Pick(s)
             r == s \ {p}
  <2>1. p \in s /\ p \in D /\ f[p] \in Int
    BY <1>4, PickIn
  <2>2. g[s] = h[p] + g[r] /\ h[p] = f[p]
    <3>1. g[s] = Step(h, g, s)
      BY <1>2 DEF Unfolds
    <3>2. h[p] = f[p]
      BY <2>1 DEF Part
    <3> QED
      BY <1>4, <3>1, <3>2 DEF Step
  <2>3. SumFunction(Within(f, D, r)) = g[r]
    BY <1>4
  <2> HIDE DEF p
  <2>4. /\ Within(f, D, r) \in [D -> Int] /\ Within(f, D, s) \in [D -> Int]
        /\ Within(f, D, s)[p] = Within(f, D, r)[p] + f[p]
        /\ \A e \in D \ {p} : Within(f, D, s)[e] = Within(f, D, r)[e]
    BY <2>1 DEF Within
  <2>5. SumFunction(Within(f, D, s)) = SumFunction(Within(f, D, r)) + f[p]
    <3> HIDE DEF r
    <3> QED
      BY <2>1, <2>4, SumChanges
  <2>6. SumFunction(Within(f, D, r)) \in Int
    BY <2>4, SumType
  <2> QED
    BY <2>1, <2>2, <2>3, <2>5, <2>6
<1>5. \A s \in SUBSET S : s \in T
  <2> HIDE DEF T
  <2> QED
    BY <1>1, <1>3, <1>4, SubsetsByPick
<1>6. SumFunction(Within(f, D, S)) = g[S]
  BY <1>5
<1> QED
  BY <1>2, <1>6 DEF Unfolds

\* Two parts that have nothing in common.
LEMMA SumOfTwoParts ==
  ASSUME NEW D, IsFiniteSet(D), NEW f \in [D -> Int],
         NEW S \in SUBSET D, NEW R \in SUBSET D, S \cap R = {}
  PROVE  SumFunction(Part(f, S \cup R)) = SumFunction(Part(f, S)) + SumFunction(Part(f, R))
<1>1. Within(f, D, S \cup R) = Plus(Within(f, D, S), Within(f, D, R))
  BY DEF Within, Plus
<1>2. S \cup R \in SUBSET D
  OBVIOUS
<1>3. SumFunction(Within(f, D, S \cup R)) =
        SumFunction(Within(f, D, S)) + SumFunction(Within(f, D, R))
  BY <1>1, WithinType, SumOfPlus
<1> QED
  BY <1>2, <1>3, SumOfPart

\* One more.
LEMMA SumOfOneMore ==
  ASSUME NEW D, IsFiniteSet(D), NEW f \in [D -> Int],
         NEW S \in SUBSET D, NEW e \in D \ S
  PROVE  SumFunction(Part(f, S \cup {e})) = SumFunction(Part(f, S)) + f[e]
<1> DEFINE a == Within(f, D, S)
           b == Within(f, D, S \cup {e})
<1>1. a \in [D -> Int] /\ b \in [D -> Int] /\ S \cup {e} \in SUBSET D
  BY WithinType
<1>2. b[e] = a[e] + f[e] /\ f[e] \in Int /\ \A x \in D \ {e} : b[x] = a[x]
  BY DEF Within
<1> HIDE DEF a, b
<1>3. SumFunction(b) = SumFunction(a) + f[e]
  BY <1>1, <1>2, SumChanges
<1> QED
  BY <1>1, <1>3, SumOfPart DEF a, b

\* A part that has all that is not 0 of another has no less.
LEMMA SumOfLargerPart ==
  ASSUME NEW D, IsFiniteSet(D), NEW f \in [D -> Nat],
         NEW S \in SUBSET D, NEW R \in SUBSET D,
         \A e \in S \ R : f[e] = 0
  PROVE  SumFunction(Part(f, S)) <= SumFunction(Part(f, R))
<1>1. f \in [D -> Int]
  OBVIOUS
<1>2. \A e \in D : Within(f, D, S)[e] <= Within(f, D, R)[e]
  BY DEF Within
<1>3. SumFunction(Within(f, D, S)) <= SumFunction(Within(f, D, R))
  BY <1>1, <1>2, WithinType, SumIsMonotone
<1> QED
  BY <1>1, <1>3, SumOfPart

\* A part of naturals has a natural sum.
LEMMA SumOfNaturalPart ==
  ASSUME NEW D, IsFiniteSet(D), NEW f \in [D -> Nat], NEW S \in SUBSET D
  PROVE  SumFunction(Part(f, S)) \in Nat /\ \A e \in S : f[e] <= SumFunction(Part(f, S))
<1>1. IsFiniteSet(S) /\ Part(f, S) \in [S -> Nat] /\ \A e \in S : Part(f, S)[e] = f[e]
  BY FS_Subset DEF Part
<1> QED
  BY <1>1, SumOfNaturals

-----------------------------------------------------------------------------
(* The fold of a text *)

\* op takes what is folded of a text, of A, and the next character, of B.
Folds(A, B, op, base) == op \in [A -> [B -> A]] /\ base \in A

\* g folds the parts of s, as FoldLeft does, as long as they are of A.
FoldsParts(A, op, base, s, g) ==
  /\ g[{}] = base
  /\ \A S \in SUBSET DOMAIN s : S # {} /\ g[S \ {Max(S)}] \in A =>
       g[S] = op[g[S \ {Max(S)}]][s[Max(S)]]

\* g is the recursive function inside FoldLeft.
FoldsLeft(A, op, base, s, g) ==
  /\ g \in [SUBSET DOMAIN s -> A]
  /\ \A S \in SUBSET DOMAIN s :
       g[S] = IF S = {} THEN base ELSE op[g[S \ {Max(S)}]][s[Max(S)]]

\* h is the fold of s by op, from base, at each of its prefixes.
PrefixFolds(A, op, base, s, h) ==
  /\ h \in [0 .. Len(s) -> A]
  /\ h[0] = base
  /\ \A i \in 1 .. Len(s) : h[i] = op[h[i - 1]][s[i]]

FoldOf(A, op, base, s) == (CHOOSE h : PrefixFolds(A, op, base, s, h))[Len(s)]

\* There is one.
LEMMA FoldLeftExists ==
  ASSUME NEW A, NEW B, NEW op, NEW base, Folds(A, B, op, base), NEW s \in Seq(B)
  PROVE  \E g : FoldsLeft(A, op, base, s, g)
<1> DEFINE D == DOMAIN s
           step == [v \in A |-> [i \in D |-> op[v][s[i]]]]
           pick == [S \in SUBSET D |-> Max(S)]
<1> USE DEF Folds
<1>1. D = 1 .. Len(s) /\ Len(s) \in Nat /\ \A i \in D : s[i] \in B
  OBVIOUS
<1>2. IsFiniteSet(D)
  BY <1>1, FS_Interval
<1>3. step \in [A -> [D -> A]]
  BY <1>1
<1>4. \A S \in SUBSET D : S # {} => pick[S] \in S
  BY <1>1, MaxIn
<1>5. PICK g \in [SUBSET D -> A] : FoldsBy(D, base, step, pick, g)
  <2> HIDE DEF D, step, pick
  <2> QED
    BY <1>2, <1>3, <1>4, FoldsExist
<1>6. ASSUME NEW S \in SUBSET D
      PROVE  g[S] = IF S = {} THEN base ELSE op[g[S \ {Max(S)}]][s[Max(S)]]
  <2>1. CASE S = {}
    BY <1>5, <2>1 DEF FoldsBy
  <2>2. CASE S # {}
    <3>1. pick[S] = Max(S) /\ Max(S) \in D /\ g[S \ {Max(S)}] \in A
      BY <1>4, <2>2
    <3>2. g[S] = step[g[S \ {Max(S)}]][Max(S)]
      BY <1>5, <2>2, <3>1 DEF FoldsBy
    <3>3. \A v \in A, i \in D : step[v][i] = op[v][s[i]]
      OBVIOUS
    <3> QED
      BY <2>2, <3>1, <3>2, <3>3
  <2> QED
    BY <2>1, <2>2
<1> QED
  BY <1>5, <1>6 DEF FoldsLeft

\* What holds of 0, and of i + 1 if it holds of i, holds up to n.
LEMMA UpTo ==
  ASSUME NEW n \in Nat, NEW T, 0 \in T, \A i \in 0 .. n - 1 : i \in T => i + 1 \in T
  PROVE  \A i \in 0 .. n : i \in T
<1> DEFINE N == {i \in Nat : i <= n => i \in T}
<1>1. 0 \in N
  OBVIOUS
<1>2. ASSUME NEW i \in N
      PROVE  i + 1 \in N
  <2>1. i + 1 <= n => i \in 0 .. n - 1 /\ i \in T
    OBVIOUS
  <2> QED
    BY <2>1
<1> HIDE DEF N
<1>3. N = Nat
  <2>1. N \in SUBSET Nat
    BY DEF N
  <2> QED
    BY <1>1, <1>2, <2>1, SetOfNaturals
<1> QED
  BY <1>3 DEF N

\* A function that folds the parts of a text folds its prefixes.
LEMMA PartsArePrefixes ==
  ASSUME NEW A, NEW B, NEW op, NEW base, Folds(A, B, op, base), NEW s \in Seq(B),
         NEW g, FoldsParts(A, op, base, s, g)
  PROVE  PrefixFolds(A, op, base, s, [i \in 0 .. Len(s) |-> g[1 .. i]])
<1> DEFINE h == [i \in 0 .. Len(s) |-> g[1 .. i]]
           T == {i \in 0 .. Len(s) : h[i] \in A}
<1>1. Len(s) \in Nat /\ DOMAIN s = 1 .. Len(s) /\ \A i \in 1 .. Len(s) : s[i] \in B
  OBVIOUS
<1>2. h[0] = base /\ base \in A
  BY <1>1, 1 .. 0 = {} DEF FoldsParts, Folds
<1>3. ASSUME NEW i \in 1 .. Len(s), h[i - 1] \in A
      PROVE  h[i] = op[h[i - 1]][s[i]] /\ h[i] \in A
  <2>1. i \in Nat /\ i # 0 /\ i - 1 \in 0 .. Len(s) /\ i \in 0 .. Len(s)
    OBVIOUS
  <2>2. Max(1 .. i) = i /\ (1 .. i) \ {i} = 1 .. i - 1
    BY <2>1, MaxOfPrefix
  <2>3. 1 .. i \in SUBSET DOMAIN s /\ 1 .. i # {}
    BY <1>1
  <2>4. h[i] = g[1 .. i] /\ h[i - 1] = g[1 .. i - 1]
    BY <2>1
  <2>5. g[1 .. i] = op[g[1 .. i - 1]][s[i]]
    BY <1>3, <2>2, <2>3, <2>4 DEF FoldsParts
  <2>6. \A v \in A, c \in B : op[v][c] \in A
    BY DEF Folds
  <2> HIDE DEF h
  <2> QED
    BY <1>1, <1>3, <2>4, <2>5, <2>6
<1>4. 0 \in T
  BY <1>1, <1>2
<1>5. \A i \in 0 .. Len(s) - 1 : i \in T => i + 1 \in T
  <2> SUFFICES ASSUME NEW i \in 0 .. Len(s) - 1, i \in T
               PROVE  i + 1 \in T
    OBVIOUS
  <2>1. i + 1 \in 1 .. Len(s) /\ (i + 1) - 1 = i /\ i + 1 \in 0 .. Len(s)
    BY <1>1
  <2> HIDE DEF h
  <2> QED
    BY <1>3, <2>1
<1>6. \A i \in 0 .. Len(s) : i \in T
  <2> HIDE DEF T
  <2> QED
    BY <1>1, <1>4, <1>5, UpTo
<1>7. h \in [0 .. Len(s) -> A]
  BY <1>6
<1>8. \A i \in 1 .. Len(s) : h[i - 1] \in A
  BY <1>1, <1>6
<1> HIDE DEF h, T
<1>9. PrefixFolds(A, op, base, s, h)
  BY <1>2, <1>3, <1>7, <1>8 DEF PrefixFolds
<1> QED
  BY <1>9 DEF h

\* There is one fold of the prefixes, and no other.
LEMMA PrefixesExist ==
  ASSUME NEW A, NEW B, NEW op, NEW base, Folds(A, B, op, base), NEW s \in Seq(B)
  PROVE  \E h : PrefixFolds(A, op, base, s, h)
<1>1. PICK g : FoldsLeft(A, op, base, s, g)
  BY FoldLeftExists
<1>2. {} \in SUBSET DOMAIN s
  OBVIOUS
<1>3. FoldsParts(A, op, base, s, g)
  BY <1>1, <1>2 DEF FoldsLeft, FoldsParts
<1> QED
  BY <1>3, PartsArePrefixes

LEMMA PrefixesAgree ==
  ASSUME NEW A, NEW B, NEW op, NEW base, Folds(A, B, op, base),
         NEW s \in Seq(B), NEW t \in Seq(B), NEW h, NEW k,
         PrefixFolds(A, op, base, s, h), PrefixFolds(A, op, base, t, k),
         Len(s) <= Len(t), \A i \in 1 .. Len(s) : s[i] = t[i]
  PROVE  \A i \in 0 .. Len(s) : h[i] = k[i]
<1> DEFINE T == {i \in 0 .. Len(s) : h[i] = k[i]}
<1>1. Len(s) \in Nat /\ Len(t) \in Nat
  OBVIOUS
<1>2. 0 \in T
  BY <1>1 DEF PrefixFolds
<1>3. ASSUME NEW i \in 0 .. Len(s) - 1, i \in T
      PROVE  i + 1 \in T
  <2>1. /\ i + 1 \in 1 .. Len(s) /\ i + 1 \in 1 .. Len(t) /\ (i + 1) - 1 = i
        /\ i + 1 \in 0 .. Len(s) /\ h[i] = k[i]
    BY <1>1, <1>3
  <2>2. h[i + 1] = op[h[i]][s[i + 1]] /\ k[i + 1] = op[k[i]][t[i + 1]]
    BY <2>1 DEF PrefixFolds
  <2> QED
    BY <2>1, <2>2
<1> HIDE DEF T
<1>4. \A i \in 0 .. Len(s) : i \in T
  BY <1>1, <1>2, <1>3, UpTo
<1> QED
  BY <1>4 DEF T

\* A function that folds the parts of a text ends with its fold.
LEMMA FoldIs ==
  ASSUME NEW A, NEW B, NEW op, NEW base, Folds(A, B, op, base), NEW s \in Seq(B),
         NEW g, FoldsParts(A, op, base, s, g)
  PROVE  g[DOMAIN s] = FoldOf(A, op, base, s)
<1> DEFINE h == [i \in 0 .. Len(s) |-> g[1 .. i]]
           k == CHOOSE k : PrefixFolds(A, op, base, s, k)
<1>1. PrefixFolds(A, op, base, s, h)
  BY PartsArePrefixes
<1>2. PrefixFolds(A, op, base, s, k)
  BY <1>1
<1>3. h[Len(s)] = g[DOMAIN s] /\ Len(s) \in Nat
  OBVIOUS
<1>4. FoldOf(A, op, base, s) = k[Len(s)]
  BY DEF FoldOf
<1> HIDE DEF h, k
<1>5. \A i \in 0 .. Len(s) : h[i] = k[i]
  BY <1>1, <1>2, <1>3, PrefixesAgree
<1> QED
  BY <1>3, <1>4, <1>5

\* The fold of nothing, and the fold of a text with one more character.
LEMMA FoldOfEmpty ==
  ASSUME NEW A, NEW B, NEW op, NEW base, Folds(A, B, op, base)
  PROVE  FoldOf(A, op, base, <<>>) = base
<1> DEFINE k == CHOOSE k : PrefixFolds(A, op, base, <<>>, k)
<1>1. <<>> \in Seq(B) /\ Len(<<>>) = 0
  OBVIOUS
<1>2. PrefixFolds(A, op, base, <<>>, k)
  BY <1>1, PrefixesExist
<1>3. FoldOf(A, op, base, <<>>) = k[0]
  BY <1>1 DEF FoldOf
<1> QED
  BY <1>2, <1>3 DEF PrefixFolds

LEMMA FoldOfAppend ==
  ASSUME NEW A, NEW B, NEW op, NEW base, Folds(A, B, op, base), NEW s \in Seq(B),
         NEW c \in B
  PROVE  /\ FoldOf(A, op, base, s) \in A
         /\ FoldOf(A, op, base, Append(s, c)) = op[FoldOf(A, op, base, s)][c]
<1> DEFINE t == Append(s, c)
           h == CHOOSE h : PrefixFolds(A, op, base, s, h)
           k == CHOOSE k : PrefixFolds(A, op, base, t, k)
<1>1. /\ t \in Seq(B) /\ Len(t) = Len(s) + 1 /\ t[Len(t)] = c /\ Len(s) \in Nat
      /\ \A i \in 1 .. Len(s) : t[i] = s[i]
  OBVIOUS
<1>2. PrefixFolds(A, op, base, s, h)
  BY PrefixesExist
<1>3. PrefixFolds(A, op, base, t, k)
  BY <1>1, PrefixesExist
<1>4. FoldOf(A, op, base, s) = h[Len(s)] /\ FoldOf(A, op, base, t) = k[Len(t)]
  BY DEF FoldOf
<1> HIDE DEF h, k, t
<1>5. Len(s) <= Len(t) /\ \A i \in 1 .. Len(s) : s[i] = t[i]
  BY <1>1
<1>6. \A i \in 0 .. Len(s) : h[i] = k[i]
  BY <1>1, <1>2, <1>3, <1>5, PrefixesAgree
<1>7. h[Len(s)] = k[Len(s)] /\ h[Len(s)] \in A
  BY <1>1, <1>2, <1>6 DEF PrefixFolds
<1>8. k[Len(t)] = op[k[Len(t) - 1]][t[Len(t)]] /\ Len(t) - 1 = Len(s)
  BY <1>1, <1>3 DEF PrefixFolds
<1> QED
  BY <1>1, <1>4, <1>7, <1>8 DEF t

\* What holds of the empty text, and of a text with one more character whenever
\* it holds of the text, holds of all texts.
LEMMA Texts ==
  ASSUME NEW B, NEW T, <<>> \in T,
         \A s \in Seq(B), c \in B : s \in T => Append(s, c) \in T
  PROVE  \A s \in Seq(B) : s \in T
<1> DEFINE N == {n \in Nat : \A s \in Seq(B) : Len(s) = n => s \in T}
<1>1. 0 \in N
  <2>1. \A s \in Seq(B) : Len(s) = 0 => s = <<>>
    OBVIOUS
  <2> QED
    BY <2>1
<1>2. ASSUME NEW n \in N
      PROVE  n + 1 \in N
  <2> SUFFICES ASSUME NEW s \in Seq(B), Len(s) = n + 1
               PROVE  s \in T
    OBVIOUS
  <2> DEFINE r == SubSeq(s, 1, n)
  <2>1. n \in Nat /\ s[n + 1] \in B
    OBVIOUS
  <2>2. r \in Seq(B) /\ Len(r) = n
    BY <2>1
  <2>3. s = Append(r, s[n + 1])
    BY <2>1
  <2>4. r \in T
    BY <2>2
  <2> HIDE DEF r
  <2> QED
    BY <2>1, <2>2, <2>3, <2>4
<1> HIDE DEF N
<1>3. N = Nat
  <2>1. N \in SUBSET Nat
    BY DEF N
  <2> QED
    BY <1>1, <1>2, <2>1, SetOfNaturals
<1>4. \A s \in Seq(B) : Len(s) \in N
  BY <1>3
<1> QED
  BY <1>4 DEF N
=============================================================================
