------------------------------- MODULE Totals -------------------------------
(***************************************************************************)
(* Lemmas about the least and the largest of a set of numbers, and about   *)
(* sums over a finite set: what SumFunction of the community modules, a    *)
(* fold, means for every function (SumIs), and how it follows a change of  *)
(* one value, a bound of each and a comparison of all.                     *)
(*                                                                         *)
(* Induction is over the members of a set P, which a lemma may be asked    *)
(* about, and not over an operator.                                        *)
(***************************************************************************)
EXTENDS FiniteSetsExt, FiniteSetTheorems, WellFoundedInduction, NaturalsInduction, TLAPS

LEMMA Least ==
  ASSUME NEW S \in SUBSET Nat, S # {}
  PROVE  \E t \in S : \A s \in S : t <= s
<1> DEFINE R == {ss \in Nat \X Nat : ss[1] < ss[2]}
<1>1. IsWellFoundedOn(R, Nat)
  BY NatLessThanWellFounded, Zenon DEF OpToRel
<1>2. PICK t \in S : \A s \in S : ~(<<s, t>> \in R)
  <2> HIDE DEF R
  <2>. QED
    BY <1>1, WFMin
<1>3. \A s \in S : t <= s
  <2>1. \A s \in S : s < t => <<s, t>> \in R
    OBVIOUS
  <2>2. \A s \in S : ~(s < t)
    BY <1>2, <2>1
  <2>. QED
    BY <2>2
<1>. QED
  BY <1>3

LEMMA SmallestOf ==
  ASSUME NEW S \in SUBSET Nat, S # {}
  PROVE  Min(S) \in S
BY Least DEF Min

(* Max of a set of naturals that has a bound. *)
LEMMA LargestOf ==
  ASSUME NEW S \in SUBSET Nat, S # {}, NEW n \in Nat, \A x \in S : x <= n
  PROVE  Max(S) \in S /\ \A y \in S : y <= Max(S)
<1> DEFINE T == {n - x : x \in S}
<1>1. T \subseteq Nat
  OBVIOUS
<1>2. T # {}
  <2>1. PICK x : x \in S
    OBVIOUS
  <2>2. n - x \in T
    BY <2>1
  <2>. QED
    BY <2>2
<1>3. PICK t \in T : \A s \in T : t <= s
  <2> HIDE DEF T
  <2>. QED
    BY <1>1, <1>2, Least
<1>4. PICK x \in S : t = n - x
  OBVIOUS
<1>5. \A y \in S : x >= y
  <2> SUFFICES ASSUME NEW y \in S PROVE x >= y
    OBVIOUS
  <2>1. n - y \in T
    OBVIOUS
  <2>. QED
    BY <1>3, <1>4, <2>1
<1>. QED
  BY <1>5 DEF Max

LEMMA Counting ==
  ASSUME NEW P, 0 \in P, \A n \in Nat : n \in P => n + 1 \in P
  PROVE  \A n \in Nat : n \in P
<1> DEFINE B == {n \in Nat : n \notin P}
<1>1. CASE B # {}
  <2>1. PICK n \in B : \A m \in B : n <= m
    <3> HIDE DEF B
    <3>1. B \subseteq Nat
      BY DEF B
    <3>. QED
      BY <1>1, <3>1, Least
  <2>2. n # 0 /\ n \in Nat
    OBVIOUS
  <2>3. n - 1 \in Nat /\ (n - 1) + 1 = n
    BY <2>2
  <2>4. n - 1 \in P
    BY <2>1, <2>3
  <2>. QED
    BY <2>3, <2>4
<1>. QED
  BY <1>1

LEMMA SubsetInduction ==
  ASSUME NEW D, IsFiniteSet(D), NEW P,
         \A s \in SUBSET D : (\A x \in s : s \ {x} \in P) => s \in P
  PROVE  \A s \in SUBSET D : s \in P
<1> DEFINE B == {n \in Nat : \E s \in SUBSET D : s \notin P /\ Cardinality(s) = n}
<1>1. \A s \in SUBSET D : IsFiniteSet(s) /\ Cardinality(s) \in Nat
  BY FS_Subset, FS_CardinalityType
<1>2. CASE B = {}
  BY <1>1, <1>2
<1>3. CASE B # {}
  <2>1. PICK n \in B : \A m \in B : n <= m
    <3> HIDE DEF B
    <3>1. B \subseteq Nat
      BY DEF B
    <3>. QED
      BY <1>3, <3>1, Least
  <2>2. PICK s \in SUBSET D : s \notin P /\ Cardinality(s) = n
    OBVIOUS
  <2>3. ASSUME NEW x \in s
        PROVE  s \ {x} \in P
    <3>1. Cardinality(s \ {x}) = n - 1 /\ Cardinality(s \ {x}) \in Nat
      BY <1>1, <2>2, FS_RemoveElement
    <3>. QED
      BY <2>1, <3>1
  <2>. QED
    BY <2>2, <2>3
<1>. QED
  BY <1>2, <1>3

-----------------------------------------------------------------------------
Pick(s) == CHOOSE x \in s : TRUE

LEMMA Unfolded ==
  ASSUME NEW f, NEW D
  PROVE  SumFunctionOnSet(f, D)
           = (CHOOSE g : g = [s \in SUBSET D |-> IF s = {} THEN 0 ELSE f[Pick(s)] + g[s \ {Pick(s)}]])[D]
BY DEF SumFunctionOnSet, FoldFunctionOnSet, MapThenFoldSet, Pick

Recursive(g, f, D) == g = [s \in SUBSET D |-> IF s = {} THEN 0 ELSE f[Pick(s)] + g[s \ {Pick(s)}]]

(* The recursion of the fold is well defined on the subsets of a finite    *)
(* set: layer by layer.                                                    *)
LEMMA RecursionExists ==
  ASSUME NEW D, IsFiniteSet(D), NEW f \in [D -> Int]
  PROVE  \E g : Recursive(g, f, D)
<1> DEFINE L(n) == {s \in SUBSET D : Cardinality(s) <= n}
<1> DEFINE Step(g, s) == IF s = {} THEN 0 ELSE f[Pick(s)] + g[s \ {Pick(s)}]
<1> DEFINE P == {n \in Nat : \E g : g = [s \in L(n) |-> Step(g, s)]}
<1>1. \A s \in SUBSET D : IsFiniteSet(s) /\ Cardinality(s) \in Nat /\ (Cardinality(s) = 0 <=> s = {})
  BY FS_Subset, FS_CardinalityType, FS_EmptySet
<1>2. \A s \in SUBSET D : s # {} => Pick(s) \in s
  BY DEF Pick
<1>3. \A s \in SUBSET D : s # {} => /\ s \ {Pick(s)} \in SUBSET D
                                   /\ Cardinality(s \ {Pick(s)}) = Cardinality(s) - 1
  <2> SUFFICES ASSUME NEW s \in SUBSET D, s # {} PROVE Cardinality(s \ {Pick(s)}) = Cardinality(s) - 1
    OBVIOUS
  <2>. QED
    BY <1>1, <1>2, FS_RemoveElement
<1>4. 0 \in P
  <2>1. \A s \in L(0) : s = {}
    BY <1>1
  <2> DEFINE g == [s \in L(0) |-> 0]
  <2>2. g = [s \in L(0) |-> Step(g, s)]
    BY <2>1
  <2>. QED
    BY <2>2
<1>5. ASSUME NEW n \in Nat, n \in P
      PROVE  n + 1 \in P
  <2>1. PICK g : g = [s \in L(n) |-> Step(g, s)]
    BY <1>5
  <2> DEFINE h == [s \in L(n + 1) |-> Step(g, s)]
  <2>2. ASSUME NEW s \in L(n + 1), s # {}
        PROVE  s \ {Pick(s)} \in L(n) /\ s \ {Pick(s)} \in L(n + 1)
    BY <1>1, <1>3, <2>2
  <2>3. ASSUME NEW s \in L(n)
        PROVE  h[s] = g[s]
    <3>1. s \in L(n + 1)
      BY <1>1
    <3>2. g[s] = Step(g, s)
      <4> HIDE DEF L, Step
      <4>. QED
        BY <2>1
    <3> HIDE DEF L, Step
    <3>. QED
      BY <3>1, <3>2
  <2>4. ASSUME NEW s \in L(n + 1)
        PROVE  Step(g, s) = Step(h, s)
    <3> HIDE DEF L, h
    <3>. QED
      BY <2>2, <2>3
  <2>5. h = [s \in L(n + 1) |-> Step(h, s)]
    <3> HIDE DEF L, Step
    <3>. QED
      BY <2>4
  <2>6. \E k : k = [s \in L(n + 1) |-> Step(k, s)]
    <3> HIDE DEF L, Step, h
    <3>. QED
      BY <2>5
  <2> HIDE DEF L, Step, h
  <2>. QED
    BY <2>6
<1>6. \A n \in Nat : n \in P
  <2> HIDE DEF P
  <2>. QED
    BY <1>4, <1>5, Counting
<1>7. Cardinality(D) \in P
  BY <1>1, <1>6
<1>8. L(Cardinality(D)) = SUBSET D
  BY FS_Subset, <1>1
<1>9. PICK g : g = [s \in L(Cardinality(D)) |-> Step(g, s)]
  BY <1>7
<1>. QED
  BY <1>8, <1>9 DEF Recursive

Sums(g, f, D) ==
  /\ g \in [SUBSET D -> Int]
  /\ g[{}] = 0
  /\ \A s \in SUBSET D : \A x \in s : g[s] = f[x] + g[s \ {x}]

(* What summing means: nothing for the empty set, and for any member of a  *)
(* set the value there and the sum of the rest, in whatever order.         *)
LEMMA SumIs ==
  ASSUME NEW D, IsFiniteSet(D), NEW f \in [D -> Int]
  PROVE  \E g : SumFunction(f) = g[D] /\ Sums(g, f, D)
<1> DEFINE it == CHOOSE g : Recursive(g, f, D)
<1>1. Recursive(it, f, D)
  BY RecursionExists, Zenon
<1>2. SumFunction(f) = it[D]
  <2>1. DOMAIN f = D
    OBVIOUS
  <2>. QED
    BY <2>1, Unfolded, Zenon DEF SumFunction, Recursive
<1> HIDE DEF it
<1>3. it = [s \in SUBSET D |-> it[s]]
  BY <1>1 DEF Recursive
<1>4. \A s \in SUBSET D : it[s] = IF s = {} THEN 0 ELSE f[Pick(s)] + it[s \ {Pick(s)}]
  BY <1>1 DEF Recursive
<1>0. it[{}] = 0
  BY <1>4
<1>5. \A s \in SUBSET D : s # {} => Pick(s) \in s
  BY DEF Pick
<1>6. \A s \in SUBSET D : it[s] \in Int
  <2> DEFINE P == {s \in SUBSET D : it[s] \in Int}
  <2>1. ASSUME NEW s \in SUBSET D, \A x \in s : s \ {x} \in P
        PROVE  s \in P
    <3>1. CASE s = {}
      BY <1>0, <3>1
    <3>2. CASE s # {}
      <4>1. PICK c \in s : it[s] = f[c] + it[s \ {c}]
        BY <1>4, <1>5, <3>2
      <4>2. it[s \ {c}] \in Int /\ f[c] \in Int
        BY <2>1
      <4>. QED
        BY <4>1, <4>2
    <3>. QED
      BY <3>1, <3>2
  <2>2. \A s \in SUBSET D : s \in P
    <3> HIDE DEF P
    <3>. QED
      BY <2>1, SubsetInduction
  <2>. QED
    BY <2>2
<1>7. \A s \in SUBSET D : \A x \in s : it[s] = f[x] + it[s \ {x}]
  <2> DEFINE P == {s \in SUBSET D : \A x \in s : it[s] = f[x] + it[s \ {x}]}
  <2>1. ASSUME NEW s \in SUBSET D, \A x \in s : s \ {x} \in P
        PROVE  s \in P
    <3> SUFFICES ASSUME NEW x \in s PROVE it[s] = f[x] + it[s \ {x}]
      OBVIOUS
    <3>1. PICK c \in s : c = Pick(s) /\ it[s] = f[c] + it[s \ {c}]
      BY <1>4, <1>5
    <3>2. CASE x = c
      BY <3>1, <3>2
    <3>3. CASE x # c
      <4>1. s \ {c} \in P /\ s \ {x} \in P
        BY <2>1
      <4>2. it[s \ {c}] = f[x] + it[(s \ {c}) \ {x}]
        BY <3>3, <4>1
      <4>3. it[s \ {x}] = f[c] + it[(s \ {x}) \ {c}]
        BY <3>3, <4>1
      <4>4. (s \ {c}) \ {x} = (s \ {x}) \ {c}
        OBVIOUS
      <4>5. it[(s \ {c}) \ {x}] \in Int /\ f[x] \in Int /\ f[c] \in Int
        BY <1>6
      <4> HIDE DEF P
      <4>6. it[s] = f[c] + (f[x] + it[(s \ {c}) \ {x}])
        BY <3>1, <4>2
      <4>7. it[s \ {x}] = f[c] + it[(s \ {c}) \ {x}]
        BY <4>3, <4>4
      <4>. QED
        BY <4>5, <4>6, <4>7
    <3>. QED
      BY <3>2, <3>3
  <2>2. \A s \in SUBSET D : s \in P
    <3> HIDE DEF P
    <3>. QED
      BY <2>1, SubsetInduction
  <2>. QED
    BY <2>2, Zenon
<1>8. it \in [SUBSET D -> Int]
  BY <1>3, <1>6
<1>9. Sums(it, f, D)
  BY <1>0, <1>7, <1>8 DEF Sums
<1>. QED
  BY <1>2, <1>9

LEMMA SumNumber ==
  ASSUME NEW D, IsFiniteSet(D), NEW f \in [D -> Int]
  PROVE  SumFunction(f) \in Int
<1>1. PICK g : SumFunction(f) = g[D] /\ Sums(g, f, D)
  BY SumIs, Zenon
<1>. QED
  BY <1>1 DEF Sums

(* One value changed changes the sum by as much. *)
LEMMA SumChanged ==
  ASSUME NEW D, IsFiniteSet(D), NEW f \in [D -> Int], NEW h \in [D -> Int], NEW d \in D,
         \A x \in D \ {d} : h[x] = f[x]
  PROVE  SumFunction(h) = SumFunction(f) + h[d] - f[d]
<1>1. PICK g : SumFunction(f) = g[D] /\ Sums(g, f, D)
  BY SumIs, Zenon
<1>2. PICK k : SumFunction(h) = k[D] /\ Sums(k, h, D)
  BY SumIs, Zenon
<1> DEFINE P == {s \in SUBSET (D \ {d}) : k[s] = g[s]}
<1>3. ASSUME NEW s \in SUBSET (D \ {d}), \A x \in s : s \ {x} \in P
      PROVE  s \in P
  <2>1. CASE s = {}
    BY <1>1, <1>2, <2>1 DEF Sums
  <2>2. CASE s # {}
    <3>1. PICK x \in s : TRUE
      BY <2>2
    <3>2. k[s \ {x}] = g[s \ {x}]
      BY <1>3, <3>1
    <3>3. k[s] = h[x] + k[s \ {x}] /\ g[s] = f[x] + g[s \ {x}] /\ h[x] = f[x]
      BY <1>1, <1>2 DEF Sums
    <3>. QED
      BY <3>2, <3>3
  <2>. QED
    BY <2>1, <2>2
<1>4. \A s \in SUBSET (D \ {d}) : s \in P
  <2>1. IsFiniteSet(D \ {d})
    BY FS_Subset
  <2> HIDE DEF P
  <2>. QED
    BY <1>3, <2>1, SubsetInduction
<1>5. k[D \ {d}] = g[D \ {d}] /\ g[D \ {d}] \in Int /\ f[d] \in Int /\ h[d] \in Int
  BY <1>1, <1>4 DEF Sums
<1>6. k[D] = h[d] + k[D \ {d}] /\ g[D] = f[d] + g[D \ {d}]
  BY <1>1, <1>2 DEF Sums
<1>. QED
  BY <1>1, <1>2, <1>5, <1>6 DEF Sums

LEMMA SumSame ==
  ASSUME NEW D, IsFiniteSet(D), NEW f \in [D -> Int], NEW h \in [D -> Int], \A x \in D : h[x] = f[x]
  PROVE  SumFunction(h) = SumFunction(f)
<1>1. h = f
  OBVIOUS
<1>. QED
  BY <1>1

(* A sum of n values none of which exceeds M is at most n times M. *)
LEMMA SumBound ==
  ASSUME NEW D, IsFiniteSet(D), NEW f \in [D -> Int], NEW M \in Nat, \A x \in D : f[x] <= M
  PROVE  SumFunction(f) <= Cardinality(D) * M
<1>1. PICK g : SumFunction(f) = g[D] /\ Sums(g, f, D)
  BY SumIs, Zenon
<1> DEFINE P == {s \in SUBSET D : g[s] <= Cardinality(s) * M}
<1>2. ASSUME NEW s \in SUBSET D, \A x \in s : s \ {x} \in P
      PROVE  s \in P
  <2>1. CASE s = {}
    <3>1. Cardinality(s) = 0
      BY <2>1, FS_EmptySet
    <3>2. 0 * M = 0
      OBVIOUS
    <3>. QED
      BY <1>1, <2>1, <3>1, <3>2 DEF Sums
  <2>2. CASE s # {}
    <3>1. PICK x \in s : TRUE
      BY <2>2
    <3>2. IsFiniteSet(s) /\ Cardinality(s) \in Nat
      BY FS_Subset, FS_CardinalityType
    <3>3. Cardinality(s \ {x}) = Cardinality(s) - 1
      BY <3>2, FS_RemoveElement
    <3>4. g[s \ {x}] <= (Cardinality(s) - 1) * M /\ g[s \ {x}] \in Int
      BY <1>1, <1>2, <3>3 DEF Sums
    <3>5. g[s] = f[x] + g[s \ {x}] /\ f[x] <= M /\ f[x] \in Int
      BY <1>1 DEF Sums
    <3>6. \A c, a, b \in Int : a <= (c - 1) * M /\ b <= M => b + a <= c * M
      OBVIOUS
    <3>7. g[s] <= Cardinality(s) * M
      BY <3>2, <3>4, <3>5, <3>6
    <3>. QED
      BY <3>7
  <2>. QED
    BY <2>1, <2>2
<1>3. \A s \in SUBSET D : s \in P
  <2> HIDE DEF P
  <2>. QED
    BY <1>2, SubsetInduction
<1>. QED
  BY <1>1, <1>3 DEF Sums

(* A sum without negative values is none itself, and not below any of them. *)
LEMMA SumCovers ==
  ASSUME NEW D, IsFiniteSet(D), NEW f \in [D -> Nat]
  PROVE  SumFunction(f) \in Nat /\ \A x \in D : f[x] <= SumFunction(f)
<1>0. f \in [D -> Int]
  OBVIOUS
<1>1. PICK g : SumFunction(f) = g[D] /\ Sums(g, f, D)
  BY <1>0, SumIs, Zenon
<1> DEFINE P == {s \in SUBSET D : g[s] \in Nat}
<1>2. ASSUME NEW s \in SUBSET D, \A x \in s : s \ {x} \in P
      PROVE  s \in P
  <2>1. CASE s = {}
    BY <1>1, <2>1 DEF Sums
  <2>2. CASE s # {}
    <3>1. PICK x \in s : TRUE
      BY <2>2
    <3>2. g[s \ {x}] \in Nat /\ f[x] \in Nat /\ g[s] = f[x] + g[s \ {x}]
      BY <1>1, <1>2 DEF Sums
    <3>. QED
      BY <3>2
  <2>. QED
    BY <2>1, <2>2
<1>3. \A s \in SUBSET D : s \in P
  <2> HIDE DEF P
  <2>. QED
    BY <1>2, SubsetInduction
<1>4. g[D] \in Nat /\ \A x \in D : g[D \ {x}] \in Nat
  BY <1>3
<1>6. \A x \in D : g[D] = f[x] + g[D \ {x}] /\ f[x] \in Nat
  BY <1>1 DEF Sums
<1>5. \A x \in D : f[x] <= g[D]
  <2> TAKE x \in D
  <2>1. g[D] = f[x] + g[D \ {x}] /\ f[x] \in Nat /\ g[D \ {x}] \in Nat
    BY <1>4, <1>6
  <2>. QED
    BY <2>1
<1>. QED
  BY <1>1, <1>4, <1>5 DEF Sums

(* Nothing is summed up to more by being smaller everywhere. *)
LEMMA SumMonotone ==
  ASSUME NEW D, IsFiniteSet(D), NEW f \in [D -> Int], NEW h \in [D -> Int], \A x \in D : h[x] <= f[x]
  PROVE  SumFunction(h) <= SumFunction(f)
<1>1. PICK g : SumFunction(f) = g[D] /\ Sums(g, f, D)
  BY SumIs, Zenon
<1>2. PICK k : SumFunction(h) = k[D] /\ Sums(k, h, D)
  BY SumIs, Zenon
<1> DEFINE P == {s \in SUBSET D : k[s] <= g[s]}
<1>3. ASSUME NEW s \in SUBSET D, \A x \in s : s \ {x} \in P
      PROVE  s \in P
  <2>1. CASE s = {}
    BY <1>1, <1>2, <2>1 DEF Sums
  <2>2. CASE s # {}
    <3>1. PICK x \in s : TRUE
      BY <2>2
    <3>2. k[s \ {x}] <= g[s \ {x}] /\ k[s \ {x}] \in Int /\ g[s \ {x}] \in Int
      BY <1>1, <1>2, <1>3, <3>1 DEF Sums
    <3>3. k[s] = h[x] + k[s \ {x}] /\ g[s] = f[x] + g[s \ {x}] /\ h[x] <= f[x] /\ h[x] \in Int /\ f[x] \in Int
      BY <1>1, <1>2 DEF Sums
    <3>. QED
      BY <3>2, <3>3
  <2>. QED
    BY <2>1, <2>2
<1>4. \A s \in SUBSET D : s \in P
  <2> HIDE DEF P
  <2>. QED
    BY <1>3, SubsetInduction
<1>. QED
  BY <1>1, <1>2, <1>4
=============================================================================
