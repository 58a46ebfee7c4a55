---------------------------- MODULE SumTheorems ----------------------------
(***************************************************************************)
(* Induction on a number and on a finite set, and what it proves about     *)
(* SumFunctionOnSet(f, S), the sum of f[x] over x \in S that the deployed  *)
(* capital and the rebuilt P&L are.  The induction theorems of the library *)
(* take a predicate as a parameter; these take the set of the numbers or   *)
(* subsets that have been reached, and follow from the library's theorem   *)
(* that a well-founded relation has minimal elements.                      *)
(***************************************************************************)
EXTENDS Functions, FiniteSetTheorems, WellFoundedInduction, TLAPS

---------------------------------------------------------------------------
(* Induction *)

\* A set of naturals with 0 and every successor holds all of them.
LEMMA NumberInduction ==
    ASSUME NEW T, 0 \in T, \A n \in Nat : n \in T => n + 1 \in T
    PROVE  \A n \in Nat : n \in T
<1> SUFFICES ASSUME NEW k \in Nat, k \notin T PROVE FALSE
    OBVIOUS
<1> DEFINE R == OpToRel(<, Nat)
           Missed == Nat \ T
<1>1. IsWellFoundedOn(R, Nat)
    BY NatLessThanWellFounded DEF OpToRel
<1>2. Missed # {}
    OBVIOUS
<1>3. PICK n \in Missed : \A m \in Missed : <<m, n>> \notin R
    <2>1. Missed \subseteq Nat
        OBVIOUS
    <2> HIDE DEF R, Missed
    <2> QED
        BY <1>1, <1>2, <2>1, WFMin
<1>4. n \in Nat /\ n # 0
    OBVIOUS
<1>5. n - 1 \in Nat /\ n - 1 < n /\ (n - 1) + 1 = n
    BY <1>4
<1>6. n - 1 \in Missed
    BY <1>5
<1>7. <<n - 1, n>> \in R
    BY <1>4, <1>5 DEF OpToRel
<1> QED
    BY <1>3, <1>6, <1>7

\* A family that takes in a subset as soon as it has the subset less any one of
\* its elements, the empty set to begin with, has every subset.
LEMMA SubsetInduction ==
    ASSUME NEW S, IsFiniteSet(S), NEW T,
           \A s \in SUBSET S : (\A x \in s : s \ {x} \in T) => s \in T
    PROVE  SUBSET S \subseteq T
<1> DEFINE R == StrictSubsetOrdering(S)
           Missed == (SUBSET S) \ T
<1>1. IsWellFoundedOn(R, SUBSET S)
    BY FS_StrictSubsetOrderingWellFounded, FS_FiniteSubsetsOfFinite
<1>2. SUFFICES ASSUME Missed # {} PROVE FALSE
    OBVIOUS
<1>3. PICK s \in Missed : \A r \in Missed : <<r, s>> \notin R
    <2>1. Missed \subseteq SUBSET S
        OBVIOUS
    <2> HIDE DEF R, Missed
    <2> QED
        BY <1>1, <1>2, <2>1, WFMin
<1>4. s \in SUBSET S /\ s \notin T
    OBVIOUS
<1>5. PICK x \in s : s \ {x} \notin T
    BY <1>4
<1>6. s \ {x} \in Missed
    BY <1>4, <1>5
<1>7. <<s \ {x}, s>> \in R
    BY <1>4 DEF StrictSubsetOrdering
<1> QED
    BY <1>3, <1>6, <1>7

---------------------------------------------------------------------------
(* The sum is a function of the set *)

Pick(s) == CHOOSE x \in s : TRUE

\* it adds f up over every member of the family D.
Adds(it, f, D) ==
    it = [s \in D |-> IF s = {} THEN 0 ELSE f[Pick(s)] + it[s \ {Pick(s)}]]

PartialSums(f, S) == CHOOSE it : Adds(it, f, SUBSET S)

\* The library's fold is the function that adds up over the subsets.
LEMMA SumIsPartialSum ==
    ASSUME NEW f, NEW S
    PROVE  SumFunctionOnSet(f, S) = PartialSums(f, S)[S]
BY DEF SumFunctionOnSet, FoldFunctionOnSet, MapThenFoldSet, PartialSums, Adds, Pick

\* Such a function exists: it is built up over the subsets of growing size.
LEMMA PartialSumsExist ==
    ASSUME NEW f, NEW S, IsFiniteSet(S)
    PROVE  Adds(PartialSums(f, S), f, SUBSET S)
<1> DEFINE D(n) == {s \in SUBSET S : Cardinality(s) <= n}
           T == {n \in Nat : \E it : Adds(it, f, D(n))}
<1>1. \A s \in SUBSET S : IsFiniteSet(s) /\ Cardinality(s) \in Nat /\ Cardinality(s) <= Cardinality(S)
    BY FS_Subset, FS_CardinalityType
<1>2. 0 \in T
    <2>1. \A s \in D(0) : s = {}
        BY <1>1, FS_EmptySet
    <2>2. Adds([s \in D(0) |-> 0], f, D(0))
        BY <2>1 DEF Adds
    <2> QED
        BY <2>2
<1>3. ASSUME NEW n \in Nat, n \in T
      PROVE  n + 1 \in T
    <2>1. PICK it : Adds(it, f, D(n))
        BY <1>3
    <2> DEFINE more == [s \in D(n + 1) |-> IF s = {} THEN 0 ELSE f[Pick(s)] + it[s \ {Pick(s)}]]
    <2>2. ASSUME NEW s \in D(n + 1), s # {}
          PROVE  s \ {Pick(s)} \in D(n)
        <3>1. Pick(s) \in s
            BY <2>2 DEF Pick
        <3>2. Cardinality(s \ {Pick(s)}) = Cardinality(s) - 1
            BY <1>1, <3>1, FS_RemoveElement
        <3> QED
            BY <1>1, <3>2
    <2>3. ASSUME NEW s \in D(n)
          PROVE  s \in D(n + 1) /\ more[s] = it[s]
        <3>1. s \in D(n + 1)
            BY <1>1
        <3>2. it[s] = IF s = {} THEN 0 ELSE f[Pick(s)] + it[s \ {Pick(s)}]
            BY <2>1 DEF Adds
        <3> QED
            BY <3>1, <3>2
    <2>4. \A s \in D(n + 1) :
              more[s] = IF s = {} THEN 0 ELSE f[Pick(s)] + more[s \ {Pick(s)}]
        BY <2>2, <2>3
    <2>5. Adds(more, f, D(n + 1))
        <3> DEFINE again == [s \in D(n + 1) |-> IF s = {} THEN 0 ELSE f[Pick(s)] + more[s \ {Pick(s)}]]
        <3>1. more = again
            BY <2>4
        <3> QED
            BY <3>1 DEF Adds
    <2>6. \E sums : Adds(sums, f, D(n + 1))
        <3> HIDE DEF more
        <3> QED
            BY <2>5
    <2>7. n + 1 \in Nat
        OBVIOUS
    <2> QED
        BY <2>6, <2>7
<1>4. Cardinality(S) \in T
    <2>1. \A n \in Nat : n \in T => n + 1 \in T
        BY <1>3
    <2> HIDE DEF T, D
    <2>2. \A n \in Nat : n \in T
        BY <1>2, <2>1, NumberInduction
    <2> QED
        BY <2>2, FS_CardinalityType
<1>5. D(Cardinality(S)) = SUBSET S
    BY <1>1
<1>6. \E it : Adds(it, f, SUBSET S)
    BY <1>4, <1>5
<1> QED
    BY <1>6 DEF PartialSums

\* The partial sums over a set are the sums over its subsets.
LEMMA PartialSumIsSum ==
    ASSUME NEW f, NEW S, IsFiniteSet(S), NEW r \in SUBSET S
    PROVE  PartialSums(f, S)[r] = SumFunctionOnSet(f, r)
<1> DEFINE whole == PartialSums(f, S)
           part == PartialSums(f, r)
           T == {s \in SUBSET r : whole[s] = part[s]}
<1>1. IsFiniteSet(r)
    BY FS_Subset
<1>2. Adds(whole, f, SUBSET S) /\ Adds(part, f, SUBSET r)
    BY <1>1, PartialSumsExist
<1>3. ASSUME NEW s \in SUBSET r, \A x \in s : s \ {x} \in T
      PROVE  s \in T
    <2>1. whole[s] = IF s = {} THEN 0 ELSE f[Pick(s)] + whole[s \ {Pick(s)}]
        BY <1>2 DEF Adds
    <2>2. part[s] = IF s = {} THEN 0 ELSE f[Pick(s)] + part[s \ {Pick(s)}]
        BY <1>2 DEF Adds
    <2>3. s # {} => Pick(s) \in s
        BY DEF Pick
    <2>4. s # {} => whole[s \ {Pick(s)}] = part[s \ {Pick(s)}]
        BY <1>3, <2>3
    <2> QED
        BY <2>1, <2>2, <2>4
<1>4. r \in T
    <2>1. \A s \in SUBSET r : (\A x \in s : s \ {x} \in T) => s \in T
        BY <1>3
    <2> HIDE DEF T
    <2> QED
        BY <1>1, <2>1, SubsetInduction
<1> QED
    BY <1>4, SumIsPartialSum

---------------------------------------------------------------------------
(* Sums *)

\* Nothing adds up to nothing.
LEMMA SumEmpty == ASSUME NEW f PROVE SumFunctionOnSet(f, {}) = 0
<1>1. Adds(PartialSums(f, {}), f, SUBSET {})
    BY PartialSumsExist, FS_EmptySet
<1> QED
    BY <1>1, SumIsPartialSum DEF Adds

\* The fold takes one element off.
LEMMA SumPick ==
    ASSUME NEW f, NEW S, IsFiniteSet(S), S # {}
    PROVE  /\ Pick(S) \in S
           /\ SumFunctionOnSet(f, S) = f[Pick(S)] + SumFunctionOnSet(f, S \ {Pick(S)})
<1>1. Adds(PartialSums(f, S), f, SUBSET S)
    BY PartialSumsExist
<1>2. PartialSums(f, S)[S] = f[Pick(S)] + PartialSums(f, S)[S \ {Pick(S)}]
    BY <1>1 DEF Adds
<1>3. PartialSums(f, S)[S \ {Pick(S)}] = SumFunctionOnSet(f, S \ {Pick(S)})
    BY PartialSumIsSum
<1> QED
    BY <1>2, <1>3, SumIsPartialSum DEF Pick

\* A sum of integers is an integer.
LEMMA SumInt ==
    ASSUME NEW f, NEW S, IsFiniteSet(S), \A x \in S : f[x] \in Int
    PROVE  SumFunctionOnSet(f, S) \in Int
<1> DEFINE T == {s \in SUBSET S : SumFunctionOnSet(f, s) \in Int}
<1>1. ASSUME NEW s \in SUBSET S, \A x \in s : s \ {x} \in T
      PROVE  s \in T
    <2>1. CASE s = {}
        BY <2>1, SumEmpty
    <2>2. CASE s # {}
        <3>1. /\ Pick(s) \in s
              /\ SumFunctionOnSet(f, s) = f[Pick(s)] + SumFunctionOnSet(f, s \ {Pick(s)})
            BY <2>2, SumPick, FS_Subset
        <3>2. SumFunctionOnSet(f, s \ {Pick(s)}) \in Int /\ f[Pick(s)] \in Int
            BY <1>1, <3>1
        <3> QED
            BY <3>1, <3>2
    <2> QED
        BY <2>1, <2>2
<1>2. S \in T
    <2>1. \A s \in SUBSET S : (\A x \in s : s \ {x} \in T) => s \in T
        BY <1>1
    <2> HIDE DEF T
    <2> QED
        BY <2>1, SubsetInduction
<1> QED
    BY <1>2

\* Whatever the fold picks first, a sum is any one of its terms plus the rest.
LEMMA SumRemove ==
    ASSUME NEW f, NEW S, IsFiniteSet(S), \A x \in S : f[x] \in Int, NEW x \in S
    PROVE  SumFunctionOnSet(f, S) = f[x] + SumFunctionOnSet(f, S \ {x})
<1> DEFINE Total(s) == SumFunctionOnSet(f, s)
           T == {s \in SUBSET S : \A y \in s : Total(s) = f[y] + Total(s \ {y})}
<1>1. \A s \in SUBSET S : IsFiniteSet(s) /\ Total(s) \in Int
    BY FS_Subset, SumInt
<1>2. ASSUME NEW s \in SUBSET S, \A y \in s : s \ {y} \in T, NEW y \in s
      PROVE  Total(s) = f[y] + Total(s \ {y})
    <2> DEFINE p == Pick(s)
    <2>1. p \in s /\ Total(s) = f[p] + Total(s \ {p})
        BY <1>1, SumPick
    <2>2. CASE p = y
        BY <2>1, <2>2
    <2>3. CASE p # y
        <3>1. Total(s \ {p}) = f[y] + Total((s \ {p}) \ {y})
            BY <1>2, <2>1, <2>3
        <3>2. Total(s \ {y}) = f[p] + Total((s \ {y}) \ {p})
            BY <1>2, <2>1, <2>3
        <3>3. (s \ {p}) \ {y} = (s \ {y}) \ {p}
            OBVIOUS
        <3>4. /\ f[p] \in Int /\ f[y] \in Int
              /\ Total((s \ {p}) \ {y}) \in Int
            BY <1>1, <2>1
        <3>5. Total((s \ {y}) \ {p}) = Total((s \ {p}) \ {y})
            BY <3>3
        <3> HIDE DEF Total, p
        <3> QED
            BY <2>1, <3>1, <3>2, <3>4, <3>5
    <2> QED
        BY <2>2, <2>3
<1>3. S \in T
    <2>1. \A s \in SUBSET S : (\A y \in s : s \ {y} \in T) => s \in T
        BY <1>2
    <2> HIDE DEF T
    <2> QED
        BY <2>1, SubsetInduction
<1> QED
    BY <1>3

\* A sum depends only on the terms it adds.
LEMMA SumSame ==
    ASSUME NEW f, NEW g, NEW S, IsFiniteSet(S), \A x \in S : f[x] = g[x]
    PROVE  SumFunctionOnSet(f, S) = SumFunctionOnSet(g, S)
<1> DEFINE T == {s \in SUBSET S : SumFunctionOnSet(f, s) = SumFunctionOnSet(g, s)}
<1>1. ASSUME NEW s \in SUBSET S, \A x \in s : s \ {x} \in T
      PROVE  s \in T
    <2>1. CASE s = {}
        BY <2>1, SumEmpty
    <2>2. CASE s # {}
        <3>1. /\ Pick(s) \in s
              /\ SumFunctionOnSet(f, s) = f[Pick(s)] + SumFunctionOnSet(f, s \ {Pick(s)})
              /\ SumFunctionOnSet(g, s) = g[Pick(s)] + SumFunctionOnSet(g, s \ {Pick(s)})
            BY <2>2, SumPick, FS_Subset
        <3> QED
            BY <1>1, <3>1
    <2> QED
        BY <2>1, <2>2
<1>2. S \in T
    <2>1. \A s \in SUBSET S : (\A x \in s : s \ {x} \in T) => s \in T
        BY <1>1
    <2> HIDE DEF T
    <2> QED
        BY <2>1, SubsetInduction
<1> QED
    BY <1>2

=============================================================================
