----------------------------- MODULE ScanProofs -----------------------------
(***************************************************************************)
(* Proofs about MarketScan, for any lists, sectors, limits, strategies and *)
(* answers of the agents.                                                  *)
(***************************************************************************)
EXTENDS MarketScanProps, FiniteSetTheorems, SequenceTheorems, TLAPS

---------------------------------------------------------------------------
(* Lists *)

\* q goes through the places I, each once.
Visits(q, I) ==
    /\ q \in [1..Cardinality(I) -> I]
    /\ \A i \in I : \E k \in 1..Cardinality(I) : q[k] = i
    /\ \A k, l \in 1..Cardinality(I) : q[k] = q[l] => k = l

\* The numbers of a set are arranged by falling key, each once.
LEMMA ArrangedVisits ==
    ASSUME NEW I, IsFiniteSet(I), I \subseteq Int, NEW key, \A i \in I : key[i] \in Int
    PROVE  LET q == Arranged(I, key)
           IN  /\ Visits(q, I)
               /\ \A k, l \in 1..Cardinality(I) : k < l =>
                      \/ key[q[k]] > key[q[l]]
                      \/ key[q[k]] = key[q[l]] /\ q[k] < q[l]
<1> DEFINE n == Cardinality(I)
           Pre(j, i) == \/ key[j] > key[i]
                        \/ key[j] = key[i] /\ j <= i
           Upto(i) == {j \in I : Pre(j, i)}
           rank == [i \in I |-> Cardinality(Upto(i))]
           q == [k \in 1..n |-> CHOOSE i \in I : rank[i] = k]
<1>1. \A i, j \in I : Pre(i, i) /\ (Pre(i, j) \/ Pre(j, i)) /\ (Pre(i, j) /\ Pre(j, i) => i = j)
    <2> TAKE i \in I, j \in I
    <2>1. i \in Int /\ j \in Int /\ key[i] \in Int /\ key[j] \in Int
        OBVIOUS
    <2> QED
        BY <2>1
<1>2. ASSUME NEW i \in I, NEW j \in I, NEW k \in I, Pre(i, j), Pre(j, k)
      PROVE  Pre(i, k)
    <2>1. i \in Int /\ j \in Int /\ k \in Int /\ key[i] \in Int /\ key[j] \in Int /\ key[k] \in Int
        OBVIOUS
    <2> QED
        BY <1>2, <2>1
<1>3. q = Arranged(I, key)
    BY DEF Arranged
<1> HIDE DEF Pre
<1>4. n \in Nat /\ IsFiniteSet(1..n) /\ Cardinality(1..n) = n
    BY FS_CardinalityType, FS_Interval
<1>5. ASSUME NEW i \in I
      PROVE  rank[i] \in 1..n
    <2>1. Upto(i) \in SUBSET I /\ i \in Upto(i)
        BY <1>1
    <2>2. IsFiniteSet(Upto(i)) /\ Cardinality(Upto(i)) <= n
        BY <2>1, FS_Subset
    <2>3. Cardinality(Upto(i)) \in Nat /\ Cardinality(Upto(i)) # 0
        BY <2>1, <2>2, FS_CardinalityType, FS_EmptySet
    <2>4. rank[i] = Cardinality(Upto(i))
        OBVIOUS
    <2> HIDE DEF Upto, rank, n
    <2> QED
        BY <1>4, <2>2, <2>3, <2>4
<1>6. ASSUME NEW i \in I, NEW j \in I, i # j, j \in Upto(i)
      PROVE  rank[j] < rank[i]
    <2>1. Upto(j) \subseteq Upto(i) /\ i \notin Upto(j) /\ i \in Upto(i)
        BY <1>6, <1>1, <1>2
    <2>2. IsFiniteSet(Upto(i))
        BY FS_Subset
    <2> HIDE DEF Upto
    <2>3. /\ IsFiniteSet(Upto(j)) /\ Cardinality(Upto(j)) <= Cardinality(Upto(i))
          /\ Cardinality(Upto(j)) # Cardinality(Upto(i))
        BY <2>1, <2>2, FS_Subset
    <2>4. Cardinality(Upto(j)) \in Nat /\ Cardinality(Upto(i)) \in Nat
        BY <2>2, <2>3, FS_CardinalityType
    <2> QED
        BY <2>3, <2>4
<1>7. \A i, j \in I : i # j => j \in Upto(i) \/ i \in Upto(j)
    BY <1>1
<1>8. rank \in Injection(I, 1..n)
    <2>1. \A i \in I : rank[i] \in Int
        BY <1>4, <1>5
    <2>2. rank \in [I -> 1..n]
        BY <1>5
    <2> HIDE DEF Upto, rank
    <2>3. \A i, j \in I : rank[i] = rank[j] => i = j
        BY <1>6, <1>7, <2>1
    <2> QED
        BY <2>2, <2>3 DEF Injection, IsInjective
<1>9. rank \in Surjection(I, 1..n)
    BY <1>4, <1>8, FS_Injection
<1> HIDE DEF n, rank, Upto
<1>10. \A k \in 1..n : q[k] \in I /\ rank[q[k]] = k
    <2>1. \A k \in 1..n : \E i \in I : rank[i] = k
        BY <1>9 DEF Surjection
    <2> QED
        BY <2>1
<1>11. \A i \in I : q[rank[i]] = i
    BY <1>5, <1>8, <1>10 DEF Injection, IsInjective
<1> HIDE DEF q
<1>12. ASSUME NEW k \in 1..n, NEW l \in 1..n, k < l
       PROVE  q[k] # q[l] /\ q[k] \in Upto(q[l])
    <2>1. q[k] # q[l]
        BY <1>10, <1>12
    <2>2. ASSUME q[l] \in Upto(q[k])
          PROVE  FALSE
        <3>1. rank[q[l]] < rank[q[k]]
            BY <1>6, <1>10, <2>1, <2>2
        <3>2. rank[q[l]] = l /\ rank[q[k]] = k /\ k \in Int /\ l \in Int
            BY <1>4, <1>10
        <3> QED
            BY <1>12, <3>1, <3>2
    <2> QED
        BY <1>7, <1>10, <2>1, <2>2
<1>13. Visits(q, I)
    <2>1. q \in [1..n -> I]
        BY <1>10 DEF q
    <2>2. \A i \in I : \E k \in 1..n : q[k] = i
        BY <1>5, <1>11
    <2>3. \A k, l \in 1..n : q[k] = q[l] => k = l
        BY <1>10
    <2> QED
        BY <2>1, <2>2, <2>3 DEF Visits, n
<1>14. ASSUME NEW k \in 1..n, NEW l \in 1..n, k < l
       PROVE  key[q[k]] > key[q[l]] \/ (key[q[k]] = key[q[l]] /\ q[k] < q[l])
    <2>1. q[k] \in I /\ q[l] \in I
        BY <1>10
    <2>2. q[k] # q[l] /\ q[k] \in Upto(q[l])
        BY <1>12, <1>14
    <2>3. Pre(q[k], q[l])
        BY <2>2 DEF Upto
    <2>4. q[k] \in Int /\ q[l] \in Int /\ key[q[k]] \in Int /\ key[q[l]] \in Int
        BY <2>1
    <2> QED
        BY <2>2, <2>3, <2>4 DEF Pre
<1> QED
    BY <1>3, <1>13, <1>14 DEF n

LEMMA Elements ==
    ASSUME NEW S, NEW s \in Seq(S)
    PROVE  Len(s) \in Nat /\ DOMAIN s = 1..Len(s) /\ \A i \in DOMAIN s : s[i] \in S
BY LenProperties, ElementOfSeq

\* The places of a list are a finite set of numbers.
LEMMA Places ==
    ASSUME NEW S, NEW s \in Seq(S), NEW I \in SUBSET DOMAIN s
    PROVE  /\ IsFiniteSet(I) /\ I \subseteq Int
           /\ \A i \in I : s[i] \in S
           /\ Cardinality(DOMAIN s) = Len(s) /\ Cardinality(I) \in 0..Len(s)
<1>1. /\ Len(s) \in Nat /\ DOMAIN s = 1..Len(s)
      /\ \A i \in DOMAIN s : s[i] \in S
    BY LenProperties, ElementOfSeq
<1>2. IsFiniteSet(1..Len(s)) /\ Cardinality(1..Len(s)) = Len(s)
    <2> DEFINE n == Len(s)
    <2>1. n \in Nat
        BY <1>1
    <2> HIDE DEF n
    <2>2. IsFiniteSet(1..n) /\ Cardinality(1..n) = n
        BY <2>1, FS_Interval
    <2> QED
        BY <2>2 DEF n
<1>3. IsFiniteSet(I) /\ Cardinality(I) <= Len(s)
    BY <1>1, <1>2, FS_Subset
<1>4. Cardinality(I) \in Nat
    BY <1>3, FS_CardinalityType
<1>5. I \subseteq Int
    BY <1>1
<1> QED
    BY <1>1, <1>2, <1>3, <1>4, <1>5

\* A list read through the places I.
LEMMA ReadThrough ==
    ASSUME NEW S, NEW s \in Seq(S), NEW I \in SUBSET DOMAIN s, NEW q, Visits(q, I)
    PROVE  LET t == [k \in DOMAIN q |-> s[q[k]]]
           IN  /\ t \in Seq(S)
               /\ Len(t) = Cardinality(I)
               /\ DOMAIN t = 1..Cardinality(I)
               /\ Cardinality(I) \in 0..Len(s)
               /\ \A k \in DOMAIN t : q[k] \in I /\ t[k] = s[q[k]]
               /\ \A i \in I : \E k \in DOMAIN t : q[k] = i
               /\ IsInjective(s) => IsInjective(t)
<1> DEFINE t == [k \in DOMAIN q |-> s[q[k]]]
<1>1. /\ Len(s) \in Nat /\ DOMAIN s = 1..Len(s)
      /\ \A i \in DOMAIN s : s[i] \in S
    BY LenProperties, ElementOfSeq
<1>2. Cardinality(I) \in 0..Len(s)
    BY Places
<1>3. DOMAIN q = 1..Cardinality(I) /\ \A k \in 1..Cardinality(I) : q[k] \in I
    BY DEF Visits
<1>4. t \in [1..Cardinality(I) -> S]
    BY <1>1, <1>3
<1>5. Cardinality(I) \in Nat /\ t \in Seq(S)
    BY <1>2, <1>4
<1>6. Len(t) = Cardinality(I) /\ DOMAIN t = 1..Cardinality(I)
    BY <1>4, <1>5, LenProperties
<1>7. \A k \in DOMAIN t : q[k] \in I /\ t[k] = s[q[k]]
    BY <1>3, <1>6
<1>8. \A i \in I : \E k \in DOMAIN t : q[k] = i
    BY <1>6 DEF Visits
<1>9. ASSUME IsInjective(s), NEW k \in DOMAIN t, NEW l \in DOMAIN t, t[k] = t[l]
      PROVE  k = l
    <2>1. q[k] = q[l]
        BY <1>7, <1>9 DEF IsInjective
    <2> QED
        BY <1>6, <2>1 DEF Visits
<1> HIDE DEF t
<1>10. IsInjective(s) => IsInjective(t)
    BY <1>9 DEF IsInjective
<1> QED
    BY <1>2, <1>5, <1>6, <1>7, <1>8, <1>10 DEF t

\* In order, the numbers of a set grow.
LEMMA InOrderGrows ==
    ASSUME NEW I, IsFiniteSet(I), I \subseteq Int
    PROVE  /\ Visits(InOrder(I), I)
           /\ \A k, l \in 1..Cardinality(I) : k < l => InOrder(I)[k] < InOrder(I)[l]
<1> DEFINE key == [i \in I |-> 0]
<1>1. \A i \in I : key[i] = 0
    OBVIOUS
<1> HIDE DEF key
<1>2. InOrder(I) = Arranged(I, key)
    BY DEF InOrder, key
<1>3. \A i \in I : key[i] \in Int
    BY <1>1
<1>4. /\ Visits(InOrder(I), I)
      /\ \A k, l \in 1..Cardinality(I) : k < l =>
             \/ key[InOrder(I)[k]] > key[InOrder(I)[l]]
             \/ key[InOrder(I)[k]] = key[InOrder(I)[l]] /\ InOrder(I)[k] < InOrder(I)[l]
    <2> DEFINE q == Arranged(I, key)
    <2>1. /\ Visits(q, I)
          /\ \A k, l \in 1..Cardinality(I) : k < l =>
                 \/ key[q[k]] > key[q[l]]
                 \/ key[q[k]] = key[q[l]] /\ q[k] < q[l]
        BY <1>3, ArrangedVisits
    <2> HIDE DEF q
    <2>2. q = InOrder(I)
        BY <1>2 DEF q
    <2> QED
        BY <2>1, <2>2
<1>5. \A k \in 1..Cardinality(I) : key[InOrder(I)[k]] = 0
    BY <1>1, <1>4 DEF Visits
<1> QED
    BY <1>4, <1>5

\* At picks the elements at the places, in their order.
LEMMA AtPicks ==
    ASSUME NEW S, NEW s \in Seq(S), NEW I \in SUBSET DOMAIN s
    PROVE  /\ At(s, I) \in Seq(S)
           /\ Len(At(s, I)) = Cardinality(I)
           /\ DOMAIN At(s, I) = 1..Cardinality(I)
           /\ Cardinality(I) \in 0..Len(s)
           /\ \A k \in DOMAIN At(s, I) : \E i \in I : At(s, I)[k] = s[i]
           /\ \A i \in I : \E k \in DOMAIN At(s, I) : At(s, I)[k] = s[i]
           /\ IsInjective(s) => IsInjective(At(s, I))
<1>1. IsFiniteSet(I) /\ I \subseteq Int
    BY Places
<1>2. Visits(InOrder(I), I)
    BY <1>1, InOrderGrows
<1> DEFINE q == InOrder(I)
<1>3. At(s, I) = [k \in DOMAIN q |-> s[q[k]]]
    BY DEF At
<1> HIDE DEF q
<1>4. Visits(q, I)
    BY <1>2 DEF q
<1> QED
    BY <1>3, <1>4, ReadThrough

\* A sorted list holds the same elements, with falling keys.
LEMMA DescendingSorts ==
    ASSUME NEW S, NEW s \in Seq(S), NEW key, \A i \in DOMAIN s : key[i] \in Int
    PROVE  LET t == Descending(s, key)
           IN  /\ t \in Seq(S)
               /\ Len(t) = Len(s) /\ DOMAIN t = DOMAIN s
               /\ \A i \in DOMAIN s : \E k \in DOMAIN s : t[k] = s[i]
               /\ \A k \in DOMAIN s : \E i \in DOMAIN s : t[k] = s[i]
               /\ IsInjective(s) => IsInjective(t)
               /\ \A k, l \in DOMAIN s : k < l =>
                      \E i, j \in DOMAIN s : t[k] = s[i] /\ t[l] = s[j] /\ key[i] >= key[j]
<1> DEFINE I == DOMAIN s
           q == Arranged(I, key)
           t == Descending(s, key)
<1>1. IsFiniteSet(I) /\ I \subseteq Int /\ Cardinality(I) = Len(s) /\ I = 1..Len(s)
    BY Places, LenProperties
<1>2. t = [k \in DOMAIN q |-> s[q[k]]]
    BY DEF Descending
<1>3. /\ Visits(q, I)
      /\ \A k, l \in 1..Cardinality(I) : k < l =>
             \/ key[q[k]] > key[q[l]]
             \/ key[q[k]] = key[q[l]] /\ q[k] < q[l]
    BY <1>1, ArrangedVisits
<1> HIDE DEF q, t
<1>4. /\ t \in Seq(S)
      /\ Len(t) = Cardinality(I)
      /\ DOMAIN t = 1..Cardinality(I)
      /\ \A k \in DOMAIN t : q[k] \in I /\ t[k] = s[q[k]]
      /\ \A i \in I : \E k \in DOMAIN t : q[k] = i
      /\ IsInjective(s) => IsInjective(t)
    BY <1>2, <1>3, ReadThrough
<1>5. ASSUME NEW k \in I, NEW l \in I, k < l
      PROVE  \E i, j \in I : t[k] = s[i] /\ t[l] = s[j] /\ key[i] >= key[j]
    <2>1. q[k] \in I /\ t[k] = s[q[k]] /\ q[l] \in I /\ t[l] = s[q[l]]
        BY <1>1, <1>4
    <2>2. key[q[k]] \in Int /\ key[q[l]] \in Int
        BY <2>1
    <2>3. key[q[k]] >= key[q[l]]
        BY <1>1, <1>3, <1>5, <2>2
    <2> QED
        BY <2>1, <2>3
<1>6. /\ \A i \in I : \E k \in I : t[k] = s[i]
      /\ \A k \in I : \E i \in I : t[k] = s[i]
    <2>1. DOMAIN t = I /\ \A k \in I : q[k] \in I /\ t[k] = s[q[k]]
        BY <1>1, <1>4
    <2> HIDE DEF I
    <2>2. \A i \in I : \E k \in I : q[k] = i
        BY <1>4, <2>1
    <2>3. \A i \in I : \E k \in I : t[k] = s[i]
        BY <2>1, <2>2
    <2>4. \A k \in I : \E i \in I : t[k] = s[i]
        BY <2>1
    <2> QED
        BY <2>3, <2>4
<1>7. Len(t) = Len(s) /\ DOMAIN t = I
    BY <1>1, <1>4
<1>8. t \in Seq(S) /\ (IsInjective(s) => IsInjective(t))
    BY <1>4
<1>9. /\ t \in Seq(S)
      /\ Len(t) = Len(s) /\ DOMAIN t = I
      /\ \A i \in I : \E k \in I : t[k] = s[i]
      /\ \A k \in I : \E i \in I : t[k] = s[i]
      /\ IsInjective(s) => IsInjective(t)
      /\ \A k, l \in I : k < l =>
             \E i, j \in I : t[k] = s[i] /\ t[l] = s[j] /\ key[i] >= key[j]
    <2> HIDE DEF I
    <2>1. \A k, l \in I : k < l =>
             \E i, j \in I : t[k] = s[i] /\ t[l] = s[j] /\ key[i] >= key[j]
        BY <1>5
    <2> QED
        BY <1>6, <1>7, <1>8, <2>1
<1> QED
    BY <1>9 DEF t

LEMMA NothingAt ==
    ASSUME NEW S, NEW s \in Seq(S)
    PROVE  At(s, {}) = <<>>
<1>1. At(s, {}) \in Seq(S) /\ Len(At(s, {})) = 0
    BY AtPicks, FS_EmptySet
<1> QED
    BY <1>1, EmptySeq

LEMMA PrefixCuts ==
    ASSUME NEW S, NEW s \in Seq(S), NEW n \in Nat
    PROVE  /\ Prefix(s, n) \in Seq(S)
           /\ Len(Prefix(s, n)) <= n
           /\ Len(Prefix(s, n)) = IF n < Len(s) THEN n ELSE Len(s)
           /\ DOMAIN Prefix(s, n) = 1..Len(Prefix(s, n))
           /\ \A i \in DOMAIN Prefix(s, n) : i \in DOMAIN s /\ Prefix(s, n)[i] = s[i]
<1> DEFINE m == IF n < Len(s) THEN n ELSE Len(s)
<1>1. /\ Len(s) \in Nat /\ DOMAIN s = 1..Len(s)
      /\ \A i \in DOMAIN s : s[i] \in S
    BY LenProperties, ElementOfSeq
<1>2. m \in Nat /\ m <= n /\ m <= Len(s)
    BY <1>1
<1>3. Prefix(s, n) = SubSeq(s, 1, m)
    BY DEF Prefix
<1> HIDE DEF m
<1>4. \A i \in 1..m : s[i] \in S
    BY <1>1, <1>2
<1>5. /\ SubSeq(s, 1, m) \in Seq(S)
      /\ Len(SubSeq(s, 1, m)) = m
      /\ \A i \in 1..m : SubSeq(s, 1, m)[i] = s[i]
    <2>1. /\ SubSeq(s, 1, m) \in Seq(S)
          /\ Len(SubSeq(s, 1, m)) = IF 1 <= m THEN m - 1 + 1 ELSE 0
          /\ \A i \in 1..(m - 1 + 1) : SubSeq(s, 1, m)[i] = s[1 + i - 1]
        BY <1>2, <1>4, SubSeqProperties
    <2>2. m - 1 + 1 = m /\ \A i \in 1..m : 1 + i - 1 = i
        BY <1>2
    <2> QED
        BY <1>2, <2>1, <2>2
<1>6. DOMAIN SubSeq(s, 1, m) = 1..m
    BY <1>5, LenProperties
<1>7. \A i \in 1..m : i \in DOMAIN s
    BY <1>1, <1>2
<1> QED
    BY <1>2, <1>3, <1>5, <1>6, <1>7 DEF m

---------------------------------------------------------------------------
(* Scores *)

Tradable == CoreSymbols \cup CandidateSymbols

\* What a strategy finds, and what the Orchestrator makes of it.
Signals == [symbol: Tradable, direction: Directions, sa: Nat, mc: Nat, ls: Nat]
Scored == [symbol: Tradable, direction: Directions, confidence: Int, mc: Int, ls: Int,
           rp: Int, final: Int]

LEMMA ClampInt ==
    ASSUME NEW x \in Int, NEW low \in Int, NEW high \in Int
    PROVE  Clamp(x, low, high) \in Int
BY DEF Clamp

LEMMA ScoreSingleScores ==
    ASSUME NEW signal \in Signals, NEW mac, NEW strength \in Nat, NEW rp \in Nat, NEW reg
    PROVE  /\ ScoreSingle(signal, mac, strength, rp, reg) \in Scored
           /\ ScoreSingle(signal, mac, strength, rp, reg).rp = rp
<1>1. /\ signal.sa \in Int /\ signal.mc \in Int /\ signal.ls \in Int
      /\ signal.symbol \in Tradable /\ signal.direction \in Directions
    BY DEF Signals
<1>2. MarketConfirmation(signal, mac) \in Int
    <2> DEFINE bonus == IF DirectionAligned(signal.direction, mac.market) THEN 10 ELSE -15
               penalty == IF mac.riskOff THEN -20 ELSE 0
    <2>1. bonus \in Int /\ penalty \in Int
        OBVIOUS
    <2> DEFINE whole == signal.mc + bonus + penalty
    <2>2. MarketConfirmation(signal, mac) = Clamp(whole, 0, 100)
        BY DEF MarketConfirmation
    <2> HIDE DEF bonus, penalty
    <2>3. whole \in Int
        BY <1>1, <2>1
    <2> HIDE DEF whole
    <2> QED
        BY <2>2, <2>3, ClampInt
<1>3. ComputeConfidence(signal, mac, strength, rp) \in Int
    <2> DEFINE whole == 25 * strength + 30 * signal.sa + 25 * MarketConfirmation(signal, mac)
                        + 10 * signal.ls - 20 * rp
    <2>1. whole \in Int
        BY <1>1, <1>2
    <2>2. ComputeConfidence(signal, mac, strength, rp) = Clamp(whole, 0, 10000)
        BY DEF ComputeConfidence
    <2> HIDE DEF whole
    <2> QED
        BY <2>1, <2>2, ClampInt
<1>4. \A c \in Int : Guarded(c, signal.direction, reg) \in Int
    BY ClampInt DEF Guarded, MacroGuard
<1> DEFINE confidence == Guarded(ComputeConfidence(signal, mac, strength, rp), signal.direction, reg)
           mc == MarketConfirmation(signal, mac)
           final == (4 * confidence + 300 * signal.sa + 200 * mc + 100 * strength + 5) \div 10
<1>5. confidence \in Int /\ mc \in Int
    BY <1>2, <1>3, <1>4
<1> HIDE DEF confidence, mc
<1>6. final \in Int
    BY <1>1, <1>5
<1>7. ScoreSingle(signal, mac, strength, rp, reg) =
          [symbol |-> signal.symbol, direction |-> signal.direction,
           confidence |-> confidence, mc |-> mc, ls |-> signal.ls, rp |-> rp, final |-> final]
    BY DEF ScoreSingle, confidence, mc
<1> HIDE DEF final
<1> QED
    BY <1>1, <1>5, <1>6, <1>7 DEF Scored

\* Sorting by the final score keeps the signals.
LEMMA FinalScoreSorts ==
    ASSUME NEW s \in Seq(Scored)
    PROVE  LET t == ByFinalScore(s)
           IN  /\ t \in Seq(Scored)
               /\ Len(t) = Len(s) /\ DOMAIN t = DOMAIN s
               /\ \A i \in DOMAIN s : \E k \in DOMAIN s : t[k] = s[i]
               /\ \A k \in DOMAIN s : \E i \in DOMAIN s : t[k] = s[i]
               /\ IsInjective(s) => IsInjective(t)
               /\ \A k, l \in DOMAIN s : k < l => t[k].final >= t[l].final
<1> DEFINE key == [i \in DOMAIN s |-> s[i].final]
           t == Descending(s, key)
<1>1. \A i \in DOMAIN s : s[i] \in Scored /\ key[i] = s[i].final
    BY LenProperties, ElementOfSeq
<1>2. \A i \in DOMAIN s : key[i] \in Int
    BY <1>1 DEF Scored
<1> HIDE DEF key
<1>3. /\ t \in Seq(Scored)
      /\ Len(t) = Len(s) /\ DOMAIN t = DOMAIN s
      /\ \A i \in DOMAIN s : \E k \in DOMAIN s : t[k] = s[i]
      /\ \A k \in DOMAIN s : \E i \in DOMAIN s : t[k] = s[i]
      /\ IsInjective(s) => IsInjective(t)
      /\ \A k, l \in DOMAIN s : k < l =>
             \E i, j \in DOMAIN s : t[k] = s[i] /\ t[l] = s[j] /\ key[i] >= key[j]
    BY <1>2, DescendingSorts
<1> HIDE DEF t
<1>4. ASSUME NEW k \in DOMAIN s, NEW l \in DOMAIN s, k < l
      PROVE  t[k].final >= t[l].final
    <2>1. \A x, y \in DOMAIN s : x < y =>
             \E i, j \in DOMAIN s : t[x] = s[i] /\ t[y] = s[j] /\ key[i] >= key[j]
        BY <1>3
    <2>2. k \in Int /\ l \in Int
        BY LenProperties
    <2>3. PICK i, j \in DOMAIN s : t[k] = s[i] /\ t[l] = s[j] /\ key[i] >= key[j]
        BY <1>4, <2>1, <2>2
    <2>4. key[i] = t[k].final /\ key[j] = t[l].final
        BY <1>1, <2>3
    <2>5. key[i] \in Int /\ key[j] \in Int
        BY <1>2
    <2> QED
        BY <2>3, <2>4, <2>5
<1> QED
    BY <1>3, <1>4 DEF ByFinalScore, key, t

\* What passes the filters carries the penalty of the Sentinel, 40 at most.
LEMMA PassingSignals ==
    ASSUME signals \in Seq(Signals), ns \in Nat, risk.rp \in Nat
    PROVE  /\ Passing \in Seq(Scored)
           /\ risk.rp > 40 => Passing = <<>>
<1> DEFINE single == [i \in DOMAIN signals |-> ScoreSingle(signals[i], macro, ns, risk.rp, regime)]
           scored == ByFinalScore(single)
           I == {i \in DOMAIN scored : ApplyFilters(scored[i])}
<1>1. Passing = At(scored, I)
    BY DEF Passing, ScoreSignals
<1>2. Len(signals) \in Nat /\ DOMAIN signals = 1..Len(signals)
    BY LenProperties
<1>3. \A i \in DOMAIN signals : single[i] \in Scored /\ single[i].rp = risk.rp
    BY ElementOfSeq, <1>2, ScoreSingleScores
<1>4. single \in Seq(Scored) /\ DOMAIN single = DOMAIN signals
    <2>1. single \in [1..Len(signals) -> Scored]
        BY <1>2, <1>3
    <2> QED
        BY <1>2, <2>1
<1> HIDE DEF single
<1>5. /\ scored \in Seq(Scored) /\ DOMAIN scored = DOMAIN single
      /\ \A k \in DOMAIN single : \E i \in DOMAIN single : scored[k] = single[i]
    BY <1>4, FinalScoreSorts
<1> HIDE DEF scored
<1>6. Passing \in Seq(Scored)
    BY <1>1, <1>5, AtPicks
<1>7. ASSUME risk.rp > 40
      PROVE  Passing = <<>>
    <2>1. \A k \in DOMAIN scored : scored[k].rp = risk.rp
        BY <1>3, <1>4, <1>5
    <2>2. I = {}
        BY <1>7, <2>1 DEF ApplyFilters
    <2> QED
        BY <1>1, <1>5, <2>2, NothingAt
<1> QED
    BY <1>6, <1>7

---------------------------------------------------------------------------
(* Consensus *)

\* Each signal goes one way.
LEMMA EachGoesOneWay ==
    ASSUME NEW g \in Seq(Scored)
    PROVE  /\ \A d \in Directions :
                  /\ Going(g, d) \in Seq(Scored)
                  /\ \A k \in DOMAIN Going(g, d) :
                        /\ Going(g, d)[k].direction = d
                        /\ \E i \in DOMAIN g : Going(g, d)[k] = g[i]
                  /\ \A i \in DOMAIN g : g[i].direction = d => Len(Going(g, d)) > 0
           /\ Len(Going(g, "BUY")) + Len(Going(g, "SELL")) = Len(g)
<1> DEFINE I(d) == {i \in DOMAIN g : g[i].direction = d}
<1>1. \A d \in Directions : IsFiniteSet(I(d)) /\ I(d) \in SUBSET DOMAIN g /\ Cardinality(I(d)) \in Nat
    BY Places, FS_CardinalityType
<1>2. \A d \in Directions : Going(g, d) = At(g, I(d))
    BY DEF Going
<1>3. ASSUME NEW d \in Directions
      PROVE  /\ Going(g, d) \in Seq(Scored)
             /\ Len(Going(g, d)) = Cardinality(I(d))
             /\ \A k \in DOMAIN Going(g, d) : \E i \in I(d) : Going(g, d)[k] = g[i]
    <2> DEFINE P == I(d)
    <2>1. P \in SUBSET DOMAIN g /\ Going(g, d) = At(g, P)
        BY <1>2
    <2> HIDE DEF P
    <2>2. /\ At(g, P) \in Seq(Scored)
          /\ Len(At(g, P)) = Cardinality(P)
          /\ \A k \in DOMAIN At(g, P) : \E i \in P : At(g, P)[k] = g[i]
        BY <2>1, AtPicks
    <2> QED
        BY <2>1, <2>2 DEF P
<1>4. ASSUME NEW d \in Directions, NEW k \in DOMAIN Going(g, d)
      PROVE  /\ Going(g, d)[k].direction = d
             /\ \E i \in DOMAIN g : Going(g, d)[k] = g[i]
    BY <1>3
<1>5. ASSUME NEW d \in Directions, NEW i \in DOMAIN g, g[i].direction = d
      PROVE  Len(Going(g, d)) > 0
    <2>1. I(d) # {}
        BY <1>5
    <2> HIDE DEF I
    <2> QED
        BY <1>1, <1>3, <2>1, FS_EmptySet
<1>6. Cardinality(I("BUY")) + Cardinality(I("SELL")) = Len(g)
    <2>1. I("BUY") \cap I("SELL") = {}
        OBVIOUS
    <2>2. I("BUY") \cup I("SELL") = DOMAIN g
        <3>1. \A i \in DOMAIN g : g[i].direction \in Directions
            <4>1. \A i \in DOMAIN g : g[i] \in Scored
                BY Elements
            <4> QED
                BY <4>1 DEF Scored
        <3> QED
            BY <3>1 DEF Directions
    <2>3. Cardinality(DOMAIN g) = Len(g)
        BY Places
    <2> HIDE DEF I
    <2>4. /\ IsFiniteSet(I("BUY")) /\ Cardinality(I("BUY")) \in Nat
          /\ IsFiniteSet(I("SELL")) /\ Cardinality(I("SELL")) \in Nat
        BY <1>1 DEF Directions
    <2>5. Cardinality(I("BUY") \cup I("SELL")) =
              Cardinality(I("BUY")) + Cardinality(I("SELL")) - Cardinality(I("BUY") \cap I("SELL"))
        BY <2>4, FS_Union
    <2>6. Cardinality(I("BUY") \cap I("SELL")) = 0
        BY <2>1, FS_EmptySet
    <2> QED
        BY <2>2, <2>3, <2>4, <2>5, <2>6
<1> HIDE DEF I
<1>7. Len(Going(g, "BUY")) + Len(Going(g, "SELL")) = Len(g)
    BY <1>3, <1>6 DEF Directions
<1> QED
    BY <1>3, <1>4, <1>5, <1>7

\* The majority is more than half.
LEMMA MajorityIsMost ==
    ASSUME NEW g \in Seq(Scored), Majority(g) # <<>>
    PROVE  \E d \in Directions : Majority(g) = Going(g, d) /\ 2 * Len(Going(g, d)) > Len(g)
<1> DEFINE b == Going(g, "BUY")
           s == Going(g, "SELL")
<1>1. b \in Seq(Scored) /\ s \in Seq(Scored) /\ Len(b) + Len(s) = Len(g)
    BY EachGoesOneWay DEF Directions
<1>2. Majority(g) = IF Len(b) > Len(s) THEN b ELSE IF Len(s) > Len(b) THEN s ELSE <<>>
    BY DEF Majority
<1> HIDE DEF b, s
<1>3. Len(b) \in Nat /\ Len(s) \in Nat
    BY <1>1, LenProperties
<1>4. \/ Majority(g) = b /\ 2 * Len(b) > Len(g)
      \/ Majority(g) = s /\ 2 * Len(s) > Len(g)
    BY <1>1, <1>2, <1>3
<1> QED
    BY <1>4 DEF b, s, Directions

\* What the consensus raises is a signal of the group, but for the final score.
LEMMA BoostedIsOne ==
    ASSUME NEW g \in Seq(Scored), g # <<>>
    PROVE  /\ Boosted(g) \in Scored
           /\ \E i \in DOMAIN g : /\ Boosted(g).symbol = g[i].symbol
                                  /\ Boosted(g).direction = g[i].direction
<1> DEFINE t == ByFinalScore(g)
           best == t[1]
           k == Len(g)
<1>1. k \in Nat /\ k > 0 /\ DOMAIN g = 1..k
    BY EmptySeq, LenProperties
<1>2. PICK i \in DOMAIN g : best = g[i]
    <2>1. \A l \in DOMAIN g : \E i \in DOMAIN g : t[l] = g[i]
        BY FinalScoreSorts
    <2>2. 1 \in DOMAIN g
        BY <1>1
    <2> HIDE DEF t
    <2> QED
        BY <2>1, <2>2
<1>3. best \in Scored
    BY <1>2, Elements
<1>4. Boosted(g) = IF k < 2 THEN best
                   ELSE [best EXCEPT !.final = Clamp((@ * (100 + 5 * k) + 50) \div 100, 0, 10000)]
    BY DEF Boosted
<1> HIDE DEF best, k
<1>5. ASSUME NEW f \in Int
      PROVE  Clamp((f * (100 + 5 * k) + 50) \div 100, 0, 10000) \in Int
    <2> DEFINE raised == (f * (100 + 5 * k) + 50) \div 100
    <2>1. raised \in Int
        <3> DEFINE factor == 100 + 5 * k
        <3>1. factor \in Int
            BY <1>1
        <3> HIDE DEF factor
        <3>2. f * factor + 50 \in Int
            BY <3>1
        <3> QED
            BY <3>2 DEF factor
    <2> HIDE DEF raised
    <2>2. Clamp(raised, 0, 10000) \in Int
        BY <2>1, ClampInt
    <2> QED
        BY <2>2 DEF raised
<1>6. Boosted(g) \in Scored /\ Boosted(g).symbol = best.symbol /\ Boosted(g).direction = best.direction
    <2>1. CASE k < 2
        BY <1>3, <1>4, <2>1
    <2>2. CASE ~(k < 2)
        <3> DEFINE f == Clamp((best.final * (100 + 5 * k) + 50) \div 100, 0, 10000)
        <3>1. f \in Int
            BY <1>3, <1>5 DEF Scored
        <3>2. Boosted(g) = [best EXCEPT !.final = f]
            BY <1>4, <2>2
        <3> HIDE DEF f
        <3> QED
            BY <1>3, <3>1, <3>2 DEF Scored
    <2> QED
        BY <2>1, <2>2
<1> QED
    BY <1>2, <1>6

\* One signal of a symbol: most of its signals go the way of it.
LEMMA ConsensusIsMost ==
    ASSUME NEW g \in Seq(Scored), g # <<>>, NEW x, \A i \in DOMAIN g : g[i].symbol = x,
           Consensus(g) # <<>>
    PROVE  LET c == Consensus(g)[1]
           IN  c \in Scored /\ c.symbol = x /\ 2 * Len(Going(g, c.direction)) > Len(g)
<1> DEFINE agreed == Majority(g)
           key == [i \in DOMAIN agreed |-> -agreed[i].confidence]
           leastFirst == Descending(agreed, key)
           c == Consensus(g)[1]
<1>1. Len(g) \in Nat /\ Len(g) > 0 /\ DOMAIN g = 1..Len(g)
    BY EmptySeq, LenProperties
<1>2. CASE Len(g) = 1
    <2>1. Consensus(g) = g
        BY <1>2 DEF Consensus
    <2>2. g[1] \in Scored /\ g[1].symbol = x /\ 1 \in DOMAIN g
        BY <1>1, Places
    <2>3. g[1].direction \in Directions
        BY <2>2 DEF Scored
    <2> DEFINE d == g[1].direction
    <2>4. Going(g, d) \in Seq(Scored) /\ Len(Going(g, d)) > 0
        BY <2>2, <2>3, EachGoesOneWay
    <2> HIDE DEF d
    <2>5. 2 * Len(Going(g, d)) > Len(g)
        BY <1>2, <2>4, LenProperties
    <2> QED
        BY <2>1, <2>2, <2>5 DEF d
<1>3. CASE Len(g) > 1
    <2>1. /\ agreed # <<>>
          /\ \/ Consensus(g) = <<leastFirst[1]>>
             \/ Consensus(g) = <<Boosted(agreed)>>
        <3> HIDE DEF leastFirst
        <3>1. agreed = <<>> => Consensus(g) = <<>>
            BY <1>3 DEF Consensus
        <3>2. agreed # <<>> => \/ Consensus(g) = <<leastFirst[1]>>
                               \/ Consensus(g) = <<Boosted(agreed)>>
            BY <1>3 DEF Consensus, leastFirst
        <3> QED
            BY <3>1, <3>2
    <2>2. PICK d \in Directions : agreed = Going(g, d) /\ 2 * Len(Going(g, d)) > Len(g)
        BY <2>1, MajorityIsMost
    <2>3. /\ agreed \in Seq(Scored)
          /\ \A i \in DOMAIN agreed : agreed[i].direction = d /\ agreed[i].symbol = x
        BY <2>2, EachGoesOneWay
    <2>4. Len(agreed) \in Nat /\ Len(agreed) > 0 /\ DOMAIN agreed = 1..Len(agreed)
        BY <2>1, <2>3, EmptySeq, LenProperties
    <2>5. c = leastFirst[1] \/ c = Boosted(agreed)
        BY <2>1
    <2> HIDE DEF agreed, c
    <2>6. \A i \in DOMAIN agreed : agreed[i] \in Scored /\ key[i] \in Int
        <3>1. \A i \in DOMAIN agreed : agreed[i] \in Scored
            BY <2>3, Elements
        <3>2. \A i \in DOMAIN agreed : agreed[i].confidence \in Int
            BY <3>1 DEF Scored
        <3> QED
            BY <3>1, <3>2
    <2>7. \E i \in DOMAIN agreed : leastFirst[1] = agreed[i]
        <3> HIDE DEF key
        <3>1. \A k \in DOMAIN agreed : \E i \in DOMAIN agreed : leastFirst[k] = agreed[i]
            BY <2>3, <2>6, DescendingSorts
        <3> QED
            BY <2>4, <3>1
    <2>8. /\ Boosted(agreed) \in Scored
          /\ Boosted(agreed).symbol = x /\ Boosted(agreed).direction = d
        BY <2>1, <2>3, BoostedIsOne
    <2>9. c \in Scored /\ c.symbol = x /\ c.direction = d
        BY <2>3, <2>5, <2>6, <2>7, <2>8
    <2> QED
        BY <2>2, <2>9 DEF c
<1> QED
    BY <1>1, <1>2, <1>3

\* The signals of one symbol.
LEMMA SignalsOfSymbol ==
    ASSUME NEW s \in Seq(Scored), NEW i \in DOMAIN s
    PROVE  LET g == OfSymbol(s, s[i].symbol)
           IN  /\ g \in Seq(Scored) /\ g # <<>>
               /\ \A k \in DOMAIN g : g[k].symbol = s[i].symbol
<1> DEFINE I == {j \in DOMAIN s : s[j].symbol = s[i].symbol}
           g == At(s, I)
<1>1. I \in SUBSET DOMAIN s /\ i \in I /\ \A j \in I : s[j].symbol = s[i].symbol
    OBVIOUS
<1> HIDE DEF I
<1>2. /\ g \in Seq(Scored) /\ DOMAIN g = 1..Cardinality(I)
      /\ \A k \in DOMAIN g : \E j \in I : g[k] = s[j]
      /\ \E k \in DOMAIN g : g[k] = s[i]
    BY <1>1, AtPicks
<1> HIDE DEF g
<1>3. g # <<>>
    <2>1. DOMAIN g = 1..Len(g) /\ DOMAIN g # {}
        BY <1>2, LenProperties
    <2>2. Len(g) # 0
        BY <2>1
    <2> QED
        BY <2>2, EmptySeq
<1>4. \A k \in DOMAIN g : g[k].symbol = s[i].symbol
    BY <1>1, <1>2
<1> QED
    BY <1>2, <1>3, <1>4 DEF OfSymbol, g, I

\* The consensus leaves at most one signal of a symbol.
LEMMA ConsensusOfAll ==
    ASSUME NEW s \in Seq(Scored)
    PROVE  LET a == ApplyConsensus(s)
           IN  /\ a \in Seq(Scored)
               /\ IsInjective(a)
               /\ \A k \in DOMAIN a : \E i \in DOMAIN s : a[k].symbol = s[i].symbol
               /\ \A k \in DOMAIN a :
                      2 * Len(Going(OfSymbol(s, a[k].symbol), a[k].direction))
                          > Len(OfSymbol(s, a[k].symbol))
<1> DEFINE Agreed(i) == Consensus(OfSymbol(s, s[i].symbol))
           First(i) == \A j \in 1..(i - 1) : s[j].symbol # s[i].symbol
           I == {i \in DOMAIN s : First(i) /\ Agreed(i) # <<>>}
           q == InOrder(I)
           a == ApplyConsensus(s)
<1>1. IsFiniteSet(I) /\ Cardinality(I) \in Nat /\ I \subseteq Int
    <2> DEFINE P == I
    <2>1. P \in SUBSET DOMAIN s
        OBVIOUS
    <2> HIDE DEF P
    <2>2. IsFiniteSet(P) /\ P \subseteq Int
        BY <2>1, Places
    <2> QED
        BY <2>2, FS_CardinalityType DEF P
<1>2. a = [k \in DOMAIN q |-> Agreed(q[k])[1]]
    BY DEF ApplyConsensus
<1>3. ASSUME NEW i \in I
      PROVE  /\ Agreed(i)[1] \in Scored /\ Agreed(i)[1].symbol = s[i].symbol
             /\ 2 * Len(Going(OfSymbol(s, s[i].symbol), Agreed(i)[1].direction))
                    > Len(OfSymbol(s, s[i].symbol))
    <2> DEFINE g == OfSymbol(s, s[i].symbol)
    <2>1. i \in DOMAIN s /\ Consensus(g) # <<>>
        OBVIOUS
    <2>2. /\ g \in Seq(Scored) /\ g # <<>>
          /\ \A k \in DOMAIN g : g[k].symbol = s[i].symbol
        BY <2>1, SignalsOfSymbol
    <2> HIDE DEF g
    <2>3. /\ Consensus(g)[1] \in Scored /\ Consensus(g)[1].symbol = s[i].symbol
          /\ 2 * Len(Going(g, Consensus(g)[1].direction)) > Len(g)
        BY <2>1, <2>2, ConsensusIsMost
    <2> QED
        BY <2>3 DEF g
<1>4. ASSUME NEW i \in I, NEW j \in I, s[i].symbol = s[j].symbol
      PROVE  i = j
    <2>1. i \in Int /\ j \in Int /\ i \in 1..Len(s) /\ j \in 1..Len(s) /\ First(i) /\ First(j)
        BY <1>1, Elements
    <2>2. ~(i < j) /\ ~(j < i)
        BY <1>4, <2>1
    <2> QED
        BY <2>1, <2>2
<1> HIDE DEF I, Agreed
<1>5. Visits(q, I)
    BY <1>1, InOrderGrows
<1> HIDE DEF q, a
<1>6. /\ DOMAIN q = 1..Cardinality(I) /\ DOMAIN a = DOMAIN q
      /\ \A k \in DOMAIN a : q[k] \in I /\ a[k] = Agreed(q[k])[1]
    BY <1>2, <1>5 DEF Visits
<1>7. a \in Seq(Scored)
    <2>1. \A k \in DOMAIN a : a[k] \in Scored
        BY <1>3, <1>6
    <2>2. a \in [1..Cardinality(I) -> Scored]
        BY <1>2, <1>6, <2>1
    <2> QED
        BY <1>1, <2>2
<1>8. ASSUME NEW k \in DOMAIN a, NEW l \in DOMAIN a, a[k] = a[l]
      PROVE  k = l
    <2>1. s[q[k]].symbol = s[q[l]].symbol
        BY <1>3, <1>6, <1>8
    <2>2. q[k] = q[l]
        BY <1>4, <1>6, <2>1
    <2> QED
        BY <1>5, <1>6, <2>2 DEF Visits
<1>9. IsInjective(a)
    BY <1>8 DEF IsInjective
<1>10. ASSUME NEW k \in DOMAIN a
       PROVE  2 * Len(Going(OfSymbol(s, a[k].symbol), a[k].direction))
                  > Len(OfSymbol(s, a[k].symbol))
    <2>1. q[k] \in I /\ a[k] = Agreed(q[k])[1] /\ a[k].symbol = s[q[k]].symbol
        BY <1>3, <1>6
    <2>2. 2 * Len(Going(OfSymbol(s, s[q[k]].symbol), a[k].direction))
              > Len(OfSymbol(s, s[q[k]].symbol))
        BY <1>3, <2>1
    <2> QED
        BY <2>1, <2>2
<1>11. \A k \in DOMAIN a : \E i \in DOMAIN s : a[k].symbol = s[i].symbol
    BY <1>3, <1>6 DEF I
<1> QED
    BY <1>7, <1>9, <1>10, <1>11 DEF a

---------------------------------------------------------------------------
(* What is cut *)

\* The elements of a list without repetitions are as many as their places.
LEMMA Distinct ==
    ASSUME NEW S, NEW s \in Seq(S), IsInjective(s), NEW I \in SUBSET DOMAIN s
    PROVE  Cardinality({s[i] : i \in I}) = Cardinality(I) /\ IsFiniteSet({s[i] : i \in I})
<1> DEFINE T == {s[i] : i \in I}
           f == [i \in I |-> s[i]]
<1>1. IsFiniteSet(I)
    BY Places
<1>2. f \in Surjection(I, T)
    BY DEF Surjection
<1>3. f \in Injection(I, T)
    BY DEF Injection, IsInjective
<1>4. ExistsBijection(I, T)
    BY <1>2, <1>3 DEF ExistsBijection, Bijection
<1> QED
    BY <1>1, <1>4, FS_Bijection

\* The least and the greatest number of a set.
LEMMA Extremes ==
    ASSUME NEW I, IsFiniteSet(I), I \subseteq Int, I # {}
    PROVE  /\ \E x \in I : \A y \in I : x <= y
           /\ \E x \in I : \A y \in I : y <= x
<1> DEFINE q == InOrder(I)
           n == Cardinality(I)
<1>1. n \in Nat /\ n > 0
    BY FS_CardinalityType, FS_EmptySet
<1>2. Visits(q, I) /\ \A k, l \in 1..n : k < l => q[k] < q[l]
    BY InOrderGrows
<1> HIDE DEF q, n
<1>3. /\ \A k \in 1..n : q[k] \in I /\ q[k] \in Int
      /\ \A i \in I : \E k \in 1..n : q[k] = i
    BY <1>2 DEF Visits, n
<1>4. 1 \in 1..n /\ n \in 1..n
    BY <1>1
<1>5. \A k \in 1..n : q[1] <= q[k] /\ q[k] <= q[n]
    <2> TAKE k \in 1..n
    <2>1. q[1] \in Int /\ q[k] \in Int /\ q[n] \in Int
        BY <1>3, <1>4
    <2>2. k = 1 \/ q[1] < q[k]
        BY <1>1, <1>2, <1>4
    <2>3. k = n \/ q[k] < q[n]
        BY <1>1, <1>2, <1>4
    <2> QED
        BY <2>1, <2>2, <2>3
<1>6. \A y \in I : q[1] <= y /\ y <= q[n]
    BY <1>3, <1>5
<1> QED
    BY <1>3, <1>4, <1>6

\* The places before i of the sector of i, and the places Capped keeps.
Earlier(sector, i) == {j \in 1..(i - 1) : sector[j] = sector[i]}
Kept(sector, cap, n) == {i \in 1..n : Cardinality(Earlier(sector, i)) < cap}

LEMMA EarlierFinite ==
    ASSUME NEW sector, NEW i \in Nat
    PROVE  IsFiniteSet(Earlier(sector, i)) /\ Cardinality(Earlier(sector, i)) \in Nat
<1>1. IsFiniteSet(1..(i - 1))
    BY FS_Interval
<1>2. Earlier(sector, i) \in SUBSET (1..(i - 1))
    BY DEF Earlier
<1> QED
    BY <1>1, <1>2, FS_Subset, FS_CardinalityType

\* A sector keeps cap places at most; exactly so many, all before i, if i is cut.
LEMMA SectorCap ==
    ASSUME NEW sector, NEW cap \in Nat, NEW n \in Nat, NEW m \in 1..n
    PROVE  LET K == {i \in Kept(sector, cap, n) : sector[i] = sector[m]}
           IN  /\ Cardinality(K) <= cap
               /\ m \notin Kept(sector, cap, n) =>
                      Cardinality(K) = cap /\ \A i \in K : i < m
<1> DEFINE E(i) == Earlier(sector, i)
           K == {i \in Kept(sector, cap, n) : sector[i] = sector[m]}
<1>1. K \in SUBSET (1..n) /\ K \subseteq Int /\ IsFiniteSet(1..n)
    BY FS_Interval DEF Kept
<1>2. IsFiniteSet(K) /\ Cardinality(K) \in Nat
    BY <1>1, FS_Subset, FS_CardinalityType
<1>3. \A i \in 1..n : IsFiniteSet(E(i)) /\ Cardinality(E(i)) \in Nat
    BY EarlierFinite
<1>4. \A i \in 1..n : i \in K <=> sector[i] = sector[m] /\ Cardinality(E(i)) < cap
    BY DEF Kept
<1>5. \A i, j \in 1..n : j \in E(i) <=> j < i /\ sector[j] = sector[i]
    BY DEF Earlier
<1>6. \A i \in 1..n : E(i) \subseteq 1..n
    BY DEF Earlier
<1>7. m \in Kept(sector, cap, n) <=> Cardinality(E(m)) < cap
    BY DEF Kept
<1> HIDE DEF E, K
<1>8. Cardinality(K) <= cap
    <2>1. CASE K = {}
        BY <1>2, <2>1, FS_EmptySet
    <2>2. CASE K # {}
        <3>1. PICK x \in K : \A y \in K : y <= x
            BY <1>1, <1>2, <2>2, Extremes
        <3>2. x \in 1..n
            BY <1>1
        <3>3. K \ {x} \subseteq E(x)
            <4> SUFFICES ASSUME NEW y \in K, y # x PROVE y \in E(x)
                OBVIOUS
            <4>1. y \in 1..n /\ y < x
                BY <1>1, <3>1, <3>2
            <4> QED
                BY <1>4, <1>5, <3>2, <4>1
        <3>4. Cardinality(K \ {x}) <= Cardinality(E(x)) /\ Cardinality(E(x)) < cap
            BY <1>3, <1>4, <3>2, <3>3, FS_Subset
        <3>5. Cardinality(K \ {x}) = Cardinality(K) - 1
            BY <1>2, FS_RemoveElement
        <3> QED
            BY <1>2, <1>3, <3>2, <3>4, <3>5
    <2> QED
        BY <2>1, <2>2
<1>9. ASSUME m \notin Kept(sector, cap, n), NEW i \in K
      PROVE  i < m
    <2>1. i \in 1..n /\ sector[i] = sector[m] /\ Cardinality(E(i)) < cap
        BY <1>1, <1>4
    <2>2. ASSUME i >= m
          PROVE  FALSE
        <3>1. E(m) \subseteq E(i)
            <4> SUFFICES ASSUME NEW y \in E(m) PROVE y \in E(i)
                OBVIOUS
            <4>1. y \in 1..n /\ y < m /\ sector[y] = sector[m]
                BY <1>5, <1>6
            <4> QED
                BY <1>5, <2>1, <2>2, <4>1
        <3>2. Cardinality(E(m)) <= Cardinality(E(i))
            BY <1>3, <2>1, <3>1, FS_Subset
        <3>3. Cardinality(E(m)) \in Nat /\ Cardinality(E(i)) \in Nat
            BY <1>3, <2>1
        <3> QED
            BY <1>7, <1>9, <2>1, <3>2, <3>3
    <2> QED
        BY <2>1, <2>2
<1>10. ASSUME m \notin Kept(sector, cap, n), Cardinality(K) < cap
       PROVE  FALSE
    <2> DEFINE L == {j \in 1..m : sector[j] = sector[m] /\ j \notin K}
    <2>1. L \in SUBSET (1..n) /\ L \subseteq Int /\ m \in L
        BY <1>4, <1>7, <1>10
    <2>2. IsFiniteSet(L)
        BY <1>1, <2>1, FS_Subset
    <2>3. PICK j \in L : \A y \in L : j <= y
        BY <2>1, <2>2, Extremes
    <2>4. j \in 1..n /\ j <= m /\ sector[j] = sector[m] /\ j \notin K
        BY <2>1
    <2>5. E(j) \subseteq K
        <3> SUFFICES ASSUME NEW y \in E(j), y \notin K PROVE FALSE
            OBVIOUS
        <3>1. y \in 1..n /\ y < j /\ sector[y] = sector[m]
            BY <1>5, <1>6, <2>4
        <3>2. y \in L
            BY <2>4, <3>1
        <3> QED
            BY <2>3, <2>4, <3>1, <3>2
    <2> HIDE DEF L
    <2>6. Cardinality(E(j)) <= Cardinality(K)
        BY <1>2, <2>5, FS_Subset
    <2>7. Cardinality(E(j)) < cap
        BY <1>2, <1>3, <1>10, <2>4, <2>6
    <2> QED
        BY <1>4, <2>4, <2>7
<1>11. m \notin Kept(sector, cap, n) => Cardinality(K) = cap /\ \A i \in K : i < m
    BY <1>2, <1>8, <1>9, <1>10
<1> QED
    BY <1>8, <1>11 DEF K

\* The signals queued of those agreed on: distinct, at most MaxOutput.  One that
\* is left out has better ones queued instead, in all or of its sector.
LEMMA CutForBetter ==
    ASSUME NEW s \in Seq(Scored)
    PROVE  LET a == ApplyConsensus(s)
               Q == Queued(Finalize(s))
           IN  /\ Finalize(s) \in Seq(Scored) /\ Len(Finalize(s)) <= MaxOutput
               /\ \A x \in Q : \E i \in DOMAIN a : x = a[i]
               /\ \A i \in DOMAIN a :
                     \/ a[i] \in Q
                     \/ Cardinality({x \in Q : x.final >= a[i].final}) = MaxOutput
                     \/ Cardinality({x \in {y \in Q : y.final >= a[i].final} :
                            MappedSector(x) = MappedSector(a[i])}) = MaxPerSector
<1> DEFINE a == ApplyConsensus(s)
           b == ByFinalScore(a)
           sector == [i \in DOMAIN b |-> MappedSector(b[i])]
           I == {i \in DOMAIN b :
                    Cardinality({j \in 1..(i - 1) : sector[j] = sector[i]}) < MaxPerSector}
           c == At(b, I)
           d == ByFinalScore(c)
           e == Prefix(d, MaxOutput)
           Q == Queued(e)
<1>1. e = Finalize(s)
    BY DEF Finalize, SectorDedup, FirstOfSectors, Capped
<1>2. MaxPerSector \in Nat /\ MaxOutput \in Nat
    BY ScanAssumption
<1>3. a \in Seq(Scored) /\ IsInjective(a)
    BY ConsensusOfAll
<1> HIDE DEF a
<1>4. /\ b \in Seq(Scored) /\ IsInjective(b) /\ DOMAIN b = DOMAIN a
      /\ \A i \in DOMAIN a : \E k \in DOMAIN b : b[k] = a[i]
      /\ \A k \in DOMAIN b : \E i \in DOMAIN a : b[k] = a[i]
      /\ \A k, l \in DOMAIN b : k < l => b[k].final >= b[l].final
    <2>1. /\ b \in Seq(Scored) /\ IsInjective(b) /\ DOMAIN b = DOMAIN a
          /\ \A i \in DOMAIN a : \E k \in DOMAIN a : b[k] = a[i]
          /\ \A k \in DOMAIN a : \E i \in DOMAIN a : b[k] = a[i]
          /\ \A k, l \in DOMAIN a : k < l => b[k].final >= b[l].final
        BY <1>3, FinalScoreSorts
    <2> HIDE DEF b
    <2> QED
        BY <2>1
<1> HIDE DEF b
<1>5. I = Kept(sector, MaxPerSector, Len(b)) /\ DOMAIN b = 1..Len(b) /\ Len(b) \in Nat
    BY <1>4, Elements DEF Kept, Earlier
<1>6. \A i \in DOMAIN b : b[i] \in Scored /\ b[i].final \in Int /\ sector[i] = MappedSector(b[i])
    <2>1. \A i \in DOMAIN b : b[i] \in Scored
        BY <1>4, Elements
    <2> QED
        BY <2>1 DEF Scored
<1>7. I \in SUBSET DOMAIN b
    OBVIOUS
<1> HIDE DEF I, sector
<1>8. /\ c \in Seq(Scored) /\ IsInjective(c)
      /\ \A k \in DOMAIN c : \E i \in I : c[k] = b[i]
      /\ \A i \in I : \E k \in DOMAIN c : c[k] = b[i]
    BY <1>4, <1>7, AtPicks
<1> HIDE DEF c
<1>9. /\ d \in Seq(Scored) /\ IsInjective(d) /\ DOMAIN d = DOMAIN c
      /\ \A i \in DOMAIN c : \E k \in DOMAIN d : d[k] = c[i]
      /\ \A k \in DOMAIN d : \E i \in DOMAIN c : d[k] = c[i]
      /\ \A k, l \in DOMAIN d : k < l => d[k].final >= d[l].final
    <2>1. /\ d \in Seq(Scored) /\ IsInjective(d) /\ DOMAIN d = DOMAIN c
          /\ \A i \in DOMAIN c : \E k \in DOMAIN c : d[k] = c[i]
          /\ \A k \in DOMAIN c : \E i \in DOMAIN c : d[k] = c[i]
          /\ \A k, l \in DOMAIN c : k < l => d[k].final >= d[l].final
        BY <1>8, FinalScoreSorts
    <2> HIDE DEF d
    <2> QED
        BY <2>1
<1> HIDE DEF d
<1>10. DOMAIN d = 1..Len(d) /\ Len(d) \in Nat
    BY <1>9, Elements
<1>11. /\ e \in Seq(Scored) /\ Len(e) <= MaxOutput
       /\ Len(e) = IF MaxOutput < Len(d) THEN MaxOutput ELSE Len(d)
       /\ DOMAIN e = 1..Len(e)
       /\ \A i \in DOMAIN e : i \in DOMAIN d /\ e[i] = d[i]
    BY <1>2, <1>9, PrefixCuts
<1> HIDE DEF e
<1>12. IsInjective(e)
    BY <1>9, <1>11 DEF IsInjective
<1>13. Cardinality(Q) = Len(e)
    <2>1. Cardinality({e[i] : i \in DOMAIN e}) = Cardinality(DOMAIN e)
        BY <1>11, <1>12, Distinct
    <2>2. Cardinality(DOMAIN e) = Len(e)
        BY <1>11, Places
    <2> QED
        BY <2>1, <2>2 DEF Queued
<1>14. \A x \in Q : \E p \in DOMAIN d : x = d[p] /\ p \in DOMAIN e
    BY <1>11 DEF Queued
<1>15. ASSUME NEW x \in Q
       PROVE  \E i \in I : x = b[i]
    <2>1. PICK p \in DOMAIN d : x = d[p]
        BY <1>14
    <2>2. PICK k \in DOMAIN c : d[p] = c[k]
        BY <1>9
    <2>3. PICK i \in I : c[k] = b[i]
        BY <1>8
    <2> QED
        BY <2>1, <2>2, <2>3
<1>16. ASSUME NEW i \in I
       PROVE  \/ b[i] \in Q
              \/ Cardinality(Q) = MaxOutput /\ \A x \in Q : x.final >= b[i].final
    <2>1. PICK p \in DOMAIN d : d[p] = b[i]
        <3>1. PICK k \in DOMAIN c : c[k] = b[i]
            BY <1>8
        <3>2. PICK p \in DOMAIN d : d[p] = c[k]
            BY <1>9
        <3> QED
            BY <3>1, <3>2
    <2>2. CASE p \in DOMAIN e
        BY <1>11, <2>1, <2>2 DEF Queued
    <2>3. CASE p \notin DOMAIN e
        <3>1. p \in Int /\ p > Len(e) /\ Len(e) = MaxOutput
            <4>1. p \in 1..Len(d) /\ p \notin 1..Len(e)
                BY <1>10, <1>11, <2>3
            <4>2. Len(e) = IF MaxOutput < Len(d) THEN MaxOutput ELSE Len(d)
                BY <1>11
            <4>3. Len(e) # Len(d)
                BY <4>1
            <4>4. Len(e) = MaxOutput /\ Len(e) \in Nat
                BY <1>2, <4>2, <4>3
            <4>5. p > Len(e)
                BY <1>10, <4>1, <4>4
            <4> QED
                BY <4>1, <4>4, <4>5
        <3>2. \A r \in DOMAIN e : r \in DOMAIN d /\ r < p
            BY <1>2, <1>11, <3>1
        <3>3. \A x \in Q : x.final >= b[i].final
            BY <1>9, <1>14, <2>1, <3>2
        <3> QED
            BY <1>13, <3>1, <3>3
    <2> QED
        BY <2>2, <2>3
<1>17. ASSUME NEW m \in DOMAIN b
       PROVE  \/ b[m] \in Q
              \/ Cardinality({x \in Q : x.final >= b[m].final}) = MaxOutput
              \/ Cardinality({x \in {y \in Q : y.final >= b[m].final} :
                     MappedSector(x) = MappedSector(b[m])}) = MaxPerSector
    <2> DEFINE K == {i \in I : sector[i] = sector[m]}
    <2>1. ASSUME NEW i \in I, b[i] \notin Q, b[i].final >= b[m].final
          PROVE  Cardinality({x \in Q : x.final >= b[m].final}) = MaxOutput
        <3>1. Cardinality(Q) = MaxOutput /\ \A x \in Q : x.final >= b[i].final
            BY <1>16, <2>1
        <3>2. \A x \in Q : x.final \in Int
            BY <1>6, <1>7, <1>15
        <3>3. b[i].final \in Int /\ b[m].final \in Int
            BY <1>6, <1>7
        <3> HIDE DEF Q
        <3>4. \A x \in Q : x.final >= b[m].final
            BY <2>1, <3>1, <3>2, <3>3
        <3>5. {x \in Q : x.final >= b[m].final} = Q
            BY <3>4
        <3> QED
            BY <3>1, <3>5
    <2>2. CASE m \in I
        <3>1. b[m].final >= b[m].final
            BY <1>6
        <3> QED
            BY <2>1, <2>2, <3>1
    <2>3. CASE m \notin I
        <3>1. Cardinality(K) = MaxPerSector /\ \A i \in K : i < m
            BY <1>2, <1>5, <2>3, SectorCap
        <3>2. K \in SUBSET DOMAIN b /\ \A i \in K : i \in I /\ b[i].final >= b[m].final
            BY <1>4, <1>7, <3>1
        <3>3. CASE \E i \in K : b[i] \notin Q
            BY <2>1, <3>2, <3>3
        <3>4. CASE \A i \in K : b[i] \in Q
            <4>1. {x \in {y \in Q : y.final >= b[m].final} : MappedSector(x) = MappedSector(b[m])}
                      = {b[i] : i \in K}
                <5>1. ASSUME NEW x \in Q, MappedSector(x) = MappedSector(b[m])
                      PROVE  \E i \in K : x = b[i]
                    <6>1. PICK i \in I : x = b[i]
                        BY <1>15
                    <6>2. sector[i] = sector[m]
                        BY <1>6, <1>7, <5>1, <6>1
                    <6> QED
                        BY <6>1, <6>2
                <5>2. ASSUME NEW i \in K
                      PROVE  /\ b[i] \in Q /\ b[i].final >= b[m].final
                             /\ MappedSector(b[i]) = MappedSector(b[m])
                    BY <1>6, <3>2, <3>4, <5>2
                <5> HIDE DEF Q, K
                <5> QED
                    BY <5>1, <5>2
            <4>2. Cardinality({b[i] : i \in K}) = MaxPerSector
                <5>1. K \in SUBSET DOMAIN b
                    BY <3>2
                <5> HIDE DEF K
                <5>2. Cardinality({b[i] : i \in K}) = Cardinality(K)
                    <6>1. b \in Seq(Scored) /\ IsInjective(b)
                        BY <1>4
                    <6> QED
                        BY <5>1, <6>1, Distinct
                <5> QED
                    BY <3>1, <5>2
            <4> QED
                BY <4>1, <4>2
        <3> QED
            BY <3>3, <3>4
    <2> QED
        BY <2>2, <2>3
<1>18. \A x \in Q : \E i \in DOMAIN a : x = a[i]
    BY <1>4, <1>7, <1>15
<1> HIDE DEF Q
<1>19. \A i \in DOMAIN a :
           \/ a[i] \in Q
           \/ Cardinality({x \in Q : x.final >= a[i].final}) = MaxOutput
           \/ Cardinality({x \in {y \in Q : y.final >= a[i].final} :
                  MappedSector(x) = MappedSector(a[i])}) = MaxPerSector
    <2> TAKE i \in DOMAIN a
    <2>1. PICK m \in DOMAIN b : b[m] = a[i]
        BY <1>4
    <2> QED
        BY <1>17, <2>1
<1> QED
    BY <1>1, <1>11, <1>18, <1>19 DEF Q, a

LEMMA NothingToQueue == Finalize(<<>>) = <<>>
<1> SUFFICES ASSUME NEW s \in Seq(Scored), s = <<>> PROVE Finalize(s) = <<>>
    BY EmptySeq
<1> DEFINE a == ApplyConsensus(s)
           e == Finalize(s)
<1>1. \A k \in DOMAIN a : \E i \in DOMAIN s : a[k].symbol = s[i].symbol
    BY ConsensusOfAll
<1>2. DOMAIN s = {}
    BY EmptySeq, LenProperties
<1>3. e \in Seq(Scored) /\ \A x \in Queued(e) : \E i \in DOMAIN a : x = a[i]
    BY CutForBetter
<1> HIDE DEF a, e
<1>4. DOMAIN a = {}
    BY <1>1, <1>2
<1>5. DOMAIN e = {}
    BY <1>3, <1>4 DEF Queued
<1>6. Len(e) = 0
    BY <1>3, <1>5, LenProperties
<1> QED
    BY <1>3, <1>6, EmptySeq DEF e

---------------------------------------------------------------------------
(* The universe *)

LEMMA ListsOfSymbols ==
    /\ Core \in Seq(CoreSymbols) /\ Candidates \in Seq(CandidateSymbols)
    /\ IsInjective(Candidates)
BY ScanAssumption

LEMMA Limits ==
    /\ DynamicSize \in Nat /\ DynamicCap \in Nat /\ MaxOutput \in Nat /\ MaxDay \in Nat
    /\ StrategyCount \in Nat
BY ScanAssumption, MarketScanAssumption

\* The candidates chosen: distinct, none of the watchlist, DynamicSize at most.
LEMMA Universe ==
    ASSUME NEW tokens, NEW setup, \A x \in CandidateSymbols : setup[x] \in Nat, NEW reg
    PROVE  LET u == SelectDynamicUniverse(tokens, setup, reg)
           IN  /\ u \in Seq(CandidateSymbols)
               /\ IsInjective(u) /\ Len(u) <= DynamicSize
               /\ \A i \in DOMAIN u : u[i] \in CandidateSymbols \ CoreSymbols
<1> DEFINE I == {i \in DOMAIN Candidates : Candidates[i] \notin CoreSymbols /\ Candidates[i] \in tokens}
           eligible == At(Candidates, I)
           key == [i \in DOMAIN eligible |-> ScoreSymbol(eligible[i], setup[eligible[i]], reg)]
           sorted == Descending(eligible, key)
           sector == [i \in DOMAIN sorted |-> CandidateSector[sorted[i]]]
           J == {i \in DOMAIN sorted :
                    Cardinality({j \in 1..(i - 1) : sector[j] = sector[i]}) < DynamicCap}
           capped == At(sorted, J)
           u == Prefix(capped, DynamicSize)
<1>1. u = SelectDynamicUniverse(tokens, setup, reg)
    BY DEF SelectDynamicUniverse, Capped
<1>2. I \in SUBSET DOMAIN Candidates /\ \A i \in I : Candidates[i] \notin CoreSymbols
    OBVIOUS
<1> HIDE DEF I
<1>3. /\ eligible \in Seq(CandidateSymbols) /\ IsInjective(eligible)
      /\ \A k \in DOMAIN eligible : \E i \in I : eligible[k] = Candidates[i]
    BY <1>2, ListsOfSymbols, AtPicks
<1> HIDE DEF eligible
<1>4. \A i \in DOMAIN eligible : eligible[i] \in CandidateSymbols
    BY <1>3, Elements
<1>5. \A i \in DOMAIN eligible : key[i] \in Int
    <2> SUFFICES ASSUME NEW i \in DOMAIN eligible PROVE key[i] \in Int
        OBVIOUS
    <2> DEFINE n == setup[eligible[i]]
    <2>1. n \in Int
        BY <1>4
    <2>2. key[i] = ScoreSymbol(eligible[i], n, reg)
        OBVIOUS
    <2> HIDE DEF n, key
    <2> DEFINE more == n + 8
    <2>3. more \in Int
        BY <2>1
    <2>4. key[i] = Clamp(more, 0, 100) \/ key[i] = n
        BY <2>2 DEF ScoreSymbol
    <2> HIDE DEF more
    <2>5. Clamp(more, 0, 100) \in Int
        BY <2>3, ClampInt
    <2> QED
        BY <2>1, <2>4, <2>5
<1> HIDE DEF key
<1>6. /\ sorted \in Seq(CandidateSymbols) /\ IsInjective(sorted)
      /\ \A k \in DOMAIN sorted : \E i \in DOMAIN eligible : sorted[k] = eligible[i]
    <2>1. /\ sorted \in Seq(CandidateSymbols) /\ IsInjective(sorted) /\ DOMAIN sorted = DOMAIN eligible
          /\ \A k \in DOMAIN eligible : \E i \in DOMAIN eligible : sorted[k] = eligible[i]
        BY <1>3, <1>5, DescendingSorts
    <2> HIDE DEF sorted
    <2> QED
        BY <2>1
<1> HIDE DEF sorted
<1>7. J \in SUBSET DOMAIN sorted
    OBVIOUS
<1> HIDE DEF J
<1>8. /\ capped \in Seq(CandidateSymbols) /\ IsInjective(capped)
      /\ \A k \in DOMAIN capped : \E i \in J : capped[k] = sorted[i]
    BY <1>6, <1>7, AtPicks
<1> HIDE DEF capped
<1>9. /\ u \in Seq(CandidateSymbols) /\ Len(u) <= DynamicSize
      /\ \A i \in DOMAIN u : i \in DOMAIN capped /\ u[i] = capped[i]
    BY <1>8, Limits, PrefixCuts
<1> HIDE DEF u
<1>10. IsInjective(u)
    BY <1>8, <1>9 DEF IsInjective
<1>11. ASSUME NEW k \in DOMAIN u
       PROVE  u[k] \in CandidateSymbols \ CoreSymbols
    <2>1. PICK j \in J : u[k] = sorted[j]
        BY <1>8, <1>9
    <2>2. PICK i \in DOMAIN eligible : sorted[j] = eligible[i]
        BY <1>6, <1>7
    <2>3. PICK l \in I : eligible[i] = Candidates[l]
        BY <1>3
    <2> QED
        BY <1>2, <1>4, <2>1, <2>2, <2>3
<1> QED
    BY <1>1, <1>9, <1>10, <1>11

LEMMA TimesMonotone ==
    ASSUME NEW a \in Nat, NEW b \in Nat, NEW c \in Nat, b <= c
    PROVE  a * b <= a * c /\ a * b \in Nat
OBVIOUS

\* The positions of a scan are bounded.
LEMMA ScanEnds ==
    ASSUME dynamic \in Seq(CandidateSymbols), Len(dynamic) <= DynamicSize
    PROVE  /\ StrategyCount * Len(Symbols) <= StrategyCount * (Len(Core) + DynamicSize)
           /\ StrategyCount * Len(Symbols) \in Nat
           /\ StrategyCount * (Len(Core) + DynamicSize) \in Nat
<1> DEFINE I == {i \in DOMAIN dynamic : dynamic[i] \notin CoreSymbols}
           more == At(dynamic, I)
<1>1. I \in SUBSET DOMAIN dynamic
    OBVIOUS
<1> HIDE DEF I
<1>2. more \in Seq(CandidateSymbols) /\ Len(more) = Cardinality(I) /\ Cardinality(I) \in 0..Len(dynamic)
    BY <1>1, AtPicks
<1>3. Symbols = Core \o more
    BY DEF Symbols, Combined, I
<1> HIDE DEF more
<1>4. Core \in Seq(Tradable) /\ more \in Seq(Tradable)
    <2>1. \A i \in DOMAIN Core : Core[i] \in Tradable
        BY DEF Tradable, CoreSymbols
    <2>2. \A i \in DOMAIN more : more[i] \in Tradable
        BY <1>2, Elements DEF Tradable
    <2>3. Core \in [1..Len(Core) -> Tradable] /\ Len(Core) \in Nat
        BY <2>1, ListsOfSymbols, LenProperties
    <2>4. more \in [1..Len(more) -> Tradable] /\ Len(more) \in Nat
        BY <1>2, <2>2, LenProperties
    <2> QED
        BY <2>3, <2>4
<1>5. Len(Symbols) = Len(Core) + Len(more)
    BY <1>3, <1>4, ConcatProperties
<1>6. Len(Core) \in Nat /\ Len(dynamic) \in Nat
    BY ListsOfSymbols, LenProperties
<1> DEFINE most == Len(Core) + DynamicSize
<1>7. Len(Symbols) \in Nat /\ most \in Nat /\ Len(Symbols) <= most
    BY <1>2, <1>5, <1>6, Limits
<1> HIDE DEF most
<1>8. StrategyCount * Len(Symbols) <= StrategyCount * most
      /\ StrategyCount * Len(Symbols) \in Nat /\ StrategyCount * most \in Nat
    BY <1>7, Limits, TimesMonotone
<1> QED
    BY <1>8 DEF most

---------------------------------------------------------------------------
(* The cycle *)

\* The signals are what strategies find; the Sentinel is asked before scoring.
ScanInv ==
    /\ TypeOK
    /\ dynamic \in Seq(CandidateSymbols)
    /\ signals \in Seq(Signals)
    /\ stage = "score" => risk \in Risks

LEMMA AnswersAreNumbers ==
    /\ Strengths \subseteq Nat /\ 0 \in Strengths
    /\ \A r \in Risks : r.rp \in Nat /\ (r.how # "answered" => r.rp > 40)
<1>1. News \subseteq Nat /\ Penalties \subseteq Nat
    BY MarketScanAssumption, Zenon
<1>2. \A how \in Answers : StrengthsOf(how) \subseteq Nat
    BY <1>1 DEF Answers, StrengthsOf
<1>3. StrengthsOf("failed") = {0} /\ "failed" \in Answers
    BY DEF StrengthsOf, Answers
<1>4. \A how \in Answers : \A p \in PenaltiesOf(how) : p \in Nat /\ (how # "answered" => p > 40)
    BY <1>1 DEF Answers, PenaltiesOf
<1>5. ASSUME NEW r \in Risks
      PROVE  r.rp \in Nat /\ (r.how # "answered" => r.rp > 40)
    <2>1. PICK how \in Answers : r \in [how: {how}, rp: PenaltiesOf(how)]
        BY DEF Risks
    <2> QED
        BY <1>4, <2>1
<1> QED
    BY <1>2, <1>3, <1>5 DEF Strengths

LEMMA FoundSignals ==
    ASSUME NEW x \in Tradable
    PROVE  Found(x) \subseteq Signals
<1>1. \A i \in Inputs : /\ i.direction \in Directions
                        /\ i.sa \in Nat /\ i.mc \in Nat /\ i.ls \in Nat
    <2>1. Inputs \subseteq [direction: Directions, sa: Nat, mc: Nat, ls: Nat]
        BY MarketScanAssumption, Zenon
    <2> QED
        BY <2>1
<1>2. Volume[x] \in Nat
    <2>1. Volume \in [CoreSymbols \cup CandidateSymbols -> Nat]
        BY MarketScanAssumption, Zenon
    <2> QED
        BY <2>1 DEF Tradable
<1> QED
    BY <1>1, <1>2 DEF Found, Signals

LEMMA ScoredInput ==
    ASSUME ScanInv
    PROVE  ns \in Nat /\ risk.rp \in Nat /\ signals \in Seq(Signals)
<1>1. ns \in Strengths /\ (risk \in Risks \/ risk = NoRisk)
    BY DEF ScanInv, TypeOK
<1> QED
    BY <1>1, AnswersAreNumbers DEF ScanInv, NoRisk

LEMMA ScanInit == Init => ScanInv
<1> SUFFICES ASSUME Init PROVE ScanInv
    OBVIOUS
<1> USE DEF Init
<1>1. /\ dynamic \in Seq(CandidateSymbols) /\ signals \in Seq(Signals)
      /\ Len(dynamic) = 0 /\ Len(signals) = 0 /\ Len(queued) = 0
      /\ DOMAIN dynamic = {}
    BY EmptySeq
<1>2. IsInjective(dynamic) /\ \A i \in DOMAIN dynamic : dynamic[i] \in CandidateSymbols \ CoreSymbols
    BY <1>1 DEF IsInjective
<1>3. ns \in Strengths
    BY AnswersAreNumbers
<1>4. position \in 0..(StrategyCount * (Len(Core) + DynamicSize))
    BY <1>1, Limits, ScanEnds
<1>5. day \in 0..MaxDay /\ cached \in -1..day
    BY Limits
<1>6. Len(dynamic) <= DynamicSize /\ Len(signals) <= position /\ Len(queued) <= MaxOutput
    BY <1>1, Limits
<1>7. /\ {loaded, due, session} \subseteq BOOLEAN
      /\ regime \in {NoRegime} \cup Regimes
      /\ stage \in {"idle", "research", "scan", "score"}
      /\ macro \in Macros \cup {NoMacro}
      /\ risk \in Risks \cup {NoRisk}
    OBVIOUS
<1>8. stage # "score"
    OBVIOUS
<1> QED
    BY <1>1, <1>2, <1>3, <1>4, <1>5, <1>6, <1>7, <1>8, Zenon DEF ScanInv, TypeOK

LEMMA ScanStep ==
    ASSUME ScanInv, [Next]_vars
    PROVE  ScanInv'
<1> DEFINE most == StrategyCount * (Len(Core) + DynamicSize)
<1>1. /\ day \in 0..MaxDay /\ cached \in -1..day
      /\ loaded \in BOOLEAN /\ due \in BOOLEAN /\ session \in BOOLEAN
      /\ regime \in {NoRegime} \cup Regimes
      /\ IsInjective(dynamic) /\ Len(dynamic) <= DynamicSize
      /\ \A i \in DOMAIN dynamic : dynamic[i] \in CandidateSymbols \ CoreSymbols
      /\ stage \in {"idle", "research", "scan", "score"}
      /\ macro \in Macros \cup {NoMacro}
      /\ ns \in Strengths
      /\ position \in 0..most
      /\ Len(signals) <= position
      /\ risk \in Risks \cup {NoRisk}
      /\ Len(queued) <= MaxOutput
      /\ dynamic \in Seq(CandidateSymbols)
      /\ signals \in Seq(Signals)
      /\ stage = "score" => risk \in Risks
    BY DEF ScanInv, TypeOK
<1>2. /\ MaxDay \in Nat /\ MaxOutput \in Nat /\ DynamicSize \in Nat
      /\ most \in Nat /\ StrategyCount * Len(Symbols) <= most /\ StrategyCount * Len(Symbols) \in Nat
    BY <1>1, Limits, ScanEnds
<1>3. 0 \in Strengths
    BY AnswersAreNumbers
<1> DEFINE Whole ==
               /\ day' \in 0..MaxDay /\ cached' \in -1..day'
               /\ loaded' \in BOOLEAN /\ due' \in BOOLEAN /\ session' \in BOOLEAN
               /\ regime' \in {NoRegime} \cup Regimes
               /\ IsInjective(dynamic') /\ Len(dynamic') <= DynamicSize
               /\ \A i \in DOMAIN dynamic' : dynamic'[i] \in CandidateSymbols \ CoreSymbols
               /\ stage' \in {"idle", "research", "scan", "score"}
               /\ macro' \in Macros \cup {NoMacro}
               /\ ns' \in Strengths
               /\ position' \in 0..most
               /\ Len(signals') <= position'
               /\ risk' \in Risks \cup {NoRisk}
               /\ Len(queued') <= MaxOutput
               /\ dynamic' \in Seq(CandidateSymbols)
               /\ signals' \in Seq(Signals)
               /\ stage' = "score" => risk' \in Risks
<1>4. Whole => ScanInv'
    BY DEF ScanInv, TypeOK
<1> HIDE DEF most
<1>5. /\ <<>> \in Seq(CandidateSymbols) /\ <<>> \in Seq(Signals)
      /\ Len(<<>>) = 0 /\ IsInjective(<<>>) /\ DOMAIN <<>> = {}
    BY EmptySeq DEF IsInjective
<1> USE DEF engine, cycle
<1>6. CASE NewDay
    <2>1. day' \in 0..MaxDay /\ cached' \in -1..day'
        BY <1>1, <1>2, <1>6 DEF NewDay
    <2> QED
        BY <1>1, <1>4, <1>6, <2>1 DEF NewDay
<1>7. CASE LoadInstruments
    BY <1>1, <1>4, <1>7 DEF LoadInstruments
<1>8. CASE Restart
    <2>1. cached' \in -1..day' /\ position' \in 0..most
        BY <1>1, <1>2, <1>8 DEF Restart
    <2>2. IsInjective(dynamic') /\ Len(dynamic') <= DynamicSize /\ DOMAIN dynamic' = {}
        BY <1>2, <1>5, <1>8 DEF Restart
    <2>3. Len(signals') <= position' /\ Len(queued') <= MaxOutput
        BY <1>2, <1>5, <1>8 DEF Restart
    <2> QED
        BY <1>1, <1>3, <1>4, <1>5, <1>8, <2>1, <2>2, <2>3 DEF Restart
<1>9. CASE BeginCycle
    BY <1>1, <1>4, <1>2, <1>5, <1>9 DEF BeginCycle
<1>10. CASE Research
    <2>1. /\ dynamic' \in Seq(CandidateSymbols)
          /\ IsInjective(dynamic') /\ Len(dynamic') <= DynamicSize
          /\ \A i \in DOMAIN dynamic' : dynamic'[i] \in CandidateSymbols \ CoreSymbols
        <3>1. CASE cached = day
            BY <1>1, <1>10, <3>1 DEF Research
        <3>2. CASE cached # day
            <4>1. PICK setup \in [CandidateSymbols -> IF session THEN Setups ELSE {0}] :
                      dynamic' = SelectDynamicUniverse(Tokens, setup, regime)
                BY <1>10, <3>2 DEF Research
            <4>2. Setups \subseteq Nat
                BY MarketScanAssumption, Zenon
            <4>3. \A x \in CandidateSymbols : setup[x] \in Nat
                <5> DEFINE scores == IF session THEN Setups ELSE {0}
                <5>1. scores \subseteq Nat
                    BY <4>2
                <5>2. setup \in [CandidateSymbols -> scores]
                    BY <4>1
                <5> HIDE DEF scores
                <5> QED
                    BY <5>1, <5>2
            <4>4. LET u == SelectDynamicUniverse(Tokens, setup, regime)
                  IN  /\ u \in Seq(CandidateSymbols)
                      /\ IsInjective(u) /\ Len(u) <= DynamicSize
                      /\ \A i \in DOMAIN u : u[i] \in CandidateSymbols \ CoreSymbols
                BY <4>3, Universe
            <4> QED
                BY <4>1, <4>4
        <3> QED
            BY <3>1, <3>2
    <2>2. /\ day' = day /\ due' = due /\ loaded' = loaded /\ session' = session
          /\ regime' = regime /\ macro' = macro /\ position' = position
          /\ signals' = signals /\ risk' = risk /\ queued' = queued
          /\ stage' = "scan" /\ ns' \in Strengths /\ cached' = day
        BY <1>10 DEF Research
    <2> QED
        BY <1>1, <1>2, <1>4, <2>1, <2>2
<1>11. CASE ScanSymbol
    <2>1. /\ day' = day /\ due' = due /\ loaded' = loaded /\ session' = session
          /\ regime' = regime /\ dynamic' = dynamic /\ cached' = cached
          /\ stage' = stage /\ macro' = macro /\ ns' = ns /\ risk' = risk /\ queued' = queued
          /\ position < StrategyCount * Len(Symbols) /\ position' = position + 1
        BY <1>11 DEF ScanSymbol
    <2>2. position' \in 0..most
        BY <1>1, <1>2, <2>1
    <2>3. signals' \in Seq(Signals) /\ Len(signals') <= position'
        <3>1. Len(signals) \in Nat
            BY <1>1, LenProperties
        <3>2. CASE UNCHANGED signals
            BY <1>1, <1>2, <2>1, <3>1, <3>2
        <3>3. CASE ~UNCHANGED signals
            <4>1. PICK x \in Found(SymbolAt(position)) :
                      SymbolAt(position) \in Tokens /\ signals' = Append(signals, x)
                BY <1>11, <3>3 DEF ScanSymbol
            <4>2. SymbolAt(position) \in Tradable
                BY <4>1 DEF Tokens, Tradable
            <4>3. x \in Signals
                BY <4>1, <4>2, FoundSignals
            <4>4. signals' \in Seq(Signals) /\ Len(signals') = Len(signals) + 1
                BY <1>1, <4>1, <4>3, AppendProperties
            <4> QED
                BY <1>1, <1>2, <2>1, <3>1, <4>4
        <3> QED
            BY <3>2, <3>3
    <2> QED
        BY <1>1, <1>4, <2>1, <2>2, <2>3
<1>12. CASE NoSignals
    BY <1>1, <1>4, <1>2, <1>3, <1>5, <1>12 DEF NoSignals
<1>13. CASE Evaluate
    BY <1>1, <1>4, <1>13 DEF Evaluate
<1>14. CASE QueueSignals
    <2>1. Passing \in Seq(Scored)
        BY ScoredInput, PassingSignals
    <2>2. Len(queued') <= MaxOutput
        BY <1>14, <2>1, CutForBetter DEF QueueSignals
    <2> QED
        BY <1>1, <1>2, <1>3, <1>4, <1>5, <1>14, <2>2 DEF QueueSignals
<1>15. CASE UNCHANGED vars
    BY <1>1, <1>4, <1>15 DEF vars
<1> QED
    BY <1>6, <1>7, <1>8, <1>9, <1>10, <1>11, <1>12, <1>13, <1>14, <1>15 DEF Next

\* The state keeps its types: no symbol is scanned twice, the universe and the
\* signals queued keep their limits.
THEOREM TypeInvariant == Spec => []TypeOK
<1>1. Init => ScanInv
    BY ScanInit
<1>2. ScanInv /\ [Next]_vars => ScanInv'
    BY ScanStep
<1>3. ScanInv => TypeOK
    BY DEF ScanInv
<1> QED
    BY <1>1, <1>2, <1>3, PTL DEF Spec

\* A cycle whose Sentinel gave no answer that can be read queues nothing.
THEOREM NoSentinelNoTrade == Spec => NoTradeWithoutSentinel
<1>1. ASSUME ScanInv, [Next]_vars, stage = "score", risk.how # "answered"
      PROVE  UNCHANGED vars \/ queued' = <<>>
    <2>1. CASE QueueSignals
        <3>1. risk.rp > 40
            BY <1>1, AnswersAreNumbers DEF ScanInv
        <3>2. Passing = <<>>
            BY <1>1, <3>1, ScoredInput, PassingSignals
        <3> QED
            BY <2>1, <3>2, NothingToQueue DEF QueueSignals
    <2>2. CASE Restart
        BY <2>2 DEF Restart
    <2>3. QueueSignals \/ Restart \/ UNCHANGED vars
        BY <1>1 DEF Next, NewDay, LoadInstruments, BeginCycle, Research, ScanSymbol, NoSignals,
                    Evaluate, Scanned
    <2> QED
        BY <2>1, <2>2, <2>3
<1>2. ScanInv /\ [Next]_vars => [stage = "score" /\ risk.how # "answered" => queued' = <<>>]_vars
    BY <1>1
<1> QED
    BY <1>2, ScanInit, ScanStep, PTL DEF Spec, NoTradeWithoutSentinel

\* A signal queued has most of the passing signals of its symbol with it.
THEOREM MajorityWins == Spec => MajorityDirection
<1> DEFINE Wins(q) == 2 * Len(Going(OfSymbol(Passing, q.symbol), q.direction))
                          > Len(OfSymbol(Passing, q.symbol))
<1>1. ASSUME ScanInv, [Next]_vars, queued' # queued
      PROVE  \A q \in Queued(queued') : Wins(q)
    <2>1. CASE QueueSignals
        <3>1. Passing \in Seq(Scored)
            BY <1>1, ScoredInput, PassingSignals
        <3>2. queued' = Finalize(Passing)
            BY <2>1 DEF QueueSignals
        <3> DEFINE s == Passing
                   a == ApplyConsensus(s)
        <3>3. \A k \in DOMAIN a : Wins(a[k])
            BY <3>1, ConsensusOfAll
        <3>4. \A q \in Queued(queued') : \E k \in DOMAIN a : q = a[k]
            BY <3>1, <3>2, CutForBetter
        <3> HIDE DEF a, Wins
        <3> QED
            BY <3>3, <3>4
    <2>2. CASE Restart \/ BeginCycle
        <3>1. queued' = <<>>
            BY <2>2 DEF Restart, BeginCycle
        <3> QED
            BY <3>1 DEF Queued
    <2>3. QueueSignals \/ Restart \/ BeginCycle
        BY <1>1 DEF Next, vars, cycle, NewDay, LoadInstruments, Research, ScanSymbol, NoSignals,
                    Evaluate
    <2> QED
        BY <2>1, <2>2, <2>3
<1>2. ScanInv /\ [Next]_vars =>
          [queued' # queued => \A q \in Queued(queued') : Wins(q)]_vars
    BY <1>1
<1> QED
    BY <1>2, ScanInit, ScanStep, PTL DEF Spec, MajorityDirection

\* What the consensus leaves is queued, or as many better ones as may be.
THEOREM BestOnesQueued == Spec => BestAreQueued
<1> DEFINE a == ApplyConsensus(Passing)
           Better(x) == {q \in Queued(queued') : q.final >= x.final}
           Fair == \A i \in DOMAIN a :
                       \/ a[i] \in Queued(queued')
                       \/ Cardinality(Better(a[i])) = MaxOutput
                       \/ Cardinality({q \in Better(a[i]) :
                               MappedSector(q) = MappedSector(a[i])}) = MaxPerSector
<1>1. ASSUME ScanInv, QueueSignals
      PROVE  Fair
    <2>1. Passing \in Seq(Scored)
        BY <1>1, ScoredInput, PassingSignals
    <2>2. queued' = Finalize(Passing)
        BY <1>1 DEF QueueSignals
    <2> DEFINE s == Passing
    <2>3. \A i \in DOMAIN a :
              \/ a[i] \in Queued(Finalize(s))
              \/ Cardinality({x \in Queued(Finalize(s)) : x.final >= a[i].final}) = MaxOutput
              \/ Cardinality({x \in {y \in Queued(Finalize(s)) : y.final >= a[i].final} :
                     MappedSector(x) = MappedSector(a[i])}) = MaxPerSector
        BY <2>1, CutForBetter
    <2> HIDE DEF a
    <2> QED
        BY <2>2, <2>3
<1>2. ScanInv /\ [Next]_vars => [QueueSignals => Fair]_vars
    BY <1>1
<1> QED
    BY <1>2, ScanInit, ScanStep, PTL DEF Spec, BestAreQueued

=============================================================================
