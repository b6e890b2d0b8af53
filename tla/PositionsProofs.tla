-------------------------- MODULE PositionsProofs ---------------------------
(* The positions kept of a sequence are counted from 1 without a gap, so     *)
(* AtPositions is a sequence, of the elements at just those positions.       *)
EXTENDS Positions, FiniteSetTheorems, SequenceTheorems, TLAPS

LEMMA IntervalLength ==
  ASSUME NEW m \in Nat, NEW n \in Nat, 1..m = 1..n
  PROVE  m = n
<1>1. \A i \in Nat \ {0} : i <= m <=> i <= n
  <2>1. \A i \in Nat \ {0} : i \in 1..m <=> i \in 1..n
    OBVIOUS
  <2> QED BY <2>1
<1>2. m > 0 => m <= n
  BY <1>1
<1>3. n > 0 => n <= m
  BY <1>1
<1> QED BY <1>2, <1>3

\* The ranks of the n elements of a set of indexes are 1..n.
LEMMA RankOnto ==
  ASSUME NEW m \in Nat, NEW I \in SUBSET (1..m)
  PROVE  /\ Cardinality(I) \in Nat
         /\ \A n \in 1..Cardinality(I) : \E i \in I : Rank(I, i) = n
         /\ \A i \in I : Rank(I, i) \in 1..Cardinality(I)
         /\ \A i, j \in I : Rank(I, i) = Rank(I, j) => i = j
<1> DEFINE Upto(i) == {j \in I : j <= i}
           rank == [i \in I |-> Rank(I, i)]
           N == Cardinality(I)
<1>1. IsFiniteSet(I) /\ N \in Nat
  <2>1. 1 \in Int /\ m \in Int
    OBVIOUS
  <2>2. IsFiniteSet(1..m)
    BY ONLY <2>1, FS_Interval
  <2>3. IsFiniteSet(I)
    BY <2>2, FS_Subset
  <2> QED BY <2>3, FS_CardinalityType
<1>2. ASSUME NEW i \in I PROVE /\ IsFiniteSet(Upto(i)) /\ Rank(I, i) = Cardinality(Upto(i))
                               /\ Rank(I, i) \in 1..N
  <2>1. IsFiniteSet(Upto(i)) /\ Cardinality(Upto(i)) <= N
    BY <1>1, FS_Subset
  <2>2. Cardinality(Upto(i)) \in Nat /\ Upto(i) # {}
    BY <2>1, FS_CardinalityType
  <2>3. Cardinality(Upto(i)) # 0
    BY <2>1, <2>2, FS_EmptySet
  <2> QED BY <1>1, <2>1, <2>2, <2>3 DEF Rank
<1>3. ASSUME NEW i \in I, NEW j \in I, i < j PROVE Rank(I, i) # Rank(I, j)
  <2>1. i \in Int /\ j \in Int
    OBVIOUS
  <2>2. j \in Upto(j) /\ j \notin Upto(i)
    BY <1>3, <2>1
  <2>3. \A l \in I : l \in Int
    OBVIOUS
  <2>4. \A l \in Upto(i) : l \in Upto(j)
    BY <1>3, <2>1, <2>3
  <2>5. Upto(i) \in SUBSET Upto(j) /\ Upto(i) # Upto(j)
    BY <2>2, <2>4
  <2> QED BY <1>2, <2>5, FS_Subset
<1>4. rank \in Injection(I, 1..N)
  <2>1. \A i \in I, j \in I : rank[i] = rank[j] => i = j
    <3>1. \A i \in I, j \in I : i < j \/ j < i \/ i = j
      OBVIOUS
    <3> QED BY <1>3, <3>1
  <2>2. rank \in [I -> 1..N]
    BY <1>2
  <2> QED BY <2>1, <2>2 DEF Injection, IsInjective
<1>5. IsFiniteSet(1..N) /\ Cardinality(1..N) = N
  BY <1>1, FS_Interval
<1>6. rank \in Surjection(I, 1..N)
  BY <1>4, <1>5, FS_Injection
<1>7. \A n \in 1..N : \E i \in I : rank[i] = n
  BY <1>6 DEF Surjection
<1>8. /\ \A i \in I : rank[i] \in 1..N
      /\ \A i, j \in I : rank[i] = rank[j] => i = j
  BY <1>4 DEF Injection, IsInjective
<1> QED BY <1>1, <1>7, <1>8
LEMMA RankOfInterval ==
  ASSUME NEW m \in Nat, NEW i \in 1..m PROVE Rank(1..m, i) = i /\ Cardinality(1..m) = m
<1>1. {j \in 1..m : j <= i} = 1..i
  OBVIOUS
<1>2. 1 \in Int /\ i \in Int /\ m \in Int /\ i >= 1 /\ m >= 1
  OBVIOUS
<1>3. Cardinality(1..i) = i /\ Cardinality(1..m) = m
  BY <1>2, FS_Interval
<1> QED BY <1>1, <1>3 DEF Rank

\* Every element is one of s, at a position in I, and each of those is there.
LEMMA AtPositionsIs ==
  ASSUME NEW S, NEW s \in Seq(S), NEW I \in SUBSET DOMAIN s
  PROVE  /\ AtPositions(s, I) \in Seq(S)
         /\ DOMAIN AtPositions(s, I) = 1..Cardinality(I)
         /\ \A n \in DOMAIN AtPositions(s, I) :
               Nth(I, n) \in I /\ AtPositions(s, I)[n] = s[Nth(I, n)]
         /\ \A m, n \in DOMAIN AtPositions(s, I) : Nth(I, m) = Nth(I, n) => m = n
         /\ \A i \in I : \E n \in DOMAIN AtPositions(s, I) : AtPositions(s, I)[n] = s[i]
<1> DEFINE N == Cardinality(I)
<1>1. s \in [1..Len(s) -> S] /\ Len(s) \in Nat /\ DOMAIN s = 1..Len(s)
  BY LenProperties
<1>2. /\ N \in Nat /\ \A n \in 1..N : \E i \in I : Rank(I, i) = n
      /\ \A i \in I : Rank(I, i) \in 1..N
      /\ \A i, j \in I : Rank(I, i) = Rank(I, j) => i = j
  BY <1>1, RankOnto
<1>3. \A n \in 1..N : Nth(I, n) \in I /\ Rank(I, Nth(I, n)) = n
  BY <1>2 DEF Nth
<1>4. AtPositions(s, I) = [n \in 1..N |-> s[Nth(I, n)]]
  BY DEF AtPositions
<1> HIDE DEF N
<1>5. AtPositions(s, I) \in Seq(S)
  <2>1. [n \in 1..N |-> s[Nth(I, n)]] \in [1..N -> S]
    BY <1>1, <1>3
  <2> QED BY <1>2, <1>4, <2>1, SeqDef
<1>6. ASSUME NEW i \in I PROVE \E n \in 1..N : s[Nth(I, n)] = s[i]
  <2>1. Nth(I, Rank(I, i)) = i
    BY <1>2, <1>3
  <2> QED BY <1>2, <2>1
<1>7. \A m, n \in 1..N : Nth(I, m) = Nth(I, n) => m = n
  BY <1>3
<1> QED BY <1>3, <1>4, <1>5, <1>6, <1>7 DEF N

LEMMA AtAllPositions ==
  ASSUME NEW S, NEW s \in Seq(S) PROVE AtPositions(s, DOMAIN s) = s
<1> DEFINE m == Len(s)
<1>1. m \in Nat /\ DOMAIN s = 1..m /\ s \in [1..m -> S]
  BY LenProperties
<1>2. Cardinality(1..m) = m
  <2>1. CASE m = 0
    BY <2>1, FS_EmptySet
  <2>2. CASE m # 0
    BY <1>1, <2>2, RankOfInterval, 1 \in 1..m
  <2> QED BY <2>1, <2>2
<1>3. \A n \in 1..m : Nth(1..m, n) = n
  <2>1. \A i \in 1..m : Rank(1..m, i) = i
    BY <1>1, RankOfInterval
  <2> QED BY <2>1 DEF Nth
<1> QED BY <1>1, <1>2, <1>3 DEF AtPositions
=============================================================================
