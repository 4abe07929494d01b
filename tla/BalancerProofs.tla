--------------------------- MODULE BalancerProofs ---------------------------
(***************************************************************************)
(* Proofs about exhaustive_balance, for every team size and all ratings:    *)
(* the loop ends with the best split.  They need that there is a split at   *)
(* all, that the complement of a split is one, and that the sums of two     *)
(* disjoint teams add up.                                                   *)
(***************************************************************************)
EXTENDS Balancer, FiniteSetTheorems, TLAPS

-----------------------------------------------------------------------------
(* Induction, as the existence of a least counterexample. *)
LEMMA LeastNat ==
  ASSUME NEW T, T \subseteq Nat, T # {}
  PROVE  \E n \in T : \A m \in T : n <= m
<1>1. PICK n \in T : \A m \in T : ~(<<m, n>> \in OpToRel(<, Nat))
  BY NatLessThanWellFounded, WFMin
<1>2. \A m \in T : ~(m < n)
  BY <1>1 DEF OpToRel
<1> QED
  BY <1>2

-----------------------------------------------------------------------------
(* Powers of two, as the number of subsets of an interval.                  *)

(* 2^n counts the subsets of 1 .. n. *)
LEMMA PowerIsCardinality ==
  ASSUME NEW n \in Nat
  PROVE  /\ IsFiniteSet(SUBSET (1 .. n))
         /\ 2^n = Cardinality(SUBSET (1 .. n))
<1>1. IsFiniteSet(1 .. n) /\ Cardinality(1 .. n) = n
  BY FS_Interval
<1> QED
  BY <1>1, FS_SUBSET

(* From n to n + 1 the subsets double: each comes without n + 1 and with it. *)
LEMMA PowerStep ==
  ASSUME NEW n \in Nat
  PROVE  2^(n + 1) = 2 * 2^n
<1> DEFINE P == SUBSET (1 .. n)
           Q == {s \in SUBSET (1 .. n + 1) : n + 1 \in s}
           f == [s \in P |-> s \cup {n + 1}]
<1>1. IsFiniteSet(P) /\ 2^n = Cardinality(P)
  BY PowerIsCardinality
<1>2. f \in Bijection(P, Q)
  <2>1. f \in [P -> Q]
    OBVIOUS
  <2>2. ASSUME NEW s \in P, NEW t \in P, f[s] = f[t] PROVE s = t
    <3>1. n + 1 \notin s /\ n + 1 \notin t
      OBVIOUS
    <3>2. s \cup {n + 1} = t \cup {n + 1}
      BY <2>2
    <3> QED
      BY <3>1, <3>2
  <2>3. ASSUME NEW q \in Q PROVE \E s \in P : f[s] = q
    <3>1. q \ {n + 1} \in P
      OBVIOUS
    <3>2. f[q \ {n + 1}] = q
      BY <3>1
    <3> QED
      BY <3>1, <3>2
  <2> QED
    BY <2>1, <2>2, <2>3, Zenon DEF Bijection, Injection, Surjection, IsInjective
<1>3. IsFiniteSet(Q) /\ Cardinality(Q) = Cardinality(P)
  BY <1>1, <1>2, FS_Bijection DEF ExistsBijection
<1>4. P \cup Q = SUBSET (1 .. n + 1) /\ P \cap Q = {}
  OBVIOUS
<1>5. Cardinality(SUBSET (1 .. n + 1)) = Cardinality(P) + Cardinality(Q)
  <2>1. Cardinality(P \cup Q) = Cardinality(P) + Cardinality(Q) - Cardinality(P \cap Q)
    BY <1>1, <1>3, FS_Union
  <2>2. Cardinality(P) \in Nat /\ Cardinality(Q) \in Nat
    BY <1>1, <1>3, FS_CardinalityType
  <2>3. Cardinality(P \cup Q) = Cardinality(P) + Cardinality(Q) - 0
    BY <1>4, <2>1, FS_EmptySet, Zenon
  <2>4. Cardinality(P \cup Q) = Cardinality(SUBSET (1 .. n + 1))
    BY <1>4
  <2> HIDE DEF P, Q
  <2> QED
    BY <2>2, <2>3, <2>4
<1>6. 2^(n + 1) = Cardinality(SUBSET (1 .. n + 1))
  <2>1. n + 1 \in Nat
    OBVIOUS
  <2> QED
    BY <2>1, PowerIsCardinality
<1>7. Cardinality(P) \in Nat
  BY <1>1, FS_CardinalityType
<1> QED
  BY <1>1, <1>3, <1>5, <1>6, <1>7

(* A power of two is a positive number. *)
LEMMA PowerPositive ==
  ASSUME NEW n \in Nat
  PROVE  2^n \in Nat \ {0}
<1>1. IsFiniteSet(SUBSET (1 .. n)) /\ 2^n = Cardinality(SUBSET (1 .. n))
  BY PowerIsCardinality
<1>2. SUBSET (1 .. n) # {}
  OBVIOUS
<1> QED
  BY <1>1, <1>2, FS_CardinalityType, FS_EmptySet

LEMMA PowerZero == 2^0 = 1
OBVIOUS

(* A smaller exponent gives a smaller power. *)
LEMMA PowerMonotone ==
  ASSUME NEW m \in Nat, NEW n \in Nat, m <= n
  PROVE  2^m <= 2^n
<1>1. SUBSET (1 .. m) \in SUBSET (SUBSET (1 .. n))
  OBVIOUS
<1>2. IsFiniteSet(SUBSET (1 .. n))
  BY PowerIsCardinality
<1>3. Cardinality(SUBSET (1 .. m)) <= Cardinality(SUBSET (1 .. n))
  BY <1>1, <1>2, FS_Subset
<1> QED
  BY <1>3, PowerIsCardinality

-----------------------------------------------------------------------------
(* Bits: a mask is twice a shorter mask plus its lowest bit.                *)

(* Multiplication keeps the order of its right factor. *)
LEMMA ProductStep ==
  ASSUME NEW c \in Nat, NEW p \in Int, NEW q \in Int, p + 1 <= q
  PROVE  c * p + c <= c * q
<1>1. c * (q - p - 1) >= 0
  <2>1. q - p - 1 \in Nat
    OBVIOUS
  <2> QED
    BY <2>1
<1> QED
  BY <1>1

(* A quotient is known by its remainder. *)
LEMMA DivisionUnique ==
  ASSUME NEW n \in Nat, NEW c \in Nat \ {0}, NEW q \in Nat, NEW r \in 0 .. c - 1,
         n = c * q + r
  PROVE  n \div c = q
<1> DEFINE p == n \div c
           t == n % c
<1>1. p \in Nat /\ t \in 0 .. c - 1 /\ n = c * p + t
  OBVIOUS
<1> HIDE DEF p, t
<1>2. ~(p + 1 <= q)
  BY <1>1, ProductStep
<1>3. ~(q + 1 <= p)
  BY <1>1, ProductStep
<1>4. p = q
  BY <1>1, <1>2, <1>3
<1> QED
  BY <1>4 DEF p

(* Without its lowest bit a mask is shifted by one place. *)
LEMMA ShiftRight ==
  ASSUME NEW a \in Nat, NEW d \in {0, 1}, NEW b \in Nat \ {0}
  PROVE  (2 * a + d) \div (2 * b) = a \div b
<1> DEFINE q == a \div b
           t == a % b
<1>1. q \in Nat /\ t \in 0 .. b - 1 /\ a = b * q + t
  OBVIOUS
<1> HIDE DEF q, t
<1>2. 2 * t + d \in 0 .. (2 * b) - 1
  BY <1>1
<1>3. 2 * a + d = (2 * b) * q + (2 * t + d)
  BY <1>1
<1>4. 2 * a + d \in Nat /\ 2 * b \in Nat \ {0}
  OBVIOUS
<1>5. (2 * a + d) \div (2 * b) = q
  BY <1>1, <1>2, <1>3, <1>4, DivisionUnique
<1> QED
  BY <1>5 DEF q

(* Bit i of mask m. *)
Bit(m, i) == (m \div 2^i) % 2

(* The lowest bit is the remainder by two. *)
LEMMA LowestBit ==
  ASSUME NEW a \in Nat, NEW d \in {0, 1}
  PROVE  Bit(2 * a + d, 0) = d
  BY PowerZero DEF Bit

(* The other bits are those of the shorter mask. *)
LEMMA HigherBit ==
  ASSUME NEW a \in Nat, NEW d \in {0, 1}, NEW i \in Nat
  PROVE  Bit(2 * a + d, i + 1) = Bit(a, i)
  BY PowerStep, PowerPositive, ShiftRight DEF Bit

(* A bit is 0 or 1. *)
LEMMA BitType ==
  ASSUME NEW m \in Nat, NEW i \in Nat
  PROVE  Bit(m, i) \in {0, 1}
<1>1. 2^i \in Nat \ {0}
  BY PowerPositive
<1>2. m \div 2^i \in Nat
  BY <1>1
<1> QED
  BY <1>2 DEF Bit

(* The mask 2^n - 1 has the bits 0 to n - 1. *)
LEMMA OnesMask ==
  ASSUME NEW n \in Nat
  PROVE  \A i \in Nat : Bit(2^n - 1, i) = IF i < n THEN 1 ELSE 0
<1> DEFINE Ones(k) == \A i \in Nat : Bit(2^k - 1, i) = IF i < k THEN 1 ELSE 0
           T == {k \in Nat : ~Ones(k)}
<1>1. SUFFICES ASSUME T # {} PROVE FALSE
  OBVIOUS
<1>2. PICK k \in T : \A j \in T : k <= j
  BY <1>1, LeastNat
<1>3. CASE k = 0
  <2>1. ASSUME NEW i \in Nat PROVE Bit(0, i) = 0
    BY PowerPositive DEF Bit
  <2>2. Ones(0)
    BY <2>1, PowerZero
  <2> QED
    BY <1>3, <2>2
<1>4. CASE k # 0
  <2> DEFINE j == k - 1
  <2>1. j \in Nat /\ k = j + 1 /\ Ones(j)
    BY <1>2, <1>4
  <2>2. 2^j - 1 \in Nat /\ 2^k - 1 = 2 * (2^j - 1) + 1
    BY <2>1, PowerStep, PowerPositive
  <2> HIDE DEF j
  <2>3. ASSUME NEW i \in Nat PROVE Bit(2^k - 1, i) = IF i < k THEN 1 ELSE 0
    <3>1. CASE i = 0
      <4>1. Bit(2^k - 1, 0) = 1
        BY <2>2, LowestBit
      <4> QED
        BY <2>1, <3>1, <4>1
    <3>2. CASE i # 0
      <4> DEFINE h == i - 1
      <4>1. h \in Nat /\ i = h + 1
        BY <3>2
      <4> HIDE DEF h
      <4>2. Bit(2^k - 1, i) = Bit(2^j - 1, h)
        BY <2>2, <4>1, HigherBit
      <4>3. Bit(2^j - 1, h) = IF h < j THEN 1 ELSE 0
        BY <2>1, <4>1
      <4> QED
        BY <2>1, <4>1, <4>2, <4>3
    <3> QED
      BY <3>1, <3>2
  <2> QED
    BY <2>3
<1> QED
  BY <1>3, <1>4

(* The mask 2^n - 1 - m has the bits that m has not. *)
LEMMA ComplementMask ==
  ASSUME NEW n \in Nat
  PROVE  \A m \in 0 .. 2^n - 1 : \A i \in 0 .. n - 1 : Bit(2^n - 1 - m, i) = 1 - Bit(m, i)
<1> DEFINE Flips(k) ==
             \A m \in 0 .. 2^k - 1 : \A i \in 0 .. k - 1 : Bit(2^k - 1 - m, i) = 1 - Bit(m, i)
           T == {k \in Nat : ~Flips(k)}
<1>1. SUFFICES ASSUME T # {} PROVE FALSE
  OBVIOUS
<1>2. PICK k \in T : \A j \in T : k <= j
  BY <1>1, LeastNat
<1>3. CASE k = 0
  <2>1. Flips(0)
    OBVIOUS
  <2> QED
    BY <1>3, <2>1
<1>4. CASE k # 0
  <2> DEFINE j == k - 1
  <2>1. j \in Nat /\ k = j + 1 /\ Flips(j)
    BY <1>2, <1>4
  <2>2. 2^j \in Nat /\ 2^k = 2 * 2^j
    BY <2>1, PowerStep, PowerPositive
  <2> HIDE DEF j
  <2>3. ASSUME NEW m \in 0 .. 2^k - 1, NEW i \in 0 .. k - 1
        PROVE  Bit(2^k - 1 - m, i) = 1 - Bit(m, i)
    <3> DEFINE a == m \div 2
               d == m % 2
               c == 2^j - 1 - a
    <3>1. a \in Nat /\ d \in {0, 1} /\ m = 2 * a + d
      BY <2>2
    <3>2. a \in 0 .. 2^j - 1
      BY <2>2
    <3>3. c \in Nat /\ 1 - d \in {0, 1} /\ 2^k - 1 - m = 2 * c + (1 - d)
      BY <2>2, <3>1, <3>2
    <3> DEFINE e == 1 - d
    <3> HIDE DEF a, d
    <3>4. CASE i = 0
      <4>1. Bit(m, 0) = d
        BY <3>1, LowestBit
      <4>2. Bit(2^k - 1 - m, 0) = 1 - d
        BY <3>3, LowestBit
      <4> QED
        BY <3>4, <4>1, <4>2
    <3>5. CASE i # 0
      <4> DEFINE h == i - 1
      <4>1. h \in Nat /\ i = h + 1 /\ h \in 0 .. j - 1
        BY <2>1, <3>5
      <4> HIDE DEF h
      <4>2. Bit(m, i) = Bit(a, h)
        BY <3>1, <4>1, HigherBit
      <4>3. Bit(2^k - 1 - m, i) = Bit(c, h)
        <5>1. c \in Nat /\ e \in {0, 1} /\ 2^k - 1 - m = 2 * c + e
          BY <3>3
        <5> HIDE DEF c, e
        <5>2. Bit(2 * c + e, h + 1) = Bit(c, h)
          BY <5>1, <4>1, HigherBit
        <5> QED
          BY <5>1, <5>2, <4>1, Zenon
      <4>4. Bit(c, h) = 1 - Bit(a, h)
        BY <2>1, <3>2, <4>1
      <4> QED
        BY <4>2, <4>3, <4>4
    <3> QED
      BY <3>4, <3>5
  <2> QED
    BY <2>3
<1> QED
  BY <1>3, <1>4

-----------------------------------------------------------------------------
(* Splits exist, and come in pairs.                                         *)

(* There are MATCH_SIZE players. *)
LEMMA IndicesFinite == IsFiniteSet(Indices) /\ Cardinality(Indices) = MATCH_SIZE
  BY TeamsAssumption, FS_Interval DEF Indices

LEMMA SizesAreNumbers == MATCH_SIZE \in Nat /\ 2^MATCH_SIZE \in Nat \ {0}
  BY TeamsAssumption, PowerPositive

(* A split is a mask of the loop. *)
LEMMA SplitType ==
  ASSUME NEW m \in Splits
  PROVE  m \in Nat /\ m < 2^MATCH_SIZE
  BY SizesAreNumbers DEF Splits

(* Who is in team A, by the bits of the mask. *)
LEMMA TeamMember ==
  ASSUME NEW m, NEW i
  PROVE  i \in TeamOf(m) <=> i \in Indices /\ Bit(m, i) = 1
  BY DEF TeamOf, Bit

(* The first TEAM_SIZE players against the others. *)
LEMMA SplitsNotEmpty == Splits # {}
<1> DEFINE m == 2^TEAM_SIZE - 1
<1>1. TEAM_SIZE \in Nat /\ TEAM_SIZE > 0 /\ MATCH_SIZE = 2 * TEAM_SIZE
  BY TeamsAssumption
<1>2. m \in 0 .. 2^MATCH_SIZE - 1
  <2>1. 2^TEAM_SIZE \in Nat \ {0} /\ 2^MATCH_SIZE \in Nat
    BY <1>1, PowerPositive
  <2>2. 2^TEAM_SIZE <= 2^MATCH_SIZE
    BY <1>1, PowerMonotone
  <2> QED
    BY <2>1, <2>2
<1>3. TeamOf(m) = 0 .. TEAM_SIZE - 1
  <2>1. \A i \in Nat : (m \div 2^i) % 2 = IF i < TEAM_SIZE THEN 1 ELSE 0
    BY <1>1, OnesMask DEF Bit
  <2> HIDE DEF m
  <2> QED
    BY <1>1, <2>1 DEF TeamOf, Indices
<1>4. Cardinality(0 .. TEAM_SIZE - 1) = TEAM_SIZE
  BY <1>1, FS_Interval
<1> QED
  BY <1>2, <1>3, <1>4 DEF Splits

(* The other team of a split is a full one, and the team A of a split. *)
LEMMA OtherTeam ==
  ASSUME NEW m \in Splits
  PROVE  /\ Cardinality(Indices \ TeamOf(m)) = TEAM_SIZE
         /\ \E n \in Splits : TeamOf(n) = Indices \ TeamOf(m)
<1> DEFINE n == 2^MATCH_SIZE - 1 - m
<1>1. m \in Nat /\ m < 2^MATCH_SIZE /\ n \in 0 .. 2^MATCH_SIZE - 1
  BY SplitType, SizesAreNumbers
<1>2. TeamOf(n) = Indices \ TeamOf(m)
  <2>1. ASSUME NEW i \in Indices PROVE i \in TeamOf(n) <=> i \notin TeamOf(m)
    <3>1. i \in Nat /\ i \in 0 .. MATCH_SIZE - 1
      BY SizesAreNumbers DEF Indices
    <3>2. m \in 0 .. 2^MATCH_SIZE - 1
      BY <1>1, SizesAreNumbers
    <3>3. Bit(n, i) = 1 - Bit(m, i)
      BY <3>1, <3>2, SizesAreNumbers, ComplementMask
    <3>4. Bit(m, i) \in {0, 1}
      BY <1>1, <3>1, BitType
    <3>5. (i \in TeamOf(n) <=> Bit(n, i) = 1) /\ (i \in TeamOf(m) <=> Bit(m, i) = 1)
      BY TeamMember
    <3> HIDE DEF n
    <3> QED
      BY <3>3, <3>4, <3>5
  <2>2. TeamOf(n) \subseteq Indices
    BY TeamMember
  <2> HIDE DEF n
  <2> QED
    BY <2>1, <2>2
<1>3. Cardinality(Indices \ TeamOf(m)) = TEAM_SIZE
  <2>1. Cardinality(Indices \ TeamOf(m))
            = Cardinality(Indices) - Cardinality(Indices \cap TeamOf(m))
    BY IndicesFinite, FS_Difference
  <2>2. Indices \cap TeamOf(m) = TeamOf(m)
    BY DEF TeamOf
  <2>3. Cardinality(TeamOf(m)) = TEAM_SIZE
    BY DEF Splits
  <2> QED
    BY <2>1, <2>2, <2>3, IndicesFinite, TeamsAssumption
<1> QED
  BY <1>1, <1>2, <1>3 DEF Splits

-----------------------------------------------------------------------------
(* Sums.  The sum of a team is the number of pairs <<i, k>> with i in the   *)
(* team and k in 1 .. ratings[i], so that what is known of cardinalities    *)
(* holds of sums.                                                           *)

Ratings == [Indices -> 0 .. MAX_SKILL_RATING]
Cells(rs, S) == {c \in S \X (1 .. MAX_SKILL_RATING) : c[2] <= rs[c[1]]}
Points(rs, S) == Cardinality(Cells(rs, S))

(* The points of a team are bounded by its size. *)
LEMMA CellsFinite ==
  ASSUME NEW rs \in Ratings, NEW S \in SUBSET Indices
  PROVE  /\ IsFiniteSet(S)
         /\ IsFiniteSet(Cells(rs, S))
         /\ Points(rs, S) \in Nat
         /\ Points(rs, S) <= Cardinality(S) * MAX_SKILL_RATING
<1>1. IsFiniteSet(S)
  BY IndicesFinite, FS_Subset
<1>2. MAX_SKILL_RATING \in Nat
  BY TeamsAssumption
<1>3. IsFiniteSet(1 .. MAX_SKILL_RATING) /\ Cardinality(1 .. MAX_SKILL_RATING) = MAX_SKILL_RATING
  BY <1>2, FS_Interval
<1> DEFINE C == S \X (1 .. MAX_SKILL_RATING)
<1>4. IsFiniteSet(C) /\ Cardinality(C) = Cardinality(S) * MAX_SKILL_RATING
  BY <1>1, <1>3, FS_Product
<1>5. Cells(rs, S) \in SUBSET C
  BY DEF Cells
<1>6. IsFiniteSet(Cells(rs, S)) /\ Cardinality(Cells(rs, S)) <= Cardinality(C)
  BY <1>4, <1>5, FS_Subset
<1> QED
  BY <1>1, <1>4, <1>6, FS_CardinalityType DEF Points

(* Disjoint teams add up. *)
LEMMA PointsAdd ==
  ASSUME NEW rs \in Ratings, NEW S \in SUBSET Indices, NEW T \in SUBSET Indices, S \cap T = {}
  PROVE  Points(rs, S \cup T) = Points(rs, S) + Points(rs, T)
<1>1. Cells(rs, S \cup T) = Cells(rs, S) \cup Cells(rs, T)
  BY DEF Cells
<1>2. Cells(rs, S) \cap Cells(rs, T) = {}
  BY DEF Cells
<1>3. IsFiniteSet(Cells(rs, S)) /\ IsFiniteSet(Cells(rs, T))
  BY CellsFinite
<1>4. Points(rs, S) \in Nat /\ Points(rs, T) \in Nat
  BY CellsFinite
<1>5. Points(rs, S \cup T) = Points(rs, S) + Points(rs, T) - 0
  <2> DEFINE A == Cells(rs, S)
             B == Cells(rs, T)
  <2>1. Cardinality(A \cup B) = Cardinality(A) + Cardinality(B) - Cardinality(A \cap B)
    BY <1>3, FS_Union
  <2>2. Cardinality(A \cap B) = 0
    BY <1>2, FS_EmptySet
  <2>3. Points(rs, S \cup T) = Cardinality(A \cup B)
    BY <1>1, Zenon DEF Points
  <2> QED
    BY <2>1, <2>2, <2>3, Zenon DEF Points
<1> QED
  BY <1>4, <1>5

(* A single player counts its rating. *)
LEMMA PointsOfOne ==
  ASSUME NEW rs \in Ratings, NEW i \in Indices
  PROVE  Points(rs, {i}) = rs[i]
<1> DEFINE f == [k \in 1 .. rs[i] |-> <<i, k>>]
<1>1. MAX_SKILL_RATING \in Nat /\ rs[i] \in 0 .. MAX_SKILL_RATING
  BY TeamsAssumption DEF Ratings
<1>2. Cells(rs, {i}) = {<<i, k>> : k \in 1 .. rs[i]}
  BY <1>1 DEF Cells
<1>3. f \in Bijection(1 .. rs[i], Cells(rs, {i}))
  <2>1. f \in [1 .. rs[i] -> Cells(rs, {i})]
    BY <1>2
  <2>2. \A j, k \in 1 .. rs[i] : f[j] = f[k] => j = k
    OBVIOUS
  <2>3. \A c \in Cells(rs, {i}) : \E k \in 1 .. rs[i] : f[k] = c
    BY <1>2
  <2> QED
    BY <2>1, <2>2, <2>3, Zenon DEF Bijection, Injection, Surjection, IsInjective
<1>4. IsFiniteSet(1 .. rs[i]) /\ Cardinality(1 .. rs[i]) = rs[i]
  <2>1. \A n \in Nat : IsFiniteSet(1 .. n) /\ Cardinality(1 .. n) = n
    BY FS_Interval
  <2>2. rs[i] \in Nat
    BY <1>1
  <2> HIDE DEF f
  <2> QED
    BY <2>1, <2>2
<1>5. ExistsBijection(1 .. rs[i], Cells(rs, {i}))
  BY <1>3, Zenon DEF ExistsBijection
<1>6. Cardinality(Cells(rs, {i})) = rs[i]
  BY <1>4, <1>5, FS_Bijection
<1> QED
  BY <1>6 DEF Points

(* An empty team counts nothing. *)
LEMMA PointsOfNone ==
  ASSUME NEW rs
  PROVE  Points(rs, {}) = 0
<1>1. Cells(rs, {}) = {}
  BY DEF Cells
<1> QED
  BY <1>1, FS_EmptySet DEF Points

(* Points satisfies the equation that defines the fold over a team. *)
LEMMA PointsRemove ==
  ASSUME NEW rs \in Ratings, NEW S \in SUBSET Indices, NEW x \in S
  PROVE  Points(rs, S) = rs[x] + Points(rs, S \ {x})
<1>1. S = {x} \cup (S \ {x}) /\ {x} \cap (S \ {x}) = {}
  OBVIOUS
<1>2. x \in Indices /\ {x} \in SUBSET Indices /\ S \ {x} \in SUBSET Indices
  OBVIOUS
<1>3. Points(rs, {x} \cup (S \ {x})) = Points(rs, {x}) + Points(rs, S \ {x})
  BY <1>1, <1>2, PointsAdd
<1>4. Points(rs, {x}) = rs[x]
  BY <1>2, PointsOfOne
<1> QED
  BY <1>1, <1>3, <1>4

SolvesFold(g, rs, S) ==
    g = [s \in SUBSET S |->
            IF s = {} THEN 0 ELSE rs[CHOOSE x \in s : TRUE] + g[s \ {CHOOSE x \in s : TRUE}]]

(* Nothing else satisfies that equation. *)
LEMMA FoldIsUnique ==
  ASSUME NEW rs \in Ratings, NEW S \in SUBSET Indices, NEW g, SolvesFold(g, rs, S)
  PROVE  \A s \in SUBSET S : g[s] = Points(rs, s)
<1> DEFINE T == {Cardinality(s) : s \in {u \in SUBSET S : g[u] # Points(rs, u)}}
<1>1. SUFFICES ASSUME T # {} PROVE FALSE
  OBVIOUS
<1>2. \A s \in SUBSET S : IsFiniteSet(s) /\ Cardinality(s) \in Nat
  BY CellsFinite, FS_CardinalityType
<1>3. T \subseteq Nat
  BY <1>2
<1>4. PICK n \in T : \A m \in T : n <= m
  BY <1>1, <1>3, LeastNat
<1>5. PICK s \in SUBSET S : g[s] # Points(rs, s) /\ n = Cardinality(s)
  BY <1>4
<1>6. CASE s = {}
  <2>1. g[s] = 0
    BY <1>6 DEF SolvesFold
  <2> QED
    BY <1>5, <1>6, <2>1, PointsOfNone
<1>7. CASE s # {}
  <2> DEFINE x == CHOOSE y \in s : TRUE
  <2>1. x \in s
    BY <1>7
  <2>2. g[s] = rs[x] + g[s \ {x}]
    BY <1>7 DEF SolvesFold
  <2> HIDE DEF x
  <2>3. s \ {x} \in SUBSET S /\ Cardinality(s \ {x}) < n
    BY <1>2, <1>5, <2>1, FS_RemoveElement
  <2>4. g[s \ {x}] = Points(rs, s \ {x})
    BY <1>2, <1>4, <1>5, <2>3
  <2>5. Points(rs, s) = rs[x] + Points(rs, s \ {x})
    BY <2>1, PointsRemove
  <2> QED
    BY <1>5, <2>2, <2>4, <2>5
<1> QED
  BY <1>6, <1>7

(* What the fold computes, for every team. *)
LEMMA SumIsPoints ==
  ASSUME NEW rs \in Ratings, NEW S \in SUBSET Indices
  PROVE  Sum(rs, S) = Points(rs, S)
<1> DEFINE h == [s \in SUBSET S |-> Points(rs, s)]
           g == CHOOSE k : SolvesFold(k, rs, S)
<1>1. SolvesFold(h, rs, S)
  <2> DEFINE c(s) == CHOOSE x \in s : TRUE
  <2>1. ASSUME NEW s \in SUBSET S
        PROVE  h[s] = IF s = {} THEN 0 ELSE rs[c(s)] + h[s \ {c(s)}]
    <3>1. CASE s = {}
      BY <3>1, PointsOfNone
    <3>2. CASE s # {}
      <4>1. c(s) \in s
        BY <3>2
      <4> HIDE DEF c
      <4>2. s \ {c(s)} \in SUBSET S /\ s \in SUBSET Indices
        OBVIOUS
      <4>3. Points(rs, s) = rs[c(s)] + Points(rs, s \ {c(s)})
        BY <4>1, <4>2, PointsRemove
      <4> QED
        BY <3>2, <4>2, <4>3
    <3> QED
      BY <3>1, <3>2
  <2>2. h = [s \in SUBSET S |-> h[s]]
    OBVIOUS
  <2> HIDE DEF h
  <2>3. h = [s \in SUBSET S |-> IF s = {} THEN 0 ELSE rs[c(s)] + h[s \ {c(s)}]]
    BY <2>1, <2>2
  <2> QED
    BY <2>3 DEF SolvesFold
<1>2. SolvesFold(g, rs, S)
  <2> HIDE DEF h
  <2> QED
    BY <1>1, Zenon
<1>3. Sum(rs, S) = g[S]
  BY Zenon DEF Sum, MapThenSumSet, MapThenFoldSet, SolvesFold
<1> HIDE DEF g
<1>4. g[S] = Points(rs, S)
  BY <1>2, FoldIsUnique
<1> QED
  BY <1>3, <1>4

-----------------------------------------------------------------------------
(* The numbers the loop compares.                                           *)

(* The sums of the two teams add up to the total, which fits in 32 bits. *)
LEMMA SumTypes ==
  ASSUME NEW rs \in Ratings, NEW m
  PROVE  /\ Sum(rs, TeamOf(m)) \in Nat
         /\ Sum(rs, Indices \ TeamOf(m)) \in Nat
         /\ Sum(rs, Indices) = Sum(rs, TeamOf(m)) + Sum(rs, Indices \ TeamOf(m))
         /\ Sum(rs, Indices) \in Nat /\ Sum(rs, Indices) < U32_MAX
<1> DEFINE A == TeamOf(m)
           B == Indices \ TeamOf(m)
<1>1. A \in SUBSET Indices /\ B \in SUBSET Indices /\ A \cup B = Indices /\ A \cap B = {}
  BY DEF TeamOf
<1> HIDE DEF A, B
<1>2. Points(rs, A) \in Nat /\ Points(rs, B) \in Nat
  BY <1>1, CellsFinite
<1>3. Points(rs, Indices) = Points(rs, A) + Points(rs, B)
  BY <1>1, PointsAdd
<1>4. Points(rs, Indices) < U32_MAX
  <2>1. Points(rs, Indices) <= Cardinality(Indices) * MAX_SKILL_RATING
    BY CellsFinite
  <2>2. Cardinality(Indices) = MATCH_SIZE
    BY IndicesFinite
  <2>3. MATCH_SIZE * MAX_SKILL_RATING \in Nat
    BY TeamsAssumption
  <2> QED
    BY <1>2, <1>3, <2>1, <2>2, <2>3, TeamsAssumption
<1>5. /\ Sum(rs, A) = Points(rs, A) /\ Sum(rs, B) = Points(rs, B)
      /\ Sum(rs, Indices) = Points(rs, Indices)
  BY <1>1, SumIsPoints
<1> QED
  BY <1>2, <1>3, <1>4, <1>5 DEF A, B

(* Every difference is below the initial best_delta, so the first split is taken. *)
LEMMA DeltaType ==
  ASSUME NEW rs \in Ratings, NEW m
  PROVE  Delta(rs, m) \in Nat /\ Delta(rs, m) < U32_MAX
<1> DEFINE a == Sum(rs, TeamOf(m))
           b == Sum(rs, Indices \ TeamOf(m))
<1>1. a \in Nat /\ b \in Nat /\ Sum(rs, Indices) = a + b /\ a + b < U32_MAX
  BY SumTypes
<1>2. Delta(rs, m) = IF 2 * a - (a + b) < 0 THEN -(2 * a - (a + b)) ELSE 2 * a - (a + b)
  BY <1>1 DEF Delta
<1> HIDE DEF a, b
<1> QED
  BY <1>1, <1>2, TeamsAssumption

(* With the teams swapped the difference is the same. *)
LEMMA DeltaOfSwap ==
  ASSUME NEW rs \in Ratings, NEW m, NEW n, TeamOf(n) = Indices \ TeamOf(m)
  PROVE  Delta(rs, n) = Delta(rs, m)
<1> DEFINE a == Sum(rs, TeamOf(m))
           b == Sum(rs, Indices \ TeamOf(m))
<1>1. a \in Nat /\ b \in Nat /\ Sum(rs, Indices) = a + b
  BY SumTypes
<1>2. Delta(rs, m) = IF 2 * a - (a + b) < 0 THEN -(2 * a - (a + b)) ELSE 2 * a - (a + b)
  BY <1>1 DEF Delta
<1>3. Delta(rs, n) = IF 2 * b - (a + b) < 0 THEN -(2 * b - (a + b)) ELSE 2 * b - (a + b)
  BY <1>1 DEF Delta
<1> HIDE DEF a, b
<1> QED
  BY <1>1, <1>2, <1>3

-----------------------------------------------------------------------------
(* The loop invariant.  Until the loop meets a split nothing is found yet;  *)
(* then the best split so far wins against every split before mask: by its  *)
(* difference, at the same difference by the sum of team A, and at the same *)
(* sum by coming first.                                                     *)
NothingYet == best_delta = U32_MAX /\ best_a_sum = 0 /\ \A m \in Splits : mask <= m

Wins(m) ==
    \/ best_delta < Delta(ratings, m)
    \/ best_delta = Delta(ratings, m) /\ best_a_sum > Sum(ratings, TeamOf(m))
    \/ best_delta = Delta(ratings, m) /\ best_a_sum = Sum(ratings, TeamOf(m)) /\ best_mask <= m

BestSoFar ==
    /\ best_mask \in Splits /\ best_mask < mask
    /\ best_delta = Delta(ratings, best_mask)
    /\ best_a_sum = Sum(ratings, TeamOf(best_mask))
    /\ \A m \in Splits : m < mask => Wins(m)

LoopInv ==
    /\ ratings \in Ratings
    /\ mask \in 0 .. 2^MATCH_SIZE
    /\ NothingYet \/ BestSoFar

(* Before the loop nothing is found. *)
LEMMA InitLoop == Init => LoopInv
<1> SUFFICES ASSUME Init PROVE LoopInv
  OBVIOUS
<1>1. \A m \in Splits : mask <= m
  BY SplitType DEF Init
<1> QED
  BY <1>1, SizesAreNumbers DEF Init, LoopInv, NothingYet, Ratings

(* An iteration keeps the invariant, whether the split replaces the best or not. *)
LEMMA IterateLoop ==
  ASSUME LoopInv, Iterate
  PROVE  LoopInv'
<1>1. ratings' = ratings /\ ratings \in Ratings /\ mask \in Nat /\ mask' = mask + 1
  BY SizesAreNumbers DEF LoopInv, Iterate
<1>2. mask' \in 0 .. 2^MATCH_SIZE
  BY <1>1, SizesAreNumbers DEF Iterate
<1>3. \A m \in Splits : m < mask' <=> m < mask \/ m = mask
  BY <1>1, SplitType
<1>4. \A m : Delta(ratings, m) \in Nat /\ Delta(ratings, m) < U32_MAX
             /\ Sum(ratings, TeamOf(m)) \in Nat
  BY <1>1, DeltaType, SumTypes
<1>5. U32_MAX \in Nat
  BY TeamsAssumption
<1> DEFINE D(m) == Delta(ratings, m)
           A(m) == Sum(ratings, TeamOf(m))
<1>6. CASE mask \in Splits /\ Better(D(mask), A(mask))
  <2>1. best_delta' = D(mask) /\ best_a_sum' = A(mask) /\ best_mask' = mask
    BY <1>6 DEF Iterate
  <2>2. ASSUME NEW m \in Splits, m < mask'
        PROVE  \/ D(mask) < D(m)
               \/ D(mask) = D(m) /\ A(mask) > A(m)
               \/ D(mask) = D(m) /\ A(mask) = A(m) /\ mask <= m
    <3>1. CASE m = mask
      BY <3>1, <1>1, <1>4
    <3>2. CASE m < mask
      <4>1. BestSoFar /\ Wins(m)
        BY <1>1, <3>2, SplitType DEF LoopInv, NothingYet, BestSoFar
      <4>2. best_delta \in Nat /\ best_a_sum \in Nat
        BY <1>4, <4>1 DEF BestSoFar
      <4>3. \/ best_delta < D(m)
            \/ best_delta = D(m) /\ best_a_sum >= A(m)
        BY <1>4, <4>1, <4>2 DEF Wins
      <4>4. \/ D(mask) < best_delta
            \/ D(mask) = best_delta /\ A(mask) > best_a_sum
        BY <1>6 DEF Better
      <4>5. D(m) \in Nat /\ D(mask) \in Nat /\ A(m) \in Nat /\ A(mask) \in Nat
        BY <1>4
      <4> HIDE DEF D, A
      <4> QED
        BY <4>2, <4>3, <4>4, <4>5
    <3> QED
      BY <1>3, <2>2, <3>1, <3>2
  <2>3. BestSoFar'
    <3>1. ASSUME NEW m \in Splits, m < mask' PROVE Wins(m)'
      BY <1>1, <2>1, <2>2, <3>1 DEF Wins
    <3> QED
      BY <1>1, <1>6, <2>1, <3>1 DEF BestSoFar
  <2> QED
    BY <1>1, <1>2, <2>3 DEF LoopInv
<1>7. CASE ~(mask \in Splits /\ Better(D(mask), A(mask)))
  <2>1. UNCHANGED <<best_mask, best_delta, best_a_sum>>
    BY <1>7 DEF Iterate
  <2>2. CASE NothingYet
    <3>1. mask \notin Splits
      BY <1>4, <1>5, <1>7, <2>2 DEF NothingYet, Better
    <3>2. \A m \in Splits : mask' <= m
      BY <1>1, <2>2, <3>1, SplitType DEF NothingYet
    <3> QED
      BY <1>1, <1>2, <2>1, <2>2, <3>2 DEF NothingYet, LoopInv
  <2>3. CASE BestSoFar
    <3>1. best_delta \in Nat /\ best_a_sum \in Nat /\ best_mask \in Nat
      BY <1>4, <2>3, SplitType DEF BestSoFar
    <3>2. ASSUME NEW m \in Splits, m < mask' PROVE Wins(m)
      <4>1. CASE m < mask
        BY <2>3, <4>1 DEF BestSoFar
      <4>2. CASE m = mask
        <5>1. ~Better(D(m), A(m))
          BY <1>7, <4>2
        <5>2. best_mask <= m
          BY <1>1, <2>3, <3>1, <4>2 DEF BestSoFar
        <5> QED
          BY <1>4, <3>1, <5>1, <5>2 DEF Better, Wins
      <4> QED
        BY <1>3, <3>2, <4>1, <4>2
    <3>3. best_mask < mask'
      BY <1>1, <2>3, <3>1 DEF BestSoFar
    <3>4. BestSoFar'
      BY <1>1, <2>1, <2>3, <3>2, <3>3 DEF BestSoFar, Wins
    <3> QED
      BY <1>1, <1>2, <3>4 DEF LoopInv
  <2> QED
    BY <2>2, <2>3 DEF LoopInv
<1> QED
  BY <1>6, <1>7

(* The invariant holds throughout the loop. *)
LEMMA LoopInvariant == Spec => []LoopInv
<1>1. ASSUME LoopInv, [Iterate]_vars PROVE LoopInv'
  <2>1. CASE Iterate
    BY <1>1, <2>1, IterateLoop
  <2>2. CASE UNCHANGED vars
    BY <1>1, <2>2 DEF vars, LoopInv, NothingYet, BestSoFar, Wins
  <2> QED
    BY <1>1, <2>1, <2>2
<1> QED
  BY <1>1, InitLoop, PTL DEF Spec

(* After the last mask a split was found, and it wins against all others. *)
LEMMA BestAtEnd ==
  ASSUME LoopInv, Done
  PROVE  BestSoFar /\ \A m \in Splits : Wins(m)
<1>1. \A m \in Splits : m \in Nat /\ m < mask
  BY SplitType DEF Done
<1>2. ~NothingYet
  <2>1. PICK m : m \in Splits
    BY SplitsNotEmpty
  <2>2. mask \in Nat
    BY SizesAreNumbers DEF Done
  <2> QED
    BY <1>1, <2>1, <2>2 DEF NothingYet
<1> QED
  BY <1>1, <1>2 DEF LoopInv, BestSoFar

-----------------------------------------------------------------------------
(* For every team size and all ratings the loop of exhaustive_balance ends  *)
(* with two full teams of the least rating difference.                      *)
THEOREM BalanceIsOptimal == Spec => []Optimal
<1>1. ASSUME LoopInv PROVE Optimal
  <2> SUFFICES ASSUME Done
               PROVE  /\ Cardinality(team_a) = TEAM_SIZE /\ Cardinality(team_b) = TEAM_SIZE
                      /\ best_delta = Delta(ratings, best_mask)
                      /\ \A m \in Splits : best_delta <= Delta(ratings, m)
    BY DEF Optimal
  <2>1. BestSoFar /\ \A m \in Splits : Wins(m)
    BY <1>1, BestAtEnd
  <2>2. Cardinality(team_a) = TEAM_SIZE
    BY <2>1 DEF BestSoFar, Splits, team_a
  <2>3. Cardinality(team_b) = TEAM_SIZE
    BY <2>1, OtherTeam DEF BestSoFar, team_a, team_b
  <2>4. best_delta = Delta(ratings, best_mask)
    BY <2>1 DEF BestSoFar
  <2>5. ASSUME NEW m \in Splits PROVE best_delta <= Delta(ratings, m)
    <3>1. Delta(ratings, best_mask) \in Nat /\ Delta(ratings, m) \in Nat
      BY <1>1, DeltaType DEF LoopInv
    <3> QED
      BY <2>1, <2>4, <3>1 DEF Wins
  <2> QED
    BY <2>2, <2>3, <2>4, <2>5
<1> QED
  BY <1>1, LoopInvariant, PTL

(* Of the equally good splits the loop keeps the one with the strongest     *)
(* team A, and of these the lowest mask, so that team A is never the weaker *)
(* one.  The result is a function of the slice in its order.                *)
THEOREM LoopComputesFirstBest == Spec => []LoopFindsFirstBest
<1>1. ASSUME LoopInv PROVE LoopFindsFirstBest
  <2> SUFFICES ASSUME Done
               PROVE  /\ best_mask = FirstBest(ratings)
                      /\ Sum(ratings, team_a) >= Sum(ratings, team_b)
    BY DEF LoopFindsFirstBest
  <2> DEFINE D(m) == Delta(ratings, m)
             A(m) == Sum(ratings, TeamOf(m))
             b == best_mask
  <2>1. BestSoFar /\ \A m \in Splits : Wins(m)
    BY <1>1, BestAtEnd
  <2>2. b \in Splits /\ \A m \in Splits :
            \/ D(b) < D(m)
            \/ D(b) = D(m) /\ A(b) > A(m)
            \/ D(b) = D(m) /\ A(b) = A(m) /\ b <= m
    BY <2>1 DEF BestSoFar, Wins
  <2>3. \A m : D(m) \in Nat /\ A(m) \in Nat
    BY <1>1, DeltaType, SumTypes DEF LoopInv
  <2>4. \A m \in Splits : m \in Nat
    BY SplitType
  <2>5. BestSplits(ratings) = {m \in Splits : \A n \in Splits :
            D(m) < D(n) \/ (D(m) = D(n) /\ A(m) >= A(n))}
    BY Zenon DEF BestSplits
  <2> HIDE DEF D, A, b
  <2>6. b \in BestSplits(ratings)
    BY <2>2, <2>3, <2>5
  <2>7. ASSUME NEW m \in BestSplits(ratings) PROVE m \in Nat /\ b <= m
    <3>1. m \in Splits
      BY <2>5
    <3>2. D(m) < D(b) \/ (D(m) = D(b) /\ A(m) >= A(b))
      BY <2>2, <2>5
    <3> QED
      BY <2>2, <2>3, <2>4, <3>1, <3>2
  <2>8. FirstBest(ratings) = b
    <3> DEFINE F == FirstBest(ratings)
    <3>1. F \in BestSplits(ratings) /\ \A y \in BestSplits(ratings) : F <= y
      BY <2>6, <2>7, Zenon DEF FirstBest, Min
    <3>2. F <= b /\ b <= F /\ F \in Nat /\ b \in Nat
      BY <2>6, <2>7, <3>1
    <3> HIDE DEF F
    <3>3. F = b
      BY <3>2
    <3> QED
      BY <3>3 DEF F
  <2>9. Sum(ratings, team_a) >= Sum(ratings, team_b)
    <3>1. PICK n \in Splits : TeamOf(n) = Indices \ TeamOf(b)
      BY <2>2, OtherTeam
    <3>2. D(n) = D(b)
      BY <1>1, <3>1, DeltaOfSwap DEF LoopInv, D
    <3>3. A(b) >= A(n)
      BY <2>2, <2>3, <3>2
    <3> QED
      BY <3>1, <3>3 DEF A, b, team_a, team_b
  <2> QED
    BY <2>8, <2>9 DEF b
<1> QED
  BY <1>1, LoopInvariant, PTL
=============================================================================
