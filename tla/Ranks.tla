-------------------------------- MODULE Ranks --------------------------------
(***************************************************************************)
(* Positions and ranks: a scan that keeps some of the positions of a       *)
(* sequence, in order, puts what it keeps of position i at the rank of i   *)
(* among the positions kept so far.                                        *)
(***************************************************************************)
EXTENDS FiniteSetTheorems, SequenceTheorems, WellFoundedInduction, TLAPS

\* The number of members of S up to i.
RankOf(i, S) == Cardinality({j \in S : j <= i})

\* Positions below a bound are finitely many.
LEMMA PositionsFinite ==
    ASSUME NEW n \in Nat, NEW S, S \subseteq 1 .. n
    PROVE  IsFiniteSet(S) /\ Cardinality(S) \in Nat
<1>1. IsFiniteSet(1 .. n)
  BY FS_Interval
<1>2. IsFiniteSet(S)
  BY <1>1, FS_Subset
<1>3. QED
  BY <1>2, FS_CardinalityType

\* The rank of a member is a position among as many as there are members.
LEMMA RankInRange ==
    ASSUME NEW n \in Nat, NEW S, S \subseteq 1 .. n, NEW i \in S
    PROVE  RankOf(i, S) \in 1 .. Cardinality(S)
<1> DEFINE below == {j \in S : j <= i}
<1>1. IsFiniteSet(S) /\ Cardinality(S) \in Nat
  BY PositionsFinite
<1>2. i \in below /\ below \in SUBSET S
  OBVIOUS
<1> HIDE DEF below
<1>3. IsFiniteSet(below) /\ Cardinality(below) <= Cardinality(S)
  BY <1>1, <1>2, FS_Subset
<1>4. Cardinality(below) \in Nat /\ Cardinality(below) # 0
  BY <1>2, <1>3, FS_CardinalityType, FS_EmptySet
<1>5. QED
  BY <1>1, <1>3, <1>4 DEF RankOf, below

\* A position above all members becomes the last one: the ranks of the others
\* stay.
LEMMA LastRank ==
    ASSUME NEW n \in Nat, NEW S, S \subseteq 1 .. n, NEW k \in Nat, k > n
    PROVE  /\ Cardinality(S \cup {k}) = Cardinality(S) + 1
           /\ RankOf(k, S \cup {k}) = Cardinality(S) + 1
           /\ \A i \in S : RankOf(i, S \cup {k}) = RankOf(i, S)
<1>0. IsFiniteSet(S)
  BY PositionsFinite
<1>1. \A j \in S : j \in Nat /\ j < k
  OBVIOUS
<1>2. Cardinality(S \cup {k}) = Cardinality(S) + 1
  BY <1>0, <1>1, FS_AddElement
<1>3. {j \in S \cup {k} : j <= k} = S \cup {k}
  <2>1. \A j \in S \cup {k} : j <= k
    BY <1>1
  <2>2. QED
    BY <2>1
<1>4. \A i \in S : {j \in S \cup {k} : j <= i} = {j \in S : j <= i}
  BY <1>1
<1>5. QED
  BY <1>2, <1>3, <1>4 DEF RankOf

\* From one position to the next a rank grows by the member that is there.
LEMMA RankStep ==
    ASSUME NEW n \in Nat, NEW S, S \subseteq 1 .. n, NEW p \in Nat, p >= 1
    PROVE  /\ RankOf(p - 1, S) \in Nat /\ RankOf(p, S) \in Nat
           /\ p \in S => RankOf(p, S) = RankOf(p - 1, S) + 1
           /\ p \notin S => RankOf(p, S) = RankOf(p - 1, S)
<1> DEFINE below == {j \in S : j <= p - 1}
           upTo  == {j \in S : j <= p}
<1>1. IsFiniteSet(S)
  BY PositionsFinite
<1>2. IsFiniteSet(below) /\ IsFiniteSet(upTo)
  BY <1>1, FS_Subset
<1>3. Cardinality(below) \in Nat /\ Cardinality(upTo) \in Nat
  BY <1>2, FS_CardinalityType
<1>4. \A j \in S : j \in Nat /\ (j <= p <=> j <= p - 1 \/ j = p)
  OBVIOUS
<1>5. p \in S => upTo = below \cup {p}
  <2> SUFFICES ASSUME p \in S PROVE upTo = below \cup {p}
    OBVIOUS
  <2>1. \A j : j \in upTo <=> j \in below \cup {p}
    BY <1>4
  <2> HIDE DEF below, upTo
  <2>2. QED
    BY <2>1
<1>6. p \notin S => upTo = below
  <2> SUFFICES ASSUME p \notin S PROVE upTo = below
    OBVIOUS
  <2>1. \A j : j \in upTo <=> j \in below
    BY <1>4
  <2> HIDE DEF below, upTo
  <2>2. QED
    BY <2>1
<1>7. p \notin below
  OBVIOUS
<1> HIDE DEF below, upTo
<1>8. p \in S => Cardinality(upTo) = Cardinality(below) + 1
  BY <1>2, <1>5, <1>7, FS_AddElement
<1>9. QED
  BY <1>3, <1>6, <1>8 DEF RankOf, below, upTo

\* No member is up to 0, and all are up to the bound.
LEMMA FirstRank ==
    ASSUME NEW n \in Nat, NEW S, S \subseteq 1 .. n
    PROVE  RankOf(0, S) = 0 /\ RankOf(n, S) = Cardinality(S)
<1>0. \A j \in S : ~(j <= 0) /\ j <= n
  OBVIOUS
<1>1. {j \in S : j <= 0} = {}
  BY <1>0, Zenon
<1>2. {j \in S : j <= n} = S
  BY <1>0, Zenon
<1>3. QED
  BY <1>1, <1>2, FS_EmptySet DEF RankOf

\* Ranks grow with the positions, strictly where there is a member.
LEMMA RankGrows ==
    ASSUME NEW n \in Nat, NEW S, S \subseteq 1 .. n, NEW i \in Nat, NEW j \in Nat, i < j
    PROVE  /\ RankOf(i, S) \in Nat /\ RankOf(j, S) \in Nat
           /\ RankOf(i, S) <= RankOf(j, S)
           /\ j \in S => RankOf(i, S) < RankOf(j, S)
<1> DEFINE below == {k \in S : k <= i}
           upTo  == {k \in S : k <= j}
<1>0. IsFiniteSet(S)
  BY PositionsFinite
<1>1. IsFiniteSet(upTo) /\ IsFiniteSet(below)
  BY <1>0, FS_Subset
<1>2. below \in SUBSET upTo
  <2>1. \A k \in S : k <= i => k <= j
    OBVIOUS
  <2>2. QED
    BY <2>1
<1>3. j \in S => j \in upTo /\ j \notin below
  OBVIOUS
<1> HIDE DEF below, upTo
<1>4. Cardinality(below) \in Nat /\ Cardinality(upTo) \in Nat
  BY <1>1, FS_CardinalityType
<1>5. Cardinality(below) <= Cardinality(upTo)
  BY <1>1, <1>2, FS_Subset
<1>6. j \in S => Cardinality(below) < Cardinality(upTo)
  <2> SUFFICES ASSUME j \in S PROVE Cardinality(below) < Cardinality(upTo)
    OBVIOUS
  <2>1. below # upTo
    BY <1>3
  <2>2. Cardinality(below) # Cardinality(upTo)
    BY <1>1, <1>2, <2>1, FS_Subset
  <2>3. QED
    BY <1>4, <1>5, <2>2
<1>7. QED
  BY <1>4, <1>5, <1>6 DEF RankOf, below, upTo

\* Every rank is taken.
LEMMA RankTaken ==
    ASSUME NEW n \in Nat, NEW S, S \subseteq 1 .. n, NEW k \in 1 .. Cardinality(S)
    PROVE  \E i \in S : RankOf(i, S) = k
<1> DEFINE reached == {p \in Nat : RankOf(p, S) >= k}
<1>1. k \in Nat /\ k >= 1
  OBVIOUS
<1>2. n \in reached
  <2>1. Cardinality(S) \in Nat
    BY PositionsFinite
  <2>2. RankOf(n, S) = Cardinality(S)
    BY FirstRank
  <2>3. QED
    BY <2>1, <2>2
<1>3. PICK p \in reached : \A q \in reached : <<q, p>> \notin OpToRel(<, Nat)
  <2>1. reached \subseteq Nat /\ reached # {}
    BY <1>2
  <2> HIDE DEF reached
  <2>2. QED
    BY <2>1, NatLessThanWellFounded, WFMin
<1>4. p \in Nat /\ RankOf(p, S) >= k
  OBVIOUS
<1>5. p >= 1
  <2>1. RankOf(0, S) = 0
    BY FirstRank
  <2>2. p # 0
    BY <1>1, <1>4, <2>1
  <2>3. QED
    BY <1>4, <2>2
<1>6. ~(RankOf(p - 1, S) >= k)
  <2>1. p - 1 \in Nat /\ p - 1 < p
    BY <1>4, <1>5
  <2>2. p - 1 \notin reached
    BY <1>3, <1>4, <2>1 DEF OpToRel
  <2>3. QED
    BY <2>1, <2>2
<1> HIDE DEF reached
<1>7. /\ RankOf(p - 1, S) \in Nat /\ RankOf(p, S) \in Nat
      /\ p \in S => RankOf(p, S) = RankOf(p - 1, S) + 1
      /\ p \notin S => RankOf(p, S) = RankOf(p - 1, S)
  BY <1>4, <1>5, RankStep
<1>8. p \in S /\ RankOf(p, S) = k
  <2>1. p \in S
    BY <1>4, <1>6, <1>7
  <2>2. QED
    BY <1>1, <1>4, <1>6, <1>7, <2>1
<1>9. QED
  BY <1>8

----------------------------------------------------------------------------
\* Induction for a set of numbers.
LEMMA SetInduction ==
    ASSUME NEW S, 0 \in S, \A n \in Nat : n \in S => n + 1 \in S
    PROVE  \A n \in Nat : n \in S
<1> SUFFICES ASSUME NEW k \in Nat, k \notin S PROVE FALSE
  OBVIOUS
<1> DEFINE missing == {n \in Nat : n \notin S}
<1>1. PICK least \in missing : \A n \in missing : <<n, least>> \notin OpToRel(<, Nat)
  <2>1. missing \subseteq Nat /\ missing # {}
    OBVIOUS
  <2> HIDE DEF missing
  <2>2. QED
    BY <2>1, NatLessThanWellFounded, WFMin
<1>2. least \in Nat /\ least \notin S
  OBVIOUS
<1>3. least # 0 /\ least - 1 \in Nat /\ least - 1 < least
  BY <1>2
<1>4. least - 1 \notin missing
  BY <1>1, <1>2, <1>3 DEF OpToRel
<1>5. least - 1 \in S
  BY <1>3, <1>4
<1>6. QED
  BY <1>2, <1>3, <1>5
=============================================================================
