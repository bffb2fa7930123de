---------------------------- MODULE PagingProofs ----------------------------
(***************************************************************************)
(* What the loads in pages rely on, for every list and page size: places   *)
(* have no gaps, so that an empty page is behind the end, and the pages    *)
(* counted reach the end.                                                  *)
(***************************************************************************)
EXTENDS Paging, FiniteSetTheorems, WellFoundedInduction, TLAPS

\* A set of numbers has a least one.
LEMMA LeastNumber ==
  ASSUME NEW T \in SUBSET Nat, T # {}
  PROVE  \E m \in T : \A n \in T : m <= n
<1>1. PICK m \in T : \A n \in T : <<n, m>> \notin OpToRel(<, Nat)
  BY WFMin, NatLessThanWellFounded
<1>2. \A n \in T : ~(n < m)
  BY <1>1 DEF OpToRel
<1> QED BY <1>2

\* A finite set of numbers has a greatest one: the least of its upper bounds.
LEMMA GreatestNumber ==
  ASSUME NEW T \in SUBSET Nat, T # {}, NEW b \in Nat, \A n \in T : n <= b
  PROVE  \E m \in T : \A n \in T : n <= m
<1> DEFINE bounds == {u \in Nat : \A n \in T : n <= u}
<1>1. bounds # {} /\ bounds \subseteq Nat
  OBVIOUS
<1>2. PICK m \in bounds : \A u \in bounds : m <= u
  BY <1>1, LeastNumber
<1>3. ASSUME m \notin T PROVE FALSE
  <2>1. \A n \in T : n < m
    BY <1>2, <1>3
  <2>2. m \in Nat /\ m # 0 /\ m - 1 \in Nat
    <3>1. PICK t \in T : t \in Nat /\ t < m
      BY <2>1
    <3> QED BY <1>2, <3>1
  <2>3. \A n \in T : n <= m - 1
    BY <2>1, <2>2
  <2>4. m - 1 \in bounds /\ ~(m <= m - 1)
    BY <2>2, <2>3
  <2> QED BY <1>2, <2>4
<1> QED BY <1>2, <1>3

\* The pages reach the last item, and one page is enough for as many items as it takes.
LEMMA PagesSuffice ==
  ASSUME NEW n \in Nat
  PROVE  /\ PageCount(n) \in Nat
         /\ n <= PageCount(n) * PageSize
         /\ n <= PageSize => PageCount(n) = 1
<1> DEFINE k == n + PageSize - 1
           q == k \div PageSize
<1>1. PageSize \in Nat \ {0} /\ k \in Nat
  BY PageSizeAssumption
<1>2. q \in Nat /\ q * PageSize <= k /\ k < q * PageSize + PageSize /\ q * PageSize \in Nat
  BY <1>1
<1>3. n <= PageSize /\ n # 0 => q = 1
  <2> SUFFICES ASSUME n <= PageSize, n # 0 PROVE q = 1
    OBVIOUS
  <2>1. k >= PageSize /\ k < PageSize + PageSize
    BY <1>1
  <2>2. q # 0
    BY <1>1, <1>2, <2>1
  <2>3. q >= 2 => q * PageSize >= PageSize + PageSize
    BY <1>1, <1>2
  <2> HIDE DEF q, k
  <2> QED BY <1>1, <1>2, <2>1, <2>2, <2>3
<1>4. n <= q * PageSize
  <2> DEFINE s == q * PageSize
  <2> HIDE DEF q
  <2> QED BY <1>1, <1>2
<1> QED BY <1>1, <1>2, <1>3, <1>4 DEF PageCount

\* An item has a place from 1 to the number of items.
LEMMA RankBounds ==
  ASSUME NEW S \in SUBSET Nat, IsFiniteSet(S), NEW i \in S
  PROVE  Rank(S, i) \in 1..Cardinality(S)
<1> DEFINE upTo == {j \in S : j <= i}
<1>1. IsFiniteSet(upTo) /\ Cardinality(upTo) <= Cardinality(S)
  BY FS_Subset
<1>2. Cardinality(upTo) \in Nat /\ Cardinality(S) \in Nat
  BY <1>1, FS_CardinalityType
<1>3. Cardinality(upTo) # 0
  BY <1>1, FS_EmptySet
<1> QED BY <1>1, <1>2, <1>3 DEF Rank

\* Before the first item that is placed behind k, there is none or one at place k at most.
LEMMA FirstBehind ==
  ASSUME NEW S \in SUBSET Nat, IsFiniteSet(S), NEW k \in Nat,
         NEW m \in S, \A n \in S : n < m => Rank(S, n) <= k
  PROVE  Rank(S, m) <= k + 1
<1> DEFINE below == {n \in S : n < m}
<1>1. /\ IsFiniteSet(below)
      /\ m \notin below /\ m \in Nat /\ below \subseteq Nat
      /\ {j \in S : j <= m} = below \cup {m}
  <2>1. IsFiniteSet(below)
    BY FS_Subset
  <2>2. \A j \in S : j \in Nat /\ m \in Nat
    OBVIOUS
  <2>3. \A j \in S : j <= m <=> (j < m \/ j = m)
    BY <2>2
  <2>4. {j \in S : j <= m} = below \cup {m}
    BY <2>3
  <2>5. m \in Nat /\ below \subseteq Nat
    OBVIOUS
  <2>6. m \notin below
    <3>1. ~(m < m)
      BY <2>5
    <3> QED BY <3>1
  <2> QED BY <2>1, <2>4, <2>5, <2>6
<1>2. Cardinality(below \cup {m}) = Cardinality(below) + 1
  BY <1>1, FS_AddElement
<1>3. Cardinality(below) <= k
  <2>1. CASE below = {}
    BY <2>1, FS_EmptySet
  <2>2. CASE below # {}
    <3>1. PICK g \in below : \A n \in below : n <= g
      <4>1. \A n \in below : n <= m
        BY <1>1
      <4> HIDE DEF below
      <4> QED BY <1>1, <2>2, <4>1, GreatestNumber
    <3>2. below = {j \in S : j <= g}
      <4>1. \A j \in S : j \in Nat /\ g \in Nat /\ m \in Nat /\ g < m
        BY <3>1
      <4>2. \A j \in S : j < m <=> j <= g
        BY <3>1, <4>1
      <4> QED BY <4>2
    <3> QED BY <3>1, <3>2 DEF Rank
  <2> QED BY <2>1, <2>2
<1>4. Cardinality(below) \in Nat
  BY <1>1, FS_CardinalityType
<1> QED BY <1>1, <1>2, <1>3, <1>4 DEF Rank

\* Places have no gaps: an item behind place k means that there is one at place k + 1.
LEMMA PlacesHaveNoGaps ==
  ASSUME NEW S \in SUBSET Nat, IsFiniteSet(S), NEW k \in Nat, NEW i \in S, Rank(S, i) > k
  PROVE  \E m \in S : Rank(S, m) = k + 1
<1> DEFINE behind == {n \in S : Rank(S, n) > k}
<1>1. behind \in SUBSET Nat /\ behind # {}
  OBVIOUS
<1>2. PICK m \in behind : \A n \in behind : m <= n
  BY <1>1, LeastNumber
<1>3. \A n \in S : Rank(S, n) \in Nat
  BY RankBounds
<1>4. \A n \in S : n < m => Rank(S, n) <= k
  BY <1>2, <1>3
<1>5. Rank(S, m) <= k + 1
  BY <1>2, <1>4, FirstBehind
<1> QED BY <1>2, <1>3, <1>5

(***************************************************************************)
(* A page that is empty is behind the end of the list: nothing is placed   *)
(* behind the pages before it.                                             *)
(***************************************************************************)
LEMMA EmptyPageIsLast ==
  ASSUME NEW S \in SUBSET Nat, IsFiniteSet(S), NEW done \in Nat, PageOf(S, done + 1) = {}
  PROVE  \A i \in S : Rank(S, i) <= done * PageSize
<1> SUFFICES ASSUME NEW i \in S, ~(Rank(S, i) <= done * PageSize) PROVE FALSE
  OBVIOUS
<1> DEFINE k == done * PageSize
<1>1. k \in Nat /\ PageSize \in Nat \ {0} /\ (done + 1) * PageSize = k + PageSize
      /\ (done + 1) - 1 = done
  BY PageSizeAssumption
<1>2. Rank(S, i) \in Nat
  BY RankBounds
<1> HIDE DEF k
<1>3. PICK m \in S : Rank(S, m) = k + 1
  <2>1. Rank(S, i) > k
    BY <1>1, <1>2 DEF k
  <2> QED BY <1>1, <2>1, PlacesHaveNoGaps
<1>4. m \in PageOf(S, done + 1)
  BY <1>1, <1>3 DEF PageOf, k
<1> QED BY <1>4

\* What is placed behind the pages loaded is on the next page, or behind that too.
LEMMA NextPage ==
  ASSUME NEW S \in SUBSET Nat, IsFiniteSet(S), NEW done \in Nat, NEW i \in S,
         Rank(S, i) > done * PageSize
  PROVE  i \in PageOf(S, done + 1) \/ Rank(S, i) > (done + 1) * PageSize
<1>1. Rank(S, i) \in Nat /\ (done + 1) * PageSize \in Nat /\ (done + 1) - 1 = done
  BY RankBounds, PageSizeAssumption
<1> QED BY <1>1 DEF PageOf

\* With as many pages as were counted the list is complete.
LEMMA LastPageEnds ==
  ASSUME NEW S \in SUBSET Nat, IsFiniteSet(S), NEW done \in Nat, done >= PageCount(Cardinality(S))
  PROVE  \A i \in S : Rank(S, i) <= done * PageSize
<1> DEFINE n == Cardinality(S)
           c == PageCount(n)
<1>1. n \in Nat /\ PageSize \in Nat
  BY FS_CardinalityType, PageSizeAssumption
<1>2. c \in Nat /\ n <= c * PageSize
  BY <1>1, PagesSuffice
<1> HIDE DEF c
<1>3. c * PageSize <= done * PageSize /\ c * PageSize \in Nat /\ done * PageSize \in Nat
  BY <1>1, <1>2 DEF c
<1> QED BY <1>1, <1>2, <1>3, RankBounds

=============================================================================
