-------------------------- MODULE Selection_proofs --------------------------
(***************************************************************************)
(* Facts about the order and the relations of Selection.                   *)
(***************************************************************************)
EXTENDS Selection, WellFoundedInduction, FiniteSetTheorems, TLAPS

(* A non-empty set of naturals has a least element. *)
LEMMA LeastNat ==
  ASSUME NEW T \in SUBSET Nat, T # {}
  PROVE  \E x \in T : \A y \in T : x <= y
<1>1. IsWellFoundedOn(OpToRel(<, Nat), Nat)
  BY NatLessThanWellFounded
<1>2. PICK x \in T : \A y \in T : ~ (<<y, x>> \in OpToRel(<, Nat))
  BY <1>1, WFMin
<1>3. \A y \in T : ~ (y < x)
  BY <1>2 DEF OpToRel
<1> QED
  BY <1>3

(* The visiting order is a strict total order in which every non-empty set  *)
(* of ids has a first element.                                              *)
LEMMA BeforeIsTotal ==
  ASSUME NEW I \in SUBSET Nat, NEW rec \in [I -> Record]
  PROVE  \A c, d \in I : /\ ~ (Before(rec, c, d) /\ Before(rec, d, c))
                         /\ c = d \/ Before(rec, c, d) \/ Before(rec, d, c)
BY DEF Before, Record, Rank

LEMMA BeforeIsTransitive ==
  ASSUME NEW I \in SUBSET Nat, NEW rec \in [I -> Record]
  PROVE  \A c, d, e \in I : Before(rec, c, d) /\ Before(rec, d, e) => Before(rec, c, e)
BY DEF Before, Record, Rank

LEMMA FirstExists ==
  ASSUME NEW I \in SUBSET Nat, NEW rec \in [I -> Record], NEW S \in SUBSET I, S # {}
  PROVE  \E k \in S : \A j \in S \ {k} : Before(rec, k, j)
<1> DEFINE OfRank(r) == {c \in S : rec[c].rank = r}
<1>1. \A c \in S : rec[c].rank \in Rank
  BY DEF Record
<1>2. PICK r \in Rank : OfRank(r) # {} /\ \A q \in Rank : q > r => OfRank(q) = {}
  <2>1. OfRank(0) # {} \/ OfRank(1) # {} \/ OfRank(2) # {}
    <3>1. PICK c \in S : TRUE
      OBVIOUS
    <3> QED
      BY <1>1, <3>1 DEF Rank
  <2>2. \A q \in Rank : q = 0 \/ q = 1 \/ q = 2
    BY DEF Rank
  <2>3. 0 \in Rank /\ 1 \in Rank /\ 2 \in Rank
    BY DEF Rank
  <2> HIDE DEF OfRank
  <2> QED
    BY <2>1, <2>2, <2>3
<1>3. PICK k \in OfRank(r) : \A j \in OfRank(r) : k <= j
  BY <1>2, LeastNat
<1>4. \A j \in S \ {k} : Before(rec, k, j)
  <2> SUFFICES ASSUME NEW j \in S \ {k} PROVE Before(rec, k, j)
    OBVIOUS
  <2>1. rec[j].rank <= r
    BY <1>1, <1>2 DEF Rank
  <2> QED
    BY <2>1, <1>1, <1>3 DEF Before, Rank
<1> QED
  BY <1>4


-----------------------------------------------------------------------------
(* What Kept implies for a set of records *)

LEMMA DuplicatesIsSymmetric ==
  ASSUME NEW r \in Record, NEW s \in Record
  PROVE  Duplicates(r, s) <=> Duplicates(s, r)
BY SimilarityAssumption DEF Duplicates, Record

(* Among kept records there are no two duplicates. *)
LEMMA KeptIsDistinct ==
  ASSUME NEW I \in SUBSET Nat, NEW rec \in [I -> Record], NEW K, Kept(K, rec),
         NEW c \in K, NEW d \in K, c # d
  PROVE  ~ Duplicates(rec[c], rec[d])
<1>1. c \in I /\ d \in I
  BY DEF Kept
<1>2. DuplicatedBy(K, rec, c) = {} /\ DuplicatedBy(K, rec, d) = {}
  BY <1>1 DEF Kept
<1>3. CASE Before(rec, c, d)
  BY <1>2, <1>3 DEF DuplicatedBy
<1>4. CASE Before(rec, d, c)
  BY <1>1, <1>2, <1>4, DuplicatesIsSymmetric DEF DuplicatedBy
<1> QED
  BY <1>1, <1>3, <1>4, BeforeIsTotal

(* A dropped record is reported under a kept one that comes before it and   *)
(* duplicates it.                                                           *)
LEMMA ReportedUnderKept ==
  ASSUME NEW I \in SUBSET Nat, NEW rec \in [I -> Record], NEW K, Kept(K, rec),
         NEW c \in I \ K
  PROVE  DuplicateOf(K, rec, c) \in DuplicatedBy(K, rec, c)
<1> DEFINE near  == DuplicatedBy(K, rec, c)
           equal == {k \in near : rec[k].text = rec[c].text}
           S     == IF equal # {} THEN equal ELSE near
<1>1. near # {} /\ near \subseteq I
  BY DEF Kept, DuplicatedBy
<1>2. S # {} /\ S \subseteq near
  BY <1>1
<1>3. \E k \in S : \A j \in S \ {k} : Before(rec, k, j)
  BY <1>1, <1>2, FirstExists
<1>4. DuplicateOf(K, rec, c) = CHOOSE k \in S : \A j \in S \ {k} : Before(rec, k, j)
  BY Zenon DEF DuplicateOf
<1> QED
  BY <1>2, <1>3, <1>4

-----------------------------------------------------------------------------
(* Counting: the diversity cap *)

(* A finite non-empty set of naturals has a greatest element: one that the  *)
(* fewest others exceed.                                                    *)
LEMMA GreatestNat ==
  ASSUME NEW T \in SUBSET Nat, IsFiniteSet(T), T # {}
  PROVE  \E y \in T : \A x \in T : x <= y
<1> DEFINE Above(c) == {d \in T : d > c}
           Counts == {Cardinality(Above(c)) : c \in T}
<1>1. \A c : IsFiniteSet(Above(c)) /\ Cardinality(Above(c)) \in Nat
  <2> TAKE c
  <2>1. Above(c) \in SUBSET T
    OBVIOUS
  <2> HIDE DEF Above
  <2> QED
    BY <2>1, FS_Subset, FS_CardinalityType
<1>2. PICK y \in T : \A x \in T : Cardinality(Above(y)) <= Cardinality(Above(x))
  <2>1. Counts \in SUBSET Nat /\ Counts # {}
    BY <1>1
  <2>2. PICK m \in Counts : \A k \in Counts : m <= k
    <3> HIDE DEF Counts
    <3> QED
      BY <2>1, LeastNat
  <2> QED
    BY <2>2
<1>3. ASSUME NEW x \in T, x > y PROVE FALSE
  <2>1. Above(x) \in SUBSET Above(y) /\ x \in Above(y) /\ x \notin Above(x)
    <3>1. x \in Nat /\ y \in Nat
      OBVIOUS
    <3>2. ASSUME NEW d \in Above(x) PROVE d \in T /\ d > y
      <4>1. d \in T /\ d > x /\ d \in Nat
        OBVIOUS
      <4> HIDE DEF Above
      <4> QED
        BY <1>3, <3>1, <4>1
    <3>3. ~ (x > x)
      BY <3>1
    <3> QED
      BY <1>3, <3>2, <3>3
  <2>2. Cardinality(Above(x)) <= Cardinality(Above(y)) /\ Cardinality(Above(x)) # Cardinality(Above(y))
    <3> HIDE DEF Above
    <3> QED
      BY <1>1, <2>1, FS_Subset
  <2>3. Cardinality(Above(y)) <= Cardinality(Above(x))
    BY <1>2
  <2> HIDE DEF Above
  <2> QED
    BY <1>1, <2>2, <2>3
<1> QED
  BY <1>3

(* The members of a set of ids that fewer than cap others precede are cap   *)
(* in number, or they are all of it.                                        *)
LEMMA FirstFew ==
  ASSUME NEW E \in SUBSET Nat, IsFiniteSet(E), NEW cap \in Nat, NEW Few,
         Few = {c \in E : Cardinality({d \in E : d < c}) < cap}
  PROVE  IsFiniteSet(Few) /\ Cardinality(Few) <= cap /\ (Few # E => Cardinality(Few) = cap)
<1> DEFINE Below(c) == {d \in E : d < c}
<1>1. \A c : Below(c) \in SUBSET E /\ IsFiniteSet(Below(c)) /\ Cardinality(Below(c)) \in Nat
  <2> TAKE c
  <2>1. Below(c) \in SUBSET E
    OBVIOUS
  <2> HIDE DEF Below
  <2> QED
    BY <2>1, FS_Subset, FS_CardinalityType
<1>2. ASSUME NEW c \in E, NEW d \in E, c < d
      PROVE  Cardinality(Below(c)) < Cardinality(Below(d))
  <2>1. Below(c) \in SUBSET Below(d) /\ c \in Below(d) /\ c \notin Below(c)
    <3>1. c \in Nat /\ d \in Nat
      OBVIOUS
    <3>2. ASSUME NEW e \in Below(c) PROVE e \in E /\ e < d
      <4>1. e \in E /\ e < c /\ e \in Nat
        OBVIOUS
      <4> HIDE DEF Below
      <4> QED
        BY <1>2, <3>1, <4>1
    <3>3. ~ (c < c)
      BY <3>1
    <3> QED
      BY <1>2, <3>2, <3>3
  <2> HIDE DEF Below
  <2>2. Cardinality(Below(c)) <= Cardinality(Below(d)) /\ Cardinality(Below(c)) # Cardinality(Below(d))
    BY <1>1, <2>1, FS_Subset
  <2> QED
    BY <1>1, <2>2
<1>3. Few \in SUBSET E /\ \A c \in E : c \in Few <=> Cardinality(Below(c)) < cap
  OBVIOUS
<1>4. IsFiniteSet(Few) /\ Cardinality(Few) \in Nat
  BY <1>3, FS_Subset, FS_CardinalityType
<1>5. Cardinality(Few) <= cap
  <2>1. CASE Few = {}
    <3>1. Cardinality(Few) = 0
      BY <2>1, FS_EmptySet
    <3> QED
      BY <3>1
  <2>2. CASE Few # {}
    <3>1. PICK y \in Few : \A x \in Few : x <= y
      BY <1>3, <1>4, <2>2, GreatestNat
    <3>2. Few = Below(y) \cup {y}
      <4>1. ASSUME NEW c \in Few PROVE c \in Below(y) \cup {y}
        BY <1>3, <3>1
      <4>2. ASSUME NEW c \in Below(y) PROVE c \in Few
        <5>1. c \in E /\ Cardinality(Below(c)) < Cardinality(Below(y))
          BY <1>2, <1>3
        <5>2. Cardinality(Below(y)) < cap
          BY <1>3
        <5> HIDE DEF Below
        <5> QED
          BY <1>1, <1>3, <5>1, <5>2
      <4> QED
        BY <4>1, <4>2
    <3>3. y \notin Below(y) /\ Cardinality(Below(y)) < cap
      BY <1>3
    <3> HIDE DEF Below
    <3>4. Cardinality(Few) = Cardinality(Below(y)) + 1
      BY <1>1, <3>2, <3>3, FS_AddElement
    <3> QED
      BY <1>1, <3>3, <3>4
  <2> QED
    BY <2>1, <2>2
<1>6. ASSUME Few # E PROVE Cardinality(Few) >= cap
  <2>1. PICK x \in E \ Few : \A y \in E \ Few : x <= y
    BY <1>3, <1>6, LeastNat
  <2>2. Few = Below(x)
    <3>1. ASSUME NEW c \in Few PROVE c < x
      <4>1. c \in E /\ c # x /\ Cardinality(Below(c)) < cap /\ ~ (Cardinality(Below(x)) < cap)
        BY <1>3, <2>1
      <4>2. ~ (x < c)
        <5> SUFFICES ASSUME x < c PROVE FALSE
          OBVIOUS
        <5>1. Cardinality(Below(x)) < Cardinality(Below(c))
          BY <1>2, <2>1, <4>1
        <5> HIDE DEF Below
        <5> QED
          BY <1>1, <4>1, <5>1
      <4> QED
        BY <2>1, <4>1, <4>2
    <3>2. ASSUME NEW c \in Below(x) PROVE c \in Few
      BY <2>1
    <3> QED
      BY <1>3, <3>1, <3>2
  <2>3. ~ (Cardinality(Below(x)) < cap)
    BY <1>3, <2>1
  <2>4. Cardinality(Few) = Cardinality(Below(x))
    BY <2>2
  <2> HIDE DEF Below
  <2> QED
    BY <1>1, <2>3, <2>4
<1> QED
  BY <1>4, <1>5, <1>6

\* The cap is a number of rows, at most 60% of what then stays and short of it by less than two.
LEMMA CapIsTheShare ==
  ASSUME NEW rest \in Nat, NEW all \in Nat, 4 * rest >= all
  PROVE  LET cap == EasyCap(rest, all)
         IN  cap \in Nat /\ 10 * cap <= 6 * (rest + cap) /\ 10 * (cap + 2) > 6 * (rest + cap + 2)
BY DEF EasyCap

(* What diversity_select leaves of a pack's train records it cuts from:     *)
(* all that are not easy, and exactly cap easy ones.                        *)
LEMMA CutLeavesCap ==
  ASSUME NEW I \in SUBSET Nat, NEW rec \in [I -> Record], NEW K \in SUBSET I, IsFiniteSet(K), NEW p,
         NEW S, S = Train(K, rec, p), NEW left, left = S \ EasyCut(K, rec), S # left
  PROVE  LET rest == Cardinality(S \ Easy(S, rec))
             cap  == EasyCap(rest, Cardinality(S))
         IN  /\ rest \in Nat /\ Cardinality(S) \in Nat /\ 4 * rest >= Cardinality(S)
             /\ Cardinality(Easy(left, rec)) = cap
             /\ Cardinality(left) = rest + cap
<1> DEFINE E == Easy(S, rec)
           rest == Cardinality(S \ E)
           cap  == EasyCap(rest, Cardinality(S))
           Few  == {c \in E : Cardinality({d \in E : d < c}) < cap}
<1>1. S \in SUBSET K /\ E \in SUBSET S /\ S \in SUBSET Nat
  BY DEF Train, Easy
<1>2. IsFiniteSet(S) /\ IsFiniteSet(E) /\ IsFiniteSet(S \ E) /\ Cardinality(S) \in Nat /\ rest \in Nat
  <2> HIDE DEF E
  <2>1. IsFiniteSet(S)
    BY <1>1, FS_Subset
  <2>2. IsFiniteSet(E) /\ IsFiniteSet(S \ E)
    BY <1>1, <2>1, FS_Subset
  <2> QED
    BY <2>1, <2>2, FS_CardinalityType
<1>3. \A c \in S : Train(K, rec, rec[c].pack) = S
  BY DEF Train
<1>4. \A c \in S : c \in EasyCut(K, rec) <=> Capped(S, rec) /\ c \in BeyondCap(S, rec)
  BY <1>1, <1>3 DEF EasyCut
<1>5. Capped(S, rec)
  BY <1>4
<1>6. 4 * rest >= Cardinality(S)
  BY <1>5 DEF Capped
<1>7. cap \in Nat
  <2> HIDE DEF rest
  <2> QED
    BY <1>2, <1>6, CapIsTheShare
<1>8. \A c \in E : Cardinality({d \in E : d < c}) \in Nat
  <2> TAKE c \in E
  <2>1. {d \in E : d < c} \in SUBSET E
    OBVIOUS
  <2> HIDE DEF E
  <2> QED
    BY <1>2, <2>1, FS_Subset, FS_CardinalityType
<1>9. \A c \in S : c \in BeyondCap(S, rec) <=> c \in E \ Few
  <2>1. BeyondCap(S, rec) = {c \in E : Cardinality({d \in E : d < c}) >= cap}
    BY DEF BeyondCap
  <2> HIDE DEF cap, E
  <2> QED
    BY <1>1, <1>7, <1>8, <2>1
<1>10. left = (S \ E) \cup Few /\ Easy(left, rec) = Few /\ Few # E
  <2>1. left = {c \in S : c \notin E \ Few}
    BY <1>4, <1>5, <1>9
  <2>2. Few \subseteq E
    OBVIOUS
  <2> HIDE DEF Few
  <2> QED
    BY <1>1, <2>1, <2>2 DEF Easy
<1>11. IsFiniteSet(Few) /\ Cardinality(Few) = cap
  <2>1. Few = {c \in E : Cardinality({d \in E : d < c}) < cap} /\ E \in SUBSET Nat
    BY <1>1
  <2>2. Cardinality(Few) \in Nat
    <3>1. Few \in SUBSET E
      OBVIOUS
    <3> HIDE DEF Few, E
    <3> QED
      BY <1>2, <3>1, FS_Subset, FS_CardinalityType
  <2> HIDE DEF E, cap, Few
  <2>3. IsFiniteSet(Few) /\ Cardinality(Few) <= cap /\ (Few # E => Cardinality(Few) = cap)
    BY <1>2, <1>7, <2>1, FirstFew
  <2> QED
    BY <1>10, <2>3
<1>12. Cardinality(left) = rest + cap
  <2>1. (S \ E) \cap Few = {}
    OBVIOUS
  <2>2. Cardinality((S \ E) \cap Few) = 0
    BY <2>1, FS_EmptySet
  <2>3. rest = Cardinality(S \ E)
    OBVIOUS
  <2> HIDE DEF Few, E, cap, rest
  <2>4. Cardinality((S \ E) \cup Few)
          = Cardinality(S \ E) + Cardinality(Few) - Cardinality((S \ E) \cap Few)
    BY <1>2, <1>11, FS_Union
  <2>5. Cardinality(left) = Cardinality((S \ E) \cup Few)
    BY <1>10
  <2>6. Cardinality(left) = Cardinality(S \ E) + cap - 0
    BY <1>11, <2>2, <2>4, <2>5
  <2>7. rest \in Nat /\ cap \in Nat
    BY <1>2, <1>7
  <2> QED
    BY <2>3, <2>6, <2>7
<1> QED
  BY <1>2, <1>6, <1>10, <1>11, <1>12
=============================================================================
