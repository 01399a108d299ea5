--------------------------- MODULE Dedupe_proofs ----------------------------
(***************************************************************************)
(* Dedupe's loop keeps the set Selection!Kept describes, for every input.  *)
(***************************************************************************)
EXTENDS Dedupe, Selection_proofs, TLAPS

-----------------------------------------------------------------------------
(* The loop invariant: the visited records come first, the kept set is the  *)
(* right one for them, `exact' has the keys of the kept records and the     *)
(* dropped ones are reported under the records Selection names.             *)
VisitedFirst == \A v \in visited, u \in Ids \ visited : Before(rec, v, u)
KeptSoFar    == \A c \in visited : c \in kept <=> DuplicatedBy(kept, rec, c) = {}
ExactIsKept  == exact = {[key |-> Key(k), id |-> k] : k \in kept}
DroppedSoFar == dropped = {<<c, DuplicateOf(kept, rec, c)>> : c \in visited \ kept}
DoneIsAll    == done => visited = Ids
OnlyEasyCut  == \A c \in cut : rec[c].rank = 0
LoopInv == TypeOK /\ VisitedFirst /\ KeptSoFar /\ ExactIsKept /\ DroppedSoFar /\ DoneIsAll
           /\ OnlyEasyCut

LEMMA OrderOfRecords ==
  ASSUME TypeOK
  PROVE  \A c, d \in Ids : /\ ~ (Before(rec, c, d) /\ Before(rec, d, c))
                           /\ c = d \/ Before(rec, c, d) \/ Before(rec, d, c)
BY InputAssumption DEF TypeOK, Before, Record, Rank

LEMMA OnlyEasyStays == LoopInv /\ UNCHANGED <<rec, cut>> => OnlyEasyCut'
BY DEF LoopInv, OnlyEasyCut

LEMMA InitLoop == Init => LoopInv
BY InputAssumption DEF Init, LoopInv, TypeOK, VisitedFirst, KeptSoFar, ExactIsKept, DroppedSoFar, DoneIsAll, OnlyEasyCut

(* At its turn a record follows every kept one, so its near records are     *)
(* those Selection compares it with, unless an equal text is among them.    *)
LEMMA TurnComesLater ==
  ASSUME LoopInv, NEW c \in Ids, Turn(c)
  PROVE  \A k \in visited : Before(rec, k, c) /\ ~ Before(rec, c, k) /\ k # c
BY OrderOfRecords DEF LoopInv, TypeOK, VisitedFirst, Turn

LEMMA DuplicatedByAtTurn ==
  ASSUME LoopInv, NEW c \in Ids, Turn(c)
  PROVE  DuplicatedBy(kept, rec, c) = {k \in kept : Key(k) = Key(c)} \cup Near(c)
BY TurnComesLater DEF LoopInv, TypeOK, DuplicatedBy, Duplicates, Near, Key

(* Keeping a record changes nothing for the records before it. *)
LEMMA DuplicatedByStable ==
  ASSUME LoopInv, NEW c \in Ids, Turn(c), NEW d \in visited
  PROVE  DuplicatedBy(kept \cup {c}, rec, d) = DuplicatedBy(kept, rec, d)
BY TurnComesLater DEF DuplicatedBy

(* Two kept records never have the same key. *)
LEMMA KeysDistinct ==
  ASSUME LoopInv, NEW k \in kept, NEW j \in kept, Key(k) = Key(j)
  PROVE  k = j
<1> USE DEF LoopInv, TypeOK
<1>1. k \in Ids /\ j \in Ids
  OBVIOUS
<1>2. Before(rec, k, j) => k \in DuplicatedBy(kept, rec, j)
  BY DEF DuplicatedBy, Duplicates, Key
<1>3. Before(rec, j, k) => j \in DuplicatedBy(kept, rec, k)
  BY DEF DuplicatedBy, Duplicates, Key
<1> QED
  BY <1>1, <1>2, <1>3, OrderOfRecords DEF KeptSoFar

LEMMA ExactIsReported ==
  ASSUME LoopInv, NEW c \in Ids, Turn(c), NEW k \in kept, Key(k) = Key(c)
  PROVE  DuplicateOf(kept, rec, c) = k
<1> DEFINE near  == DuplicatedBy(kept, rec, c)
           equal == {j \in near : rec[j].text = rec[c].text}
<1>1. k \in equal
  BY DuplicatedByAtTurn DEF Key
<1>2. \A j \in equal : Key(j) = Key(c) /\ j \in kept
  BY DEF DuplicatedBy, Duplicates, Key
<1>3. equal = {k}
  BY <1>1, <1>2, KeysDistinct
<1>4. DuplicateOf(kept, rec, c) = CHOOSE x \in equal : \A j \in equal \ {x} : Before(rec, x, j)
  BY <1>1 DEF DuplicateOf
<1> HIDE DEF equal
<1> QED
  BY <1>3, <1>4

LEMMA NearIsReported ==
  ASSUME LoopInv, NEW c \in Ids, Turn(c), Near(c) # {}, \A k \in kept : Key(k) # Key(c)
  PROVE  DuplicateOf(kept, rec, c) = FirstNear(c) /\ FirstNear(c) \in Near(c)
<1>1. DuplicatedBy(kept, rec, c) = Near(c)
  BY DuplicatedByAtTurn
<1>2. {j \in Near(c) : rec[j].text = rec[c].text} = {}
  BY DEF Near, Key
<1>3. DuplicateOf(kept, rec, c) = FirstNear(c)
  BY <1>1, <1>2 DEF DuplicateOf, FirstNear
<1>4. \E x \in Near(c) : \A j \in Near(c) \ {x} : Before(rec, x, j)
  BY FirstExists, InputAssumption DEF Near, LoopInv, TypeOK
<1> QED
  BY <1>3, <1>4 DEF FirstNear

-----------------------------------------------------------------------------
(* The visit of one record *)

LEMMA VisitDropped ==
  ASSUME LoopInv, NEW c \in Ids, Turn(c), NEW k \in kept,
         k = DuplicateOf(kept, rec, c), DuplicatedBy(kept, rec, c) # {},
         visited' = visited \cup {c}, dropped' = dropped \cup {<<c, k>>},
         UNCHANGED <<rec, kept, exact, cut, done>>
  PROVE  LoopInv'
<1> USE DEF LoopInv
<1>1. c \notin visited /\ c \notin kept
  BY DEF Turn, TypeOK
<1>2. TypeOK'
  BY DEF TypeOK
<1>3. VisitedFirst'
  BY DEF VisitedFirst, Turn, Before
<1>4. KeptSoFar'
  BY <1>1 DEF KeptSoFar, DuplicatedBy, Before
<1>5. ExactIsKept'
  BY DEF ExactIsKept, Key
<1>6. DroppedSoFar'
  <2>1. visited' \ kept' = (visited \ kept) \cup {c}
    BY <1>1
  <2>2. \A d \in Ids : DuplicateOf(kept', rec', d) = DuplicateOf(kept, rec, d)
    OBVIOUS
  <2>3. dropped' = {<<d, DuplicateOf(kept, rec, d)>> : d \in visited \ kept} \cup {<<c, DuplicateOf(kept, rec, c)>>}
    BY DEF DroppedSoFar
  <2> QED
    BY <2>1, <2>3 DEF DroppedSoFar
<1>7. DoneIsAll'
  BY DEF DoneIsAll, Turn
<1> QED
  BY OnlyEasyStays, <1>2, <1>3, <1>4, <1>5, <1>6, <1>7

LEMMA VisitKept ==
  ASSUME LoopInv, NEW c \in Ids, Turn(c), DuplicatedBy(kept, rec, c) = {},
         visited' = visited \cup {c}, kept' = kept \cup {c},
         exact' = exact \cup {[key |-> Key(c), id |-> c]},
         UNCHANGED <<rec, dropped, cut, done>>
  PROVE  LoopInv'
<1> USE DEF LoopInv
<1>1. c \notin visited /\ c \notin kept
  BY DEF Turn, TypeOK
<1>2. TypeOK'
  BY DEF TypeOK, Key, Record
<1>3. VisitedFirst'
  BY DEF VisitedFirst, Turn, Before
<1>4. \A d \in visited : DuplicatedBy(kept', rec', d) = DuplicatedBy(kept, rec, d)
  BY DuplicatedByStable
<1>5. DuplicatedBy(kept', rec', c) = {}
  <2>1. ~ Before(rec, c, c)
    BY OrderOfRecords DEF TypeOK
  <2> QED
    BY <2>1 DEF DuplicatedBy
<1>6. KeptSoFar'
  BY <1>1, <1>4, <1>5 DEF KeptSoFar
<1>7. ExactIsKept'
  BY DEF ExactIsKept, Key
<1>8. DroppedSoFar'
  <2>1. visited' \ kept' = visited \ kept
    BY <1>1
  <2>2. ASSUME NEW d \in visited PROVE DuplicateOf(kept', rec, d) = DuplicateOf(kept, rec, d)
    <3>1. DuplicatedBy(kept', rec, d) = DuplicatedBy(kept, rec, d)
      BY DuplicatedByStable
    <3> QED
      BY <3>1, Zenon DEF DuplicateOf
  <2> QED
    BY <2>1, <2>2 DEF DroppedSoFar
<1>9. DoneIsAll'
  BY DEF DoneIsAll, Turn
<1> QED
  BY OnlyEasyStays, <1>2, <1>3, <1>6, <1>7, <1>8, <1>9

LEMMA VisitStep ==
  ASSUME LoopInv, NEW c \in Ids, Visit(c)
  PROVE  LoopInv'
<1>1. Turn(c)
  BY DEF Visit
<1>2. ASSUME NEW e \in exact, e.key = Key(c), dropped' = dropped \cup {<<c, e.id>>}, UNCHANGED <<kept, exact>>
      PROVE  LoopInv'
  <2>1. e.id \in kept /\ Key(e.id) = Key(c)
    BY <1>2 DEF LoopInv, ExactIsKept
  <2>2. e.id = DuplicateOf(kept, rec, c)
    BY <1>1, <2>1, ExactIsReported
  <2>3. e.id \in DuplicatedBy(kept, rec, c)
    BY <1>1, <2>1, DuplicatedByAtTurn
  <2> QED
    BY <1>1, <1>2, <2>1, <2>2, <2>3, VisitDropped DEF Visit
<1>3. CASE \A e \in exact : e.key # Key(c)
  <2>1. ASSUME NEW k \in kept PROVE Key(k) # Key(c)
    <3>1. [key |-> Key(k), id |-> k] \in exact
      BY DEF LoopInv, ExactIsKept
    <3> QED
      BY <1>3, <3>1
  <2>2. DuplicatedBy(kept, rec, c) = Near(c)
    BY <1>1, <2>1, DuplicatedByAtTurn
  <2>3. CASE Near(c) # {}
    <3>1. FirstNear(c) = DuplicateOf(kept, rec, c) /\ FirstNear(c) \in kept
      BY <1>1, <2>1, <2>3, NearIsReported DEF Near
    <3> QED
      BY <1>1, <1>3, <2>2, <2>3, <3>1, VisitDropped DEF Visit
  <2>4. CASE Near(c) = {}
    BY <1>1, <1>3, <2>2, <2>4, VisitKept DEF Visit
  <2> QED
    BY <2>3, <2>4
<1> QED
  BY <1>2, <1>3 DEF Visit

LEMMA CutStep == LoopInv /\ DiversitySelect => LoopInv'
<1> SUFFICES ASSUME LoopInv, DiversitySelect PROVE LoopInv'
  OBVIOUS
<1>1. cut' \subseteq Ids
  BY DEF DiversitySelect, EasyCut, LoopInv, TypeOK
<1>2. OnlyEasyCut'
  <2>1. \A c \in EasyCut(kept, rec) : rec[c].rank = 0
    BY DEF EasyCut, BeyondCap, Easy
  <2> QED
    BY <2>1 DEF DiversitySelect, OnlyEasyCut
<1> QED
  BY <1>1, <1>2 DEF DiversitySelect, LoopInv, TypeOK, VisitedFirst, KeptSoFar, ExactIsKept, DroppedSoFar, DoneIsAll, OnlyEasyCut,
              Key, Before, DuplicatedBy, DuplicateOf

LEMMA StutterStep == LoopInv /\ UNCHANGED vars => LoopInv'
BY DEF vars, LoopInv, TypeOK, VisitedFirst, KeptSoFar, ExactIsKept, DroppedSoFar, DoneIsAll, OnlyEasyCut,
       Key, Before, DuplicatedBy, DuplicateOf

THEOREM LoopInvariant == Spec => []LoopInv
<1>1. LoopInv /\ [Next]_vars => LoopInv'
  BY VisitStep, CutStep, StutterStep DEF Next
<1> QED
  BY <1>1, InitLoop, PTL DEF Spec

-----------------------------------------------------------------------------
(* Results *)

(* The loop's variables keep their types. *)
THEOREM TypeCorrect == Spec => []TypeOK
BY LoopInvariant, PTL DEF LoopInv

(* Whatever the records, the loop ends with the set Selection describes     *)
(* declaratively, and reports every dropped record under the right one:     *)
(* Pipeline may use Kept and DuplicateOf in place of the loop.              *)
THEOREM LoopCorrect == Spec => []LoopComputesKept
<1>1. LoopInv => LoopComputesKept
  <2> SUFFICES ASSUME LoopInv, visited = Ids
               PROVE  /\ Kept(kept, rec)
                      /\ dropped = {<<c, DuplicateOf(kept, rec, c)>> : c \in Ids \ kept}
    BY DEF LoopComputesKept
  <2>1. DOMAIN rec = Ids /\ kept \subseteq Ids
    BY DEF LoopInv, TypeOK
  <2> QED
    BY <2>1 DEF LoopInv, KeptSoFar, DroppedSoFar, Kept
<1> QED
  BY <1>1, LoopInvariant, PTL

(* If whatever check_records calls a near-duplicate dedupe does too, the    *)
(* isolation report finds none between two splits: deduplication, which     *)
(* looks across splits, has removed them all.                               *)
THEOREM SplitsAreSeparated ==
  ASSUME \A s, t \in Texts : NearSplit(s, t) => NearDup(s, t)
  PROVE  Spec => []SplitsSeparated
<1>1. LoopInv => SplitsSeparated
  <2> SUFFICES ASSUME LoopInv, NEW c \in kept, NEW d \in kept, rec[c].pack = rec[d].pack,
                      rec[c].split # rec[d].split, NearSplit(rec[c].text, rec[d].text),
                      done
               PROVE  FALSE
    BY DEF SplitsSeparated, TextsIsolated
  <2>1. rec[c].text \in Texts /\ rec[d].text \in Texts
    BY DEF LoopInv, TypeOK, Record
  <2>2. Duplicates(rec[c], rec[d])
    BY <2>1 DEF Duplicates
  <2>3. Kept(kept, rec)
    BY DEF LoopInv, TypeOK, KeptSoFar, DoneIsAll, Kept
  <2> QED
    BY <2>2, <2>3, KeptIsDistinct, InputAssumption DEF LoopInv, TypeOK
<1> QED
  BY <1>1, LoopInvariant, PTL

(* "the harder record is kept": where a medium or hard record is dropped as *)
(* a duplicate, a record at least as hard is left after the diversity cap.  *)
THEOREM HarderCopiesSurvive == Spec => []HarderCopySurvives
<1>1. LoopInv => HarderCopySurvives
  <2> SUFFICES ASSUME LoopInv, done, NEW c \in Ids \ kept, NEW k, k = DuplicateOf(kept, rec, c),
                      rec[c].rank > 0
               PROVE  k \in kept \ cut /\ rec[k].rank >= rec[c].rank
    BY DEF LoopInv, DroppedSoFar, DoneIsAll, HarderCopySurvives
  <2>1. Kept(kept, rec)
    BY DEF LoopInv, TypeOK, KeptSoFar, DoneIsAll, Kept
  <2>2. k \in DuplicatedBy(kept, rec, c)
    BY <2>1, ReportedUnderKept, InputAssumption DEF LoopInv, TypeOK
  <2>3. k \in kept /\ k \in Ids /\ Before(rec, k, c)
    BY <2>2 DEF DuplicatedBy, LoopInv, TypeOK
  <2>4. rec[k].rank \in Int /\ rec[c].rank \in Int /\ rec[k].rank >= rec[c].rank
    BY <2>3 DEF Before, LoopInv, TypeOK, Record, Rank
  <2> QED
    BY <2>3, <2>4 DEF LoopInv, OnlyEasyCut
<1> QED
  BY <1>1, LoopInvariant, PTL

-----------------------------------------------------------------------------
(* The cut is taken once, from the finished loop; what it visited is finite *)
\* though Ids need not be.
CutInv == IsFiniteSet(visited) /\ (done => cut = EasyCut(kept, rec))

LEMMA CutInvStep ==
  ASSUME LoopInv, CutInv, [Next]_vars
  PROVE  CutInv'
<1>1. ASSUME NEW c \in Ids, Visit(c) PROVE CutInv'
  <2>1. IsFiniteSet(visited') /\ UNCHANGED <<rec, cut, done>>
    BY <1>1, FS_AddElement DEF Visit, CutInv
  <2>2. ~ done
    BY <1>1 DEF Visit, Turn, LoopInv, DoneIsAll
  <2> QED
    BY <2>1, <2>2 DEF CutInv
<1>2. CASE DiversitySelect
  <2>1. EasyCut(kept, rec)' = EasyCut(kept, rec)
    BY <1>2 DEF DiversitySelect
  <2> QED
    BY <1>2, <2>1 DEF DiversitySelect, CutInv
<1>3. CASE UNCHANGED vars
  <2>1. EasyCut(kept, rec)' = EasyCut(kept, rec)
    BY <1>3 DEF vars
  <2> QED
    BY <1>3, <2>1 DEF vars, CutInv
<1> QED
  BY <1>1, <1>2, <1>3 DEF Next

(* The diversity cap does what its comment promises, for any number of      *)
(* records: in a pack that lost rows the easy share of what is left is at   *)
(* most 60%, and it stops as soon as that share allows, whatever the        *)
(* floating-point quotient rounds to.                                       *)
THEOREM EasyShareIsCapped == Spec => []EasyShareCapped
<1>1. Init => CutInv
  BY FS_EmptySet DEF Init, CutInv
<1>2. LoopInv /\ CutInv /\ [Next]_vars => CutInv'
  BY CutInvStep
<1>3. LoopInv /\ CutInv => EasyShareCapped
  <2> SUFFICES ASSUME LoopInv, CutInv, done, NEW p \in Packs, NEW S, S = Train(kept, rec, p),
                      NEW left, left = S \ cut, S # left
               PROVE  /\ 10 * Cardinality(Easy(left, rec)) <= 6 * Cardinality(left)
                      /\ 10 * (Cardinality(Easy(left, rec)) + 2) > 6 * (Cardinality(left) + 2)
    BY DEF EasyShareCapped
  <2> DEFINE rest == Cardinality(S \ Easy(S, rec))
             cap  == EasyCap(rest, Cardinality(S))
  <2>1. /\ Ids \in SUBSET Nat /\ rec \in [Ids -> Record] /\ kept \in SUBSET Ids /\ IsFiniteSet(kept)
        /\ cut = EasyCut(kept, rec)
    BY InputAssumption, FS_Subset DEF LoopInv, TypeOK, CutInv
  <2>2. /\ rest \in Nat /\ Cardinality(S) \in Nat /\ 4 * rest >= Cardinality(S)
        /\ Cardinality(Easy(left, rec)) = cap /\ Cardinality(left) = rest + cap
    BY <2>1, CutLeavesCap
  <2>3. cap \in Nat /\ 10 * cap <= 6 * (rest + cap) /\ 10 * (cap + 2) > 6 * (rest + cap + 2)
    <3> HIDE DEF rest
    <3> QED
      BY <2>2, CapIsTheShare
  <2> HIDE DEF rest, cap
  <2> QED
    BY <2>2, <2>3
<1> QED
  BY <1>1, <1>2, <1>3, LoopInvariant, PTL DEF Spec
=============================================================================
