----------------------------- MODULE Selection ------------------------------
(***************************************************************************)
(* How the verified records of a run are thinned out: dedupe and           *)
(* diversity_select (validation/deduplication.py), and check_records, the  *)
(* isolation report on what is left (validation/split_isolation.py).       *)
(* `rec' is a function from record ids, which are ordered numbers, to      *)
(* records; texts are opaque and compared by the two similarity relations. *)
(***************************************************************************)
EXTENDS Integers, FiniteSets

CONSTANTS
  Packs,             \* task packs
  Texts,             \* normalized visible texts
  NearDup(_, _),     \* similar enough for dedupe (dedupe_near_threshold, or an embedder's cosine)
  NearSplit(_, _),   \* similar enough for check_records (always 4-gram shingles, 0.92)
  DiversityMinN,     \* diversity_select's min_n (20 in the code, smaller in the instances)
  RoundsDown         \* counts h for which the float 0.6*h/(1-0.6) is below 3*h/2

Split == {"train", "calibration", "locked_test", "challenge"}
Rank  == 0 .. 2      \* DIFF_RANK: easy, medium, hard
\* `family' is the template family; `held' says that the scenario family is held out of train.
Record == [pack : Packs, split : Split, rank : Rank, family : Nat, held : BOOLEAN, text : Texts]

\* jaccard and cosine are symmetric
ASSUME SimilarityAssumption ==
  \A s, t \in Texts : /\ NearDup(s, t) \in BOOLEAN /\ NearSplit(s, t) \in BOOLEAN
                      /\ NearDup(s, t) = NearDup(t, s)
ASSUME DiversityAssumption == DiversityMinN \in Nat /\ RoundsDown \subseteq Nat

-----------------------------------------------------------------------------
(* dedupe: records are visited hardest first, then by record id; one is     *)
(* kept unless an earlier kept record of its pack has the same or a near    *)
(* text.  Kept(K, rec) says that K is the set the loop keeps.               *)
\* Mutated form: the easiest records are visited first.
Before_EasyFirst(rec, c, d) == \/ rec[c].rank < rec[d].rank
                               \/ rec[c].rank = rec[d].rank /\ c < d
Before(rec, c, d) == \/ rec[c].rank > rec[d].rank
                     \/ rec[c].rank = rec[d].rank /\ c < d
Duplicates(r, s) == r.pack = s.pack /\ (r.text = s.text \/ NearDup(r.text, s.text))
\* Mutated form: splits are deduplicated separately.
DuplicatedBy_InSplit(K, rec, c) ==
  {k \in K : Before(rec, k, c) /\ Duplicates(rec[k], rec[c]) /\ rec[k].split = rec[c].split}
DuplicatedBy(K, rec, c) == {k \in K : Before(rec, k, c) /\ Duplicates(rec[k], rec[c])}
Kept(K, rec) == /\ K \subseteq DOMAIN rec
                /\ \A c \in DOMAIN rec : c \in K <=> DuplicatedBy(K, rec, c) = {}

\* The record a dropped one is reported under: the kept one of equal text, else the first near one.
DuplicateOf(K, rec, c) ==
  LET near  == DuplicatedBy(K, rec, c)
      exact == {k \in near : rec[k].text = rec[c].text}
      S     == IF exact # {} THEN exact ELSE near
  IN CHOOSE k \in S : \A j \in S \ {k} : Before(rec, k, j)

(* diversity_select on the kept train records: in a pack with enough rows,  *)
(* a quarter of them not easy, the easy rows beyond the cap are cut, those  *)
(* with the highest record ids.                                             *)
\* Mutated form: the share is taken of all rows instead of those that stay.
EasyCap_OfAll(rest, all) == (6 * all) \div 10
EasyCap(rest, all) ==
  LET byRest == (3 * rest) \div 2 - (IF rest \in RoundsDown THEN 1 ELSE 0)
      byAll  == (3 * all) \div 10
  IN IF byRest > byAll THEN byRest ELSE byAll

Train(K, rec, p) == {c \in K : rec[c].split = "train" /\ rec[c].pack = p}
Easy(S, rec)     == {c \in S : rec[c].rank = 0}
Capped(S, rec)   == /\ Cardinality(S) >= DiversityMinN
                    /\ 4 * Cardinality(S \ Easy(S, rec)) >= Cardinality(S)
BeyondCap(S, rec) ==
  LET cap == EasyCap(Cardinality(S \ Easy(S, rec)), Cardinality(S))
  IN {c \in Easy(S, rec) : Cardinality({d \in Easy(S, rec) : d < c}) >= cap}
EasyCut(K, rec) ==
  {c \in K : LET S == Train(K, rec, rec[c].pack) IN Capped(S, rec) /\ c \in BeyondCap(S, rec)}

(* check_records: template families shared by two splits (scenario ids and  *)
(* entity pools are compared the same way), held-out scenario families in   *)
(* train, and near-duplicate texts of a pack in two splits.                 *)
FamiliesIsolated(S, rec) ==
  \A c, d \in S : rec[c].family = rec[d].family => rec[c].split = rec[d].split
TextsIsolated(S, rec) ==
  \A c, d \in S : rec[c].pack = rec[d].pack /\ rec[c].split # rec[d].split
                    => ~ NearSplit(rec[c].text, rec[d].text)
HeldOutOfTrain(S, rec) == \A c \in S : rec[c].held => rec[c].split # "train"
Isolated(S, rec) == FamiliesIsolated(S, rec) /\ HeldOutOfTrain(S, rec) /\ TextsIsolated(S, rec)
=============================================================================
