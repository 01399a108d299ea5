--------------------------- MODULE ProgrammaticV1 ---------------------------
(* programmatic/families.py: the five families of the first corpus.          *)
EXTENDS RowSource, Sequences, FiniteSetsExt

-----------------------------------------------------------------------------
(* temporal_numeric: revision k has the k-th sublimit, all different, so a   *)
(* label is a revision.  Windows of two and four days stand for the sixty to *)
(* four hundred of the code; a claim is filed up to one short window and a   *)
(* half after the next revision.                                             *)
Revisions ==
  {<<0, a, a + b>> : a \in {2, 4}, b \in {2, 4}}
    \cup {<<0, a, a + b, a + b + c>> : a \in {2, 4}, b \in {2, 4}, c \in {2, 4}}

Losses(eff, pick) ==
  LET span == IF pick < Len(eff) THEN eff[pick + 1] - eff[pick] ELSE 4
  IN {eff[pick] + k : k \in 1..(IF span > 2 THEN span - 2 ELSE 1)}
Filings(eff, pick, loss) ==
  IF pick < Len(eff) THEN {eff[pick + 1] + k : k \in 1..3} ELSE {loss + k : k \in 1..2}
DatedClaims ==
  UNION {UNION {UNION {{[eff |-> e, pick |-> p, loss |-> l, filed |-> f] : f \in Filings(e, p, l)}
                       : l \in Losses(e, p)} : p \in DOMAIN e} : e \in Revisions}

(* the trap is the revision whose window holds the filing date               *)
AtFiling(w) ==
  CHOOSE k \in DOMAIN w.eff : w.eff[k] <= w.filed /\ (k = Len(w.eff) \/ w.eff[k + 1] > w.filed)
Sublimits(w) == DOMAIN w.eff

(* Mutated form: the revision in force when the claim was filed.             *)
Governing_AtFiling(w) == AtFiling(w)

Governing(w) == w.pick

(* the standing note, and _verify_temporal_numeric: the date of loss decides *)
InForceAtLoss(w) ==
  LET begun == {k \in DOMAIN w.eff : w.eff[k] <= w.loss}
  IN {k \in begun : \A j \in begun : w.eff[j] <= w.eff[k]}
GovernsChecked(w, o) == o \in InForceAtLoss(w)

-----------------------------------------------------------------------------
(* long_policy: four operative clauses, in any order among the filler.  The  *)
(* limits are 60 days, two weeks, and 10 after a deductible of 1.            *)
Claims ==
  [vacant : {0, 60, 61}, weeks : {0, 1, 2, 4}, water : BOOLEAN, estimate : {10, 11, 12}]
Dispositions == {"deny_vacancy_exclusion", "deny_repeated_seepage",
                 "pay_subject_to_sublimit", "pay_full_estimate_less_deductible"}
DispositionOptions(w) == Dispositions

Disposition(w) ==
  IF w.vacant > 60 THEN "deny_vacancy_exclusion"
  ELSE IF w.weeks >= 2 /\ w.water THEN "deny_repeated_seepage"
  ELSE IF w.estimate - 1 > 10 THEN "pay_subject_to_sublimit"
  ELSE "pay_full_estimate_less_deductible"

(* The wording ranks neither the two exclusions nor limit and deductible.    *)
DispositionsRead(w) ==
  LET denied == (IF w.vacant > 60 THEN {"deny_vacancy_exclusion"} ELSE {})
                  \cup (IF w.water /\ w.weeks >= 2 THEN {"deny_repeated_seepage"} ELSE {})
  IN IF denied # {} THEN denied
     ELSE {IF over THEN "pay_subject_to_sublimit" ELSE "pay_full_estimate_less_deductible"
           : over \in {w.estimate > 10, w.estimate - 1 > 10}}

(* Mutated form: the weeks of a leak are counted whatever the peril.         *)
DispositionChecked_AnyPeril(w, o) == o = Disposition([w EXCEPT !.water = TRUE])

(* _verify_long_policy reads the duration, which is printed for water only.  *)
DispositionChecked(w, o) ==
  o = Disposition([w EXCEPT !.weeks = IF w.water THEN @ ELSE 0, !.water = TRUE])

-----------------------------------------------------------------------------
(* probability_exact: a lot, its defective units, the draws of every plan.   *)
Lots ==
  {[lot |-> l, defective |-> d, draws |-> <<old, new>>] :
     l \in 8..9, d \in 1..3, old \in 1..5, new \in 1..5}
LotWorlds == {w \in Lots : w.draws[1] # w.draws[2]}

Choose(n, k) ==
  LET row[i \in 0..n] ==
        [j \in 0..k |-> IF j = 0 THEN 1 ELSE IF i = 0 THEN 0 ELSE row[i - 1][j] + row[i - 1][j - 1]]
  IN row[n][k]

(* Mutated form: the draws of the plan that was superseded.                  *)
RejectsLot_OldPlan(w) ==
  LET k == w.draws[1]
  IN Noul(2 * Choose(w.lot - w.defective, k) < Choose(w.lot, k))

(* 1 - C(lot - defective, draws) / C(lot, draws) > 1/2                       *)
RejectsLot(w) ==
  LET k == w.draws[Len(w.draws)]
  IN Noul(2 * Choose(w.lot - w.defective, k) < Choose(w.lot, k))

(* _verify_probability_exact counts the samples instead.                     *)
Samples == [l \in 8..9 |-> [k \in 1..5 |-> kSubset(k, 1..l)]]
Hits == [l \in 8..9 |-> [d \in 1..3 |-> [k \in 1..5 |->
          Cardinality({s \in Samples[l][k] : s \cap 1..d # {}})]]]
RejectionsRead(w) ==
  Likelier(Hits[w.lot][w.defective][w.draws[2]], Cardinality(Samples[w.lot][w.draws[2]]))
RejectionChecked(w, o) ==
  o = Noul(2 * Hits[w.lot][w.defective][w.draws[2]] > Cardinality(Samples[w.lot][w.draws[2]]))

-----------------------------------------------------------------------------
(* underdetermined: two or three problems of equal weight, one label.        *)
Queues == {"account_access", "billing", "shipping", "technical"}
Tickets == {S \in SUBSET Queues : Cardinality(S) \in 2..3}
FirstTied(tied) == Earliest(<<"account_access", "billing", "shipping", "technical">>, tied)

(* _verify_underdetermined reads the distribution and never the label.       *)
QueueChecked(tied, o) == TRUE

-----------------------------------------------------------------------------
(* tradeoff_weighted: scores of three bids under weights 5, 3 and 2; totals  *)
(* within a point of each other are not meaningfully different.              *)
Bids ==
  {[Aldermere |-> a, Brakewater |-> b, Corvid |-> <<2, 2, 2>>] :
     a \in [1..3 -> 1..3], b \in [1..3 -> 1..3]}
Total(w) == [n \in DOMAIN w |-> 5 * w[n][1] + 3 * w[n][2] + 2 * w[n][3]]
Winner(w) == Earliest(<<"Aldermere", "Brakewater", "Corvid">>, ArgMax(Total(w)))

NearTie(w) == {n \in DOMAIN w : \A m \in DOMAIN w : Total(w)[m] - Total(w)[n] <= 1}

(* the note under the table, from the scores                                 *)
NotWorse(w) ==
  {n \in DOMAIN w : \A m \in DOMAIN w :
     5 * w[m][1] + 3 * w[m][2] + 2 * w[m][3] <= 5 * w[n][1] + 3 * w[n][2] + 2 * w[n][3] + 1}
BidChecked(w, o) == o \in NearTie(w)

-----------------------------------------------------------------------------
Families ==
  [temporal_numeric  |-> MakeFamily(DatedClaims, Sublimits, Governing, LAMBDA w : {Governing(w)},
                                    InForceAtLoss, GovernsChecked, Variant(5)),
   long_policy       |-> MakeFamily(Claims, DispositionOptions, Disposition,
                                    LAMBDA w : {Disposition(w)}, DispositionsRead,
                                    DispositionChecked, Variant(5)),
   probability_exact |-> MakeFamily(LotWorlds, LAMBDA w : YesNo, RejectsLot,
                                    LAMBDA w : {RejectsLot(w)}, RejectionsRead,
                                    RejectionChecked, Variant(5)),
   underdetermined   |-> MakeFamily(Tickets, LAMBDA w : Queues, FirstTied, LAMBDA w : w,
                                    LAMBDA w : w, QueueChecked, Variant(5)),
   tradeoff_weighted |-> MakeFamily(Bids, LAMBDA w : DOMAIN w, Winner, NearTie,
                                    NotWorse, BidChecked, Variant(5))]
=============================================================================
