--------------------------- MODULE ProgrammaticV2 ---------------------------
(* programmatic/v2.py, v2_policy.py, v2_routing.py, v2_sampling.py and       *)
(* v2_tradeoff.py: the same kinds of decision, the rule now stated in the    *)
(* text and changing from row to row.  Skins, layouts and names vary the     *)
(* words and not the label.                                                  *)
EXTENDS RowSource, Integers, Sequences, FiniteSetsExt

-----------------------------------------------------------------------------
(* effective_dating: revision k is in force on days 3k-2 to 3k.  th, ev and  *)
(* tr are the period start, the event and the filing, drawn inside windows   *)
(* wi <= j <= wk; the rule names one of the three.                           *)
GoverningDates == {"th", "ev", "tr"}
DayIn(m) == {3 * m - 1, 3 * m}
Dated(n, wi, j, wk) ==
  {[n |-> n, win |-> [th |-> wi, ev |-> j, tr |-> wk], rule |-> rule,
    day |-> [th |-> IF wi = j /\ ev < th THEN ev ELSE th,
             ev |-> ev,
             tr |-> IF wk = j /\ ev > tr THEN ev ELSE tr]] :
     th \in DayIn(wi), ev \in DayIn(j), tr \in DayIn(wk), rule \in GoverningDates}
Schedules ==
  UNION {UNION {UNION {UNION {Dated(n, wi, j, wk) : wk \in j..n} : wi \in 1..j} : j \in 1..n} : n \in 3..4}

(* Mutated form: the event's date, whatever the rule says.                   *)
InEffect_AtEvent(w) == w.win.ev

InEffect(w) == w.win[w.rule]

(* a schedule in the layout "ranges": from a day to the eve of the next      *)
InRange(w) ==
  {k \in 1..w.n : 3 * k - 2 <= w.day[w.rule] /\ (k < w.n => w.day[w.rule] <= 3 * (k + 1) - 3)}

(* verify_row steps through the revisions in time order.                     *)
InEffectChecked(w, o) == o = CHOOSE k \in 1..w.n : 3 * k - 2 <= w.day[w.rule] /\ \A j \in (k + 1)..w.n : 3 * j - 2 > w.day[w.rule]

-----------------------------------------------------------------------------
(* policy_precedence: three clauses of a skin, each an exclusion or a limit  *)
(* with a comparison, the fact's distance from the threshold, and the rank   *)
(* (the order of precedence stated, or the clause numbers under "category"). *)
Op == [sub |-> ">", late |-> ">", setback |-> "<", objections |-> ">="]
Limits == {"sub"}
Distances == [c \in DOMAIN Op |-> IF Op[c] = ">=" THEN {-1, 1} ELSE {-1, 0, 1}]
Policies ==
  UNION {{[mode |-> m, rank |-> r, fact |-> f] :
            m \in {"numbered", "category", "chain"},
            r \in {g \in [1..3 -> C] : \A i, j \in 1..3 : g[i] = g[j] => i = j},
            f \in {g \in [C -> -1..1] : \A c \in C : g[c] \in Distances[c]}}
         : C \in kSubset(3, DOMAIN Op)}

Holds(c, d) == CASE Op[c] = ">" -> d > 0 [] Op[c] = ">=" -> d >= 0 [] Op[c] = "<" -> d < 0
Applies(w) == {c \in DOMAIN w.fact : Holds(c, w.fact[c])}
Outcomes(w) == DOMAIN w.fact \cup {"default"}

(* _precedence: in category mode sorted by (kind # "exclusion", number).      *)
Number(w, c) == CHOOSE i \in 1..3 : w.rank[i] = c
Precedence(w, c) == Number(w, c) + (IF w.mode = "category" /\ c \in Limits THEN 3 ELSE 0)

(* Mutated form: the numbers of the clauses decide in every mode.            *)
Decides_ByNumber(w) ==
  IF Applies(w) = {} THEN "default" ELSE Earliest(w.rank, Applies(w))

(* the first of them that applies                                            *)
Decides(w) ==
  IF Applies(w) = {} THEN "default"
  ELSE CHOOSE c \in Applies(w) : \A o \in Applies(w) : Precedence(w, c) <= Precedence(w, o)

(* The sentences: which clause prevails over which, and the one that applies *)
(* and over which no applicable one prevails.                                *)
Before(w, a, b) == \E i, j \in 1..3 : i < j /\ w.rank[i] = a /\ w.rank[j] = b
Prevails(w, a, b) ==
  IF w.mode = "category"
  THEN (a \notin Limits /\ b \in Limits) \/ ((a \in Limits <=> b \in Limits) /\ Before(w, a, b))
  ELSE Before(w, a, b)
Prevailing(w) ==
  IF Applies(w) = {} THEN {"default"}
  ELSE {c \in Applies(w) : \A o \in Applies(w) : ~Prevails(w, o, c)}

(* verify_row goes by the same _precedence.                                  *)
DecisionChecked(w, o) == o = Decides(w)

-----------------------------------------------------------------------------
(* ambiguous_routing: issues in the order of mention, tagged or not.         *)
Teams == {"a", "b", "c", "d"}
Flags(k, rule) == IF rule = "urgency" THEN [1..k -> BOOLEAN] ELSE {[i \in 1..k |-> FALSE]}
Messages ==
  UNION {UNION {{[issues |-> q, urgent |-> u, rule |-> rule] :
                   q \in {f \in [1..k -> Teams] : \A i, j \in 1..k : f[i] = f[j] => i = j},
                   u \in Flags(k, rule)}
                : rule \in IF k = 1 THEN {"single"} ELSE {"equal", "urgency", "first"}}
         : k \in 1..3}

(* _weights, over all the options, issue by issue                            *)
Weight(w, t, i) ==
  IF i > Len(w.issues) \/ w.issues[i] # t THEN 0
  ELSE IF w.rule = "first" THEN IF i = 1 THEN 1 ELSE 0
  ELSE IF w.rule = "urgency" /\ w.urgent[i] THEN 3 ELSE 1
Weights(w) == [t \in Teams |-> Weight(w, t, 1) + Weight(w, t, 2) + Weight(w, t, 3)]
Acceptable(w) == ArgMax(Weights(w))
Route(w) == Earliest(<<"a", "b", "c", "d">>, Acceptable(w))

(* RULES_T: one issue, the first one, the urgent ones if there are any, or   *)
(* no single one.                                                            *)
RoutesRead(w) ==
  LET urgent == {i \in DOMAIN w.issues : w.urgent[i]}
  IN CASE w.rule \in {"single", "first"} -> {w.issues[1]}
       [] w.rule = "urgency" /\ urgent # {} -> {w.issues[i] : i \in urgent}
       [] OTHER -> {w.issues[i] : i \in DOMAIN w.issues}

(* Mutated form: the verifier trusts the row's list of acceptable labels.    *)
RouteChecked_AnyMentioned(w, o) == \E i \in DOMAIN w.issues : w.issues[i] = o

(* the distribution is recomputed, and the label has the most of it          *)
RouteChecked(w, o) == o \in Acceptable(w)

-----------------------------------------------------------------------------
(* sampling_probability: eight items; the sampling plan may have been        *)
(* revised, and the rule counts "k or more" or "more than k - 1".            *)
Lot == 8
Inspections ==
  {w \in [bad : 1..4, replace : BOOLEAN, plans : {<<d>> : d \in 2..4} \cup (2..4) \X (2..4),
          form : {"atleast", "more_than"}, k : 1..3, asked : {"reject", "accept"}] :
     /\ Len(w.plans) = 2 => w.plans[1] # w.plans[2]
     /\ w.k <= w.plans[Len(w.plans)]
     /\ w.replace => w.plans[Len(w.plans)] < 4}
Drawn(w) == w.plans[Len(w.plans)]

Binomial(n, k) == IF k \in 0..n THEN Cardinality(kSubset(k, 1..n)) ELSE 0

(* _p_event: the favourable samples of at least k bad items, closed form     *)
RejectedBy(bad, draws, k, replace) ==
  MapThenSumSet(LAMBDA j : IF replace
                           THEN Binomial(draws, j) * bad^j * (Lot - bad)^(draws - j)
                           ELSE Binomial(bad, j) * Binomial(Lot - bad, draws - j), k..draws)
Outof(draws, replace) == IF replace THEN Lot^draws ELSE Binomial(Lot, draws)
Closed ==
  [bad \in 1..4 |-> [d \in 2..4 |-> [k \in 1..3 |-> [r \in BOOLEAN |->
     IF r /\ d = 4 THEN 0 ELSE RejectedBy(bad, d, k, r)]]]]
Asked(w, hits, all) == IF w.asked = "reject" THEN hits ELSE all - hits
LikelyEvent(w) ==
  LET all == Outof(Drawn(w), w.replace)
  IN Noul(2 * Asked(w, Closed[w.bad][Drawn(w)][w.k][w.replace], all) > all)

(* the samples one by one: subsets, or sequences when an item is put back    *)
SubsetsOf == [d \in 2..4 |-> kSubset(d, 1..Lot)]
Counted ==
  [bad \in 1..4 |-> [d \in 2..4 |-> [k \in 1..3 |-> [r \in BOOLEAN |->
     IF ~r THEN Cardinality({s \in SubsetsOf[d] : Cardinality(s \cap 1..bad) >= k})
     ELSE IF d = 4 THEN 0
     ELSE Cardinality({s \in [1..d -> 1..Lot] : Cardinality({i \in 1..d : s[i] <= bad}) >= k})]]]]
EventChecked(w, o) ==
  LET all == Outof(Drawn(w), w.replace)
  IN o = Noul(2 * Asked(w, Counted[w.bad][Drawn(w)][w.k][w.replace], all) > all)

(* RULE_T: a count of k or more, or strictly more than the number printed    *)
EventRead(w) ==
  LET least == IF w.form = "atleast" THEN w.k ELSE (w.k - 1) + 1
      all   == Outof(Drawn(w), w.replace)
  IN Likelier(Asked(w, Counted[w.bad][Drawn(w)][least][w.replace], all), all)

-----------------------------------------------------------------------------
(* weighted_tradeoff: criteria of weights 1, 2 and 3, some of them better    *)
(* when lower, and a stated tolerance.                                       *)
Lowers == {{}, {1}, {1, 3}}
Offers ==
  [scores : {[X |-> x, Y |-> y, Z |-> <<5, 5, 5>>] : x \in [1..3 -> 4..5], y \in [1..3 -> 4..6]},
   lower : Lowers, delta : {0, 1, 3}]
Score(w, i, s) == IF i \in w.lower THEN 11 - s ELSE s

(* Mutated form: a lower value is counted as a lower score.                  *)
Totals_AllHigher(w) == [n \in DOMAIN w.scores |-> w.scores[n][1] + 2 * w.scores[n][2] + 3 * w.scores[n][3]]

Totals(w) ==
  [n \in DOMAIN w.scores |->
     Score(w, 1, w.scores[n][1]) + 2 * Score(w, 2, w.scores[n][2]) + 3 * Score(w, 3, w.scores[n][3])]
Best(w) == Earliest(<<"X", "Y", "Z">>, ArgMax(Totals(w)))
Near(w) == {n \in DOMAIN w.scores : \A m \in DOMAIN w.scores : Totals(w)[m] - Totals(w)[n] <= w.delta}

(* TIE_T: no option is ahead by more than the tolerance.                     *)
Ahead(w, m, n, i) ==
  IF i \in w.lower THEN w.scores[n][i] - w.scores[m][i] ELSE w.scores[m][i] - w.scores[n][i]
Lead(w, m, n) == Ahead(w, m, n, 1) + 2 * Ahead(w, m, n, 2) + 3 * Ahead(w, m, n, 3)
LevelRead(w) == {n \in DOMAIN w.scores : \A m \in DOMAIN w.scores : Lead(w, m, n) <= w.delta}
OfferChecked(w, o) == o \in Near(w)

-----------------------------------------------------------------------------
Families ==
  [effective_dating     |-> MakeFamily(Schedules, LAMBDA w : 1..w.n, InEffect,
                                       LAMBDA w : {InEffect(w)}, InRange, InEffectChecked, HeldOut),
   policy_precedence    |-> MakeFamily(Policies, Outcomes, Decides, LAMBDA w : {Decides(w)},
                                       Prevailing, DecisionChecked, HeldOut),
   ambiguous_routing    |-> MakeFamily(Messages, LAMBDA w : Teams, Route, Acceptable,
                                       RoutesRead, RouteChecked, HeldOut),
   sampling_probability |-> MakeFamily(Inspections, LAMBDA w : YesNo, LikelyEvent,
                                       LAMBDA w : {LikelyEvent(w)}, EventRead, EventChecked, HeldOut),
   weighted_tradeoff    |-> MakeFamily(Offers, LAMBDA w : DOMAIN w.scores, Best, Near,
                                       LevelRead, OfferChecked, HeldOut)]
=============================================================================
