------------------------------ MODULE UseCases ------------------------------
(* generation/code_packs/jev_use_cases.py: decisions on structured records.  *)
(* The state holds the policy and the features, the generator's rule engine  *)
(* labels the features.  Numbers are taken on either side of every threshold.*)
EXTENDS RowSource, Sequences

Points(b, n) == IF b THEN n ELSE 0

(* The levels are printed as one digit.                                      *)
Scores == {"0", "1", "2", "3"}
Score(n) == <<"0", "1", "2", "3">>[n + 1]
Level(points, floors) == Score(Cardinality({i \in DOMAIN floors : points >= floors[i]}))

(* A policy of rules "first match wins", each <<condition, outcome>>.        *)
FirstMatch(rules) == {rules[CHOOSE i \in DOMAIN rules :
                              rules[i][1] /\ \A j \in 1..(i - 1) : ~rules[j][1]][2]}

(* Nobody verifies these rows.                                               *)
Unverified(w, o) == TRUE
Case(worlds, options, Gold(_), Right(_)) ==
  MakeFamily(worlds, LAMBDA w : options, Gold, LAMBDA w : {Gold(w)}, Right, Unverified, Variant(5))
Ruled(worlds, options, Gold(_), POLICY(_)) ==
  Case(worlds, options, Gold, LAMBDA w : FirstMatch(POLICY(w)))

-----------------------------------------------------------------------------
(* entity resolution                                                         *)
Pairs == [name : {"exact", "variant", "different"}, email : {"same", "different", "missing"},
          phone : {"same", "different", "missing"}, address : {"same", "variant", "different", "missing"}]
Shared(w) == "same" \in {w.email, w.phone}
Differing(w) == "different" \in {w.email, w.phone}
BothDiffer(w) == w.email = "different" /\ w.phone = "different"

(* _er_label: an identifier that differs beside one that is shared stops a   *)
(* match.                                                                    *)
Resolution(w) ==
  CASE w.name # "different" /\ Shared(w) /\ ~Differing(w) -> "match"
    [] w.name = "exact" /\ w.address = "same" /\ ~Differing(w) -> "match"
    [] w.name = "different" /\ ~Shared(w) -> "no_match"
    [] BothDiffer(w) /\ w.name = "variant" -> "no_match"
    [] OTHER -> "needs_review"

(* ER_POLICY: it does not stop it there.                                     *)
ER_POLICY(w) ==
  << <<w.name # "different" /\ Shared(w), "match">>,
     <<w.name = "exact" /\ w.address = "same" /\ ~Differing(w), "match">>,
     <<w.name = "different" /\ ~Shared(w), "no_match">>,
     <<BothDiffer(w) /\ w.name # "exact", "no_match">>,
     <<TRUE, "needs_review">> >>

-----------------------------------------------------------------------------
(* fraud risk: ratio is the amount over the average, in halves.              *)
Transactions ==
  [ratio : {4, 6, 12}, newDevice : BOOLEAN, foreign : BOOLEAN, lastHour : {2, 3, 5}, age : {5, 25, 60},
   merchant : {"groceries", "gift_cards", "electronics"}, shipping : BOOLEAN, cardPresent : BOOLEAN]

RiskPoints(w) ==
  Points(w.ratio > 4, 1) + Points(w.ratio > 10, 2) + Points(w.newDevice, 1) + Points(w.foreign, 2)
    + Points(w.lastHour >= 3, 1) + Points(w.lastHour >= 5, 2) + Points(w.age < 30, 1) + Points(w.age < 7, 1)
    + Points(w.merchant # "groceries", 2) + Points(w.shipping, 1)

(* Mutated form: the gift cards come after the points.                       *)
Handling_PointsOnly(w) ==
  CASE RiskPoints(w) >= 7 + Points(w.cardPresent, 1) -> "block"
    [] RiskPoints(w) >= 4 + Points(w.cardPresent, 1) /\ RiskPoints(w) < 7 + Points(w.cardPresent, 1) -> "review"
    [] OTHER -> "approve"

Handling(w) ==
  LET card == Points(w.cardPresent, 1)
  IN CASE RiskPoints(w) >= 7 + card \/ (w.merchant = "gift_cards" /\ w.newDevice /\ w.foreign) -> "block"
       [] RiskPoints(w) < 4 + card /\ ~(w.merchant = "gift_cards" /\ w.newDevice /\ w.foreign) -> "approve"
       [] OTHER -> "review"
FR_POLICY(w) ==
  LET total == RiskPoints(w) - Points(w.cardPresent /\ RiskPoints(w) > 0, 1)
  IN << <<total >= 7, "block">>,
        <<w.merchant = "gift_cards" /\ w.newDevice /\ w.foreign, "block">>,
        <<total \in 4..6, "review">>, <<TRUE, "approve">> >>

-----------------------------------------------------------------------------
(* financial triage: sentiment in tenths, above -1.                          *)
Snapshots == [above : BOOLEAN, rsi : {49, 50, 70, 71}, rising : BOOLEAN, sentiment : {4, 5, 11, 12},
              earnings : {2, 3}, volatility : {58, 62}]
Blocked(w) == w.earnings <= 2 \/ w.volatility > 60 \/ w.sentiment < 5
Trade(w) ==
  IF Blocked(w) THEN "SKIP"
  ELSE IF w.above /\ w.rsi \in 50..70 /\ w.rising /\ w.sentiment >= 12 THEN "BUY" ELSE "HOLD"
(* "between 50 and 70" says nothing of the two ends.                         *)
TradeRead(w) ==
  IF Blocked(w) THEN {"SKIP"}
  ELSE {IF w.above /\ r /\ w.rising /\ w.sentiment >= 12 THEN "BUY" ELSE "HOLD"
        : r \in {w.rsi \in 50..70, w.rsi \in 51..69}}

-----------------------------------------------------------------------------
(* real-time control.  The nearest enemy has a distance even when none is    *)
(* visible; the weapon reaches to 20.                                        *)
GameStates == [health : {24, 25}, medkits : {0, 1}, ammo : {0, 3}, cover : BOOLEAN, enemies : {0, 1, 3},
               nearest : {20, 25}]
Move(w) ==
  CASE w.health < 25 -> IF w.medkits > 0 THEN "heal" ELSE "retreat"
    [] w.health >= 25 /\ w.ammo = 0 -> IF w.cover THEN "reload" ELSE "retreat"
    [] w.health >= 25 /\ w.ammo > 0 /\ w.enemies >= 3 /\ w.cover -> "take_cover"
    [] w.health >= 25 /\ w.ammo > 0 /\ ~(w.enemies >= 3 /\ w.cover) ->
         IF w.enemies >= 1 /\ w.nearest <= 20 THEN "attack" ELSE "advance"
GC_POLICY(w) ==
  << <<w.health < 25 /\ w.medkits > 0, "heal">>, <<w.health < 25, "retreat">>,
     <<w.ammo = 0 /\ w.cover, "reload">>, <<w.ammo = 0, "retreat">>,
     <<w.enemies >= 3 /\ w.cover, "take_cover">>, <<w.nearest <= 20, "attack">>,
     <<TRUE, "advance">> >>

(* Distances in tenths of a metre.                                           *)
RobotStates == [battery : {14, 15}, obstacle : {3, 5, 9, 20, 35, 60}, fragile : BOOLEAN]
Drive(w) ==
  IF w.battery < 15 THEN "return_to_dock"
  ELSE IF w.obstacle <= 5 THEN "stop"
  ELSE IF w.obstacle <= 20 \/ (w.fragile /\ w.obstacle <= 40) THEN "slow" ELSE "continue"
RB_POLICY(w) ==
  << <<w.battery < 15, "return_to_dock">>, <<w.obstacle <= 5, "stop">>,
     <<w.obstacle <= (IF w.fragile THEN 40 ELSE 20), "slow">>, <<TRUE, "continue">> >>

-----------------------------------------------------------------------------
(* lead scoring, churn and alert priority: points, then a level.             *)
Leads == [rank : 0..2, sized : BOOLEAN, budget : BOOLEAN, months : {1, 4, 9, 99}, demo : BOOLEAN, industry : BOOLEAN]
LeadPoints(w) == w.rank + Points(w.sized, 1) + Points(w.budget, 2) + Points(w.months <= 3, 1)
                   + Points(w.months <= 6, 1) + Points(w.demo, 2) + Points(w.industry, 1)

Players == [away : {1, 4, 8, 16}, lastWeek : {0, 1, 3, 6}, priorWeek : {2, 5, 8, 12}, lapsed : BOOLEAN, friends : {1, 3}]
ChurnPoints(w) == Points(w.away >= 3, 1) + Points(w.away >= 7, 1) + Points(w.away >= 14, 1)
                    + Points(2 * w.lastWeek < w.priorWeek, 2) + Points(w.lapsed, 1) + Points(w.friends < 2, 1)

Alerts == [structuring : BOOLEAN, jurisdiction : BOOLEAN, exposed : BOOLEAN, report : BOOLEAN, falsePositives : {75, 85}]
AlertPoints(w) == Points(w.structuring, 3) + Points(w.jurisdiction, 2) + Points(w.exposed, 2) + Points(w.report, 2)

LeadLevel(w) == Level(LeadPoints(w), <<3, 5, 7>>)
ChurnLevel(w) == Level(ChurnPoints(w), <<2, 4, 6>>)
AlertLevel(w) == Level(AlertPoints(w), [i \in 1..3 |-> (2 * i) + Points(w.falsePositives > 80, 2)])

(* The levels as their policies print them, from the ranges of points.       *)
InRanges(points, tops) ==
  {Score(i) : i \in {j \in 0..3 : (j = 0 \/ points > tops[j]) /\ (j = 3 \/ points <= tops[j + 1])}}
LeadRead(w) == InRanges(LeadPoints(w), <<2, 4, 6>>)
ChurnRead(w) == InRanges(ChurnPoints(w), <<1, 3, 5>>)
AlertRead(w) ==
  InRanges(AlertPoints(w) - (IF w.falsePositives > 80 /\ AlertPoints(w) >= 2 THEN 2 ELSE 0), <<1, 3, 5>>)

-----------------------------------------------------------------------------
(* row validity.  A schema of some fields, and up to two of the row's fields *)
(* spoilt, each in a way that may not apply to it.                           *)
Fields == {"id", "status", "age", "start_date", "end_date"}
Required == {"id", "status"}
Ways == {"missing", "range", "type", "enum", "format"}
Spoilings ==
  UNION {[S -> Ways] : S \in {T \in SUBSET Fields : Cardinality(T) <= 2}}
Rows == {[fields |-> F, spoilt |-> s] : F \in {Fields, Fields \ {"start_date", "end_date"}}, s \in Spoilings}
RowWorlds == {w \in Rows : DOMAIN w.spoilt \subseteq w.fields}

Broken(w, n) ==
  /\ n \in DOMAIN w.spoilt
  /\ \/ w.spoilt[n] = "missing" /\ n \in Required
     \/ w.spoilt[n] \in {"range", "type"} /\ n \in {"age", "id"}
     \/ w.spoilt[n] = "enum" /\ n = "status"
     \/ w.spoilt[n] = "format" /\ n \in {"start_date", "end_date"}
(* Any other way with end_date puts it a year before start_date, unless that *)
(* is no date any more.                                                      *)
EndsBefore(w) ==
  /\ "end_date" \in DOMAIN w.spoilt /\ ~Broken(w, "end_date")
  /\ ~Broken(w, "start_date")

RowValid(w) == Noul((\A n \in w.fields : ~Broken(w, n)) /\ ~EndsBefore(w))
(* The schema in the text relates no two fields.                             *)
RowRead(w) == {Noul(\A n \in w.fields : ~Broken(w, n))}

-----------------------------------------------------------------------------
(* semantic grep: SG_CRITERIA as sets of classes, and what the lines of a    *)
(* class are about.                                                          *)
Criteria ==
  [login_failed |-> {"auth_failure"}, exhausted |-> {"disk_full", "oom_kill"},
   unreachable |-> {"timeout", "refused"}, deployment |-> {"deploy_failed"},
   wrong |-> {"auth_failure", "timeout", "refused", "disk_full", "oom_kill", "deploy_failed", "slow_query"},
   routine |-> {"auth_success", "deploy_started", "health_ok"}, database |-> {"slow_query"},
   access |-> {"auth_failure", "auth_success"}]
About ==
  [auth_failure |-> "access", auth_success |-> "access", timeout |-> "network", refused |-> "network",
   disk_full |-> "capacity", oom_kill |-> "capacity", deploy_started |-> "deploy", deploy_failed |-> "deploy",
   health_ok |-> "health", slow_query |-> "database"]
Healthy == {"auth_success", "deploy_started", "health_ok"}
Lines == [criterion : DOMAIN Criteria, class : DOMAIN About]
Kept(w) == Noul(w.class \in Criteria[w.criterion])
KeptRead(w) ==
  LET bad == w.class \notin Healthy
      topic == About[w.class]
  IN {Noul(CASE w.criterion = "login_failed" -> topic = "access" /\ bad
             [] w.criterion = "exhausted"    -> topic = "capacity" /\ bad
             [] w.criterion = "unreachable"  -> topic = "network" /\ bad
             [] w.criterion = "deployment"   -> topic = "deploy" /\ bad
             [] w.criterion = "wrong"        -> bad
             [] w.criterion = "routine"      -> ~bad
             [] w.criterion = "database"     -> topic = "database"
             [] w.criterion = "access"       -> topic = "access")}

(* log collection and lint: the label is looked up with the text.            *)
Sources == {"auth_logs", "process_tree", "network_logs", "identity_logs"}

-----------------------------------------------------------------------------
(* invoices, claims                                                          *)
Invoices == [bankChanged : BOOLEAN, known : BOOLEAN, above5000 : BOOLEAN, order : {"none", "within", "exceeded"},
             duplicate : BOOLEAN, approved : BOOLEAN]
Payment(w) ==
  IF w.bankChanged \/ (~w.known /\ w.above5000) THEN "fraud_review"
  ELSE IF w.order # "within" THEN "dispute"
  ELSE IF w.duplicate \/ ~w.approved THEN "hold" ELSE "pay"
INV_POLICY(w) ==
  << <<w.bankChanged, "fraud_review">>, <<~w.known /\ w.above5000, "fraud_review">>,
     <<w.order = "none", "dispute">>, <<w.order = "exceeded", "dispute">>,
     <<w.duplicate, "hold">>, <<~w.approved, "hold">>, <<TRUE, "pay">> >>

ClaimCases == [claims : {2, 3}, policyDays : {20, 45}, complete : BOOLEAN, loss : {24, 26, 60}, injury : BOOLEAN, active : BOOLEAN]
FraudPoints(w) == Points(w.claims >= 3, 2) + Points(w.policyDays < 30, 2) + Points(~w.complete, 1) + Points(w.loss > 25, 1)
ClaimRoute(w) ==
  IF FraudPoints(w) >= 4 THEN "SIU" ELSE IF w.injury \/ w.loss > 50 \/ ~w.active THEN "specialist" ELSE "STP"
CLM_POLICY(w) ==
  << <<FraudPoints(w) \in 4..6, "SIU">>, <<w.injury, "specialist">>, <<w.loss > 50, "specialist">>,
     <<~w.active, "specialist">>, <<TRUE, "STP">> >>

-----------------------------------------------------------------------------
(* the four decisions of a security operations centre                        *)
SocAlerts == [severity : 1..5, critical : BOOLEAN, confirmed : BOOLEAN, impacted : BOOLEAN, lateral : BOOLEAN, known : BOOLEAN]
Triage(w) ==
  IF w.lateral \/ (w.confirmed /\ w.critical) THEN "contain_now"
  ELSE IF w.known \/ (w.severity <= 2 /\ ~w.confirmed /\ ~w.impacted) THEN "auto_close"
  ELSE IF w.impacted /\ w.severity <= 3 /\ ~w.confirmed THEN "notify_user" ELSE "queue_tier2"
SOC_POLICY(w) ==
  << <<w.lateral, "contain_now">>, <<w.confirmed /\ w.critical, "contain_now">>, <<w.known, "auto_close">>,
     <<w.severity \in 1..2 /\ ~(w.confirmed \/ w.impacted), "auto_close">>,
     <<w.impacted /\ w.severity \in 1..3 /\ ~w.confirmed, "notify_user">>, <<TRUE, "queue_tier2">> >>

Escalations == [triage : {"auto_close", "notify_user", "queue_tier2", "contain_now"}, severity : 1..5,
                asset : {"low", "medium", "high", "critical"}]
Escalate(w) ==
  IF w.triage = "contain_now" /\ w.asset = "critical" THEN "page_oncall"
  ELSE IF w.triage = "contain_now" \/ (w.severity >= 4 /\ w.asset = "high") THEN "handoff_ir"
  ELSE IF w.triage = "notify_user" THEN "notice_users" ELSE "stay_queue"
ESC_POLICY(w) ==
  << <<w.triage = "contain_now" /\ w.asset = "critical", "page_oncall">>, <<w.triage = "contain_now", "handoff_ir">>,
     <<w.severity \in 4..5 /\ w.asset = "high", "handoff_ir">>, <<w.triage = "notify_user", "notice_users">>,
     <<TRUE, "stay_queue">> >>

Recoveries == [hours : {3, 4, 20, 24}, clean : BOOLEAN, fixed : BOOLEAN]
Recover(w) ==
  IF ~w.clean \/ w.hours < 4 THEN "remain_isolated"
  ELSE IF w.hours >= 24 /\ w.fixed THEN "full_restore" ELSE "limited_restore"
RecoverRead(w) ==
  {CASE ~w.clean \/ w.hours < 4 -> "remain_isolated"
     [] w.hours >= 24 /\ w.fixed /\ w.clean -> "full_restore"
     [] OTHER -> "limited_restore"}

-----------------------------------------------------------------------------
(* recruiting: nice is how many of the four nice-to-have skills are there.   *)
Candidates == [missing : BOOLEAN, nice : 0..4, minYears : {2, 3, 5}, years : {1, 3, 5, 7, 9}]
Fit(w) == IF w.missing THEN "0" ELSE Score(1 + Points(2 * w.nice >= 4, 1) + Points(w.years >= w.minYears + 2, 1))
FitRead(w) == {IF w.missing THEN "0" ELSE Score(1 + Cardinality({b \in {"skills", "years"} :
                 IF b = "skills" THEN w.nice >= 2 ELSE w.years - w.minYears >= 2}))}

(* model routing                                                             *)
Requests == [task : {"extraction", "translation", "code_generation", "multi_step_reasoning"}, tokens : {3900, 4100},
             critical : BOOLEAN, latency : {450, 800}]
ModelFor(w) ==
  IF w.task = "multi_step_reasoning" \/ (w.task = "code_generation" /\ w.critical) THEN "large"
  ELSE IF w.latency < 500 \/ (w.task = "extraction" /\ w.tokens < 4000 /\ ~w.critical) THEN "small" ELSE "medium"
MR_POLICY(w) ==
  << <<w.task = "multi_step_reasoning", "large">>, <<w.task = "code_generation" /\ w.critical, "large">>,
     <<w.latency < 500, "small">>, <<w.task = "extraction" /\ w.tokens < 4000 /\ ~w.critical, "small">>,
     <<TRUE, "medium">> >>

(* refund eligibility                                                        *)
Orders == [days : {14, 20, 29, 31, 60, 90}, window : {14, 30}, damaged : BOOLEAN, finalSale : BOOLEAN]
Refundable(w) ==
  Noul(~w.finalSale /\ ((~w.damaged /\ w.days <= w.window) \/ (w.damaged /\ w.days <= 2 * w.window)))
RF_POLICY(w) ==
  << <<w.finalSale, "no">>, <<w.days <= w.window, "yes">>,
     <<w.damaged /\ w.days <= w.window + w.window, "yes">>, <<TRUE, "no">> >>

-----------------------------------------------------------------------------
Families ==
  [entity_resolution |-> Ruled(Pairs, {"match", "no_match", "needs_review"}, Resolution, ER_POLICY),
   fraud_risk        |-> Ruled(Transactions, {"approve", "review", "block"}, Handling, FR_POLICY),
   financial_triage  |-> Case(Snapshots, {"BUY", "HOLD", "SKIP"}, Trade, TradeRead),
   game_control      |-> Ruled(GameStates, {"heal", "take_cover", "reload", "retreat", "attack", "advance"}, Move, GC_POLICY),
   robot_control     |-> Ruled(RobotStates, {"continue", "slow", "stop", "return_to_dock"}, Drive, RB_POLICY),
   lead_scoring      |-> Case(Leads, Scores, LeadLevel, LeadRead),
   churn_risk        |-> Case(Players, Scores, ChurnLevel, ChurnRead),
   alert_priority    |-> Case(Alerts, Scores, AlertLevel, AlertRead),
   row_validity      |-> Case(RowWorlds, YesNo, RowValid, RowRead),
   semantic_grep     |-> Case(Lines, YesNo, Kept, KeptRead),
   semantic_lint     |-> Case(YesNo, YesNo, LAMBDA w : w, LAMBDA w : {w}),
   log_collection    |-> Case(Sources, Sources, LAMBDA w : w, LAMBDA w : {w}),
   invoice           |-> Ruled(Invoices, {"pay", "hold", "dispute", "fraud_review"}, Payment, INV_POLICY),
   insurance_claims  |-> Ruled(ClaimCases, {"STP", "SIU", "specialist"}, ClaimRoute, CLM_POLICY),
   soc_triage        |-> Ruled(SocAlerts, {"auto_close", "notify_user", "queue_tier2", "contain_now"}, Triage, SOC_POLICY),
   soc_escalation    |-> Ruled(Escalations, {"page_oncall", "handoff_ir", "notice_users", "stay_queue"}, Escalate, ESC_POLICY),
   soc_recovery      |-> Case(Recoveries, {"remain_isolated", "limited_restore", "full_restore"}, Recover, RecoverRead),
   recruiting        |-> Case(Candidates, Scores, Fit, FitRead),
   model_routing     |-> Ruled(Requests, {"small", "medium", "large"}, ModelFor, MR_POLICY),
   refund            |-> Ruled(Orders, YesNo, Refundable, RF_POLICY)]
=============================================================================
