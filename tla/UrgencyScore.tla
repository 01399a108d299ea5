----------------------------- MODULE UrgencyScore ---------------------------
(* taskpacks/foundation/communication_urgency.py with the points of          *)
(* configs/policies.yaml: how urgent a message is, from 0 to 3.              *)
EXTENDS RowSource, Integers

ScopePoints      == [single |-> 0, team |-> 1, org |-> 2, all_customers |-> 3]
ServicePoints    == [normal |-> 0, degraded |-> 1, down |-> 2]
RevenuePoints    == [none |-> 0, minor |-> 1, major |-> 2]
WorkaroundPoints == [none |-> 0, partial |-> -1, full |-> -3]
Cutoffs          == <<0, 2, 4>>                               \* level_cutoffs
Deadlines        == << <<4, 3>>, <<24, 2>>, <<72, 1>> >>
MissingLevel     == 1                                    \* missing_info_level
NoDeadline       == 1000

Base == [scope |-> "single", service |-> "normal", revenue |-> "none",
         workaround |-> "none", safety |-> FALSE, hours |-> NoDeadline,
         real |-> TRUE, missing |-> FALSE]

Case(scope, service, revenue, workaround) ==
  [Base EXCEPT !.scope = scope, !.service = service, !.revenue = revenue,
               !.workaround = workaround]

(* sample; the tone, the sender and the number of people are left out.       *)
Sample ==
  [broad_outage         |-> {Case(s, "down", r, "none") : s \in {"org", "all_customers"}, r \in {"minor", "major"}},
   single_user_issue    |-> {Case("single", s, "none", w) : s \in {"normal", "degraded"}, w \in {"none", "partial"}},
   deadline_driven      |-> {[Base EXCEPT !.scope = s, !.hours = h] : s \in {"single", "team"}, h \in {2, 8, 20, 60, 200}},
   safety_report        |-> {[Base EXCEPT !.safety = TRUE, !.scope = s] : s \in {"single", "team", "org"}},
   revenue_loss         |-> {Case("team", s, r, "none") : s \in {"degraded", "down"}, r \in {"minor", "major"}},
   workaround_available |-> {Case(s, v, "none", "full") : s \in {"team", "org"}, v \in {"degraded", "down"}},
   partial_outage       |-> {Case("team", "degraded", r, "partial") : r \in {"none", "minor"}},
   missing_info         |-> {[Case(s, v, "none", "none") EXCEPT !.missing = TRUE] : s \in {"team", "org"}, v \in {"degraded", "down"}},
   routine_request      |-> {[Base EXCEPT !.scope = s, !.hours = h] : s \in {"single", "team"}, h \in {NoDeadline, 200}},
   emotional_low_impact |-> {Case("single", "normal", "none", w) : w \in {"none", "full"}},
   calm_critical_outage |-> {Case("all_customers", "down", "major", "none")},
   false_deadline       |-> {[Base EXCEPT !.hours = h, !.real = FALSE] : h \in {1, 3}},
   workaround_reduces   |-> {Case("org", "down", "minor", "full")},
   partial_outage_hard  |-> {Case("org", "degraded", "minor", "partial")},
   missing_impact_info_hard |-> {[Base EXCEPT !.missing = TRUE, !.scope = "team"]}]

Family(f) == Sample[f]
Worlds == UNION {Family(f) : f \in DOMAIN Sample}

(* Every combination of the facts a world has, drawn by a family or not.     *)
Situations ==
  [scope : DOMAIN ScopePoints, service : DOMAIN ServicePoints, revenue : DOMAIN RevenuePoints,
   workaround : DOMAIN WorkaroundPoints, safety : BOOLEAN, hours : Nat, real : BOOLEAN,
   missing : BOOLEAN]

(* bucket *)
Bucket(hours) ==
  IF hours = NoDeadline THEN "none"
  ELSE IF hours <= 4 THEN "under_4h"
  ELSE IF hours <= 24 THEN "4_to_24h"
  ELSE IF hours <= 72 THEN "24_to_72h"
  ELSE "over_72h"

(* urgency_level: the first cutoff that the deadline is within.              *)
DeadlinePoints(hours) ==
  LET met == {i \in DOMAIN Deadlines : hours <= Deadlines[i][1]}
  IN IF met = {} THEN 0 ELSE Deadlines[CHOOSE i \in met : \A j \in met : i <= j][2]

Points(w) ==
  ScopePoints[w.scope] + ServicePoints[w.service] + RevenuePoints[w.revenue]
    + (IF w.real THEN DeadlinePoints(w.hours) ELSE 0) + WorkaroundPoints[w.workaround]

(* urgency_level *)
UrgencyLevel(w) ==
  IF w.safety THEN 3
  ELSE IF w.missing THEN MissingLevel
  ELSE IF Points(w) <= Cutoffs[1] THEN 0
  ELSE IF Points(w) <= Cutoffs[2] THEN 1
  ELSE IF Points(w) <= Cutoffs[3] THEN 2
  ELSE 3

(* rubric_text: the points it prints, the levels being the intervals between *)
(* the cutoffs.                                                              *)
Policy(w) ==
  LET deadline == CASE ~w.real \/ w.hours > 72 -> 0
                    [] w.real /\ w.hours <= 4 -> 3
                    [] w.real /\ w.hours \in 5 .. 24 -> 2
                    [] w.real /\ w.hours \in 25 .. 72 -> 1
      total == ScopePoints[w.scope] + ServicePoints[w.service] + RevenuePoints[w.revenue]
                 + deadline + WorkaroundPoints[w.workaround]
  IN IF w.safety THEN 3
     ELSE IF w.missing THEN 1
     ELSE Cardinality({i \in DOMAIN Cutoffs : total > Cutoffs[i]})

(* expected_extraction: all facts, the deadline by its bucket.               *)
Read(w) == [w EXCEPT !.hours = Bucket(w.hours)]

(* expected_extraction: a scope that the message leaves out is not read.     *)
Expected(w) == Without(Read(w), IF w.missing THEN {"scope"} ELSE {})

Writable(w, t) == TRUE
Unchecked(w) == {}
Accepts(w, t) == Agree(Expected(w), Read(t))

Pack == MakePack(Worlds, Worlds, UrgencyLevel, Policy, Writable, Accepts, Unchecked)
=============================================================================
