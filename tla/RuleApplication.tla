--------------------------- MODULE RuleApplication --------------------------
(* taskpacks/foundation/rule_application.py: whether rules and facts imply a *)
(* query.  The properties p0, p1, ... are the adjectives drawn, "e" and "e2" *)
(* the objects; a query asks for p3 of e.                                    *)
EXTENDS RowSource, Sequences
LOCAL INSTANCE SequencesExt
LOCAL INSTANCE Symbolic

(* _rule *)
If(body, head, unless) ==
  [quant |-> "all", body |-> {<<p, TRUE>> : p \in body}, head |-> <<head, TRUE>>, unless |-> unless]
Plain(p, q) == If({p}, q, {})

NoScore == 0

Of(facts, rules) == [facts |-> {<<p, "e">> : p \in facts}, rules |-> rules, score |-> NoScore]

(* sample: the facts and the set of rules of each scenario family.           *)
Sample ==
  LET both == If({"p0", "p1"}, "p3", {})
  IN [implication_chain  |-> {Of(f, {Plain("p0", "p1"), Plain("p1", "p2"), Plain("p2", "p3")}) : f \in {{"p0"}, {"p4"}}},
      conjunction        |-> {Of(f, {both}) : f \in {{"p0"}, {"p0", "p1"}}},
      disjunction        |-> {Of({p}, {Plain("p0", "p3"), Plain("p1", "p3")}) : p \in {"p0", "p1", "p4"}},
      exception_override |-> {Of(f, {If({"p0"}, "p3", {"p4"})}) : f \in {{"p0"}, {"p0", "p4"}}},
      category_membership |-> {Of({"p0"}, {Plain("p0", "p1"), Plain("p1", "p3")}), Of({"p0"}, {Plain("p0", "p1")})},
      numeric_threshold  |-> {[Of({}, {Plain("p2", "p3")}) EXCEPT !.score = v] : v \in {40, 69, 70, 95}},
      nested_conditions  |-> {Of(f, {If({"p0", "p1"}, "p2", {}), Plain("p2", "p3")}) : f \in {{"p0", "p1"}, {"p0"}}},
      incomplete_premise |-> {Of({"p0"}, {both})},
      distractor_rules   |-> {[Of({"p0"}, r) EXCEPT !.facts = @ \cup {<<"p5", "e2">>}] :
                                r \in {{Plain("p0", "p3"), Plain("p4", "p5"), Plain("p5", "p1")},
                                       {Plain("p4", "p3"), Plain("p4", "p5")}}},
      exception_chain    |-> {Of({"p0", "p1"}, {If({"p0"}, "p3", {"p4"}), Plain("p1", "p4")})},
      rule_order_variation |-> {Of({"p0"}, {Plain("p2", "p3"), Plain("p1", "p2"), Plain("p0", "p1")})},
      incomplete_premise_hard |->
        {[Of({"p1"}, {Plain("p0", "p3"), Plain("p1", "p2")}) EXCEPT !.facts = @ \cup {<<"p0", "e2">>}]}]

(* sample shuffles the rules.                                                *)
Family(f) == UNION {{[w EXCEPT !.rules = s] : s \in SetToSeqs(w.rules)} : w \in Sample[f]}
Worlds == UNION {Family(f) : f \in DOMAIN Sample}

(* solve: a score of at least 70 gives p2.                                   *)
SolverFacts(w) ==
  {<< <<f[1], f[2], TRUE>>, 1>> : f \in w.facts}
    \cup (IF w.score >= 70 THEN {<< <<"p2", "e", TRUE>>, 1>>} ELSE {})

Solve(w) == LiteralStatus(Closure(SolverFacts(w), w.rules), <<"p3", "e", TRUE>>) = "true"

(* The query follows from the facts whatever the order of the rules.         *)
Policy(w) == Support(SolverFacts(w), w.rules, <<"p3", "e", TRUE>>) > 0

(* expected_extraction; lists are compared without their order.              *)
Read(w) == [facts |-> w.facts, rules |-> Range(w.rules), score |-> w.score]

Writable(w, t) == TRUE
Unchecked(w) == {}
Accepts(w, t) == Agree(Read(w), Read(t))

Pack == MakePack(Worlds, Worlds, Solve, Policy, Writable, Accepts, Unchecked)
=============================================================================
