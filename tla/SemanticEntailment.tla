-------------------------- MODULE SemanticEntailment ------------------------
(* taskpacks/foundation/semantic_entailment.py: whether evidence supports a  *)
(* claim.  The properties p0, p1, ... are the adjectives drawn, "e", "e2",   *)
(* "e3" the objects, "eA" and "eB" two of similar name.                      *)
EXTENDS RowSource, Sequences
LOCAL INSTANCE SequencesExt
LOCAL INSTANCE Symbolic

(* _fact and _rule                                                           *)
Fact(p, e, holds, source) == [lit |-> <<p, e, holds>>, source |-> source]
Says(p, e) == Fact(p, e, TRUE, "S1")
Rule(quant, p, q) ==
  [quant |-> quant, body |-> {<<p, TRUE>>}, head |-> <<q, quant # "no">>, unless |-> {}]

(* sources: S1 is official.                                                  *)
World(facts, rules, claim) ==
  [facts |-> facts, rules |-> rules, claim |-> claim, second |-> "none"]

P(i) == CASE i = 0 -> "p0" [] i = 1 -> "p1" [] i = 2 -> "p2" [] i = 3 -> "p3" [] i = 4 -> "p4"

Chain(n, last) ==
  {Rule(IF i = n - 1 THEN last ELSE "all", P(i), P(i + 1)) : i \in 0 .. n - 1}

(* sample; evidence that is neither a fact nor a rule is left out.           *)
Sample ==
  LET extra == Says("p3", "e3")
      Claim(p) == <<p, "e", TRUE>>
  IN [direct_fact          |-> {World({Says("p0", "e"), extra}, {}, Claim("p0"))},
      direct_contradiction |-> {World({Fact("p0", "e", ~n, "S1"), extra}, {}, <<"p0", "e", n>>) : n \in BOOLEAN},
      missing_evidence     |-> {World({Says("p1", "e"), Says("p0", "e2")}, {}, <<"p0", "e", h>>) : h \in BOOLEAN},
      multi_hop            |-> {World({Says("p0", "e")}, Chain(2, q), Claim("p2")) : q \in {"all", "no"}},
      distractor_facts     |-> {World({Says("p0", "e"), extra, Says("p2", "e2")},
                                      {Rule("all", "p0", "p1"), Rule("all", "p4", "p5")}, Claim("p1"))},
      quantifier_set       |-> {World({Says("p0", "e")}, {Rule(q, "p0", "p1")}, Claim("p1")) : q \in {"all", "no", "some"}},
      source_conflict      |-> {[World({Says("p0", "e"), Fact("p0", "e", FALSE, "S2")}, {}, Claim("p0"))
                                   EXCEPT !.second = a] : a \in {"official", "informal"}},
      ambiguous_wording    |-> {World({Says("p0", "e")}, {Rule(q, "p0", "p1")}, Claim("p1")) : q \in {"most", "several"}},
      double_negation      |-> {World({Says("p0", "e")}, {}, Claim("p0"))},
      similar_entity       |-> {World({Says("p0", "eA")}, {Rule("all", "p0", "p1")}, <<"p1", e, TRUE>>) : e \in {"eA", "eB"}},
      long_chain           |-> {World({Says("p0", "e")}, Chain(4, "all"), Claim("p4"))},
      salient_distractor   |-> {World({Fact("p0", "e", ~n, "S1")}, {}, Claim("p0")) : n \in BOOLEAN}]

(* The shuffled families, and the order in which the others list one rule.   *)
Family(f) == UNION {{[w EXCEPT !.rules = s] : s \in SetToSeqs(w.rules)} : w \in Sample[f]}
Worlds == UNION {Family(f) : f \in DOMAIN Sample}

Said(w) == {f.lit : f \in w.facts}

(* A writer may add a statement of its own; what the world's sources say     *)
(* stays theirs, which nobody checks either.                                 *)
Texts ==
  LET Extra(w) == {l \in {"p0", "p1"} \X {"e"} \X BOOLEAN : l \notin Said(w)}
  IN Worlds
       \cup UNION {{[w EXCEPT !.facts = @ \cup {[lit |-> l, source |-> "S1"]}] : l \in Extra(w)} : w \in Worlds}
       \cup {[w EXCEPT !.rules = Append(@, Rule(q, "p0", "p1"))] : w \in Worlds, q \in {"all", "no"}}

Authority(w, source) == IF source = "S1" \/ w.second = "official" THEN 2 ELSE 1

(* _solver_inputs *)
SolverFacts(w) == {<<f.lit, Authority(w, f.source)>> : f \in w.facts}

(* decide *)
Verdict(w) == EntailmentVerdict(SolverFacts(w), w.rules, w.claim)

(* The claim against its negation, by what supports each.                    *)
Policy(w) ==
  LET for     == Support(SolverFacts(w), w.rules, w.claim)
      against == Support(SolverFacts(w), w.rules, [w.claim EXCEPT ![3] = ~@])
  IN IF for > against THEN "entailed" ELSE IF against > for THEN "contradicted" ELSE "unknown"

(* expected_extraction and compare_facts: no fact, read without its source,  *)
(* and no rule may be missing, and what was added, taken as official, may    *)
(* not change the verdict.                                                   *)
Accepts(w, t) ==
  LET extras == {<<l, 2>> : l \in Said(t) \ Said(w)}
      added  == SelectSeq(t.rules, LAMBDA r : r \notin Range(w.rules))
  IN /\ t.claim = w.claim
     /\ Said(w) \subseteq Said(t)
     /\ Range(w.rules) \subseteq Range(t.rules)
     /\ EntailmentVerdict(SolverFacts(w) \cup extras, w.rules \o added, w.claim) = Verdict(w)

Writable(w, t) == TRUE

(* How authoritative the second source is is not read back.                  *)
Unchecked(w) == w.second

Pack == MakePack(Worlds, Texts, Verdict, Policy, Writable, Accepts, Unchecked)
=============================================================================
