------------------------------- MODULE Symbolic -----------------------------
(* generation/symbolic.py: forward chaining over literals with the authority *)
(* of their sources and with exceptions.  A literal is <<predicate, entity,  *)
(* positive>>; a rule has a body of <<predicate, positive>> pairs, a head,   *)
(* exceptions and a quantifier, and the rules are a sequence.                *)
EXTENDS Naturals, FiniteSets, Sequences
LOCAL INSTANCE SequencesExt
LOCAL INSTANCE FiniteSetsExt

(* One rule of a round of _saturate, for every entity that is known.         *)
Fire(known, r) ==
  LET Lit(b, e) == <<b[1], e, b[2]>>
      fires == {e \in {l[2] : l \in DOMAIN known} :
                  /\ r.quant \in {"all", "no"}
                  /\ \A b \in r.body : Lit(b, e) \in DOMAIN known
                  /\ \A u \in r.unless : <<u, e, TRUE>> \notin DOMAIN known}
      Auth(e) == Min({known[Lit(b, e)] : b \in r.body})
      heads == {Lit(r.head, e) : e \in fires}
  IN [l \in DOMAIN known \cup heads |->
        IF l \notin heads THEN known[l]
        ELSE IF l \notin DOMAIN known THEN Auth(l[2])
        ELSE Max({known[l], Auth(l[2])})]

(* A round that changes something makes a literal of an entity and a head,   *)
(* or raises the authority of one from 1 to 2.                               *)
MaxRounds(known, rules) ==
  2 * (Cardinality(DOMAIN known) + Len(rules) * Cardinality({l[2] : l \in DOMAIN known}))

(* _saturate: rounds over the rules, in their order, until nothing changes.  *)
Saturate(known, rules) ==
  LET after[n \in Nat] == IF n = 0 THEN known ELSE FoldLeft(Fire, after[n - 1], rules)
  IN after[CHOOSE n \in 0..MaxRounds(known, rules) : after[n + 1] = after[n]]

(* Facts are pairs of a literal and the authority of its source.             *)
Known(facts) ==
  [l \in {f[1] : f \in facts} |-> Max({f[2] : f \in {g \in facts : g[1] = l}})]

(* Mutated form: rules with exceptions take part from the start.             *)
Closure_OneStratum(facts, rules) == Saturate(Known(facts), rules)

(* closure *)
Closure(facts, rules) ==
  Saturate(Saturate(Known(facts), SelectSeq(rules, LAMBDA r : r.unless = {})), rules)

(* literal_status *)
LiteralStatus(known, lit) ==
  LET Auth(l) == IF l \in DOMAIN known THEN known[l] ELSE 0
      neg == [lit EXCEPT ![3] = ~@]
  IN CASE Auth(lit) > Auth(neg) -> "true"
       [] Auth(lit) < Auth(neg) -> "false"
       [] OTHER -> IF lit \in DOMAIN known THEN "conflict" ELSE "unknown"

(* entailment_verdict *)
EntailmentVerdict(facts, rules, claim) ==
  LET st == LiteralStatus(Closure(facts, rules), claim)
  IN IF st = "true" THEN "entailed" ELSE IF st = "false" THEN "contradicted" ELSE "unknown"

-----------------------------------------------------------------------------
(* What the solver's documentation promises, without rounds or an order: the *)
(* literals about one entity that every set closed under the rules contains, *)
(* exceptions being judged by what the plain rules give.                     *)
Follow(about, rules) ==
  LET heads == {r.head : r \in rules}
      Closed(s) == \A r \in rules : r.body \subseteq s => r.head \in s
  IN about \cup {h \in heads : \A s \in SUBSET heads : Closed(about \cup s) => h \in about \cup s}

Consequences(facts, rules, ent, level) ==
  LET about  == {<<f[1][1], f[1][3]>> : f \in {g \in facts : g[1][2] = ent /\ g[2] >= level}}
      firing == {r \in Range(rules) : r.quant \in {"all", "no"}}
      plain  == Follow(about, {r \in firing : r.unless = {}})
  IN Follow(about, {r \in firing : \A u \in r.unless : <<u, TRUE>> \notin plain})

(* The highest authority on which a literal rests.                           *)
Support(facts, rules, lit) ==
  Max({0} \cup {a \in {1, 2} : <<lit[1], lit[3]>> \in Consequences(facts, rules, lit[2], a)})
=============================================================================
