---------------------------- MODULE ExtractionJudge -------------------------
(* taskpacks/foundation/extraction_validation.py: whether a proposed         *)
(* extraction agrees with its document.  A schema is its fields; a field has *)
(* the value drawn for it or one of the others the sampler uses.             *)
EXTENDS RowSource, TLC

SCHEMAS == [meeting  |-> <<"event", "date", "time", "organizer">>,
            payment  |-> <<"payer", "payee", "amount", "due_date">>,
            shipment |-> <<"recipient", "city", "tracking_id">>,
            role     |-> <<"person", "role", "organization">>]

Fields(s) == {SCHEMAS[s][i] : i \in DOMAIN SCHEMAS[s]}
Dates == {"date", "due_date"}

(* src: each field has its own value.                                        *)
Source(s) == [k \in Fields(s) |-> k]

Case(s, proposed) ==
  [schema |-> s, source |-> Source(s), proposed |-> proposed, ambiguous |-> {}]
Right(s) == Case(s, Source(s))

Swap(s, a, b) == Case(s, [Source(s) EXCEPT ![a] = b, ![b] = a])
Wrong(s, fields) == {Case(s, [Source(s) EXCEPT ![k] = "wrong"]) : k \in fields \cap Fields(s)}

(* The field that is hard to settle: the first of these, or the second one.  *)
Doubtful(s) == [meeting |-> "date", payment |-> "amount", shipment |-> "city", role |-> "role"][s]
(* The field that is wrongly normalised.                                     *)
Unnormal(s) == [meeting |-> "date", payment |-> "amount", shipment |-> "tracking_id", role |-> "person"][s]

(* sample *)
Sample ==
  [dates_times           |-> {Right("meeting")},
   names_roles           |-> {Right("role")},
   amounts               |-> {Right("payment")},
   addresses             |-> {Right("shipment")},
   identifiers           |-> {Right("shipment")},
   relations             |-> {Right("role")},
   omitted_required      |-> UNION {{Case(s, [k \in Fields(s) \ {o} |-> k]) : o \in Fields(s)} : s \in DOMAIN SCHEMAS},
   swapped_roles         |-> {Swap(s, SCHEMAS[s][1], SCHEMAS[s][2]) : s \in DOMAIN SCHEMAS},
   invalid_normalization |-> UNION {Wrong(s, {Unnormal(s)}) : s \in DOMAIN SCHEMAS},
   source_ambiguity      |-> {[Right(s) EXCEPT !.ambiguous = {Doubtful(s)}] : s \in DOMAIN SCHEMAS},
   multiple_dates        |-> {Right("meeting")} \cup Wrong("meeting", Dates),
   similar_names         |-> {Right("role")} \cup Wrong("role", {"person"}),
   quoted_prior_message  |-> {Right("meeting")} \cup Wrong("meeting", Dates),
   wrong_entity_value    |-> {Swap("payment", "payer", "payee")},
   ocr_errors            |-> {Right("payment")}]

Family(f) == Sample[f]
Worlds == UNION {Family(f) : f \in DOMAIN Sample}

(* A writer may correct the document after the extraction, or leave one of   *)
(* its fields open.                                                          *)
Texts ==
  Worlds \cup {[w EXCEPT !.source = w.proposed @@ w.source] : w \in Worlds}
         \cup UNION {{[w EXCEPT !.ambiguous = {k}] : k \in Fields(w.schema)} : w \in Worlds}

(* judge_extraction *)
JudgeExtraction(w) ==
  IF w.ambiguous # {} THEN "ambiguous"
  ELSE IF \E k \in DOMAIN w.proposed :
            k \notin DOMAIN w.source \/ w.proposed[k] # w.source[k] THEN "incorrect"
  ELSE IF Fields(w.schema) \ DOMAIN w.proposed # {} THEN "incomplete"
  ELSE "correct"

(* options, each by its definition.                                          *)
Policy(w) ==
  LET settled   == w.ambiguous = {}
      supported == \A k \in DOMAIN w.proposed : w.proposed[k] = w.source[k]
      complete  == Fields(w.schema) \subseteq DOMAIN w.proposed
  IN CASE ~settled -> "ambiguous"
       [] settled /\ ~supported -> "incorrect"
       [] settled /\ supported /\ ~complete -> "incomplete"
       [] settled /\ supported /\ complete -> "correct"

(* finalize_surface and check_surface: the extraction and the required       *)
(* fields are the world's.                                                   *)
Writable(w, t) == t.schema = w.schema /\ t.proposed = w.proposed

(* expected_extraction and compare_facts: the values the document gives to   *)
(* the fields that are not ambiguous, and which field is.                    *)
Accepts(w, t) ==
  /\ \A k \in DOMAIN w.source \ w.ambiguous : t.source[k] = w.source[k]
  /\ t.ambiguous = w.ambiguous

Unchecked(w) == {}

Pack == MakePack(Worlds, Texts, JudgeExtraction, Policy, Writable, Accepts, Unchecked)
=============================================================================
