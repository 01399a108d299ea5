-------------------------- MODULE AnswerSufficiency -------------------------
(* taskpacks/harness/answer_sufficiency.py: whether a candidate answer can   *)
(* be returned.  Code assembles the answer, the request and the availability *)
(* of each fact; the writer's prose is in the one official source.           *)
EXTENDS RowSource

Facts == 1 .. 3                                          \* R1, R2, R3

Stated == [answer |-> TRUE, context |-> TRUE, retrievable |-> TRUE, owner |-> "world"]

Base == [facts |-> [i \in Facts |-> Stated], contradicts |-> FALSE,
         ambiguous |-> FALSE, unsupported |-> FALSE, cited |-> TRUE,
         conflict |-> FALSE, format |-> TRUE]

(* drop, for each of the three facts                                         *)
Drop(context, retrievable, owner) ==
  {[Base EXCEPT !.facts[i] = [answer |-> FALSE, context |-> context,
                              retrievable |-> retrievable, owner |-> owner]] : i \in Facts}

(* sample *)
Sample ==
  [complete_supported        |-> {Base},
   wrong_format              |-> {[Base EXCEPT !.format = FALSE]},
   missing_fact_in_context   |-> Drop(TRUE, TRUE, "world"),
   missing_fact_retrievable  |-> Drop(FALSE, TRUE, "world"),
   missing_fact_unavailable  |-> Drop(FALSE, FALSE, "world"),
   missing_user_fact         |-> Drop(FALSE, FALSE, "user"),
   contradicts_authoritative |-> {[Base EXCEPT !.contradicts = TRUE]},
   ambiguous_request         |-> {[Base EXCEPT !.ambiguous = TRUE]},
   unsupported_claim         |-> {[Base EXCEPT !.unsupported = TRUE]},
   plausible_hallucination   |-> {[Base EXCEPT !.unsupported = TRUE]},
   bad_citations             |-> {[Base EXCEPT !.cited = FALSE]},
   confident_partial_answer  |-> Drop(FALSE, TRUE, "world"),
   injection_in_retrieval    |-> {Base},
   conflicting_sources       |-> {[Base EXCEPT !.conflict = TRUE]}]

Family(f) == Sample[f]
Worlds == UNION {Family(f) : f \in DOMAIN Sample}

(* Every combination of the facts a world has, drawn by a family or not.     *)
Situations ==
  [facts : [Facts -> [answer : BOOLEAN, context : BOOLEAN, retrievable : BOOLEAN,
                      owner : {"world", "user"}]],
   contradicts : BOOLEAN, ambiguous : BOOLEAN, unsupported : BOOLEAN, cited : BOOLEAN,
   conflict : BOOLEAN, format : BOOLEAN]

(* build_sources patches in what the prose leaves out of a fact that is in   *)
(* context; nothing takes out a value the prose adds.                        *)
Texts == Worlds \cup {[w EXCEPT !.facts[i].context = TRUE] : w \in Worlds, i \in Facts}

Missing(w) == {i \in Facts : ~w.facts[i].answer}

(* sufficiency *)
Sufficiency(w) ==
  LET missing == Missing(w)
      away    == {i \in missing : ~w.facts[i].context}
  IN IF w.ambiguous THEN "ask_user"
     ELSE IF w.contradicts \/ w.conflict THEN "escalate"
     ELSE IF w.unsupported \/ ~w.cited THEN "repair_from_context"
     ELSE IF missing # {}
          THEN IF away = {} THEN "repair_from_context"
               ELSE IF \E i \in away : w.facts[i].owner = "user" THEN "ask_user"
               ELSE IF \E i \in away : w.facts[i].retrievable THEN "retrieve_more"
               ELSE "escalate"
     ELSE IF ~w.format THEN "repair_from_context"
     ELSE "return"

(* finalize_surface: where a fact can be had.                                *)
Where(x) ==
  IF x.context THEN "stated"
  ELSE IF x.owner = "user" THEN "user"
  ELSE IF x.retrievable THEN "fetch"
  ELSE "nowhere"

(* finalize_surface: an ambiguous request says nothing of the facts.         *)
Availability(w) ==
  IF w.ambiguous THEN {} ELSE {<<i, Where(w.facts[i])>> : i \in Facts}

(* ANSWER_POLICY, read from the visible availability of the facts that the   *)
(* answer does not state.                                                    *)
Policy(w) ==
  LET where   == {p[2] : p \in {q \in Availability(w) : q[1] \in Missing(w)}}
      clauses == << <<w.ambiguous, "ask_user">>,
                    <<w.contradicts \/ w.conflict, "escalate">>,
                    <<w.unsupported \/ ~w.cited, "repair_from_context">>,
                    <<where = {"stated"}, "repair_from_context">>,
                    <<"user" \in where, "ask_user">>,
                    <<"fetch" \in where, "retrieve_more">>,
                    <<where # {}, "escalate">>,
                    <<~w.format, "repair_from_context">>,
                    <<TRUE, "return">> >>
      holds == {i \in DOMAIN clauses : clauses[i][1]}
  IN clauses[CHOOSE i \in holds : \A j \in holds : i <= j][2]

(* expected_extraction: a conflict is only looked for where there is one,    *)
(* and the citation of a wrong statement is moot.                            *)
Read(w) ==
  [answer      |-> Facts \ Missing(w),
   sources     |-> {i \in Facts : w.facts[i].context},
   contradicts |-> w.contradicts, unsupported |-> w.unsupported,
   cited       |-> w.cited, conflict |-> w.conflict]

Expected(w) ==
  Without(Read(w), (IF w.conflict THEN {} ELSE {"conflict"})
                     \cup (IF w.contradicts \/ w.unsupported THEN {"cited"} ELSE {}))

(* finalize_surface, build_sources, build_answer, build_request, and the     *)
(* format check of check_surface: all but what the prose adds to the source. *)
Writable(w, t) ==
  \E said \in SUBSET Facts :
    t = [w EXCEPT !.facts = [i \in Facts |->
                               [w.facts[i] EXCEPT !.context = @ \/ i \in said]]]

Unchecked(w) == {}
Accepts(w, t) == Agree(Expected(w), Read(t))

Pack == MakePack(Worlds, Texts, Sufficiency, Policy, Writable, Accepts, Unchecked)
=============================================================================
