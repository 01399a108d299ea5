-------------------------- MODULE DocumentRelevance -------------------------
(* taskpacks/foundation/document_relevance.py: how well a document answers a *)
(* query.  "k1" and "k2" are the attributes drawn first; an attribute has    *)
(* its true value or "0".                                                    *)
EXTENDS RowSource

NoRecord == [attribute |-> "none", value |-> "none", authority |-> 0]

(* d["covers"] as pairs of an attribute and its value                        *)
Base(required, covers) ==
  [required |-> required, covers |-> covers, entity |-> "asked", period |-> "2026",
   authority |-> 1, record |-> NoRecord]

One == Base({"k1"}, {<<"k1", "true">>})
Off == Base({"k1"}, {<<"k2", "true">>})
Half == Base({"k1", "k2"}, {<<"k1", "true">>})

(* sample; titles and asides are left out.                                   *)
Sample ==
  [direct_answer              |-> {One},
   partial_answer             |-> {Half},
   irrelevant_topic_overlap   |-> {Off},
   wrong_time_period          |-> {[One EXCEPT !.period = "2025"]},
   conflicting_authoritative  |->
     {[Base({"k1"}, {<<"k1", "0">>}) EXCEPT
         !.record = [attribute |-> "k1", value |-> "true", authority |-> 2]]},
   stale_result               |-> {[One EXCEPT !.period = "2024"]},
   wrong_entity_same_name     |-> {[One EXCEPT !.entity = "namesake"]},
   multi_document_requirement |-> {Half},
   keyword_overlap_no_answer  |-> {Off},
   short_authoritative        |-> {[One EXCEPT !.authority = 2]},
   misleading_title           |-> {Off},
   injection_text_irrelevant  |-> {Off}]

Family(f) == Sample[f]
Worlds == UNION {Family(f) : f \in DOMAIN Sample}

(* A writer may ask for other attributes, leave out or add the second one,   *)
(* or forget the record on file.                                             *)
Texts ==
  Worlds \cup {[w EXCEPT !.record = NoRecord] : w \in Worlds}
         \cup {[w EXCEPT !.required = r] : w \in Worlds, r \in {{"k1"}, {"k1", "k2"}}}
         \cup {[w EXCEPT !.covers = c] : w \in Worlds, c \in SUBSET {<<"k1", "true">>, <<"k2", "true">>}}

Covered(w) == {a \in w.required : \E c \in w.covers : c[1] = a}

Contradicted(w) ==
  \E c \in w.covers : /\ c[1] = w.record.attribute
                      /\ c[2] # w.record.value
                      /\ w.record.authority >= w.authority

(* judge_relevance *)
JudgeRelevance(w) ==
  IF w.entity # "asked" THEN "irrelevant"
  ELSE IF w.period # "2026" THEN "irrelevant"
  ELSE IF Contradicted(w) THEN "conflicting"
  ELSE IF Covered(w) = w.required THEN "directly_relevant"
  ELSE IF Covered(w) # {} THEN "partially_relevant"
  ELSE "irrelevant"

(* options and the instruction to consider entity, period and authority.     *)
Policy(w) ==
  LET fits    == w.entity = "asked" /\ w.period = "2026"
      missing == {a \in w.required : \A c \in w.covers : c[1] # a}
  IN CASE fits /\ Contradicted(w) -> "conflicting"
       [] fits /\ ~Contradicted(w) /\ missing = {} -> "directly_relevant"
       [] fits /\ ~Contradicted(w) /\ missing # {} /\ missing # w.required -> "partially_relevant"
       [] OTHER -> "irrelevant"

(* expected_extraction *)
Read(w) == [entity |-> w.entity, period |-> w.period, covered |-> Covered(w),
            conflict |-> JudgeRelevance(w) = "conflicting"]

Writable(w, t) == TRUE

(* Which attributes the query asks for is not read back.                     *)
Unchecked(w) == w.required

Accepts(w, t) == Agree(Read(w), Read(t))

Pack == MakePack(Worlds, Texts, JudgeRelevance, Policy, Writable, Accepts, Unchecked)
=============================================================================
