--------------------------- MODULE ControlFamilies --------------------------
(* control/families.py: ten short decision sites of an agent harness.        *)
EXTENDS RowSource, FiniteSetsExt

-----------------------------------------------------------------------------
(* A note drawn from the pool of its class: triage_priority, moderation_class*)
(* and escalate_human, and injection_gate with and without a trigger phrase. *)
(* The pools are disjoint, so a verifier can look the note up.               *)
NoteChecked(w, o) == w = o
Noted(classes, phrasings) ==
  MakeFamily(classes, LAMBDA w : classes, LAMBDA w : w, LAMBDA w : {w}, LAMBDA w : {w},
             NoteChecked, phrasings)

-----------------------------------------------------------------------------
(* tool_routing: an order message has its order on file, others may too.  A  *)
(* customer who wants their data erased is in the pool of a topic            *)
(* (close-account) and in that of the human team.                            *)
Signals == [topic |-> "kb", close_account |-> "kb", order |-> "orders", complaint |-> "human",
            erase_me |-> "human"]
Requests == {w \in [signal : DOMAIN Signals, onFile : BOOLEAN] : w.signal = "order" => w.onFile}
Resource(w) == Signals[w.signal]
ResourceRead(w) ==
  IF w.signal \in {"close_account", "erase_me"} THEN {"kb", "human"} ELSE {Signals[w.signal]}
ResourceChecked(w, o) == Signals[w.signal] = o

-----------------------------------------------------------------------------
(* _KB_TOPICS, a few of them, by category.  Some of the messages of a topic  *)
(* ask what its article does not say: what standard shipping costs, how to   *)
(* check a gift card's balance.                                              *)
Category == [return_window |-> "returns", final_sale |-> "returns", standard_shipping |-> "shipping",
             express_shipping |-> "shipping", gift_cards |-> "payments"]
Topics == DOMAIN Category
HalfAnswered == {"standard_shipping", "gift_cards"}
Asked(t) == {[topic |-> t, answered |-> b] : b \in IF t \in HalfAnswered THEN BOOLEAN ELSE {TRUE}}
Questions == UNION {Asked(t) : t \in Topics}

(* context_ranking: the article is on the topic, of its category, or neither.*)
Articles == {[question |-> q, article |-> t] : q \in Questions, t \in Topics}
Relevance(w) ==
  CASE w.article = w.question.topic -> "2"
    [] w.article # w.question.topic /\ Category[w.article] = Category[w.question.topic] -> "1"
    [] OTHER -> "0"
RelevanceRead(w) ==
  IF w.article = w.question.topic /\ ~w.question.answered THEN {"1", "2"} ELSE {Relevance(w)}
RelevanceChecked(w, o) == Relevance(w) = o

(* answer_sufficiency: up to two other articles, with the topic's own or     *)
(* without it; when nothing was drawn, another one.                          *)
Retrievals ==
  {w \in [question : Questions, retrieved : UNION {kSubset(k, Topics) : k \in 1..3}] :
     Cardinality(w.retrieved \ {w.question.topic}) <= 2}
Sufficient(w) == Noul(w.question.topic \in w.retrieved)
SufficientRead(w) == {Noul(w.question.topic \in w.retrieved /\ w.question.answered)}
SufficientChecked(w, o) == (o = "yes") = (w.question.topic \in w.retrieved)

-----------------------------------------------------------------------------
(* claim_verification: a value of the pool in the source, one in the claim.  *)
Claims == [source : 1..4, claimed : 1..4]
Supported(w) == Noul(w.source = w.claimed)
SupportedChecked(w, o) == (o = "yes") = (w.source = w.claimed)

(* next_action: the text gives no rule, the generator's is the only one.     *)
Sessions == [attempts : 0..3, ambiguous : BOOLEAN]
NextStep(w) ==
  CASE w.ambiguous -> "ask_user"
    [] ~w.ambiguous /\ w.attempts >= 3 -> "give_up"
    [] OTHER -> "retry"
NextStepRead(w) ==
  CASE w.ambiguous -> {"ask_user"}
    [] ~w.ambiguous /\ w.attempts = 0 -> {"retry"}
    [] OTHER -> {"retry", "give_up"}
NextStepChecked(w, o) == NextStep(w) = o

(* entity_match: a name determines its e-mail address, and the abbreviation  *)
(* of a name that is already abbreviated is that name.                       *)
Records == [a : 1..3, b : 1..3]
SamePerson(w) == Noul(w.a = w.b)
SamePersonChecked(w, o) == (o = "yes") = (w.a = w.b)

-----------------------------------------------------------------------------
Asking(worlds, Gold(_), Right(_), Checks(_, _)) ==
  MakeFamily(worlds, LAMBDA w : YesNo, Gold, LAMBDA w : {Gold(w)}, Right, Checks, Variant(3))
Choosing(worlds, options, Gold(_), Right(_), Checks(_, _), n) ==
  MakeFamily(worlds, LAMBDA w : options, Gold, LAMBDA w : {Gold(w)}, Right, Checks, Variant(n))

(* control_answer_sufficiency is named apart from the pack answer_sufficiency*)
Families ==
  [injection_gate      |-> Noted(YesNo, Variant(4)),
   triage_priority     |-> Noted({"low", "medium", "high", "critical"}, Variant(3)),
   moderation_class    |-> Noted({"allow", "warn", "block"}, Variant(3)),
   escalate_human      |-> Noted({"bot_continues", "escalate_now"}, Variant(3)),
   tool_routing        |-> Choosing(Requests, {"human", "kb", "orders"}, Resource, ResourceRead, ResourceChecked, 4),
   context_ranking     |-> Choosing(Articles, {"0", "1", "2"}, Relevance, RelevanceRead, RelevanceChecked, 3),
   next_action         |-> Choosing(Sessions, {"retry", "ask_user", "give_up"}, NextStep, NextStepRead,
                                    NextStepChecked, 3),
   control_answer_sufficiency |-> Asking(Retrievals, Sufficient, SufficientRead, SufficientChecked),
   claim_verification  |-> Asking(Claims, Supported, LAMBDA w : {Supported(w)}, SupportedChecked),
   entity_match        |-> Asking(Records, SamePerson, LAMBDA w : {SamePerson(w)}, SamePersonChecked)]
=============================================================================
