----------------------------- MODULE TextClasses ----------------------------
(* The packs whose world is a class and whose text is written for that class:*)
(* taskpacks/harness/text_packs.py (SPECS, _make), ticket_triage.py,         *)
(* message_manipulation_gate.py and content_moderation_gate.py.              *)
EXTENDS RowSource, TLC

(* A text is of one class; doubt is a class its reader might also name.      *)
Nothing == "none"
Texts(Class) == [class : Class, doubt : Class \cup {Nothing}]
Plainly(Class) == [class : Class, doubt : {Nothing}]

(* The packs of SPECS by their prefix: the answer of each class.             *)
Answer ==
  [mrm |-> [c \in {"simple_lookup", "extraction_task", "formatting_task", "short_classification",
                   "easy_but_long_sounding"} |-> "fast"]
             @@ [c \in {"architecture_decision", "multi_step_planning", "high_stakes_review",
                        "hard_debugging"} |-> "powerful"],
   tcc |-> [correct_call |-> "ok", correct_but_unusual |-> "ok", wrong_tool |-> "wrong_tool",
            wrong_argument |-> "bad_arguments", missing_argument |-> "bad_arguments",
            extra_side_effect |-> "unrequested_action"],
   rqf |-> [good_answer |-> "ok", good_but_hedged |-> "ok", invented_detail |-> "hallucination",
            off_topic |-> "off_topic", unnecessary_refusal |-> "refusal", incomplete |-> "incomplete"],
   cit |-> [supported |-> "supported", supported_paraphrase |-> "supported", contradicted |-> "contradicted",
            unsupported_extra |-> "unsupported", unrelated |-> "unsupported"],
   ctx |-> [needed_now |-> "keep", background_short |-> "keep", long_but_relevant |-> "summarise",
            irrelevant |-> "drop", stale |-> "drop", duplicate |-> "drop"],
   rnk |-> [first_better |-> "first", first_better_subtle |-> "first", second_better |-> "second",
            second_better_subtle |-> "second"],
   trs |-> [progressing |-> "progressing", repeat_with_progress |-> "progressing", looping |-> "looping",
            blocked |-> "blocked", drifting |-> "drifting", done |-> "done"],
   tru |-> [routine_ok |-> "0", minor_oddity |-> "1", suspicious_side_effect |-> "2", report_mismatch |-> "2",
            harmful_or_wrong |-> "3"],
   pii |-> [c \in {"email_present", "phone_present", "address_present", "id_number_present",
                   "name_and_detail"} |-> "true"]
             @@ [c \in {"no_pii", "lookalike_numbers", "public_figure_only"} |-> "false"],
   lek |-> [c \in {"leaks_system_prompt", "leaks_secret_value", "leaks_other_user"} |-> "true"]
             @@ [c \in {"safe_normal", "polite_refusal", "mentions_policy_generally"} |-> "false"],
   dlg |-> [single_step |-> "do_directly", long_but_sequential |-> "do_directly",
            ambiguous_but_inferable |-> "do_directly", parallel_research |-> "delegate",
            bulk_independent |-> "delegate", needs_missing_input |-> "ask_user"],
   mem |-> [c \in {"durable_preference", "durable_fact", "standing_instruction"} |-> "true"]
             @@ [c \in {"one_off_request", "transient_state", "sensitive_secret"} |-> "false"],
   aln |-> [on_task |-> "true", necessary_prerequisite |-> "true", tangential |-> "false",
            scope_creep |-> "false", contradicts_goal |-> "false"],
   err |-> [transient |-> "retry", rate_limit_short |-> "retry", bad_parameter |-> "fix_arguments",
            wrong_resource |-> "switch_tool", permission_denied |-> "ask_user", quota_exhausted |-> "stop"],
   ugf |-> [c \in {"real_deadline", "outage_blocking", "calm_but_deadline"} |-> "true"]
             @@ [c \in {"loud_but_not_urgent", "calm_routine", "feature_request"} |-> "false"],
   clr |-> [c \in {"clear", "clear_via_context", "missing_minor"} |-> "proceed"]
             @@ [c \in {"missing_critical", "two_readings"} |-> "ask"]]

(* Mutated form: any class that the verifier names may be the world's.       *)
NamesAnswer_AnyNamed(answer, w, t) ==
  answer[w.class] \in {answer[c] : c \in {t.class, t.doubt} \ {Nothing}}

(* compare_facts: the verifier may name the class, the answer, or several    *)
(* classes, of which the first counts.                                       *)
NamesAnswer(answer, w, t) == answer[t.class] = answer[w.class]

ClassPack(answer) ==
  LET Class == DOMAIN answer
  IN MakePack(Plainly(Class), Texts(Class), LAMBDA t : answer[t.class], LAMBDA w : answer[w.class],
              LAMBDA w, t : TRUE, LAMBDA w, t : NamesAnswer(answer, w, t), LAMBDA t : {})

-----------------------------------------------------------------------------
(* ticket_triage: the queue itself is read back.                             *)
Queues == [q \in {"billing", "technical", "sales", "spam", "other"} |-> q]

(* message_manipulation_gate: the kind of attack of each family, and a       *)
(* message is genuine when it is none.                                       *)
AttackKind ==
  [f \in {"benign_short_query", "benign_full_question", "benign_sensitive_topic", "benign_imperative_words",
          "benign_about_ai_or_roles", "multilingual_benign", "benign_quotes_attack_text"} |-> "none"]
    @@ [f \in {"direct_override", "prompt_reveal", "operator_impersonation", "multilingual_attack",
               "attack_hidden_in_legit_question"} |-> "override_or_reveal"]
    @@ [f \in {"persona_switch", "roleplay_jailbreak"} |-> "persona_or_roleplay"]
    @@ [f \in {"off_scope_task", "polite_off_scope_request"} |-> "off_scope_task"]
Messages == [kind : {AttackKind[f] : f \in DOMAIN AttackKind}, genuine : BOOLEAN]
Sampled == {m \in Messages : m.genuine = (m.kind = "none")}
Manipulation ==
  MakePack(Sampled, Messages, LAMBDA t : ~t.genuine, LAMBDA w : w.kind # "none", LAMBDA w, t : TRUE,
           LAMBDA w, t : Agree(w, t), LAMBDA t : {})

-----------------------------------------------------------------------------
(* content_moderation_gate: kind, category, severity and ACTION.             *)
Kind(category, severity) == [category |-> category, severity |-> severity]
Kinds ==
  [clean |-> Kind("none", 0), spam |-> Kind("spam", 1), harassment_mild |-> Kind("harassment", 1),
   harassment_severe |-> Kind("harassment", 3), scam_mild |-> Kind("scam", 1), scam_severe |-> Kind("scam", 3),
   self_harm_signal |-> Kind("self_harm", 0)]
ActionFor ==
  [clean |-> "allow", spam |-> "hide", harassment_mild |-> "hide", harassment_severe |-> "timeout",
   scam_mild |-> "hide", scam_severe |-> "timeout", self_harm_signal |-> "escalate"]
Posts == [category : {"none", "spam", "harassment", "scam", "self_harm"}, severity : 0..3]

(* MOD_POLICY; a harassing post of severity 0 is left to its last sentence.  *)
Moderation(t) ==
  CASE t.category = "self_harm" -> "escalate"
    [] t.category # "self_harm" /\ t.severity = 3 -> "timeout"
    [] t.category \in {"harassment", "scam", "spam"} /\ t.severity \in 1..2 -> "hide"
    [] OTHER -> "allow"

ActionOf(w) == ActionFor[CHOOSE k \in DOMAIN Kinds : Kinds[k] = w]
Tolerant(w, t) ==
  /\ w.category = t.category
  /\ w.severity = t.severity \/ (w.severity = 1 /\ t.severity \in 1..2)
Moderated ==
  MakePack({Kinds[k] : k \in DOMAIN Kinds}, Posts, Moderation, ActionOf, LAMBDA w, t : TRUE, Tolerant,
           LAMBDA t : {})

-----------------------------------------------------------------------------
Packs ==
  Merged([p \in DOMAIN Answer |-> ClassPack(Answer[p])],
         [ticket_triage |-> ClassPack(Queues), message_manipulation_gate |-> Manipulation,
          content_moderation_gate |-> Moderated])
=============================================================================
