------------------------- MODULE CommunicationIntent ------------------------
(* taskpacks/foundation/communication_intent.py: what a message is for.  A   *)
(* message performs acts, some of them in text quoted from someone else.     *)
EXTENDS RowSource, TLC

ACT_TO_INTENT ==
  [asks_question |-> "request_information", asks_for_action |-> "request_action",
   reports_defect |-> "report_problem", gives_status |-> "provide_update",
   proposes_time_change |-> "schedule_or_reschedule",
   withdraws_commitment |-> "cancel_or_decline",
   expresses_dissatisfaction |-> "feedback_or_complaint"]

Acts == DOMAIN ACT_TO_INTENT

(* The acts of a message in order: live and quoted ones, at most two.        *)
Message(acts, primary) ==
  [acts |-> acts, primary |-> primary, alternative |-> "none", surface |-> {}]
Live(act) == <<act, FALSE>>
Single(act) == Message(<<Live(act)>>, act)

Pairs == {p \in Acts \X Acts : p[1] # p[2]}

(* sample; channel, topic and style are left out but for the features that   *)
(* the text has to show.                                                     *)
Sample ==
  [direct_request            |-> {Single("asks_for_action")},
   implicit_request          |-> {Single("asks_for_action")},
   status_update             |-> {Single("gives_status")},
   complaint                 |-> {Single("expresses_dissatisfaction")},
   scheduling                |-> {Single("proposes_time_change")},
   cancellation              |-> {Single("withdraws_commitment")},
   problem_report            |-> {Single("reports_defect")},
   information_request       |-> {Single("asks_question")},
   polite_complaint          |-> {Single("expresses_dissatisfaction")},
   terse_chat                |-> {[Single(a) EXCEPT !.surface = {"very_short_message"}] : a \in Acts},
   typo_heavy                |-> {[Single(a) EXCEPT !.surface = {"typos_or_abbreviations"}] : a \in Acts},
   formal_email              |-> {Single(a) : a \in Acts},
   multi_intent              |-> {Message(<<Live(p[1]), Live(p[2])>>, p[1]) : p \in Pairs},
   multi_intent_primary_last |-> {Message(<<Live(p[1]), Live(p[2])>>, p[2]) : p \in Pairs},
   urgent_information_request |->
     {Message(<<Live("asks_question"), Live("gives_status")>>, "asks_question")},
   quoted_other_sender       |-> {Message(<<Live(p[1]), <<p[2], TRUE>> >>, p[1]) : p \in Pairs},
   controlled_ambiguity      |->
     {[Message(<<Live(p[1]), Live(p[2])>>, p[1]) EXCEPT !.alternative = p[2]] : p \in Pairs}]

Family(f) == Sample[f]
Worlds == UNION {Family(f) : f \in DOMAIN Sample}

(* A writer may imply an act of its own, and let any act dominate; that two  *)
(* readings are meant to be open is no fact of a text.                       *)
Texts ==
  Worlds \cup {[w EXCEPT !.alternative = "none"] : w \in Worlds}
         \cup {Message(<<Live(p[1]), Live(p[2]), Live(a)>>, d) :
                  p \in Pairs, a \in {"asks_question", "gives_status"}, d \in Acts}

LiveActs(w) == {w.acts[i][1] : i \in {j \in DOMAIN w.acts : ~w.acts[j][2]}}
QuotedActs(w) == {w.acts[i][1] : i \in {j \in DOMAIN w.acts : w.acts[j][2]}}

(* intent_of: the primary act if it is live, else the first live one.        *)
IntentOf(w) ==
  LET live == {i \in DOMAIN w.acts : ~w.acts[i][2]}
  IN IF live = {} THEN "other"
     ELSE IF w.primary \in LiveActs(w) THEN ACT_TO_INTENT[w.primary]
     ELSE ACT_TO_INTENT[w.acts[CHOOSE i \in live : \A j \in live : i <= j][1]]

(* decide: both readings of an ambiguous message are acceptable.             *)
Acceptable(w) ==
  {IntentOf(w)} \cup (IF w.alternative = "none" THEN {} ELSE {ACT_TO_INTENT[w.alternative]})

(* The intent of what the sender mainly does, quoted text being ignored.     *)
Policy(w) == IF w.primary \in QuotedActs(w) \ LiveActs(w) THEN "other" ELSE ACT_TO_INTENT[w.primary]

(* check_surface: code counts the words of a short message.                  *)
Writable(w, t) ==
  /\ t.alternative = "none"
  /\ "very_short_message" \in w.surface => "very_short_message" \in t.surface

(* compare_facts and check_surface_features: further live acts are implied   *)
(* ones, and which act is primary is no fact of an ambiguous message.        *)
Accepts(w, t) ==
  /\ LiveActs(w) \subseteq LiveActs(t)
  /\ QuotedActs(t) = QuotedActs(w)
  /\ w.alternative = "none" => t.primary = w.primary
  /\ w.surface \subseteq t.surface \cup {"very_short_message"}

Unchecked(w) == w.primary

Pack == [MakePack(Worlds, Texts, IntentOf, Policy, Writable, Accepts, Unchecked)
           EXCEPT !.label = [t \in Texts |-> Acceptable(t)]]
=============================================================================
