----------------------------- MODULE DatasetRows -----------------------------
(* The rows that are made and checked one by one, and how.  In a task pack a *)
(* world is sampled and labelled by the oracle, a writer puts it into words, *)
(* code pins the parts of the surface that are its own, and the facts that a *)
(* verifier reads in the text are compared with the world's.  A code-only    *)
(* family draws a world, renders it and labels it, its verifier recomputes   *)
(* what it recomputes, and the row is written or stops the command.  The     *)
(* label is the world's throughout; what a learner sees is the text.         *)
EXTENDS RowSource

CONSTANTS Chosen,         \* the packs and the families of this run
          MayMislabel,    \* the families whose generator may have a bug that picks another option
          Wrapping        \* the families with fewer instruction phrasings than the splits ask for

Router        == INSTANCE ActionRouter
ToolGate      == INSTANCE ToolActionGate
Termination   == INSTANCE TerminationGate
Retrieval     == INSTANCE RetrievalGate
Untrusted     == INSTANCE InjectionGate
Sufficiency   == INSTANCE AnswerSufficiency
Authorization == INSTANCE AuthorizationGate
Urgency       == INSTANCE UrgencyScore
Temporal      == INSTANCE TemporalRelation
Rules         == INSTANCE RuleApplication
Entailment    == INSTANCE SemanticEntailment
DocType       == INSTANCE DocumentType
Relevance     == INSTANCE DocumentRelevance
Intent        == INSTANCE CommunicationIntent
Extraction    == INSTANCE ExtractionJudge
Classes       == INSTANCE TextClasses

(* registry.py                                                               *)
FactPacks ==
  [next_action_router    |-> Router!Pack,
   tool_action_gate      |-> ToolGate!Pack,
   termination_gate      |-> Termination!Pack,
   retrieval_gate        |-> Retrieval!Pack,
   prompt_injection_gate |-> Untrusted!Pack,
   answer_sufficiency    |-> Sufficiency!Pack,
   authorization_gate    |-> Authorization!Pack,
   communication_urgency |-> Urgency!Pack,
   temporal_reasoning    |-> Temporal!Pack,
   rule_application      |-> Rules!Pack,
   semantic_entailment   |-> Entailment!Pack,
   document_type         |-> DocType!Pack,
   document_relevance    |-> Relevance!Pack,
   communication_intent  |-> Intent!Pack,
   extraction_validation |-> Extraction!Pack]
Packs == Merged(FactPacks, Classes!Packs)

V1      == INSTANCE ProgrammaticV1
V2      == INSTANCE ProgrammaticV2
Long    == INSTANCE ProgrammaticLong
Hermes  == INSTANCE ProgrammaticHermes
Control == INSTANCE ControlFamilies
Cases   == INSTANCE UseCases

Programmatic == Merged(Merged(V1!Families, V2!Families), Merged(Long!Families, Hermes!Families))
Families     == Merged(Programmatic, Merged(Control!Families, Cases!Families))

ASSUME ChosenAssumption ==
  /\ Chosen \subseteq DOMAIN Packs \cup DOMAIN Families
  /\ MayMislabel \cup Wrapping \subseteq DOMAIN Families

(* What is proved of the packs for any situation is about those the samplers *)
(* draw and the texts writers compose: they are situations, and of the drawn *)
(* ones a policy says one thing, the metadata state the effect of the tool   *)
(* that writes, a query asks for something, a document has the fields that   *)
(* were extracted and a message does itself what it mainly does.             *)
ASSUME DrawnAssumption ==
  /\ \A w \in Router!Worlds : w \in Router!Situations
  /\ \A w \in ToolGate!Worlds : w \in ToolGate!Situations /\ ToolGate!EffectStated(w)
  /\ \A w \in Termination!Worlds : w \in Termination!Situations /\ Termination!Clear(w)
  /\ \A w \in Retrieval!Worlds : w \in Retrieval!Situations /\ Retrieval!Clear(w)
  /\ \A w \in Untrusted!Worlds : w \in Untrusted!Situations
  /\ \A w \in Sufficiency!Worlds \cup Sufficiency!Texts : w \in Sufficiency!Situations
  /\ \A w \in Authorization!Worlds : w \in Authorization!Situations /\ Authorization!Clear(w)
  /\ \A w \in Urgency!Worlds : w \in Urgency!Situations
  /\ \A w \in Relevance!Worlds : w.required # {}
  /\ \A w \in Extraction!Worlds : DOMAIN w.proposed \subseteq DOMAIN w.source
  /\ \A w \in Extraction!Worlds, t \in Extraction!Texts :
       Extraction!Writable(w, t) => DOMAIN t.source = DOMAIN w.source
  /\ \A w \in Intent!Worlds : w.primary \in Intent!LiveActs(w)

(* The writers that count a failed verification and write the row anyway.    *)
Lenient == DOMAIN Long!Families

VARIABLE row

NoRow == [stage |-> "none"]

Init == row = NoRow

-----------------------------------------------------------------------------
(* sample_world and solve_oracle                                             *)
Sample ==
  /\ row = NoRow
  /\ \E p \in Chosen \cap DOMAIN Packs : \E w \in Packs[p].worlds :
       row' = [stage |-> "labelled", pack |-> p, world |-> w, truth |-> Packs[p].label[w]]

(* render, finalize_surface, check_surface: a text that code lets stand.     *)
Render ==
  /\ row.stage = "labelled"
  /\ \E t \in Packs[row.pack].writable[row.world] :
       row' = [stage |-> "rendered", pack |-> row.pack, world |-> row.world,
               truth |-> row.truth, text |-> t]

(* extract and compare_facts; the truth is not touched.                      *)
Verify ==
  /\ row.stage = "rendered"
  /\ row' = [row EXCEPT !.stage =
               IF row.text \in Packs[row.pack].accepted[row.world]
               THEN "accepted" ELSE "rejected"]

-----------------------------------------------------------------------------
Of(r) == Families[r.family]

(* generate: the split fixes the instruction phrasings a row may have.       *)
Generate ==
  /\ row = NoRow
  /\ \E f \in Chosen \cap DOMAIN Families, s \in Splits :
       \E k \in Families[f].phrasings[s], w \in Families[f].worlds :
         row' = [stage |-> "generated", family |-> f, split |-> s, phrasing |-> k,
                 world |-> w, label |-> Families[f].gold[w], honest |-> TRUE]

(* The bug: the row carries another of its options.                          *)
Mislabel ==
  /\ row.stage = "generated"
  /\ row.honest
  /\ row.family \in MayMislabel
  /\ \E o \in Of(row).options[row.world] \ {row.label} :
       row' = [row EXCEPT !.label = o, !.honest = FALSE]

(* verify, then the SystemExit or the file.                                  *)
Write ==
  /\ row.stage = "generated"
  /\ row' = [row EXCEPT !.stage =
               IF row.label \in Of(row).verified[row.world] \/ row.family \in Lenient
               THEN "written" ELSE "aborted"]

Next == \/ Sample \/ Render \/ Verify
        \/ Generate \/ Mislabel \/ Write

Spec == Init /\ [][Next]_row

-----------------------------------------------------------------------------
Labelled == row.stage = "labelled"
Compared == row.stage \in {"accepted", "rejected"}
CodeMade == row.stage \in {"generated", "written", "aborted"}

(* The oracle and the generators are code, what a learner is shown are facts *)
(* and rules in sentences.  A reader who applies those rules as they stand   *)
(* arrives at the label of a world, and at every answer a row accepts; for   *)
(* the symbolic packs, whose solver runs in rounds over a shuffled list of   *)
(* rules, at the one that the facts entail.                                  *)
LabelIsReadable ==
  /\ Labelled => Packs[row.pack].reader[row.world] \in row.truth
  /\ CodeMade /\ row.honest =>
       /\ row.label \in Of(row).right[row.world]
       /\ Of(row).acceptable[row.world] \subseteq Of(row).right[row.world]

(* What passes its verifier has a label that its text supports.  A text      *)
(* whose facts were found to agree with the world's has the world's label,   *)
(* though the comparison tolerates additions and omissions (the facts that   *)
(* no one compares being as in the world); and a bug of a generator shows up *)
(* as a failure, not as silent label noise.                                  *)
PassedRowsHold ==
  /\ row.stage = "accepted" /\ Packs[row.pack].unchecked[row.text] = Packs[row.pack].unchecked[row.world]
       => Packs[row.pack].label[row.text] \subseteq row.truth
  /\ row.stage = "written" => row.label \in Of(row).right[row.world]

(* Faithful rows get through: a text that states its world as it is passes   *)
(* the comparison, and where generator and verifier compute a gold by        *)
(* different routes they do so alike on every world, so that a command       *)
(* without a bug writes its files.                                           *)
HonestRowsPass ==
  /\ Compared /\ row.text = row.world => row.stage = "accepted"
  /\ CodeMade /\ row.honest =>
       /\ row.label \in Of(row).verified[row.world]
       /\ row.stage # "aborted"

(* A call that is labelled allow runs when the tools are given it: the       *)
(* oracle of the tool gate and the registry's own checks agree on the calls  *)
(* the sampler draws.                                                        *)
AllowedCallsRun ==
  Labelled /\ row.pack = "tool_action_gate" /\ row.truth = {"allow"} => ToolGate!Executes(row.world)

(* Each split has an instruction phrasing of its own: no evaluation row asks *)
(* its question in words that the training rows use, unless its family has   *)
(* too few of them.                                                          *)
PhrasingsHeldOut ==
  CodeMade /\ row.split # "train" /\ row.family \notin Wrapping =>
    row.phrasing \notin Of(row).phrasings["train"]
=============================================================================
