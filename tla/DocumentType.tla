----------------------------- MODULE DocumentType ---------------------------
(* taskpacks/foundation/document_type.py: what kind of document a text is,   *)
(* by the features it contains.                                              *)
EXTENDS RowSource

SIGNATURES ==
  [invoice         |-> {"invoice_number", "amount_due", "payment_terms"},
   receipt         |-> {"receipt_number", "amount_paid", "payment_method"},
   contract        |-> {"named_parties", "effective_date", "obligations_clause", "signature_block"},
   support_request |-> {"problem_description", "help_request", "sender_contact"},
   report          |-> {"findings_section", "period_covered", "summary_section"},
   meeting_note    |-> {"attendee_list", "agenda_items", "action_items"}]

Classes == DOMAIN SIGNATURES

(* The first and the last feature of a class in alphabetical order, which    *)
(* the sampler leaves out.                                                   *)
First == [invoice |-> "amount_due", receipt |-> "amount_paid", contract |-> "effective_date",
          support_request |-> "help_request", report |-> "findings_section",
          meeting_note |-> "action_items"]
Last  == [invoice |-> "payment_terms", contract |-> "signature_block", report |-> "summary_section"]

(* MIN_COVERAGE is 0.6, in twelfths of a signature of three or four.         *)
Coverage(features, c) ==
  (12 * Cardinality(features \cap SIGNATURES[c])) \div Cardinality(SIGNATURES[c])
Enough(cover) == 10 * cover >= 72

(* classify *)
Classify(features) ==
  LET winners == {c \in Classes : \A d \in Classes : Coverage(features, d) <= Coverage(features, c)}
  IN IF Cardinality(winners) # 1 THEN "other"
     ELSE LET best == CHOOSE c \in winners : TRUE
          IN IF Enough(Coverage(features, best)) THEN best ELSE "other"

Doc(class, features) == [class |-> class, features |-> features, surface |-> {}]
Whole(c) == Doc(c, SIGNATURES[c])
Plus(c, feature) == Doc(c, SIGNATURES[c] \cup {feature})
Noisy(w) == [w EXCEPT !.surface = {"ocr_noise"}]

(* sample: the class the sampler means and the features it draws.            *)
Sample ==
  Merged([c \in Classes |-> {Whole(c)}],
         [other                     |-> {Doc("other", {"free_text_paragraph"})},
          mixed_partial             |-> {Doc(c, SIGNATURES[c] \ {First[c]}) : c \in Classes},
          misleading_filename       |-> {Whole(c) : c \in Classes},
          ocr_noise                 |-> {Noisy(Whole(c)) : c \in Classes},
          multilingual_header       |-> {[Whole(c) EXCEPT !.surface = {"non_english_header"}] : c \in Classes},
          distractor_language       |-> {Whole(c) : c \in Classes},
          invoice_ref_in_email      |-> {Plus("support_request", "mentions_invoice_reference")},
          contract_amendment        |-> {Plus("contract", "amends_prior_contract")},
          receipt_with_refund       |-> {Plus("receipt", "refund_language")},
          report_with_payment_table |-> {Plus("report", "payment_table")},
          truncated_scan            |-> {Noisy(Doc(c, SIGNATURES[c] \ {Last[c]})) : c \in DOMAIN Last}])

Family(f) == Sample[f]
Worlds == UNION {Family(f) : f \in DOMAIN Sample}

(* A writer may add up to two features of another class.                     *)
Texts ==
  Worlds \cup UNION {{[w EXCEPT !.features = @ \cup {a, b}] : a \in SIGNATURES[c], b \in SIGNATURES[c]} :
                       c \in Classes, w \in {x \in Worlds : x.surface = {}}}

Label(w) == Classify(w.features)

(* decide and sample assert that the features give the class that was meant. *)
Policy(w) == w.class

Writable(w, t) == TRUE
Unchecked(w) == {}

(* Mutated form: features the writer added are welcome.                      *)
Accepts_Extras(w, t) == w.features \subseteq t.features /\ w.surface \subseteq t.surface

(* compare_facts and check_surface_features: nothing may be missing, and     *)
(* what was added may not change the class.                                  *)
Accepts(w, t) ==
  /\ w.features \subseteq t.features
  /\ Classify(t.features) = Classify(w.features)
  /\ w.surface \subseteq t.surface

Pack == MakePack(Worlds, Texts, Label, Policy, Writable, Accepts, Unchecked)
=============================================================================
