------------------------------ MODULE RowSource ------------------------------
(* What makes rows.  A task pack (taskpacks/base.py, BaseTaskPack) supplies  *)
(* the worlds its sampler draws, the oracle's label, the part of the visible *)
(* state that code writes, and the comparison that lets a surface through.   *)
(* A surface is modelled by the facts its text states: a world of the pack,  *)
(* perhaps not the one the writer was given.  The verifier is honest: it     *)
(* reads those facts back, and only them.                                    *)
(* A code-only family (programmatic/, control/, code_packs/) supplies the    *)
(* worlds its generator draws, the options and the label it gives each, the  *)
(* check its own verifier makes of a finished row, and the instruction       *)
(* phrasings of each split.  No model writes or reads a word of such a row,  *)
(* so a world stands for its text, and the labels that a reader of the text  *)
(* can arrive at are stated beside the generator's, from the sentences.      *)
EXTENDS Naturals, FiniteSets

(* compare_facts: every expected field is read back with its value.          *)
Agree(expected, read) == \A k \in DOMAIN expected : read[k] = expected[k]

Without(facts, fields) == [k \in DOMAIN facts \ fields |-> facts[k]]

(* A pack as data.  Writable says which texts can stand for a world once     *)
(* finalize_surface and check_surface have pinned what code writes, Accepts  *)
(* is compare_facts, and Unchecked collects the facts that the label may     *)
(* depend on and that neither of the two looks at.                           *)
MakePack(worlds, texts, Label(_), Reader(_), Writable(_, _), Accepts(_, _),
         Unchecked(_)) ==
  [worlds    |-> worlds,
   texts     |-> texts,
   label     |-> [t \in texts |-> {Label(t)}],
   reader    |-> [w \in worlds |-> Reader(w)],
   writable  |-> [w \in worlds |-> {t \in texts : Writable(w, t)}],
   accepted  |-> [w \in worlds |-> {t \in texts : Writable(w, t) /\ Accepts(w, t)}],
   unchecked |-> [t \in texts |-> Unchecked(t)]]

(* The tables of several files as one; the first that has an entry counts.   *)
Merged(f, g) == [x \in DOMAIN f \cup DOMAIN g |-> IF x \in DOMAIN f THEN f[x] ELSE g[x]]

-----------------------------------------------------------------------------
Splits == {"train", "calibration", "test_locked", "challenge"}

(* _VARIANT_FOR_SPLIT and _variant: phrasing k of n, wrapping around.        *)
VariantForSplit == [train |-> {0, 1}, calibration |-> {2}, test_locked |-> {3}, challenge |-> {4}]
Variant(n) == [s \in Splits |-> {k % n : k \in VariantForSplit[s]}]

(* Mutated form: training also draws the first of the held-out phrasings.    *)
HeldOut_FourPhrasings ==
  [train |-> {0, 1, 2, 3}, calibration |-> {3}, test_locked |-> {3, 4}, challenge |-> {3, 4}]

(* SPLIT_CFG of the v2 families: the phrasings of the rule, by split.        *)
HeldOut == [train |-> {0, 1, 2}, calibration |-> {3}, test_locked |-> {3, 4}, challenge |-> {3, 4}]

(* A family as data.  acceptable is what the row accepts beside its label,   *)
(* right what its text supports, verified the labels with which the row      *)
(* would pass the family's verifier.                                         *)
MakeFamily(worlds, Options(_), Gold(_), Acceptable(_), Right(_), Verifies(_, _), phrasings) ==
  [worlds     |-> worlds,
   options    |-> [w \in worlds |-> Options(w)],
   gold       |-> [w \in worlds |-> Gold(w)],
   acceptable |-> [w \in worlds |-> Acceptable(w)],
   right      |-> [w \in worlds |-> Right(w)],
   verified   |-> [w \in worlds |-> {o \in Options(w) : Verifies(w, o)}],
   phrasings  |-> phrasings]

(* A Boolean question (type "noul") is labelled yes or no.                   *)
YesNo == {"yes", "no"}
Noul(b) == IF b THEN "yes" ELSE "no"

(* The best of a set of named values, and the first of them in order.        *)
ArgMax(f) == {x \in DOMAIN f : \A y \in DOMAIN f : f[y] <= f[x]}
Earliest(order, S) == order[CHOOSE i \in DOMAIN order : order[i] \in S /\ \A j \in 1..(i - 1) : order[j] \notin S]

(* Outcomes of an exact probability: the likelier of the two, both when even.*)
Likelier(hits, all) == {Noul(b) : b \in {c \in BOOLEAN : IF c THEN 2 * hits >= all ELSE 2 * hits <= all}}
=============================================================================
