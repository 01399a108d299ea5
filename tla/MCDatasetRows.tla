---------------------------- MODULE MCDatasetRows ----------------------------
(* The packs and the families whose labels follow their texts, and those that*)
(* break their own rules.                                                    *)
EXTENDS DatasetRows

Contrary ==
  {"hermes_next_action", "control_answer_sufficiency", "entity_resolution", "game_control", "row_validity"}
Consistent == (DOMAIN Packs \cup DOMAIN Families) \ Contrary

(* The families whose verifier recomputes the label and whose writer stops.  *)
Unverified == {"underdetermined", "hermes_command_risk", "hermes_result_injection"} \cup DOMAIN Cases!Families
Recomputed == DOMAIN Families \ (Lenient \cup Unverified \cup Contrary)

FewPhrasings == DOMAIN Control!Families
=============================================================================
