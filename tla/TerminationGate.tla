--------------------------- MODULE TerminationGate --------------------------
(* taskpacks/harness/termination_gate.py: whether an agent's run is done.    *)
EXTENDS RowSource

Budget == 2                                       \* retry.default_budget

(* Of total and failing tests and of the fields only the failing and the     *)
(* missing ones matter.                                                      *)
Base == [exists |-> TRUE, nonempty |-> TRUE, valid |-> TRUE, failing |-> 0,
         error |-> "none", used |-> 0, needsInput |-> FALSE,
         conflict |-> FALSE, missing |-> 0]

(* The last lines of sample: an absent artifact has no checks and no tests.  *)
Absent(w) == [w EXCEPT !.exists = FALSE, !.nonempty = FALSE, !.valid = FALSE,
                       !.failing = 0]

(* sample *)
Sample ==
  LET lost == Absent(Base)
      broken == [lost EXCEPT !.error = "transient"]
  IN [complete_valid                   |-> {Base},
      schema_fails                     |-> {[Base EXCEPT !.valid = FALSE]},
      test_failure_code_defect         |-> {[Base EXCEPT !.failing = n] : n \in 1 .. 2},
      transient_within_budget          |-> {[broken EXCEPT !.used = n] : n \in 0 .. Budget - 1},
      retry_budget_exhausted           |-> {[broken EXCEPT !.used = Budget]},
      missing_requirement              |-> {[Base EXCEPT !.missing = n] : n \in 1 .. 3},
      ambiguity_needs_user             |-> {[Base EXCEPT !.needsInput = TRUE, !.missing = 2]},
      conflicting_signals              |-> {[Base EXCEPT !.conflict = TRUE]},
      hidden_failed_test               |-> {[Base EXCEPT !.failing = n] : n \in 1 .. 2},
      empty_output_weak_schema         |-> {[Base EXCEPT !.nonempty = FALSE]},
      duplicated_success_history       |-> {[Base EXCEPT !.failing = 1]},
      tool_success_but_artifact_absent |-> {[lost EXCEPT !.used = n] : n \in 0 .. Budget - 1}]

Family(f) == Sample[f]
Worlds == UNION {Family(f) : f \in DOMAIN Sample}

(* Every combination of the facts a world has, drawn by a family or not.     *)
Situations ==
  [exists : BOOLEAN, nonempty : BOOLEAN, valid : BOOLEAN, failing : Nat,
   error : {"none", "transient", "permanent_env"}, used : Nat, needsInput : BOOLEAN,
   conflict : BOOLEAN, missing : Nat]

(* termination *)
Termination(w) ==
  LET again == IF w.used < Budget THEN "retry" ELSE "escalate"
  IN IF w.needsInput THEN "ask_user"
     ELSE IF w.error = "transient" THEN again
     ELSE IF w.error = "permanent_env" THEN "escalate"
     ELSE IF ~w.exists THEN again
     ELSE IF ~w.nonempty \/ ~w.valid THEN "repair"
     ELSE IF w.failing > 0 THEN "repair"
     ELSE IF w.conflict THEN "escalate"
     ELSE IF w.missing > 0 THEN "continue"
     ELSE "finish"

(* TERMINATION_POLICY, clause by clause; the first that applies decides.     *)
Policy(w) ==
  LET clauses == << <<w.needsInput, "ask_user">>,
                    <<(w.error = "transient" \/ ~w.exists) /\ w.used < Budget, "retry">>,
                    <<w.error = "transient" \/ ~w.exists, "escalate">>,
                    <<w.error = "permanent_env" \/ w.conflict, "escalate">>,
                    <<~w.nonempty \/ ~w.valid \/ w.failing > 0, "repair">>,
                    <<w.missing > 0, "continue">>,
                    <<TRUE, "finish">> >>
      holds == {i \in DOMAIN clauses : clauses[i][1]}
  IN clauses[CHOOSE i \in holds : \A j \in holds : i <= j][2]

(* What the clauses leave to their order: of an artifact that is absent in a *)
(* broken environment, and of one that is both defective and in conflict,    *)
(* they say two things, and the code does not take the first.                *)
Clear(w) ==
  /\ w.error = "permanent_env" => w.exists
  /\ w.conflict => w.exists /\ w.nonempty /\ w.valid /\ w.failing = 0

(* expected_extraction states every field; finalize_surface writes the       *)
(* policy only.                                                              *)
Writable(w, t) == TRUE
Unchecked(w) == {}
Accepts(w, t) == Agree(w, t)

Pack == MakePack(Worlds, Worlds, Termination, Policy, Writable, Accepts, Unchecked)
=============================================================================
