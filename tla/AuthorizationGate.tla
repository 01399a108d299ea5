-------------------------- MODULE AuthorizationGate -------------------------
(* taskpacks/foundation/authorization_gate.py: an access request under a     *)
(* role and attribute policy.  A date of expiry is a number of days from     *)
(* today, and no date is NoEnd.                                              *)
EXTENDS RowSource, Integers

NoEnd == 10000

Base == [own |-> {"read", "read_aggregates"}, delegated |-> {},
         sameTenant |-> TRUE, external |-> FALSE, class |-> "internal",
         purposeOk |-> TRUE, prohibited |-> FALSE, shared |-> FALSE,
         action |-> "read", ends |-> NoEnd, approved |-> FALSE]

Restricted == [Base EXCEPT !.class = "restricted"]

(* sample *)
Sample ==
  [role_permission_match     |-> {Base},
   least_privilege_violation |-> {[Base EXCEPT !.action = a, !.class = c] :
                                    a \in {"export", "write"}, c \in {"restricted", "confidential"}},
   owner_approval_given      |-> {[Restricted EXCEPT !.approved = TRUE]},
   tenant_boundary           |-> {[Base EXCEPT !.sameTenant = FALSE]},
   restricted_needs_approval |-> {Restricted},
   temporary_access          |-> {[Base EXCEPT !.ends = 103]},
   expired_access            |-> {[Base EXCEPT !.ends = d] : d \in {-49, -1}},
   delegated_access          |-> {[Base EXCEPT !.own = {"read_aggregates"}, !.action = "export",
                                               !.delegated = {p}] : p \in {"export", "read"}},
   purpose_limitation        |-> {[Base EXCEPT !.purposeOk = FALSE]},
   conflicting_role_claims   |-> {[Base EXCEPT !.action = "export"]},
   aggregate_with_prohibited_field |->
     {[Base EXCEPT !.action = "read_aggregates", !.prohibited = TRUE]},
   external_collaborator     |-> {[Base EXCEPT !.external = TRUE, !.sameTenant = FALSE,
                                               !.shared = TRUE, !.class = c] :
                                    c \in {"confidential", "internal"}},
   inherited_permission      |-> {[Base EXCEPT !.action = "read_aggregates"]},
   approval_exception        |-> {[Restricted EXCEPT !.action = "read_aggregates", !.approved = a] :
                                    a \in BOOLEAN}]

Family(f) == Sample[f]
Worlds == UNION {Family(f) : f \in DOMAIN Sample}

Permission == {"read", "read_aggregates", "write", "export"}

(* Every combination of the facts a world has, drawn by a family or not.     *)
Situations ==
  [own : SUBSET Permission, delegated : SUBSET Permission, sameTenant : BOOLEAN,
   external : BOOLEAN, class : {"public", "internal", "confidential", "restricted"},
   purposeOk : BOOLEAN, prohibited : BOOLEAN, shared : BOOLEAN, action : Permission,
   ends : Int, approved : BOOLEAN]

Permissions(w) == w.own \cup w.delegated
Expired(w) == w.ends < 0

(* authorize *)
Authorize(w) ==
  IF ~w.sameTenant /\ ~(w.external /\ w.shared) THEN "deny"
  ELSE IF Expired(w) THEN "deny"
  ELSE IF w.action \notin Permissions(w) THEN "deny"
  ELSE IF ~w.purposeOk THEN "deny"
  ELSE IF w.prohibited THEN "deny"
  ELSE IF w.class = "restricted" THEN IF w.approved THEN "allow" ELSE "require_approval"
  ELSE IF w.class = "confidential" /\ w.external THEN "require_approval"
  ELSE "allow"

(* POLICY_CLAUSES: what grants, what holds and what refuses, in the order of *)
(* evaluation the last clause gives.                                         *)
Policy(w) ==
  LET partner == w.shared /\ w.external
      refused == \/ ~w.sameTenant /\ ~partner
                 \/ w.action \notin w.own \cup w.delegated
                 \/ ~w.purposeOk \/ w.prohibited \/ w.ends < 0
      held    == w.class = "restricted" \/ (w.class = "confidential" /\ w.external)
  IN IF refused THEN "deny"
     ELSE IF held /\ ~w.approved THEN "require_approval"
     ELSE "allow"

(* The second clause lets an approved request proceed; the code asks for     *)
(* approval of an external collaborator's confidential request all the same. *)
Clear(w) == ~(w.class = "confidential" /\ w.external /\ w.approved)

(* expected_extraction *)
Read(w) == [permissions |-> Permissions(w), action |-> w.action, class |-> w.class,
            sameTenant |-> w.sameTenant, expired |-> Expired(w), purposeOk |-> w.purposeOk,
            approved |-> w.approved, external |-> w.external, prohibited |-> w.prohibited]

(* finalize_surface writes the policy only.                                  *)
Writable(w, t) == TRUE

(* Whether the resource is shared with partners is not read back.            *)
Unchecked(w) == w.shared

Accepts(w, t) == Agree(Read(w), Read(t))

Pack == MakePack(Worlds, Worlds, Authorize, Policy, Writable, Accepts, Unchecked)
=============================================================================
