----------------------------- MODULE Acceptance -----------------------------
(***************************************************************************)
(* What a pipeline run promises about its candidates, without its phases:  *)
(* while the run is open candidates are rejected, one or several at a      *)
(* time; one step settles the rest, accepting some and rejecting the       *)
(* others; the run is published only when no candidate is pending.  A run  *)
(* may fail, and a later process may begin the work again.                 *)
(***************************************************************************)
EXTENDS Naturals

CONSTANT Cand

VARIABLES
  status,   \* "open", "published" or "failed"
  verdict,  \* of each candidate: "pending", "accepted" or "rejected"
  epoch     \* counts the processes

Pending == {c \in Cand : verdict[c] = "pending"}

Init == status = "open" /\ verdict = [c \in Cand |-> "pending"] /\ epoch = 1

RejectSome ==
  /\ status = "open"
  /\ \E S \in SUBSET Pending :
       verdict' = [c \in Cand |-> IF c \in S THEN "rejected" ELSE verdict[c]]
  /\ UNCHANGED <<status, epoch>>

Settle ==
  /\ status = "open"
  /\ \E S \in SUBSET Pending :
       verdict' = [c \in Cand |-> IF c \in S THEN "accepted"
                                  ELSE IF c \in Pending THEN "rejected" ELSE verdict[c]]
  /\ UNCHANGED <<status, epoch>>

Publish ==
  /\ status = "open" /\ Pending = {}
  /\ status' = "published"
  /\ UNCHANGED <<verdict, epoch>>

Fail ==
  /\ status = "open" /\ status' = "failed"
  /\ UNCHANGED <<verdict, epoch>>

Restart ==
  /\ status' = "open" /\ verdict' = [c \in Cand |-> "pending"]
  /\ epoch' = epoch + 1

Next == RejectSome \/ Settle \/ Publish \/ Fail \/ Restart

Spec == Init /\ [][Next]_<<status, verdict, epoch>>
=============================================================================
