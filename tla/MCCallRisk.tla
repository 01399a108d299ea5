----------------------------- MODULE MCCallRisk -----------------------------
(* A train group with a benign and a risky command, and three held-out groups*)
(* of each risky posture, so that every evaluation split can have one. One of*)
(* the commands has no slot: every draw of it reads the same.                *)
EXTENDS CallRisk

Workloads == Group(<<"workload", 1>>, "kubectl", <<Reads, Deletes>>)
Storage == Group(<<"storage", 1>>, "aws", <<Reads, Deletes, Sends>>)
OneGroup == {Workloads}
OneOfThree == {Storage}

Other == <<"gcloud", "az", "kubectl">>
HeldOutOf(risk, does) == [i \in 1..3 |-> Group(<<risk, i>>, Other[i], <<Reads, does>>)]
HeldOutGroups ==
  [destructive |-> HeldOutOf("delete", Deletes), privileged |-> HeldOutOf("grant", Grants),
   exfiltration |-> HeldOutOf("send", Sends)]

Filled(g, k, e) == IF g.tool = "kubectl" /\ k = 1 THEN <<g.name, k>> ELSE <<g.name, k, e>>
=============================================================================
