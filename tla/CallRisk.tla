------------------------------ MODULE CallRisk ------------------------------
(* generation/code_packs/tool_call_risk.py: agent tool calls labelled with a *)
(* risk posture.  make_rows deals the held-out template groups to the        *)
(* evaluation splits, draws calls of a group under framings until a split is *)
(* full or its tries are used up, and then caps every posture.               *)
EXTENDS Naturals, Sequences, SequencesExt, FiniteSets, FiniteSetsExt, TLC

CONSTANTS Counts,     \* rows that may be asked for
          RoundsDown, \* those for which int(count * 0.7) is one below 7 * count \div 10
          Train,      \* template groups of the train split
          HeldOut,    \* for each risky posture those of the others, in the order in which they are dealt
          Entities,   \* skeletons: the names a draw fills into its templates
          Command(_, _, _), \* what a group's template becomes with them; some have no slot to fill
          Frames,     \* framings put before a command
          Tries       \* draws per row wanted (80)

Splits == <<"train", "calibration", "locked_test", "challenge">>
Evaluation == {"calibration", "locked_test", "challenge"}
Risky == <<"destructive", "privileged", "exfiltration">>

(* classify: what a command does, in the order in which it counts.           *)
classify(does) ==
  CASE "sends_out" \in does -> "exfiltration"
    [] "sends_out" \notin does /\ does \cap {"changes_access", "weakens_security"} # {} -> "privileged"
    [] does \cap {"sends_out", "changes_access", "weakens_security"} = {} /\ "deletes" \in does -> "destructive"
    [] OTHER -> "readonly"

(* A group: its name, its tool and, per template, what the command does.     *)
Group(name, tool, templates) == [name |-> name, tool |-> tool, templates |-> templates]
Reads == {"reads_only"}
Deletes == {"deletes"}
Grants == {"changes_access"}
Sends == {"sends_out"}
PosturesOf(g) == {classify(d) : d \in ToSet(g.templates)}
Postures == {"readonly"} \cup ToSet(Risky)

(* The import-time check of GROUP_OF and the templates below it: a held-out  *)
(* group has one risky posture, and each of these at least a group for every *)
(* evaluation split.                                                         *)
GroupAssumption ==
  /\ \A g \in Train \cup UNION {ToSet(HeldOut[p]) : p \in ToSet(Risky)} :
       /\ DOMAIN g.templates = 1..Len(g.templates) /\ Len(g.templates) \in Nat \ {0}
       /\ PosturesOf(g) \subseteq Postures
  /\ \A p \in ToSet(Risky) :
       /\ DOMAIN HeldOut[p] = 1..Len(HeldOut[p]) /\ Len(HeldOut[p]) \in Nat /\ Len(HeldOut[p]) >= 3
       /\ \A i \in DOMAIN HeldOut[p] :
            /\ HeldOut[p][i] \notin Train /\ PosturesOf(HeldOut[p][i]) \ {"readonly"} = {p}
            /\ \A j \in DOMAIN HeldOut[p] : HeldOut[p][i] = HeldOut[p][j] => i = j
ASSUME GroupAssumption
ASSUME CountAssumption == Counts \subseteq Nat /\ RoundsDown \subseteq Nat \ {0} /\ Tries \in Nat

-----------------------------------------------------------------------------
Size(n) ==
  LET tenth == n \div 10
      train == IF n \in RoundsDown THEN (7 * n - 1) \div 10 ELSE (7 * n) \div 10
  IN [train |-> train, calibration |-> tenth, locked_test |-> tenth, challenge |-> n - train - 2 * tenth]

(* The groups of one risky posture are dealt round, each posture starting    *)
(* one split further on.                                                     *)
EvaluationOrder == <<"calibration", "locked_test", "challenge">>

(* Mutated form: one split takes what another has been dealt.                *)
GroupsOf_Shared(s) == IF s = "train" THEN Train ELSE UNION {ToSet(HeldOut[Risky[k]]) : k \in 1..3}

(* Mutated form: the postures all start with the same split, and one of them *)
(* is dealt to it alone.                                                     *)
GroupsOf_ByPosture(s) ==
  IF s = "train" THEN Train
  ELSE UNION {ToSet(HeldOut[Risky[k]]) : k \in {j \in 1..3 : EvaluationOrder[j] = s}}

Dealt(k, i) == EvaluationOrder[((i + k - 2) % 3) + 1]
GroupsOf(s) ==
  IF s = "train" THEN Train
  ELSE UNION {{HeldOut[Risky[k]][i] : i \in {j \in DOMAIN HeldOut[Risky[k]] : Dealt(k, j) = s}} : k \in 1..3}

(* Each command of a draw goes under two framings, three in an evaluation    *)
(* split.                                                                    *)
Framings(s) == IF s = "train" THEN 2 ELSE 3

-----------------------------------------------------------------------------
VARIABLES pc,     \* "filling", "balancing", "returned", "raised"
          count,  \* the rows asked for
          at,     \* the split that is filled
          tries,  \* guard
          draw,   \* the draw under way, with the template and the framing it is at
          rows, out

vars == <<pc, count, at, tries, draw, rows, out>>

NoDraw == [group |-> "none"]

Init ==
  /\ pc = "filling" /\ count \in Counts /\ at = 1 /\ tries = 0 /\ draw = NoDraw
  /\ rows = [s \in ToSet(Splits) |-> <<>>] /\ out = [s \in ToSet(Splits) |-> {}]

Filling == Splits[at]
Full == Len(rows[Filling]) >= Size(count)[Filling]

(* Mutated form: the try is not counted.                                     *)
Draw_Uncounted ==
  /\ pc = "filling" /\ draw = NoDraw
  /\ ~Full /\ tries < Tries * Size(count)[Filling]
  /\ \E g \in GroupsOf(Filling), e \in Entities :
       draw' = [group |-> g, entity |-> e, template |-> 1, framing |-> 1]
  /\ UNCHANGED <<pc, count, at, tries, rows, out>>

Draw ==
  /\ pc = "filling" /\ draw = NoDraw
  /\ ~Full /\ tries < Tries * Size(count)[Filling]
  /\ tries' = tries + 1
  /\ \E g \in GroupsOf(Filling), e \in Entities :
       draw' = [group |-> g, entity |-> e, template |-> 1, framing |-> 1]
  /\ UNCHANGED <<pc, count, at, rows, out>>

Row(d, f) ==
  [group |-> d.group, template |-> d.template, entity |-> d.entity, frame |-> f,
   command |-> Command(d.group, d.template, d.entity), posture |-> classify(d.group.templates[d.template])]
Seen(row) == \E s \in ToSet(Splits) : \E r \in ToSet(rows[s]) : r.command = row.command /\ r.frame = row.frame

(* One framing of one command of the draw: a row, unless split is full or    *)
(* has seen it.                                                              *)
Place ==
  /\ draw # NoDraw
  /\ \E f \in Frames :
       rows' = IF Full \/ Seen(Row(draw, f)) THEN rows ELSE [rows EXCEPT ![Filling] = Append(@, Row(draw, f))]
  /\ draw' = IF draw.framing < Framings(Filling) THEN [draw EXCEPT !.framing = @ + 1]
             ELSE IF draw.template < Len(draw.group.templates) THEN [draw EXCEPT !.template = @ + 1, !.framing = 1]
             ELSE NoDraw
  /\ UNCHANGED <<pc, count, at, tries, out>>

NextSplit ==
  /\ pc = "filling" /\ draw = NoDraw
  /\ Full \/ tries >= Tries * Size(count)[Filling]
  /\ IF at < 4 THEN at' = at + 1 /\ pc' = pc ELSE pc' = "balancing" /\ at' = at
  /\ tries' = 0
  /\ UNCHANGED <<count, draw, rows, out>>

(* The cap: 1.3 times the rarest posture that occurs, 90 at most outside     *)
(* train; the first rows of a posture are kept.                              *)
With(drawn, p) == {i \in DOMAIN drawn : drawn[i].posture = p}
Occurring(drawn) == {Cardinality(With(drawn, p)) : p \in Postures} \ {0}

(* Mutated form: the cap follows the commonest posture.                      *)
Cap_Commonest(s, drawn) == (13 * Max(Occurring(drawn))) \div 10

Cap(s, drawn) ==
  LET cap == (13 * Min(Occurring(drawn))) \div 10
  IN IF s = "train" \/ cap < 90 THEN cap ELSE 90

Kept(drawn, cap) ==
  {i \in DOMAIN drawn : Cardinality({j \in With(drawn, drawn[i].posture) : j < i}) < cap}

Balance ==
  /\ pc = "balancing" /\ \A s \in ToSet(Splits) : rows[s] # <<>>
  /\ out' = [s \in ToSet(Splits) |-> Kept(rows[s], Cap(s, rows[s]))]
  /\ pc' = "returned"
  /\ UNCHANGED <<count, at, tries, draw, rows>>

(* min() of no counts: a split of which no row was wanted.                   *)
Raise ==
  /\ pc = "balancing" /\ \E s \in ToSet(Splits) : rows[s] = <<>>
  /\ pc' = "raised"
  /\ UNCHANGED <<count, at, tries, draw, rows, out>>

Next == Draw \/ Place \/ NextSplit \/ Balance \/ Raise

Spec == Init /\ [][Next]_vars /\ WF_vars(Next)

-----------------------------------------------------------------------------
(* What evaluation asks about is held out, and is there to be asked: a       *)
(* template group is used by one split only, so that a model is not asked    *)
(* about the commands it learnt and two evaluation splits do not measure the *)
(* same thing, and every evaluation split is drawn from groups of every      *)
(* risky posture.                                                            *)
GroupsHeldOut ==
  \A s, t \in ToSet(Splits) :
    s # t => {r.group : r \in ToSet(rows[s])} \cap {r.group : r \in ToSet(rows[t])} = {}
EveryRiskDealt ==
  at \in 2..4 => ToSet(Risky) \subseteq UNION {PosturesOf(g) : g \in GroupsOf(Filling)}
EvaluationHeldOut == GroupsHeldOut /\ EveryRiskDealt

(* What is written is balanced: no posture has more than 1.3 times the rows  *)
(* of another that the split has, and none that was drawn is lost.           *)
Balanced ==
  \A s \in ToSet(Splits), p, q \in Postures :
    LET n(c) == Cardinality(out[s] \cap With(rows[s], c))
    IN /\ With(rows[s], p) # {} => n(p) > 0
       /\ n(q) > 0 => 10 * n(p) <= 13 * n(q)

(* make_rows returns, whatever is drawn, and what it returns is balanced; it *)
(* raises where a split is asked for no row, which takes fewer than ten.     *)
Returns == pc = "filling" ~> (pc = "returned" /\ Balanced) \/ (pc = "raised" /\ count < 10)

(* Rows come in contrastive pairs: beside a call from a group with several   *)
(* postures stands the same skeleton with another posture.                   *)
PairsComplete ==
  pc = "returned" => \A s \in ToSet(Splits) : \A i \in out[s] :
    LET r == rows[s][i]
    IN Cardinality(PosturesOf(r.group)) > 1 =>
         \E j \in out[s] : LET q == rows[s][j]
                           IN q.group = r.group /\ q.entity = r.entity /\ q.posture # r.posture

(* Training templates and held-out templates use disjoint tools.             *)
ToolsHeldOut ==
  \A s \in Evaluation : \A r \in ToSet(rows["train"]), q \in ToSet(rows[s]) : r.group.tool # q.group.tool
=============================================================================
