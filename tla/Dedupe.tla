------------------------------- MODULE Dedupe -------------------------------
(***************************************************************************)
(* The loop of dedupe and the diversity cap after it, one record at a      *)
(* time, over any input.  Selection says which set the loop keeps; here    *)
(* the loop builds it.                                                     *)
(***************************************************************************)
EXTENDS Selection

CONSTANTS Ids,      \* record ids
          Inputs    \* the record functions to run on

ASSUME InputAssumption == Ids \subseteq Nat /\ Inputs \subseteq [Ids -> Record]

VARIABLES
  rec,       \* the records handed to dedupe
  visited,   \* the ids the loop is past
  kept,      \* dedupe's kept
  exact,     \* dedupe's exact: (pack, text) of each kept record, with its id
  dropped,   \* dedupe's dropped: pairs of a record id and the id it duplicates
  cut,       \* what diversity_select drops
  done
vars == <<rec, visited, kept, exact, dropped, cut, done>>

Init ==
  /\ rec \in Inputs
  /\ visited = {} /\ kept = {} /\ exact = {} /\ dropped = {} /\ cut = {} /\ done = FALSE

Turn(c) == c \in Ids \ visited /\ \A d \in Ids \ visited : d = c \/ Before(rec, c, d)
\* Mutated form: the difficulty is taken for the text.
Key_ByRank(c) == [pack |-> rec[c].pack, text |-> rec[c].rank]
Key(c) == [pack |-> rec[c].pack, text |-> rec[c].text]
\* Mutated forms: dropped records count too; only the records of the same split do.
Near_Visited(c) == {k \in visited : rec[k].pack = rec[c].pack /\ NearDup(rec[k].text, rec[c].text)}
Near_InSplit(c) == {k \in kept : /\ rec[k].pack = rec[c].pack /\ rec[k].split = rec[c].split
                                 /\ NearDup(rec[k].text, rec[c].text)}
\* the kept records of the pack whose text is near, the first one kept first
Near(c) == {k \in kept : rec[k].pack = rec[c].pack /\ NearDup(rec[k].text, rec[c].text)}
FirstNear(c) == CHOOSE k \in Near(c) : \A j \in Near(c) \ {k} : Before(rec, k, j)

Visit(c) ==
  /\ Turn(c) /\ visited' = visited \cup {c}
  /\ \/ \E e \in exact : /\ e.key = Key(c)
                         /\ dropped' = dropped \cup {<<c, e.id>>} /\ UNCHANGED <<kept, exact>>
     \/ /\ \A e \in exact : e.key # Key(c)
        /\ IF Near(c) # {}
           THEN dropped' = dropped \cup {<<c, FirstNear(c)>>} /\ UNCHANGED <<kept, exact>>
           ELSE /\ kept' = kept \cup {c} /\ exact' = exact \cup {[key |-> Key(c), id |-> c]}
                /\ UNCHANGED dropped
  /\ UNCHANGED <<rec, cut, done>>

DiversitySelect ==
  /\ visited = Ids /\ ~done
  /\ done' = TRUE /\ cut' = EasyCut(kept, rec)
  /\ UNCHANGED <<rec, visited, kept, exact, dropped>>

Next == (\E c \in Ids : Visit(c)) \/ DiversitySelect

Spec == Init /\ [][Next]_vars

-----------------------------------------------------------------------------
(* Properties *)

TypeOK ==
  /\ rec \in [Ids -> Record] /\ visited \subseteq Ids /\ kept \subseteq visited
  /\ exact \subseteq [key : [pack : Packs, text : Texts], id : Ids]
  /\ dropped \subseteq (Ids \X Ids) /\ cut \subseteq Ids /\ done \in BOOLEAN

(* The loop keeps exactly the set Selection names, and reports each dropped *)
(* record under the kept one Selection names.                               *)
LoopComputesKept ==
  visited = Ids => /\ Kept(kept, rec)
                   /\ dropped = {<<c, DuplicateOf(kept, rec, c)>> : c \in Ids \ kept}

(* "allowed easy count e satisfies e <= share * (e + len(rest))": in a pack *)
(* that lost rows to the cap the easy share of what is left is at most 60%, *)
(* and no more was cut than that share asks for, up to the one row the      *)
(* floating-point quotient may lose.                                        *)
EasyShareCapped ==
  done => \A p \in Packs :
    LET before == Train(kept, rec, p)
        left   == before \ cut
        easy   == Cardinality(Easy(left, rec))
    IN before # left => /\ 10 * easy <= 6 * Cardinality(left)
                        /\ 10 * (easy + 2) > 6 * (Cardinality(left) + 2)

(* Near-duplicates of one pack never sit in two splits once dedupe ran,     *)
(* when its threshold is not above the one of check_records.                *)
SplitsSeparated == done => TextsIsolated(kept \ cut, rec)

(* "the harder record is kept": a record that is not easy and is dropped as *)
(* a duplicate leaves one at least as hard in what diversity_select keeps.  *)
(* (An easy one may vanish with its whole cluster: the copy it gave way to  *)
(* can be an easy train record beyond the cap.)                             *)
HarderCopySurvives ==
  done => \A pair \in dropped :
    LET c == pair[1]  k == pair[2] IN
    rec[c].rank > 0 => k \in kept \ cut /\ rec[k].rank >= rec[c].rank
=============================================================================
