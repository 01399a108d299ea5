------------------------------ MODULE MCDedupe ------------------------------
(* Instances of Dedupe for TLC. *)
EXTENDS Dedupe

\* Texts 1 to 4 are on a line, near to their neighbours, so that nearness is not
\* transitive; the others are near to none.
MCTexts == 1 .. 10
NearLine(s, t) == {s, t} \subseteq 1 .. 4 /\ s - t \in {-1, 0, 1}

R(p, s, r, t) == [pack |-> p, split |-> s, rank |-> r, family |-> 1, held |-> FALSE, text |-> t]

\* Four records of pack "p", any difficulty, split and text on the line; the rest
\* are easy train records of another pack, distinct.  The line reads the same from both
\* ends, so the first text is in its first half.
OnLine(T) == {R("p", s, r, t) : s \in {"train", "locked_test"}, r \in {0, 1}, t \in T}
Clustered ==
  { [i \in Ids |-> IF i = 1 THEN c ELSE IF i <= 4 THEN cs[i] ELSE R("q", "train", 0, 4 + i)] :
      c \in OnLine(1 .. 2), cs \in [2 .. 4 -> OnLine(1 .. 4)] }

\* Train records of distinct texts, easy or not, in two packs.
Distinct ==
  { [i \in Ids |-> R(pk[i], "train", rk[i], 4 + i)] : pk \in [Ids -> {"p", "q"}], rk \in [Ids -> {0, 1}] }

MCInputs == Clustered \cup Distinct
=============================================================================
