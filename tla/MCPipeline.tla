----------------------------- MODULE MCPipeline -----------------------------
(* Instances of Pipeline for TLC. *)
EXTENDS Pipeline

MCTexts == 1 .. 3
\* Texts on a line: 1 and 2 are near, 2 and 3 are near, 1 and 3 are not.
Near(s, t) == s - t \in {-1, 0, 1}

\* The same three texts and one that is near to none of them.
FourTexts == 1 .. 4
NearOrFar(s, t) == s = t \/ (s # 4 /\ t # 4 /\ Near(s, t))

W(p, s, r, f) == [pack |-> p, split |-> s, rank |-> r, family |-> f,
                  held |-> s \in {"calibration", "locked_test"}]

\* Three candidates of one pack: a hard, a medium and an easy record of two
\* splits; an easy record before a medium one of another split; train records
\* enough for diversity_select; a family shared between two splits.
SmallWorlds ==
  { <<W("p", "train", 2, 1), W("p", "train", 1, 1), W("p", "challenge", 0, 2)>>,
    <<W("p", "train", 0, 1), W("p", "challenge", 1, 2), W("p", "challenge", 0, 2)>>,
    <<W("p", "train", 0, 1), W("p", "train", 0, 1), W("p", "train", 1, 1)>>,
    <<W("p", "train", 0, 1), W("p", "locked_test", 0, 1), W("p", "challenge", 0, 2)>> }

\* Two candidates of one pack, for the runs of two processes.
PairWorlds == { <<W("p", "train", 0, 1), W("p", "locked_test", 1, 2)>> }
=============================================================================
