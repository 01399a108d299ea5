\* No judge configured: what becomes of the unresolved candidates.
SPECIFICATION Spec
CONSTANTS
  N = 2
  Packs = {"p"}
  Texts <- MCTexts
  Worlds <- PairWorlds
  NearDup <- Near
  NearSplit <- Near
  JudgeConfigs = {TRUE, FALSE}
  JudgePct = 70
  SupportMode = "reject"
  EnforcingPacks = {"p"}
  DiversityMinN = 3
  RoundsDown = {2, 4, 6, 8}
  Correlated = FALSE
  MaxRuns = 1
INVARIANT FailsClosed
CHECK_DEADLOCK FALSE
