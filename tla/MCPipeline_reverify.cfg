\* A run or a generate-only run of two candidates, then a reverify; no blind solve.
SPECIFICATION Spec
CONSTANTS
  N = 2
  Packs = {"p"}
  Texts <- MCTexts
  Worlds <- PairWorlds
  NearDup <- Near
  NearSplit <- Near
  JudgeConfigs = {TRUE}
  JudgePct = 25
  SupportMode = "off"
  EnforcingPacks = {"p"}
  DiversityMinN = 3
  RoundsDown = {2, 4, 6, 8}
  Correlated = FALSE
  MaxRuns = 2
INVARIANTS GenerationVerdictsKept Grounded
PROPERTY ImplementsAcceptance
CHECK_DEADLOCK FALSE
