\* Full runs of three candidates with a judge. The process stops when it is done.
SPECIFICATION Spec
CONSTANTS
  N = 3
  Packs = {"p"}
  Texts <- FourTexts
  Worlds <- SmallWorlds
  NearDup <- NearOrFar
  NearSplit <- NearOrFar
  JudgeConfigs = {TRUE}
  JudgePct = 70
  SupportMode = "reject"
  EnforcingPacks = {"p"}
  DiversityMinN = 3
  RoundsDown = {2, 4, 6, 8}
  Correlated = FALSE
  MaxRuns = 1
INVARIANTS FailsClosed Grounded AcceptedDistinct DuplicatesGiveWay JudgeBudget AcceptedIsolated
PROPERTY VerdictsFinal
CHECK_DEADLOCK FALSE
