\* Four records over two splits, two difficulties and four texts on a line; six train
\* records of two packs, none a duplicate, easy or not.
SPECIFICATION Spec
CONSTANTS
  Packs = {"p", "q"}
  Texts <- MCTexts
  NearDup <- NearLine
  NearSplit <- NearLine
  DiversityMinN = 3
  RoundsDown = {2, 4, 6, 8}
  Ids = {1, 2, 3, 4, 5, 6}
  Inputs <- MCInputs
INVARIANTS TypeOK LoopComputesKept SplitsSeparated EasyShareCapped HarderCopySurvives
CHECK_DEADLOCK FALSE
