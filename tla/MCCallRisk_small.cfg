SPECIFICATION Spec
CONSTANTS
  Counts = {9, 10}
  RoundsDown = {}
  Train <- OneGroup
  HeldOut <- HeldOutGroups
  Entities = {e1}
  Command <- Filled
  Frames = {f1, f2}
  Tries = 1
INVARIANT EvaluationHeldOut
PROPERTY Returns
CHECK_DEADLOCK FALSE
