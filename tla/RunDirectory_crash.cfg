SPECIFICATION Spec
CONSTANTS
  Dirs = {d1, d2}
  NoDir = NoDir
  Kinds = {"generate_mixture", "generate_only", "reverify", "code_pack"}
  MaxProcs = 3
INVARIANTS VerifiedIsOneRun RowsHaveTheirRaw
PROPERTIES LoadsOneGeneration FinishedVerifies
CHECK_DEADLOCK FALSE
