SPECIFICATION Spec
CONSTANTS
  Chosen <- Consistent
  MayMislabel <- Recomputed
  Wrapping <- FewPhrasings
INVARIANTS LabelIsReadable PassedRowsHold HonestRowsPass AllowedCallsRun PhrasingsHeldOut
CHECK_DEADLOCK FALSE
