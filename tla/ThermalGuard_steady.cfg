\* Guards that die, are stopped or block, so that the watchdog starts another one.
SPECIFICATION GuardSpec
CONSTANTS
  Jobs = {"train", "eval"}
  Containers = {"teacher"}
  Sensors = {"gpu", "soc"}
  Guards = {g1, g2}
  FaultKinds = {"dies", "stops", "blocks"}
  MaxFaults = 2
INVARIANT NotForgotten
PROPERTIES Resumed Protected
CHECK_DEADLOCK FALSE
