\* A guard that dies after it paused the jobs.
SPECIFICATION GuardSpec
CONSTANTS
  Jobs = {"train"}
  Containers = {"teacher"}
  Sensors = {"gpu", "soc"}
  Guards = {g1}
  FaultKinds = {"dies"}
  MaxFaults = 1
PROPERTY SelfHeals
CHECK_DEADLOCK FALSE
