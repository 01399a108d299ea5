\* Late and dying servers, stop commands that fail, interrupts and kills, a judge served elsewhere.
SPECIFICATION Spec
CONSTANTS
  Roles = {"generator", "verifier", "semantic_judge"}
  Managed = {"generator", "verifier"}
  Stoppable = {"generator", "verifier"}
  Unload = TRUE
  Capacity = 2
  Plans <- AllPlans
  StopsWork = FALSE
  TimeoutsHit = TRUE
  Interrupts = TRUE
  Crashes = 2
  MaxRuns = 3
INVARIANTS TypeOK OneServerUp NothingLeftUp
PROPERTIES ServedWhenStarted Terminates
CHECK_DEADLOCK FALSE
