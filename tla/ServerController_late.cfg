\* A server that needs longer than startup_timeout_s.
SPECIFICATION Spec
CONSTANTS
  Roles = {"generator", "verifier", "semantic_judge"}
  Managed = {"generator", "verifier", "semantic_judge"}
  Stoppable = {"generator", "verifier", "semantic_judge"}
  Unload = TRUE
  Capacity = 2
  Plans <- AllPlans
  StopsWork = TRUE
  TimeoutsHit = TRUE
  Interrupts = FALSE
  Crashes = 0
  MaxRuns = 2
INVARIANT OnlyOneRole
CHECK_DEADLOCK FALSE
