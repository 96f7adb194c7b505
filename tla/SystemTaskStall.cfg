CONSTANTS
  Runners = {r1, r2}
  MaxTasks = 1
  MaxFence = 2
  ClaimStalls = TRUE
  ReleaseFails = TRUE
SPECIFICATION Spec
PROPERTIES ActiveTaskEnds
CHECK_DEADLOCK FALSE
