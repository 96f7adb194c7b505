CONSTANTS
  Runners = {r1, r2}
  MaxTasks = 2
  MaxFence = 2
  ClaimStalls = FALSE
  ReleaseFails = TRUE
SPECIFICATION Spec
PROPERTIES LiveTaskNotExpired
CHECK_DEADLOCK FALSE
