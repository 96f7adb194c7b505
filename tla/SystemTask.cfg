CONSTANTS
  Runners = {r1, r2}
  MaxTasks = 2
  MaxFence = 2
  ClaimStalls = FALSE
  ReleaseFails = FALSE
SPECIFICATION Spec
INVARIANTS TypeOK OneExecutionPerTask TakeoverHitsNoRunningTask
PROPERTIES TerminalIsFinal ActiveTaskEnds
CHECK_DEADLOCK FALSE
