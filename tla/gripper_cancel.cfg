SPECIFICATION NodeSpec
CONSTANTS
  Goals <- MCGoals
  Task <- MCTask
  Target <- MCTarget
  max_width = 2
  MaxGoals = 1
  Extra = 1
  OneAtATime = TRUE
  Faults = FALSE
  Servers <- SIM
INVARIANT SuccessMeansCompleted
CHECK_DEADLOCK FALSE
