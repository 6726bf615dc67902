SPECIFICATION NodeSpec
CONSTANTS
  Goals <- MCGoals
  Task <- MCTask
  Target <- MCTarget
  max_width = 2
  MaxGoals = 2
  Extra = 1
  OneAtATime = TRUE
  Faults = TRUE
  Servers <- ARM
INVARIANTS
  NodeTypeOK
  CutWasAsked
PROPERTIES
  RealKeepsPromise
  GoalsEnd
CHECK_DEADLOCK FALSE
