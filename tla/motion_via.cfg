SPECIFICATION PlayerSpec
CONSTANTS
  Players = {"generator"}
  Goals <- MCGoals
  NoGoal = NoGoal
  Via <- MCVia
  Valid <- MCValid
  Poses <- MCPoses
  Home <- MCHome
  Scalings <- MCScalings
  Steps <- MCSteps
  MaxMessages = 0
  Points <- MCPoints
  num_threads = 2
  Ticks = {"t1", "t2"}
  Environments <- MCEnvironments
PROPERTY SuccessReachesLastVia
CHECK_DEADLOCK FALSE
