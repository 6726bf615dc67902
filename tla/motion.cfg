SPECIFICATION PlayerSpec
CONSTANTS
  Players = {"generator", "bridge"}
  Goals <- MCGoals
  NoGoal = NoGoal
  Via <- MCVia
  Valid <- MCValid
  Poses <- MCPoses
  Home <- MCHome
  Scalings <- MCScalings
  Steps <- MCSteps
  MaxMessages = 1
  Points <- MCPoints
  num_threads = 2
  Ticks = {"t1", "t2"}
  Environments <- MCEnvironments
INVARIANT PlayerTypeOK
PROPERTIES
  PathsAreCompleted
  MotionsAreSmooth
  EveryMotionEnds
CHECK_DEADLOCK FALSE
