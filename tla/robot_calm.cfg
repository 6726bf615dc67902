SPECIFICATION Spec
CONSTANTS
  Modes <- MCThreeModes
  Asserts = FALSE
  Races <- Calm
INVARIANTS
  TypeOK
  NoAbort
  StoppedMeansNoLoop
  ErrorsAreKnown
  ReadNeverDeadlocks
PROPERTIES
  RobotLoopSpec
  DeadLoopIsStopped
  NobodyStarves
