SPECIFICATION Safety
CONSTANTS
  Modes <- MCModes
  Asserts = FALSE
  Races <- StartInError
INVARIANT ReadNeverDeadlocks
CHECK_DEADLOCK FALSE
