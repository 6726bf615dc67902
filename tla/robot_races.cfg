SPECIFICATION Safety
CONSTANTS
  Modes <- MCModes
  Asserts = TRUE
  Races <- RaceKinds
INVARIANTS
  ReadExcludesRestart
CHECK_DEADLOCK FALSE
