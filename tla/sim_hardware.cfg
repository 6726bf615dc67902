SPECIFICATION Spec
CONSTANTS
  left = left
  right = right
  Order <- MCOrder
  Grippers <- MCGrippers
  Controllers <- MCControllers
  Claim <- MCClaim
  Unstable <- MCUnstable
  Scenes <- MCScenes
  kNumberOfJoints = 2
  Objects <- MCObjects
  Layouts <- MCLayouts
  Facts <- MCFacts
INVARIANTS
  TypeOK
  OneGroup
  ActuatorsMatchClaims
  OwnJoints
  InBaseFrame
PROPERTY CommandsReachActuators
CHECK_DEADLOCK FALSE
