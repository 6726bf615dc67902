SPECIFICATION Spec
CONSTANTS
  left = left
  right = right
  Order <- MCOrder
  NameIn <- DistinctNames
  Controllers <- MCControllers
  Claim <- MCClaim
  Faulty <- LeftArm
INVARIANTS
  TypeOK
  OneControllerUnlessSpoiled
  ModesAgree
PROPERTY CommandsArrive
