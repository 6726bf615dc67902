SPECIFICATION Spec
CONSTANTS
  left = left
  right = right
  Order <- MCOrder
  NameIn <- DistinctNames
  Controllers <- MCControllers
  Claim <- MCClaim
  Faulty <- NoArms
INVARIANT OneControllerPerArm
CHECK_DEADLOCK FALSE
