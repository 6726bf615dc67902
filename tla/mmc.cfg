SPECIFICATION Spec
CONSTANTS
  left = left
  right = right
  impLeft = impLeft
  impRight = impRight
  velRight = velRight
  dual = dual
  Arms <- MCArms
  Controllets <- MCControllets
  Resource <- MCResource
  StartSet <- MCStartSet
  Commanded <- OnlyDual
  Overlap = FALSE
INVARIANTS
  TypeOK
  EveryArmWrittenOnce
  NoOldGoal
  SwitchesAreAtomic
PROPERTIES OwnersSpec NobodyStarves GoalIsTaken
