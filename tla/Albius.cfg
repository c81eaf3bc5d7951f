SPECIFICATION Spec
CONSTANTS
  Recipes <- SomeRecipes
  Images <- SomeImages
  LiveSystem <- Live
  Blank <- EmptySystem
  Supported = {"en_US", "pt_BR"}
  MaxRuns = 3
INVARIANTS
  TypeOK
  Repeatable
PROPERTIES
  LiveUntouched
  Implements
CHECK_DEADLOCK FALSE
