SPECIFICATION Spec
CONSTANTS
  Targets <- SomeTargets
  MaxMounts = 4
  MaxRuns = 3
INVARIANTS
  TypeOK
  FilesLandAsDeclared
  NothingHidden
  BusyOnlyAtRoot
PROPERTIES
  PlacesInOrder
CHECK_DEADLOCK FALSE
