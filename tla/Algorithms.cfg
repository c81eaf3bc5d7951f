SPECIFICATION Spec
CONSTANTS
  Bases <- DisksOfAllKinds
  MaxNumber = 12
  Positions = {1, 50, 99, 100, 101, 400, 700}
INVARIANTS
  CommonPathsRecovered
  GroupAttrsRead
  LvAttrsRead
  FreeSpaceFound
CHECK_DEADLOCK FALSE
