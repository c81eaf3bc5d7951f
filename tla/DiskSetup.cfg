SPECIFICATION FairSpec
CONSTANTS
  MaxPart = 3
  DiskPath <- Nvme0n1
  FsTypes <- FsClasses
  FoundFs <- OneFound
  Names = {"root"}
  NoName = ""
  MaxOps = 1
INVARIANTS
  TypeOK
  PickedMade
  AwareWhenQuiet
  NoCollateral
  Delivered
PROPERTIES
  WaitEnds
CHECK_DEADLOCK FALSE
