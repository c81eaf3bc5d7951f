SPECIFICATION Spec
CONSTANTS
  MaxPart = 2
  DiskPath <- Sda
  FsTypes <- FsClasses
  FoundFs <- OneFound
  Names = {"root"}
  NoName = ""
  MaxOps = 1
INVARIANTS
  WorksOnNewPartition
CHECK_DEADLOCK FALSE
