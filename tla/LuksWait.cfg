SPECIFICATION Spec
CONSTANTS
  d1 = d1
  d2 = d2
  u1 = u1
  u2 = u2
  u3 = u3
  u4 = u4
  Dev <- TwoDevs
  UUID <- FourUUIDs
  NoUUID = NoUUID
  NoDev = NoDev
  FsTypes <- FsClasses
  Names = {"root"}
  NoName = ""
SYMMETRY Symmetry
INVARIANTS
  WaitUpdatesUUID
CHECK_DEADLOCK FALSE
