SPECIFICATION FairSpec
CONSTANTS
  Device = {"d1", "d2", "typo"}
  Known = {"d1", "d2"}
  Late = {"d2"}
  VgName = {"g1", "g2"}
  LvName = {"a", "b"}
  MaxVg = 2
  MaxLv = 2
INVARIANTS
  TypeOK
  OwnGroup
  OwnVolume
PROPERTIES
  OnlyNamedVolumes
  WaitEnds
CHECK_DEADLOCK FALSE
