SPECIFICATION Spec
CONSTANTS
  Parts <- RootAndBootParts
  Mounts <- RootAndBoot
  Images = {"image1", "image2"}
  MaxRuns = 3
INVARIANTS
  TypeOK
  Bootable
  DigestNamesRoot
  BindsRestored
  NeverBusy
  TempFilesOnDisk
CHECK_DEADLOCK FALSE
