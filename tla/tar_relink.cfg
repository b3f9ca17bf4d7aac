SPECIFICATION Spec
CONSTANTS
  Archives <- HardArchive
  Names = {"a", "b", "c", "d"}
  Hosts <- HostsDef
  Policies = {"always"}
  Caps = {0, 3}
  Ratio = 3
  Floor = 4
  Width = 8
  MaxKeep = 3
  Olds <- HardLinked
INVARIANT HardLinkKeepsData
CHECK_DEADLOCK FALSE
