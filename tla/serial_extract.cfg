SPECIFICATION Spec
CONSTANTS
  Archives <- ArchivesDef
  Names = {"a", "b", "c", "d"}
  Hosts <- HostsDef
  Policies = {"never", "always", "rename", "skip"}
  Caps = {0, 3}
  Ratio = 3
  Floor = 4
  Width = 8
  MaxKeep = 3
  Olds <- OldsDef
INVARIANTS OkIsComplete OldFilesKept OutputBounded RarPublishesWhole TestFindsDamage
CHECK_DEADLOCK FALSE
