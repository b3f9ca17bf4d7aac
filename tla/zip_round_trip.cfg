SPECIFICATION Spec
CONSTANTS
  Max16 = 2
  Max32 = 8
  Block = 4
  TailScan = 4
  ScanCells = 100
  OneShot = 6
  HardCap = 50
  Files <- MCFiles
  MaxEntries = 3
INVARIANTS EveryEntryRecovered HeadersAgree
