SPECIFICATION Spec
CONSTANTS
  w1 = w1
  w2 = w2
  a = a
  a2 = a2
  a3 = a3
  b = b
  b2 = b2
  c1 = c1
  EntryCount = 3
  Kind <- MCKindTwins
  Size <- MCSizeTwins
  Target <- MCTargetTwins
  Names <- MCNames
  NoName = NoName
  OnDisk = {b}
  KeepBoth <- MCKeepBoth
  Policies = {"rename"}
  Buffer = 2
  Cap = 0
  Every = 2
  Workers <- MCWorkers
  NoWorker = NoWorker
INVARIANT KeptApart
