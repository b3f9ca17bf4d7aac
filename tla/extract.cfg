SPECIFICATION Spec
CONSTANTS
  w1 = w1
  w2 = w2
  a = a
  a2 = a2
  a3 = a3
  b = b
  b2 = b2
  c1 = c1
  EntryCount = 6
  Kind <- MCKind
  Size <- MCSize
  Target <- MCTarget
  Names <- MCNames
  NoName = NoName
  OnDisk = {a, c1}
  KeepBoth <- MCKeepBoth
  Policies = {"never", "always", "rename", "skip"}
  Buffer = 2
  Cap = 5
  Every = 2
  Workers <- MCWorkers
  NoWorker = NoWorker
SYMMETRY MCSymmetry
INVARIANTS CapHolds SuccessIsExact ExistingKept KeptApart
PROPERTY BytesNeverGoBack
