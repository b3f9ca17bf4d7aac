SPECIFICATION SpecBoth
CONSTANTS
  Formats = {"zip", "zipx", "rar"}
  Methods = {"none", "zipcrypto", "aes256"}
  Lengths = {1, 5, 7}
  VolumeSizes = {0, 2, 3}
  Buffer = 2
  MaxVolumes = 3
  OldVolumes = {0, 2}
  Builds = 2
  Wants = {0, 3}
  Patched = 50
INVARIANTS PointerIsLive FailedSliceLeavesNothing CommittedIsComplete
PROPERTIES ReaderSparesFiles ReadsAsOneFile
