SPECIFICATION Spec
CONSTANTS
  Trees <- MCTrees
  Formats = {"7z", "7z solid", "tar", "xz", "zipx"}
  Growth = {0, 1}
  BlockCap = 3
  Every = 2
  Calls = 2
INVARIANTS CommittedListsTrees TotalsAreMet CancelIsTold
CHECK_DEADLOCK FALSE
