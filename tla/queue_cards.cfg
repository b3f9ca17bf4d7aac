SPECIFICATION FairSpec
CONSTANTS
  j1 = j1
  j2 = j2
  j3 = j3
  g1 = g1
  Jobs <- MCJobs1
  Ghosts = {g1}
  FirstLimit = 1
  Limits = {2}
  MaxSlots = 3
  Ticks = 3
  Full = 2
  SummaryOnUi = TRUE
  Headless = FALSE
INVARIANTS DoneShowsSummary CallerToldTheTruth
PROPERTIES SettledCardFrozen EverySubmissionSettles
