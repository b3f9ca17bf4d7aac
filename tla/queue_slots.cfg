\* A verb of OtterZip.Linux: three jobs on one slot, a limit raised meanwhile.
CONSTANTS
  j1 = j1
  j2 = j2
  j3 = j3
  g1 = g1
  Jobs <- MCJobs3
  Ghosts = {}
  FirstLimit = 1
  Limits = {0, 5}
  MaxSlots = 2
  Ticks = 0
  Full = 1
  SummaryOnUi = FALSE
  Headless = TRUE
SPECIFICATION FairSpec
INVARIANTS SlotsConserved ClosesAfterLast
PROPERTIES ImplementsExecutor EverySubmissionSettles
