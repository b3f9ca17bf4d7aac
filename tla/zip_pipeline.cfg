SPECIFICATION FairSpec
CONSTANTS
  w1 = w1
  w2 = w2
  Dirs = 1
  Small = 3
  SmallSize <- MCSmallSize3
  Incompressible = {1, 2}
  Large = 1
  LargeStat <- MCLargeOne
  LargeSize <- MCLargeOne
  BytesTotal = 6
  Workers <- MCWorkers
  Depth = 1
  Max32 = 3
INVARIANTS SuccessIsComplete OffsetsAreReal
PROPERTIES NothingListedAfterError ForecastNeverRegresses ImplementsOrderedArchive CallReturns
