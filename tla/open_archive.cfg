\* Names, contents and health of a file that is opened twice and added to.
CONSTANTS
  Openers = {probe, work}
  Names <- MCNames
  Puts <- MCPuts
  Contents <- MCContents
  Plans <- MCPlans
  MaxPuts = 1
SYMMETRY Symmetry
SPECIFICATION Spec
INVARIANTS HealthyIsRead AppendedIsListed
CHECK_DEADLOCK FALSE
