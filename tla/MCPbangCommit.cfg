SPECIFICATION Spec
CONSTANTS
  DefaultSize = 1
  Tree <- MCTree
  Root = 2
  LogIno = 17
  Leftovers <- Clear
  MaxRuns = 1
  MaxFaults = 1
INVARIANT
  CommitMeansComplete
CHECK_DEADLOCK FALSE
