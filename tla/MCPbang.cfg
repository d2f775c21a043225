SPECIFICATION Spec
CONSTANTS
  DefaultSize = 1
  Tree <- MCTree
  Root = 2
  LogIno = 17
  Leftovers <- MCLeftovers
  MaxRuns = 2
  MaxFaults = 2
INVARIANTS
  StreamReadable
  SuccessMeansComplete
  
CHECK_DEADLOCK FALSE
