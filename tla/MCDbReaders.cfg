SPECIFICATION ReaderSpec
CONSTANTS
  NumThreads = 2
  Iterations = 2
  MaxRuns = 2
  MaxKills = 1
  Databases <- MCDatabases
  Accesses <- MCAccesses
  MaxRows = 6
  Root = 1
  Dirs = {2, 3}
  Files = {4}
  Names = {"x", "y"}
  Tree0 <- MCTree0
  MaxEvents = 6
  MaxLost = 1
  MaxImports = 1
INVARIANTS
  
  
  
  
  CyclesOnlyAtZero
  RerunRepairs

  
CHECK_DEADLOCK FALSE
