SPECIFICATION Spec
CONSTANTS
  c442 = c442
  c2 = c2
  Creds <- MCCreds
  Uids = {"root"}
  Versions <- MCVersions
  Records <- MCRecords
  FilterCred = c442
  MaxEvents = 2
  MaxRecords = 4
  MaxRuns = 2
  MaxFaults = 1
INVARIANTS
  EdgeAfterVertices
  NothingToldTwice
  RunTellsItsRecords
  
CHECK_DEADLOCK FALSE
