SPECIFICATION Spec
CONSTANTS
  Records <- MCRecords
  MaxRecords = 3
  MaxLives = 2
  MaxFaults = 1
  MaxForeign = 1
INVARIANTS
  MainDetailMatched
  EventOrder
  CommitsNoGap
  CleanExitLosesNothing
PROPERTIES
  ImplementsEventStore
  StopsOnceQuiet
  EveryRecordSettled
CHECK_DEADLOCK FALSE
