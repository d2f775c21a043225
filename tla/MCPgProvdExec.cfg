SPECIFICATION Spec
CONSTANTS
  Records <- MCExecRecords
  MaxRecords = 2
  MaxLives = 1
  MaxFaults = 0
  MaxForeign = 0
INVARIANT
  RelayWrittenToLog
CHECK_DEADLOCK FALSE
