SPECIFICATION Spec
CONSTANTS
  reset1 = reset1
  reset2 = reset2
  Daemons = {daemon}
  Imports = {import}
  Resets <- MCResets
  Readers = {reader}
  NumTables = 3
  MaxRecords = 3
  MaxFaults = 1
SYMMETRY ResetSymmetry
INVARIANTS
  WritersNeverDeadlock

  
CHECK_DEADLOCK FALSE
