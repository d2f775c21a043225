SPECIFICATION Spec
CONSTANTS
  DefaultSize = 1
  NumEvents = 2
  MaxFaults = 1
  Creds <- MCCreds
  Inodes <- MCInodes
  Masks <- MCMasks
  MaxRecords = 4
  Texts <- MCTexts
  Argcs = {0, 1, 2}
  MAXENVLEN = 5
  Base = 4
  BangLogs <- MCBangLogs
  MaxFixes = 2
  Dbs <- MCDbs
  MaxIndexings = 2
  MaxDbFaults = 2
INVARIANTS
  
  LivingKnown
  
  LogRepaired
  IndexWhole
CHECK_DEADLOCK FALSE
