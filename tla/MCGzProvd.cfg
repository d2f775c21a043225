SPECIFICATION Spec
CONSTANTS
  a = a
  b = b
  Clients <- Both
  Address <- AlikeAddress
  AddrLen = 2
  MsgLen = 2
  BufSize = 3
  QueueLen = 2
  MaxUnits = 4
  MaxSends = 2
  MaxLives = 2
  MaxFaults = 1
INVARIANTS
  LogIsRelayStream
  AppRecordsAtBoundary
  CrashLosesOneCycle
  CleanExitComplete
  

  
CHECK_DEADLOCK FALSE
