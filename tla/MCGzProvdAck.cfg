SPECIFICATION Spec
CONSTANTS
  a = a
  b = b
  Clients <- Both
  Address <- ShortLong
  AddrLen = 4
  MsgLen = 2
  BufSize = 3
  QueueLen = 2
  MaxUnits = 2
  MaxSends = 2
  MaxLives = 1
  MaxFaults = 0
PROPERTY
  AckReachesSender
CHECK_DEADLOCK FALSE
