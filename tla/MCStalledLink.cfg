CONSTANTS
  Size <- MCSize
  RingCap = 2
  MaxId = 2
  PacketsPerRun = 2
  Keepalive = 2
  PingTimeout = 2
  ConnackTimeout = 1
  NetTimeout = 1
  MaxLag = 1
SPECIFICATION Spec
INVARIANT PingInTime
