CONSTANTS
  TxCap = 2
  RxCap = 3
  MaxFetch = 2
  Bytes = {0, 1}
  MaxSend = 3
  MinRoom = 1
  ClockHalf = 3
  ConnectTimeout = 2
  MaxLag = 2
SPECIFICATION Spec
INVARIANT
  ReceiveFailureIsSeen
