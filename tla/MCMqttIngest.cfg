CONSTANTS
  Streams <- MCStreams
  Garbled <- MCGarbled
  Sizes <- MCSizes
  LastSizes <- MCLastSizes
  MaxPackets = 3
  HeaderMax = 5
  MaxRemaining = 6
  BufferSize = 6
  PacketsPerRun = 2
SPECIFICATION PacedSpec
INVARIANTS IInv ClosedAfterTheLast
PROPERTY EveryPacketIsDispatched
