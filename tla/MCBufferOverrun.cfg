CONSTANTS
  Streams <- MCStreams
  Garbled <- MCGarbled
  Sizes <- OverlongSizes
  LastSizes = {}
  MaxPackets = 2
  HeaderMax = 5
  MaxRemaining = 6
  BufferSize = 6
  PacketsPerRun = 2
SPECIFICATION PacedSpec
INVARIANT InOrder
