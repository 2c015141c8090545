CONSTANTS
  RangeCount = 4
  StartRange = 2
  Resolution <- MCResolution
  IntegrationTime <- MCIntegrationTime
  Low = 80
  High = 12000
  Saturation = 64000
  MaxCount = 65535
  Converge = 3
  Threshold = 3
  Backoff <- MCBackoff
  LongSince = 6
  Brightnesses <- MCBrightnesses
SPECIFICATION LightSpec
INVARIANT
  ConfigUnchanged
