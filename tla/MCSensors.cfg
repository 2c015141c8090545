CONSTANTS
  Kinds = {"SHT45", "SCD41", "SGP41", "BMP"}
  Threshold = 3
  Interval = 4
  Delay = 2
  CondMax = 3
  Backoff <- MCBackoff
SPECIFICATION Spec
INVARIANTS
  RoomFollowsRuntime
  NothingStaleIsShown
  IInv
PROPERTIES
  ComesBack
