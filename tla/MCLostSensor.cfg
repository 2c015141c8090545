CONSTANTS
  Kinds = {"SGP41"}
  Threshold = 3
  Interval = 2
  Delay = 1
  CondMax = 2
  Backoff <- MCBackoff
SPECIFICATION Spec
PROPERTIES
  AlwaysComesBack
