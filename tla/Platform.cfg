CONSTANTS
  CountMod = 3
  MaxStarts = 3
  Stops = TRUE
  TicksPerSecond = 1000
  ScanMs = 100
  Elapsed = {0, 7, 100, 130}
SPECIFICATION PlatformSpec
INVARIANT ScanExclusive
PROPERTIES
  ScanOrder
  PlatformLive
CHECK_DEADLOCK FALSE
