CONSTANTS
  MaxStations = 2
  MaxModules = 2
  MaxSlots = 2
  MaxActs = 2
  MaxFaults = 1
SPECIFICATION Spec
INVARIANTS
  BoundStaysLive
  QuietIsFresh
  
PROPERTY ComesToRest
