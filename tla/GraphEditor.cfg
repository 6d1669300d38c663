CONSTANTS
  MaxPages = 3
  MaxEdits = 2
  MaxSlots = 2
  MaxCalls = 2
  MaxFaults = 1
SPECIFICATION Spec
INVARIANT PagesSeparate
INVARIANT CleanIsSaved
INVARIANT OrderCompact
PROPERTY EditSettles
CHECK_DEADLOCK FALSE
