CONSTANTS
  Library  <- MCLibrary
  Points   <- MCPoints
  Arrivals <- MCArrivals
  MaxNodes = 2
  MaxPorts = 3
  MaxWires = 3
  MaxPatches = 3
SPECIFICATION SheetSpec
INVARIANT WiresAnchored
INVARIANT OneDriver
INVARIANT NamesUnique
PROPERTY MovesGrabbed
CHECK_DEADLOCK FALSE
