CONSTANTS
  MaxBlocks = 3
  MaxEdits = 2
  MaxHistory = 2
  MaxActs = 4
  Ports = {p1, p2}
  MaxCycles = 3
  FirstCycles = 3
  ScriptMax = 2
  Libraries = {def, other}
  UserDefault = def
  MaxSlots = 2
  MaxFaults = 1
SPECIFICATION Spec
INVARIANT HistoryTracks
 
 
INVARIANT EditorCleanIsStored
INVARIANT UndoStaysInBlock
CHECK_DEADLOCK FALSE
