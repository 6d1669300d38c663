CONSTANTS
  Projects = {p, q}
  First = p
  None = None
  Mixed = Mixed
  Pages = {1, 2}
  FirstPage = 1
  MaxSlots = 2
  MaxCalls = 4
  MaxFaults = 1
SPECIFICATION Spec
INVARIANTS
  OwnData
  
  ShellMirrors
CHECK_DEADLOCK FALSE
