CONSTANTS
  MaxEdits = 2
  MaxSlots = 2
  MaxCycles = 2
  MaxRuns = 2
SPECIFICATION Spec
INVARIANT RunsOfThisChart
 
PROPERTY AnalysisSettles
CHECK_DEADLOCK FALSE
