CONSTANTS
  WireImages <- MCImages
  MaxPayload = 1
  MaxImage = 3
  MaxFaults = 2
  MaxRestarts = 1
SPECIFICATION WireSpec
INVARIANTS
  FinishedWhole
  TransferSound
PROPERTY Verdict
CHECK_DEADLOCK FALSE
