CONSTANTS
  Images = {a, b, unsound, garbage}
  Loadable = {a, b, unsound}
  Valid = {a, b}
  NoImage = NoImage
  Torn = Torn
  MaxVersion = 5
  Calls = {"full", "patch", "detach"}
SPECIFICATION DMSpec
INVARIANTS
  ActiveUsable
  RolledBackStaysOut
CHECK_DEADLOCK FALSE
