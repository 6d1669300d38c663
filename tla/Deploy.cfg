CONSTANTS
  Images = {a, b, flaky, unsound, garbage}
  Loadable = {a, b, flaky, unsound}
  Valid = {a, b, flaky}
  Faulty = {flaky}
  NoImage = NoImage
  Torn = Torn
  MaxVersion = 2
  Calls = {"full"}
  CycleMod = 4
SPECIFICATION DeploySpec
INVARIANTS
  DMInv
  WindowNeverFatal
  OutcomeTruthful
PROPERTIES
  SwitchesAsPromised
  LoopProgress
  EventuallyReported
