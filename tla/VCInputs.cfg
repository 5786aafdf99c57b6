SPECIFICATION Spec
CONSTANTS
  c1 = c1
  c2 = c2
  h1 = h1
  h2 = h2
  Clients = {c1}
  Handles = {h1, h2}
  NoHandle = NoHandle
  NoInput = NoInput
  MaxTick = 2
  MaxEpoch = 1
  InactiveLimit = 0
  CleanupPeriod = 0
  MayFail = {"attach", "set"}
  Attributes <- OneSensor
  Noise = {}
  MaxInFlight = 2
  MaxErrors = 1
SYMMETRY HandleSymmetry
CHECK_DEADLOCK FALSE
INVARIANTS SensorsMatchInput NoNeedlessAbort
PROPERTIES HandledMeansShown BoardSpec
