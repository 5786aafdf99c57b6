SPECIFICATION FairSpec
CONSTANTS
  c1 = c1
  c2 = c2
  h1 = h1
  h2 = h2
  Clients = {c1, c2}
  Handles = {h1, h2}
  NoHandle = NoHandle
  NoInput = NoInput
  MaxTick = 0
  MaxEpoch = 1
  InactiveLimit = 0
  CleanupPeriod = 0
  MayFail = {"attach", "query", "detach", "set"}
  Attributes <- Plain
  Noise = {}
  MaxInFlight = 1
  MaxErrors = 1
CHECK_DEADLOCK FALSE
INVARIANTS NoOrphanDevice HidOnlyInSession StopReleasesEverything ServiceInv
PROPERTIES InactiveIsRemoved
