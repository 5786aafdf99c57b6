SPECIFICATION FairSpec
CONSTANTS
  c1 = c1
  c2 = c2
  h1 = h1
  h2 = h2
  Clients = {c1}
  Handles = {h1}
  NoHandle = NoHandle
  NoInput = NoInput
  MaxTick = 1
  MaxEpoch = 2
  InactiveLimit = 1
  CleanupPeriod = 0
  MayFail = {"init", "attach", "reset", "socket", "bind"}
  Attributes <- Plain
  Noise = {"short", "foreign"}
  MaxInFlight = 1
  MaxErrors = 2
CHECK_DEADLOCK FALSE
PROPERTIES LiveClientIsShown StopEndsThread FailingSocketIsReplaced
