SPECIFICATION FairSpec
CONSTANTS
  p1 = p1
  p2 = p2
  s1 = s1
  s2 = s2
  s3 = s3
  h1 = h1
  h2 = h2
  h3 = h3
  h4 = h4
  Notify = Notify
  Nobody = Nobody
  Servers = {p1, p2}
  Slots = {s1, s2}
  Handles = {h1, h2, h3}
  MaxRegistrations = 0
CHECK_DEADLOCK FALSE
INVARIANTS NoHolderLost SessionsAreOwned
PROPERTIES RequestIsReceived ConnectionIsAccepted ClosedIsFreed
