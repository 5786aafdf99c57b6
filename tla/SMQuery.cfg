SPECIFICATION Spec
CONSTANTS
  p1 = p1
  p2 = p2
  s1 = s1
  s2 = s2
  s3 = s3
  h1 = h1
  h2 = h2
  h3 = h3
  h4 = h4
  Notify = Notify
  Nobody = Nobody
  Servers = {}
  Slots = {s1, s2, s3}
  Handles = {h1, h2, h3, h4}
  MaxRegistrations = 3
SYMMETRY Symmetry
CHECK_DEADLOCK FALSE
INVARIANTS NoLostWakeup ServerInv
PROPERTIES ClosesOnlyServed
