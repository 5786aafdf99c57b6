SPECIFICATION Spec
CONSTANTS
  t1 = t1
  t2 = t2
  Threads = {t1, t2}
  InvalidHandle = InvalidHandle
  MaxCalls = 1
CHECK_DEADLOCK FALSE
INVARIANTS WriterIsAlone
