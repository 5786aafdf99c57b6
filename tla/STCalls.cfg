SPECIFICATION FairSpec
CONSTANTS
  t1 = t1
  t2 = t2
  t3 = t3
  Callers = {t1, t2, t3}
  Owner = t1
  MaxCalls = 2
CHECK_DEADLOCK FALSE
INVARIANTS LoopOnlyWhileServiceLives ClosedAfterExit AbortsOnlyOnRestart
PROPERTIES CallsReturn
