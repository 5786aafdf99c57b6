SPECIFICATION FairSpec
CONSTANTS
  NumPads = 1
  Duration <- Durations
  MaxAge = 3
  ButtonSets <- AllSets
CHECK_DEADLOCK FALSE
INVARIANTS OneActionPerPress HotkeyInv
PROPERTIES LongPressWasHeld HeldBecomesLong ReleaseIsSeen
