SPECIFICATION Spec
CONSTANTS
  NumPads = 1
  Duration <- Durations
  MaxAge = 4
  ButtonSets <- TwoSets
CHECK_DEADLOCK FALSE

PROPERTIES SnesButtonsOnly
