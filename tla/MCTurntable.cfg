CONSTANTS
  linesPerRevolution = 8
  Byte = 4
  debounceDelay = 0
SPECIFICATION Spec
INVARIANTS HomesAtSensor TracksToAPage
PROPERTIES ReadsZeroAtAPage
