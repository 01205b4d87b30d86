CONSTANTS
  MAX_SEASONS = 3
  MAX_HISTORY = 2
  Seconds = {2, 3}
  MaxSettings = 0
SPECIFICATION Spec
PROPERTIES LastsTheMinimum
