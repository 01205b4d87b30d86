CONSTANTS
  MAX_SEASONS = 5
  MAX_HISTORY = 3
  Seconds = {1, 2}
  MaxSettings = 2
SPECIFICATION FairSpec
INVARIANTS TimerWhileAuto
PROPERTIES KeepsPlaylist KeepsChanging
