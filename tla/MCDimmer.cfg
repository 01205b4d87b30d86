CONSTANTS
  Readings = {0, 1, 100, 253}
  StaticTicks = 1
  RampTicks = 2
  BoostTicks = 3
  UdpValues = {100, 253}
  SplitReads = FALSE
  MaxMoves = 3
SPECIFICATION FairSpec
INVARIANTS TargetMatchesMode
PROPERTIES BoostsEnd SettlesOrHeld
