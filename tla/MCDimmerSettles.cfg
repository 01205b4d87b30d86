CONSTANTS
  Readings = {0, 1, 100, 253}
  StaticTicks = 1
  RampTicks = 2
  BoostTicks = 3
  UdpValues = {}
  SplitReads = FALSE
  MaxMoves = 1
SPECIFICATION FairSpec
PROPERTIES Settles
