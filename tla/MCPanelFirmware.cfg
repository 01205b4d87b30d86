CONSTANTS
  Images = {"a", "b", "n", "zero"}
  Addresses = {0, 1}
  Frames <- MCHostFrames
  PacketWords = 2
  Lines = 2
  Blocks = 2
  BootDot = 30
  MaxFaults = 2
  Overrun = FALSE
SPECIFICATION FairSpec
INVARIANTS LedsWhole DotCorrected
PROPERTIES BufferStable ImplementsDisplay LatchedRow Resync AllLinesLit
