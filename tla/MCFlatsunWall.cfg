CONSTANTS
  ROW_COUNT = 1
  COLUMN_COUNT = 2
  HALO_PANELS = 1
  SocketSize = 5
  MaxPictures = 3
  MaxLosses = 1
  Paced = TRUE
SPECIFICATION FairSpec
INVARIANTS OwnImage OnePicture
PROPERTIES ImplementsPromise PanelsKeepPromise CatchesUp
