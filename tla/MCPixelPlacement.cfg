CONSTANTS
  Pictures = 5
SPECIFICATION PlacementSpec
INVARIANTS PlacementTypeOK PictureComplete DimsSmallPanels HaloComplete
