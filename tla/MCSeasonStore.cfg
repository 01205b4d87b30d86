CONSTANTS
  Seasons <- MCSeasons
  Values <- MCValues
  Home = 0
  Default <- MCDefault
SPECIFICATION Spec
INVARIANTS ArrivedScene
PROPERTIES KeepsTheBook
