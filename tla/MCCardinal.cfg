CONSTANTS
  Places = 4
  Sensors = {0, 2}
  sensorBlinder = 1
  Defaults = {1}
  northDegree = 2
  MaxLosses = 1
  MaxWire = 1
SPECIFICATION FairSpec
INVARIANTS TypeOK RightAboutMotor
PROPERTIES ComesToRest VisitorMovesBand
CHECK_DEADLOCK TRUE
