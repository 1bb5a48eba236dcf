\* Three stations, enough for an exchange with a bystander; two gaps between positions.
CONSTANTS
  Station = {s1, s2, s3}
  NoStation = NoStation
  Positions = {0, 1, 3}
  MaxPosition = 4
  MaxConfigs = 5
SPECIFICATION Spec
SYMMETRY Symmetry
INVARIANTS
  TypeOK
  RingSorted
  CurrentOnRing
  ScanCoversActive
  BrowseReturns
PROPERTY
  StationsMove
CHECK_DEADLOCK FALSE
