\* Three stations: a ring with a first, a middle and a last one.
CONSTANTS
  Station = {s1, s2, s3}
  NoStation = NoStation
  Positions = {0, 2}
  MaxPosition = 3
  MaxConfigs = 4
SPECIFICATION Spec
SYMMETRY Symmetry
INVARIANTS
  TypeOK
  LinksAgree
  NoneLost
PROPERTY
  ImplementsRing
CHECK_DEADLOCK FALSE
