SPECIFICATION Spec
CONSTANTS
  Interval = 5
  Threshold = 8
  MaxLag = 3
  MaxBeat = 12
  MaxMiss = 3
CHECK_DEADLOCK FALSE
PROPERTY NoMissGoesUnnoticed
