SPECIFICATION FairSpec
CONSTANTS
  Interval = 5
  Threshold = 8
  MaxLag = 6
  MaxBeat = 4
  MaxMiss = 3
INVARIANT TypeOK
PROPERTIES NoNeedlessFence NoBeatOutOfTurn OversleepingFences StopEnds KeepsBeating
CHECK_DEADLOCK FALSE
