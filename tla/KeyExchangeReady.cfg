CONSTANTS
  SensorCnt = 2
  BatchCnts = {2}
  BatchSize = 12
  Lossy = FALSE
SPECIFICATION Spec
INVARIANT ReadyCanBeFetched
CHECK_DEADLOCK FALSE
