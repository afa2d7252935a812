CONSTANTS
  SensorCnt = 2
  BatchCnts = {2}
  BatchSize = 12
  Lossy = FALSE
SPECIFICATION Spec
INVARIANT DecryptorForAllSensors
CHECK_DEADLOCK FALSE
