CONSTANTS
  SensorCnt = 2
  BatchCnts = {1, 2}
  BatchSize = 12
  Lossy = TRUE
SPECIFICATION FairSpec
INVARIANTS TypeOK KeysBeforeSensors DecryptorBeforeCiphers IndicesNameBatches
PROPERTIES WorkerReturns CiphersGoOn
CHECK_DEADLOCK FALSE
