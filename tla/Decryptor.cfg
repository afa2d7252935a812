CONSTANTS
  CipherCnt = 3
  Schemas = {"single", "multi", "dummy"}
  MayFail = TRUE
SPECIFICATION FairSpec
INVARIANTS TypeOK OneFinisher StatsConsistent CrashNeedsOverlap SumExact
PROPERTIES ImplementsCollector
CHECK_DEADLOCK FALSE
