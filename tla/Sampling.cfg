CONSTANTS
  ChanSize = 1
  Stoppable = FALSE
  Readers = {1, 2}
  Bounds = {0, 2}
  None = None
  TaskIds = {i1}
  BatchCnt = 2
  BatchSize = 2
  SamplingChanCap = 1
SPECIFICATION Spec
INVARIANTS TypeOK OneSequence AnswerTrue
PROPERTIES TasksSampled

CHECK_DEADLOCK FALSE
