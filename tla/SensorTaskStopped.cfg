SPECIFICATION FairSpec
CONSTANTS
  BatchCnt = 2
  BatchSize = 2
  MaxParallel = 2
  Stoppable = TRUE
  FetchReplies = {"ok", "rejected"}
  SubmitReplies = {"accepted", "refused", "lost"}
INVARIANTS
  IInv
PROPERTIES
  ImplementsPipeline
  WorkerStops
  SubmittersReturn
  SamplerStops
CHECK_DEADLOCK FALSE
