SPECIFICATION Spec
CONSTANTS
  BatchCnt = 2
  BatchSize = 1
  MaxParallel = 2
  Stoppable = FALSE
  FetchReplies = {"ok"}
  SubmitReplies = {"accepted"}
INVARIANT CancelledOnlyWhenStopped
