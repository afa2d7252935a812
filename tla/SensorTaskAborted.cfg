SPECIFICATION Spec
CONSTANTS
  BatchCnt = 1
  BatchSize = 1
  MaxParallel = 2
  Stoppable = FALSE
  FetchReplies = {"ok"}
  SubmitReplies = {"accepted"}
INVARIANT AbortedNotSubmitted
