SPECIFICATION FairSpec
CONSTANTS
  BatchCnt = 3
  BatchSize = 2
  MaxParallel = 2
  Stoppable = FALSE
  FetchReplies = {"ok"}
  SubmitReplies = {"accepted", "refused", "lost"}
INVARIANTS
  TypeOK
  SamplesConserved
  OneSubmitterPerBatch
  ChannelsSafe
  ParamsBaton
  SubmissionTokens
  CancelMessages
PROPERTIES
  ImplementsPipeline
  Completes
