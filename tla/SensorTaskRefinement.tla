------------------------ MODULE SensorTaskRefinement ------------------------
(***************************************************************************)
(* The goroutines of a sensor's task implement the batch pipeline, for     *)
(* every number of batches, batch size and limit on parallel submissions,  *)
(* stopped or not.                                                         *)
(***************************************************************************)
EXTENDS SensorTaskProofs

\* The stages of all batches: what the pipeline's variable stands for.
Stages == [b \in Batches |-> Stage(b)]

\* A batch that has a submitter is full.
LEMMA SubmittersOfFullBatches ==
  ASSUME IInv, NEW b \in Batches, sub[b] # "none"
  PROVE  b < sampledBatchesCnt /\ b \in Int
  <1>1. /\ sampledBatchesCnt \in Nat /\ Len(encryptionChan) \in Nat /\ b \in Int
    BY ConstantsAssumption DEF IInv, TypeOK, Batches
  <1>2. b < sampledBatchesCnt - Len(encryptionChan)
    BY DEF IInv, OneSubmitterPerBatch
  <1>. QED
    BY <1>1, <1>2

\* What moves no submitter and fills no batch is a stutter of the pipeline, but
\* for the server's batches.
LEMMA StagesStay ==
  ASSUME UNCHANGED <<sub, sampledBatchesCnt>>
  PROVE  UNCHANGED Stages
  BY DEF Stages, Stage

\* A submitter that moves takes its batch from stage to stage and no other.
LEMMA SubmitterMoves ==
  ASSUME IInv, NEW b \in Batches, sub[b] # "none", NEW to \in SubmitterPCs,
         sub' = [sub EXCEPT ![b] = to], UNCHANGED sampledBatchesCnt
  PROVE  Stages' = [Stages EXCEPT ![b] =
           IF to \in {"none", "baton", "giveBack", "encrypt", "select"} THEN "sealed"
           ELSE IF to = "post" THEN "posting" ELSE "closed"]
  <1>1. sub \in [Batches -> SubmitterPCs] /\ sampledBatchesCnt \in Nat
    BY DEF IInv, TypeOK
  <1>2. b < sampledBatchesCnt /\ b \in Int
    BY SubmittersOfFullBatches
  <1>3. ~(b >= sampledBatchesCnt)
    BY <1>1, <1>2
  <1>. QED
    BY <1>1, <1>3 DEF Stages, Stage

\* Task.AddSample: the sample that fills the current batch seals it, after all
\* the batches before it.
LEMMA SampleCollected ==
  ASSUME IInv, WorkerSample
  PROVE  Pipeline!Next \/ UNCHANGED Pipeline!vars
  <1>. DEFINE b == sampledBatchesCnt
  <1>1. UNCHANGED <<sub, arrived>>
    BY DEF WorkerSample, submitting
  <1>2. CASE UNCHANGED sampledBatchesCnt
    BY <1>1, <1>2, StagesStay DEF Pipeline!vars, Stages
  <1>3. CASE sampledBatchesCnt' = b + 1
    <2>1. b \in Batches /\ b \in Nat /\ Batches \subseteq Int
      <3>1. samplingChan > 0
        BY DEF WorkerSample
      <3>. QED
        BY <3>1, RoomForSample, ConstantsAssumption DEF IInv, TypeOK, Batches
    <2>2. sub[b] = "none"
      BY <2>1, SubmittersOfFullBatches
    <2>3. /\ Stages[b] = "open"
          /\ \A c \in Batches : c < b => Stages[c] # "open"
      BY <2>1 DEF Stages, Stage
    <2>4. Stages' = [Stages EXCEPT ![b] = "sealed"]
      <3>1. \A c \in Batches : c # b => (c >= b + 1 <=> c >= b)
        BY <2>1
      <3>2. ~(b >= b + 1)
        BY <2>1
      <3>. QED
        BY <1>1, <1>3, <2>1, <2>2, <3>1, <3>2 DEF Stages, Stage
    <2>5. Pipeline!Seal(b)
      BY <1>1, <2>1, <2>3, <2>4 DEF Pipeline!Seal, Pipeline!Move, Stages
    <2>. QED
      BY <2>1, <2>5 DEF Pipeline!Next
  <1>. QED
    BY <1>2, <1>3 DEF WorkerSample, AddSample

\* go func(batchIdx int): a full batch gets its submitter, which the pipeline
\* does not see.
LEMMA SpawningUnseen ==
  ASSUME IInv, WorkerBatch
  PROVE  UNCHANGED Pipeline!vars
  <1>. DEFINE b == Head(encryptionChan)
  <1>1. /\ sub' = [sub EXCEPT ![b] = "baton"]
        /\ UNCHANGED <<sampledBatchesCnt, arrived>>
    BY DEF WorkerBatch
  <1>2. /\ encryptionChan \in Seq(Batches) /\ encryptionChan # <<>>
        /\ sub \in [Batches -> SubmitterPCs] /\ sampledBatchesCnt \in Nat
    BY DEF IInv, TypeOK, WorkerBatch
  <1>3. b \in Batches /\ b = encryptionChan[1] /\ Len(encryptionChan) \in Nat \ {0}
    BY <1>2
  <1>4. b < sampledBatchesCnt /\ b \in Int
    <2>1. b = sampledBatchesCnt - Len(encryptionChan) + 1 - 1
      BY <1>3 DEF IInv, OneSubmitterPerBatch
    <2>2. b \in Int
      BY <1>3, ConstantsAssumption DEF Batches
    <2>. QED
      BY <1>2, <1>3, <2>1, <2>2
  <1>5. sub[b] = "none"
    <2>1. b = sampledBatchesCnt - Len(encryptionChan) + 1 - 1
      BY <1>3 DEF IInv, OneSubmitterPerBatch
    <2>2. ~(b < sampledBatchesCnt - Len(encryptionChan))
      BY <1>2, <1>3, <1>4, <2>1
    <2>. QED
      BY <1>3, <2>2 DEF IInv, OneSubmitterPerBatch
  <1>6. UNCHANGED Stages
    <2>1. ~(b >= sampledBatchesCnt)
      BY <1>2, <1>4
    <2>. QED
      BY <1>1, <1>2, <1>3, <1>5, <2>1 DEF Stages, Stage
  <1>. QED
    BY <1>1, <1>6 DEF Pipeline!vars, Stages

\* A submitter that has a token posts its batch, and there are no more of them
\* than tokens.
LEMMA TokenStartsPost ==
  ASSUME IInv, NEW b \in Batches, TakeToken(b)
  PROVE  Pipeline!StartPost(b)
  <1>1. /\ sub[b] = "select" /\ sub' = [sub EXCEPT ![b] = "post"]
        /\ rateLimiter > 0 /\ UNCHANGED <<sampledBatchesCnt, arrived>>
    BY DEF TakeToken, SubGoto, batching
  <1>2. Stages' = [Stages EXCEPT ![b] = "posting"]
    BY <1>1, SubmitterMoves DEF SubmitterPCs
  <1>3. Stages[b] = "sealed"
    <2>1. b < sampledBatchesCnt /\ b \in Int /\ sampledBatchesCnt \in Nat
      BY <1>1, SubmittersOfFullBatches DEF IInv, TypeOK
    <2>2. ~(b >= sampledBatchesCnt)
      BY <2>1
    <2>. QED
      BY <1>1, <2>2 DEF Stages, Stage
  <1>. DEFINE Posting == {c \in Batches : Stages[c] = "posting"}
              Held == At({"post", "check", "putToken"})
  <1>4. Cardinality(Posting) < MaxParallel
    <2>1. Posting \subseteq Held
      BY DEF Stages, Stage, At, Holders
    <2>2. /\ IsFiniteSet(Held) /\ Cardinality(Held) \in Nat
          /\ Cardinality(Posting) \in Nat /\ Cardinality(Posting) <= Cardinality(Held)
      BY <2>1, HoldersFinite, FS_Subset, FS_CardinalityType DEF At
    <2>3. rateLimiter + Cardinality(Held) <= MaxParallel /\ rateLimiter \in Nat
      BY ConstantsAssumption DEF IInv, TypeOK, SubmissionTokens
    <2>. HIDE DEF Posting, Held
    <2>. QED
      BY <1>1, <2>2, <2>3, ConstantsAssumption
  <1>5. Pipeline!InStage("posting") = Posting
    BY DEF Pipeline!InStage, Stages
  <1>6. Pipeline!Cardinality(Pipeline!InStage("posting")) < MaxParallel
    <2>1. Pipeline!Cardinality(Posting) = Cardinality(Posting)
      BY DEF Pipeline!Cardinality, Cardinality
    <2>. QED
      BY <1>4, <1>5, <2>1
  <1>7. Pipeline!Move(b, "sealed", "posting")
    BY <1>2, <1>3 DEF Pipeline!Move, Stages
  <1>. QED
    BY <1>1, <1>6, <1>7 DEF Pipeline!StartPost

\* SubmitCipher returns: the post has ended, whether or not the server has it.
LEMMA PostEnds ==
  ASSUME IInv, NEW b \in Batches, SubmitCipher(b)
  PROVE  Pipeline!EndPost(b)
  <1>1. /\ sub[b] = "post" /\ sub' = [sub EXCEPT ![b] = "check"]
        /\ arrived' = arrived \union {b} \/ arrived' = arrived
        /\ UNCHANGED sampledBatchesCnt
    BY DEF SubmitCipher, SubGoto, AfterPost, batching
  <1>2. Stages' = [Stages EXCEPT ![b] = "closed"]
    BY <1>1, SubmitterMoves DEF SubmitterPCs
  <1>3. Stages[b] = "posting"
    <2>1. b < sampledBatchesCnt /\ b \in Int /\ sampledBatchesCnt \in Nat
      BY <1>1, SubmittersOfFullBatches DEF IInv, TypeOK
    <2>2. ~(b >= sampledBatchesCnt)
      BY <2>1
    <2>. QED
      BY <1>1, <2>2 DEF Stages, Stage
  <1>. QED
    BY <1>1, <1>2, <1>3 DEF Pipeline!EndPost, Pipeline!Move, Stages

\* A cancel message drops the batch of the submitter that waits for a token.
LEMMA CancelDrops ==
  ASSUME IInv, NEW b \in Batches, TakeCancel(b)
  PROVE  Pipeline!Drop(b)
  <1>1. /\ sub[b] = "select" /\ sub' = [sub EXCEPT ![b] = "putCancel"]
        /\ UNCHANGED <<sampledBatchesCnt, arrived>>
    BY DEF TakeCancel, SubGoto, AfterCancel, batching
  <1>2. Stages' = [Stages EXCEPT ![b] = "closed"]
    BY <1>1, SubmitterMoves DEF SubmitterPCs
  <1>3. Stages[b] = "sealed"
    <2>1. b < sampledBatchesCnt /\ b \in Int /\ sampledBatchesCnt \in Nat
      BY <1>1, SubmittersOfFullBatches DEF IInv, TypeOK
    <2>2. ~(b >= sampledBatchesCnt)
      BY <2>1
    <2>. QED
      BY <1>1, <2>2 DEF Stages, Stage
  <1>. QED
    BY <1>1, <1>2, <1>3 DEF Pipeline!Drop, Pipeline!Move, Stages

\* All other moves of a submitter stay within a stage.
LEMMA SubmitterCollected ==
  ASSUME IInv, NEW b \in Batches, Submitter(b)
  PROVE  Pipeline!Next \/ UNCHANGED Pipeline!vars
  <1>. DEFINE Waiting == {"none", "baton", "giveBack", "encrypt", "select"}
  <1>1. CASE TakeToken(b)
    BY <1>1, TokenStartsPost DEF Pipeline!Next
  <1>2. CASE SubmitCipher(b)
    BY <1>2, PostEnds DEF Pipeline!Next
  <1>3. CASE TakeCancel(b)
    BY <1>3, CancelDrops DEF Pipeline!Next
  <1>4. CASE EncryptPanic(b)
    BY <1>4, StagesStay DEF EncryptPanic, batching, Pipeline!vars, Stages
  <1>5. ASSUME NEW from \in SubmitterPCs \ {"none"}, NEW to \in SubmitterPCs, SubGoto(b, from, to),
               from \in Waiting <=> to \in Waiting, from # "post", to # "post",
               UNCHANGED <<sampledBatchesCnt, arrived>>
        PROVE  UNCHANGED Pipeline!vars
    <2>1. sub[b] = from /\ sub' = [sub EXCEPT ![b] = to]
      BY <1>5 DEF SubGoto
    <2>2. Stages' = [Stages EXCEPT ![b] = IF to \in Waiting THEN "sealed" ELSE "closed"]
      BY <1>5, <2>1, SubmitterMoves
    <2>3. b < sampledBatchesCnt /\ b \in Int /\ sampledBatchesCnt \in Nat
      BY <1>5, <2>1, SubmittersOfFullBatches DEF IInv, TypeOK
    <2>4. ~(b >= sampledBatchesCnt)
      BY <2>3
    <2>5. Stages[b] = IF to \in Waiting THEN "sealed" ELSE "closed"
      BY <1>5, <2>1, <2>4 DEF Stages, Stage
    <2>6. UNCHANGED Stages
      BY <2>2, <2>5 DEF Stages
    <2>. QED
      BY <1>5, <2>6 DEF Pipeline!vars, Stages
  <1>6. CASE TakeBaton(b)
    BY <1>5, <1>6 DEF TakeBaton, AfterBaton, batching, SubmitterPCs
  <1>7. CASE GiveBaton(b)
    BY <1>5, <1>7 DEF GiveBaton, batching, SubmitterPCs
  <1>8. CASE EncryptBatch(b)
    BY <1>5, <1>8 DEF EncryptBatch, batching, SubmitterPCs
  <1>9. CASE CheckCancelled(b)
    BY <1>5, <1>9 DEF CheckCancelled, batching, SubmitterPCs
  <1>10. CASE PutToken(b)
    BY <1>5, <1>10 DEF PutToken, batching, SubmitterPCs
  <1>11. CASE PutCancel(b)
    BY <1>5, <1>11 DEF PutCancel, batching, SubmitterPCs
  <1>. QED
    BY <1>1, <1>2, <1>3, <1>4, <1>6, <1>7, <1>8, <1>9, <1>10, <1>11 DEF Submitter

\* Whatever the other goroutines do the pipeline does not see.
LEMMA OthersUnseen ==
  ASSUME \/ Sampler \/ Fetcher \/ Stop \/ UNCHANGED vars
         \/ Worker /\ ~WorkerSample /\ ~WorkerBatch
  PROVE  UNCHANGED Pipeline!vars
  <1>1. UNCHANGED <<sub, sampledBatchesCnt, arrived>>
    <2>1. CASE Sampler
      BY <2>1 DEF Sampler, SamplerStart, SamplerTick, SamplerSend, SamplerDone, SamplerExit,
                  batching, submitting
    <2>2. CASE Fetcher
      BY <2>2 DEF Fetcher, Fetch, FetchPut, batching, submitting
    <2>3. CASE Stop
      BY <2>3 DEF Stop, batching, submitting
    <2>4. CASE UNCHANGED vars
      BY <2>4 DEF vars, batching, submitting
    <2>5. CASE Worker /\ ~WorkerSample /\ ~WorkerBatch
      BY <2>5 DEF Worker, WorkerStart, WorkerSamplingClosed, WorkerBatchesClosed, WorkerExit,
                  WorkerStopSampler, WorkerCancel, WorkerSignal, WorkerClose, batching, submitting
    <2>. QED
      BY <2>1, <2>2, <2>3, <2>4, <2>5
  <1>. QED
    BY <1>1, StagesStay DEF Pipeline!vars, Stages

\* The sensor's promise about batches (BatchPipeline): completed in order, posted
\* at most once each and at most MaxParallel at a time, whatever sampler, worker,
\* submitters and fetcher do (sensor/task-worker.go).
THEOREM TaskImplementsPipeline == Spec => ImplementsPipeline
  <1>1. Init => Pipeline!Init
    <2>. SUFFICES ASSUME Init PROVE Stages = [b \in Batches |-> "open"] /\ arrived = {}
      BY DEF Pipeline!Init, Stages
    <2>1. \A b \in Batches : b >= 0
      BY ConstantsAssumption DEF Batches
    <2>. QED
      BY <2>1 DEF Init, Stages, Stage
  <1>2. IInv /\ [Next]_vars => [Pipeline!Next]_(Pipeline!vars)
    <2>. SUFFICES ASSUME IInv, [Next]_vars PROVE Pipeline!Next \/ UNCHANGED Pipeline!vars
      OBVIOUS
    <2>1. ASSUME NEW b \in Batches, Submitter(b) PROVE Pipeline!Next \/ UNCHANGED Pipeline!vars
      BY <2>1, SubmitterCollected
    <2>2. CASE WorkerSample
      BY <2>2, SampleCollected
    <2>3. CASE WorkerBatch
      BY <2>3, SpawningUnseen
    <2>. QED
      BY <2>1, <2>2, <2>3, OthersUnseen DEF Next, Terminated
  <1>. QED
    BY <1>1, <1>2, IInvHolds, PTL DEF Spec, ImplementsPipeline, Pipeline!Spec
=============================================================================
