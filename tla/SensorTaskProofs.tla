-------------------------- MODULE SensorTaskProofs --------------------------
(***************************************************************************)
(* The safety invariants of SensorTask hold for every number of batches,   *)
(* batch size and limit on parallel submissions, and whether or not the    *)
(* task may be stopped; a task that is done has handed on all its batches, *)
(* and no submitter waits for a message nobody will put back.              *)
(***************************************************************************)
EXTENDS SensorTask, FiniteSetTheorems, SequenceTheorems, TLAPS

-----------------------------------------------------------------------------
(* Counting the submitters at some places. *)

\* There are finitely many batches.
LEMMA BatchesFinite == IsFiniteSet(Batches)
  <1>1. BatchCnt - 1 \in Int
    BY ConstantsAssumption
  <1>. QED
    BY <1>1, FS_Interval DEF Batches

\* So submitters at some places can be counted.
LEMMA HoldersFinite ==
  ASSUME NEW f, NEW S
  PROVE  /\ IsFiniteSet(Holders(f, S))
         /\ Cardinality(Holders(f, S)) \in Nat
  BY BatchesFinite, FS_Subset, FS_CardinalityType DEF Holders

\* A submitter that comes to one of the places is counted once more.
LEMMA HoldersEnter ==
  ASSUME NEW f \in [Batches -> SubmitterPCs], NEW b \in Batches, NEW S,
         NEW to \in S, f[b] \notin S
  PROVE  Cardinality(Holders([f EXCEPT ![b] = to], S)) = Cardinality(Holders(f, S)) + 1
  <1>1. Holders([f EXCEPT ![b] = to], S) = Holders(f, S) \union {b}
    BY DEF Holders
  <1>2. b \notin Holders(f, S)
    BY DEF Holders
  <1>. QED
    BY <1>1, <1>2, HoldersFinite, FS_AddElement

\* A submitter that leaves them is counted once less.
LEMMA HoldersLeave ==
  ASSUME NEW f \in [Batches -> SubmitterPCs], NEW b \in Batches, NEW S,
         NEW to, to \notin S, f[b] \in S
  PROVE  Cardinality(Holders([f EXCEPT ![b] = to], S)) = Cardinality(Holders(f, S)) - 1
  <1>1. Holders([f EXCEPT ![b] = to], S) = Holders(f, S) \ {b}
    BY DEF Holders
  <1>2. b \in Holders(f, S)
    BY DEF Holders
  <1>. QED
    BY <1>1, <1>2, HoldersFinite, FS_RemoveElement

\* Any other move does not change the count.
LEMMA HoldersStay ==
  ASSUME NEW f \in [Batches -> SubmitterPCs], NEW b \in Batches, NEW S,
         NEW to, to \in S <=> f[b] \in S
  PROVE  Holders([f EXCEPT ![b] = to], S) = Holders(f, S)
  BY DEF Holders

-----------------------------------------------------------------------------
(* The inductive invariant. *)

\* Where the sampler is against its Runnable, samplingChan and what it has
\* still to send: it sends only while something is left, and closes the
\* channel as it returns.
SamplerInStep ==
  /\ pc["sampler"] \in {"absent", "spawned", "loop", "send", "done", "returned"}
  /\ pc["sampler"] \in {"absent", "spawned", "send"} => toSample > 0
  /\ (pc["sampler"] = "loop" /\ run["sampler"].state = "running") => toSample > 0
  /\ pc["sampler"] \notin {"absent", "spawned"} => run["sampler"].state # "created"
  /\ closes["sampling"] = IF pc["sampler"] = "returned" THEN 1 ELSE 0

\* Where the worker is against encryptionChan and cancelSubmission: until it
\* cancels, the channel is closed exactly when the last batch is full.
WorkerInStep ==
  /\ pc["worker"] \in {"spawned", "loop", "stopSampler", "cancel", "signal", "close", "returned"}
  /\ closes["encryption"] <= 1
  /\ pc["worker"] \in {"spawned", "loop", "stopSampler", "cancel"} =>
       /\ closes["encryption"] = 0 <=> sampledBatchesCnt < BatchCnt
       /\ ~submissionCancelled
       /\ signals = 0
  /\ pc["worker"] = "signal" => submissionCancelled /\ signals < MaxParallel
  /\ pc["worker"] = "spawned" => pc["sampler"] = "absent" /\ pc["fetcher"] = "absent"

\* Where the fetcher is against the encryptor it builds.
FetcherInStep ==
  /\ pc["fetcher"] \in {"absent", "spawned", "put", "returned"}
  /\ encryptor = "unset" <=> pc["fetcher"] \in {"absent", "spawned"}

\* What the goroutines of a task keep true at every step: the checked
\* invariants and the places that explain them (sensor/task-worker.go).
IInv ==
  /\ TypeOK
  /\ SamplerInStep
  /\ WorkerInStep
  /\ FetcherInStep
  /\ SamplesConserved
  /\ OneSubmitterPerBatch
  /\ ParamsBaton
  /\ SubmissionTokens
  /\ CancelMessages

\* The invariant holds before the worker has started.
LEMMA InitIInv == Init => IInv
  <1>. SUFFICES ASSUME Init PROVE IInv
    OBVIOUS
  <1>. USE ConstantsAssumption DEF Init
  <1>1. /\ BatchCnt * BatchSize \in Nat
        /\ BatchCnt * BatchSize > 0
        /\ 0 * BatchSize = 0
    OBVIOUS
  <1>2. ASSUME NEW S \in SUBSET SubmitterPCs, "none" \notin S
        PROVE  At(S) = {} /\ Cardinality(At(S)) = 0
    <2>1. \A b \in Batches : sub[b] = "none"
      OBVIOUS
    <2>2. At(S) = {}
      BY <1>2, <2>1 DEF At, Holders
    <2>. QED
      BY <2>2, FS_EmptySet
  <1>3. TypeOK
    <2>1. /\ NewRunnable \in RunnableType
          /\ {"worker", "sampler", "fetcher"} = Goroutines
          /\ BatchCnt \in 0..BatchCnt /\ 0 \in 0..BatchCnt
          /\ 0 \in 0..BatchSize /\ 0 \in 0..SamplingChanCap
      BY DEF RunnableType, RunnableState, NewRunnable, Goroutines, SamplingChanCap
    <2>2. encryptionChan \in Seq(Batches) /\ Len(encryptionChan) <= EncryptionChanCap
      BY DEF EncryptionChanCap
    <2>3. pc \in [Goroutines -> PCs]
      BY DEF Goroutines, PCs
    <2>4. /\ run \in [{"worker", "sampler"} -> RunnableType]
          /\ closes \in [{"sampling", "encryption"} -> Nat]
          /\ received \in [Batches -> 0..BatchSize]
          /\ sub \in [Batches -> SubmitterPCs]
          /\ cipher \in [Batches -> BOOLEAN]
      BY <2>1 DEF SubmitterPCs
    <2>5. /\ toSample \in 0..(BatchCnt * BatchSize)
          /\ rateLimiter \in 0..MaxParallel
          /\ cancelSubmission \in 0..MaxParallel
          /\ signals \in 0..MaxParallel
      BY <1>1 DEF InitialTokens
    <2>6. samplingChan \in 0..SamplingChanCap /\ sampledBatchesCnt \in 0..BatchCnt
      BY <2>1
    <2>7. paramsFetched \in 0..1
      OBVIOUS
    <2>8. /\ encryptor \in {"unset", "set", "nil"}
          /\ watched \subseteq {"sampling", "encryption"}
          /\ arrived \subseteq Batches
          /\ submissionCancelled \in BOOLEAN /\ crashed \in BOOLEAN
      OBVIOUS
    <2>. QED
      BY ONLY <2>2, <2>3, <2>4, <2>5, <2>6, <2>7, <2>8 DEF TypeOK
  <1>4. SamplerInStep /\ WorkerInStep /\ FetcherInStep
    BY <1>1 DEF SamplerInStep, WorkerInStep, FetcherInStep, NewRunnable, Goroutines
  <1>5. SamplesConserved
    BY <1>1 DEF SamplesConserved, Batches
  <1>6. OneSubmitterPerBatch
    BY DEF OneSubmitterPerBatch, Batches
  <1>7. ParamsBaton
    BY <1>2 DEF ParamsBaton, SubmitterPCs, Goroutines
  <1>8. SubmissionTokens
    BY <1>2 DEF SubmissionTokens, SubmitterPCs, InitialTokens
  <1>9. CancelMessages
    BY <1>2 DEF CancelMessages, SubmitterPCs
  <1>. QED
    BY <1>3, <1>4, <1>5, <1>6, <1>7, <1>8, <1>9 DEF IInv

\* The parts of the invariant about batches, baton and tokens do not mind a
\* step that leaves their variables alone.
LEMMA Frame ==
  /\ SamplesConserved /\ UNCHANGED <<received, sampledBatchesCnt, toSample, samplingChan>>
       => SamplesConserved'
  /\ OneSubmitterPerBatch /\ UNCHANGED <<sampledBatchesCnt, encryptionChan, sub>>
       => OneSubmitterPerBatch'
  /\ ParamsBaton /\ UNCHANGED <<paramsFetched, encryptor, sub, pc["fetcher"]>>
       => ParamsBaton'
  /\ SubmissionTokens /\ UNCHANGED <<rateLimiter, submissionCancelled, sub>>
       => SubmissionTokens'
  /\ CancelMessages /\ UNCHANGED <<cancelSubmission, signals, submissionCancelled, sub>>
       => CancelMessages'
  <1>1. SamplesConserved /\ UNCHANGED <<received, sampledBatchesCnt, toSample, samplingChan>>
          => SamplesConserved'
    BY DEF SamplesConserved
  <1>2. OneSubmitterPerBatch /\ UNCHANGED <<sampledBatchesCnt, encryptionChan, sub>>
          => OneSubmitterPerBatch'
    BY DEF OneSubmitterPerBatch
  <1>3. ParamsBaton /\ UNCHANGED <<paramsFetched, encryptor, sub, pc["fetcher"]>>
          => ParamsBaton'
    BY DEF ParamsBaton, At
  <1>4. SubmissionTokens /\ UNCHANGED <<rateLimiter, submissionCancelled, sub>>
          => SubmissionTokens'
    BY DEF SubmissionTokens, At
  <1>5. CancelMessages /\ UNCHANGED <<cancelSubmission, signals, submissionCancelled, sub>>
          => CancelMessages'
    BY DEF CancelMessages, At
  <1>. QED
    BY <1>1, <1>2, <1>3, <1>4, <1>5

\* The sampler: it has room, something left, and an open channel when it sends.
LEMMA SamplerPreserves == IInv /\ Sampler => IInv'
  <1>. SUFFICES ASSUME IInv, Sampler PROVE IInv'
    OBVIOUS
  <1>. USE ConstantsAssumption
  <1>t. TypeOK /\ SamplerInStep /\ WorkerInStep
    BY DEF IInv
  <1>r. /\ run["sampler"] \in RunnableType
        /\ BatchCnt * BatchSize \in Nat
    BY <1>t DEF TypeOK
  <1>1. CASE SamplerStart
    <2>. USE <1>1 DEF SamplerStart, Goto, sampling, batching, params, limits, submitting
    <2>1. TypeOK'
      BY <1>t, <1>r, RunnableTyped DEF TypeOK, PCs, Goroutines
    <2>2. SamplerInStep' /\ WorkerInStep' /\ FetcherInStep'
      BY <1>t, <1>r DEF IInv, TypeOK, Goroutines, SamplerInStep, WorkerInStep, FetcherInStep,
                   StartOf, RunnableType
    <2>. QED
      BY <2>1, <2>2, Frame, <1>t DEF IInv, TypeOK, Goroutines
  <1>2. CASE SamplerTick
    <2>. USE <1>2 DEF SamplerTick, Goto, sampling, batching, params, limits, submitting
    <2>1. TypeOK'
      BY <1>t DEF TypeOK, PCs, Goroutines
    <2>2. SamplerInStep' /\ WorkerInStep' /\ FetcherInStep'
      BY <1>t DEF IInv, TypeOK, Goroutines, SamplerInStep, WorkerInStep, FetcherInStep
    <2>. QED
      BY <2>1, <2>2, Frame, <1>t DEF IInv, TypeOK, Goroutines
  <1>3. CASE SamplerSend
    <2>. USE <1>3 DEF SamplerSend, Goto, batching, params, limits, submitting
    <2>1. TypeOK'
      BY <1>t, <1>r DEF TypeOK, PCs, Goroutines, SamplerInStep, HasRoom, SamplingChanCap
    <2>2. SamplerInStep' /\ WorkerInStep' /\ FetcherInStep'
      BY <1>t, <1>r DEF IInv, TypeOK, Goroutines, SamplerInStep, WorkerInStep, FetcherInStep
    <2>3. SamplesConserved'
      <3>1. toSample' + samplingChan' = toSample + samplingChan
        BY <1>t, <1>r DEF TypeOK, SamplingChanCap
      <3>2. /\ UNCHANGED <<received, sampledBatchesCnt>>
            /\ toSample \in Int /\ samplingChan \in Int
            /\ toSample' \in Int /\ samplingChan' \in Int
            /\ sampledBatchesCnt * BatchSize \in Int
            /\ (IF sampledBatchesCnt < BatchCnt THEN received[sampledBatchesCnt] ELSE 0) \in Int
        BY <1>t, <2>1 DEF TypeOK, SamplingChanCap, Batches
      <3>. QED
        BY <3>1, <3>2 DEF IInv, SamplesConserved
    <2>. QED
      BY <2>1, <2>2, <2>3, Frame, <1>t DEF IInv, TypeOK, Goroutines
  <1>4. CASE SamplerDone
    <2>. USE <1>4 DEF SamplerDone, Goto, sampling, batching, params, limits, submitting
    <2>1. TypeOK'
      BY <1>t, <1>r, RunnableTyped DEF TypeOK, PCs, Goroutines
    <2>2. SamplerInStep' /\ WorkerInStep' /\ FetcherInStep'
      BY <1>t, <1>r, RunnableStates DEF IInv, TypeOK, Goroutines, SamplerInStep, WorkerInStep,
                   FetcherInStep, DoneOf, Signal
    <2>. QED
      BY <2>1, <2>2, Frame, <1>t DEF IInv, TypeOK, Goroutines
  <1>5. CASE SamplerExit
    <2>. USE <1>5 DEF SamplerExit, Goto, sampling, batching, params, limits, submitting
    <2>1. TypeOK'
      <3>1. CloseOf(Received(run["sampler"])) \in RunnableType
        BY <1>r, RunnableTyped
      <3>. QED
        BY <1>t, <3>1 DEF TypeOK, PCs, Goroutines
    <2>2. SamplerInStep' /\ WorkerInStep' /\ FetcherInStep'
      <3>1. CloseOf(Received(run["sampler"])).state = run["sampler"].state
        BY <1>r, RunnableTyped, RunnableStates
      <3>. QED
        BY <1>t, <3>1 DEF IInv, TypeOK, Goroutines, SamplerInStep, WorkerInStep, FetcherInStep
    <2>. QED
      BY <2>1, <2>2, Frame, <1>t DEF IInv, TypeOK, Goroutines
  <1>. QED
    BY <1>1, <1>2, <1>3, <1>4, <1>5 DEF Sampler

\* The fetcher puts the baton down once.
LEMMA FetcherPreserves == IInv /\ Fetcher => IInv'
  <1>. SUFFICES ASSUME IInv, Fetcher PROVE IInv'
    OBVIOUS
  <1>t. TypeOK /\ FetcherInStep /\ ParamsBaton
    BY DEF IInv
  <1>1. CASE Fetch
    <2>. USE <1>1 DEF Fetch, Goto, sampling, batching, params, limits, submitting
    <2>0. encryptor' \in {"set", "nil"}
      OBVIOUS
    <2>1. TypeOK'
      BY <1>t, <2>0 DEF TypeOK, PCs, Goroutines
    <2>2. SamplerInStep' /\ WorkerInStep' /\ FetcherInStep'
      BY <1>t, <2>0 DEF IInv, TypeOK, Goroutines, SamplerInStep, WorkerInStep, FetcherInStep
    <2>3. ParamsBaton'
      BY <1>t, <2>0 DEF ParamsBaton, At, TypeOK, Goroutines
    <2>. QED
      BY <2>1, <2>2, <2>3, Frame, <1>t DEF IInv
  <1>2. CASE FetchPut
    <2>. USE <1>2 DEF FetchPut, Goto, sampling, batching, params, limits, submitting
    <2>0. paramsFetched = 0 /\ Cardinality(At({"giveBack"})) = 0
      BY <1>t, HoldersFinite DEF ParamsBaton, TypeOK, At
    <2>1. TypeOK'
      BY <1>t, <2>0 DEF TypeOK, PCs, Goroutines
    <2>2. SamplerInStep' /\ WorkerInStep' /\ FetcherInStep'
      BY <1>t DEF IInv, TypeOK, Goroutines, SamplerInStep, WorkerInStep, FetcherInStep
    <2>3. ParamsBaton'
      <3>1. paramsFetched' + Cardinality(At({"giveBack"})') = 1
        BY <2>0 DEF At
      <3>2. pc'["fetcher"] = "returned"
        BY <1>t DEF TypeOK, Goroutines
      <3>3. encryptor' # "unset"
        BY <1>t DEF FetcherInStep
      <3>. QED
        BY <3>1, <3>2, <3>3 DEF ParamsBaton
    <2>. QED
      BY <2>1, <2>2, <2>3, Frame, <1>t DEF IInv
  <1>. QED
    BY <1>1, <1>2 DEF Fetcher

\* A worker that can take a sample has an open batch to put it into, an open
\* encryptionChan and room in it.
LEMMA RoomForSample ==
  ASSUME IInv, samplingChan > 0
  PROVE  /\ sampledBatchesCnt \in Batches
         /\ received[sampledBatchesCnt] < BatchSize
         /\ Len(encryptionChan) <= sampledBatchesCnt
         /\ pc["worker"] \in {"spawned", "loop"} => closes["encryption"] = 0
  <1>. USE ConstantsAssumption DEF IInv
  <1>1. sampledBatchesCnt < BatchCnt
    <2>. SUFFICES ASSUME sampledBatchesCnt = BatchCnt PROVE FALSE
      BY DEF TypeOK
    <2>1. BatchCnt * BatchSize \in Int /\ toSample \in Nat /\ samplingChan \in Nat
      BY DEF TypeOK, SamplingChanCap
    <2>2. toSample + samplingChan + BatchCnt * BatchSize = BatchCnt * BatchSize
      BY <2>1 DEF SamplesConserved
    <2>. QED
      BY <2>1, <2>2
  <1>2. sampledBatchesCnt \in Batches
    BY <1>1 DEF TypeOK, Batches
  <1>3. received[sampledBatchesCnt] < BatchSize
    BY <1>2 DEF SamplesConserved
  <1>4. Len(encryptionChan) <= sampledBatchesCnt
    <2>1. CASE Len(encryptionChan) = 0
      BY <2>1 DEF TypeOK
    <2>2. CASE Len(encryptionChan) # 0
      <3>1. 1 \in 1..Len(encryptionChan) /\ encryptionChan[1] \in Batches
        BY <2>2 DEF TypeOK
      <3>2. encryptionChan[1] = sampledBatchesCnt - Len(encryptionChan) + 1 - 1
        BY <3>1 DEF OneSubmitterPerBatch
      <3>. QED
        BY <3>1, <3>2 DEF TypeOK, Batches
    <2>. QED
      BY <2>1, <2>2
  <1>5. pc["worker"] \in {"spawned", "loop"} => closes["encryption"] = 0
    BY <1>1 DEF WorkerInStep
  <1>. QED
    BY <1>2, <1>3, <1>4, <1>5

\* A sample goes into the open batch; the last one of a batch hands it on.
LEMMA WorkerSamplePreserves == IInv /\ WorkerSample => IInv'
  <1>. SUFFICES ASSUME IInv, WorkerSample PROVE IInv'
    OBVIOUS
  <1>. USE ConstantsAssumption
  <1>. DEFINE current == sampledBatchesCnt
  <1>t. TypeOK /\ SamplesConserved /\ OneSubmitterPerBatch /\ WorkerInStep /\ SamplerInStep
    BY DEF IInv
  <1>r. /\ current \in Batches /\ current \in 0..(BatchCnt - 1)
        /\ received[current] \in 0..BatchSize /\ received[current] < BatchSize
        /\ Len(encryptionChan) <= current
        /\ closes["encryption"] = 0
    BY RoomForSample, <1>t DEF WorkerSample, TypeOK, Batches
  <1>v. /\ samplingChan' = samplingChan - 1
        /\ received' = [received EXCEPT ![current] = received[current] + 1]
        /\ UNCHANGED <<pc, run, toSample, watched, encryptor, paramsFetched, rateLimiter,
                       cancelSubmission, signals, submissionCancelled, sub, cipher,
                       arrived, crashed>>
    BY DEF WorkerSample, AddSample, params, limits, submitting
  <1>1. CASE Fills(received[current])
    <2>1. /\ sampledBatchesCnt' = current + 1
          /\ encryptionChan' = Append(encryptionChan, current)
          /\ closes' = IF current + 1 = BatchCnt THEN [closes EXCEPT !["encryption"] = 1]
                                                 ELSE closes
          /\ received[current] + 1 = BatchSize
      BY <1>1, <1>r DEF WorkerSample, AddSample, HandOn, CloseOnce, Fills
    <2>2. TypeOK'
      <3>1. encryptionChan' \in Seq(Batches) /\ Len(encryptionChan') <= EncryptionChanCap
        BY <1>t, <1>r, <2>1 DEF TypeOK, EncryptionChanCap
      <3>2. closes' \in [{"sampling", "encryption"} -> Nat]
        BY <1>t, <2>1 DEF TypeOK
      <3>3. received' \in [Batches -> 0..BatchSize]
        BY <1>t, <1>r, <1>v DEF TypeOK
      <3>4. samplingChan' \in 0..SamplingChanCap /\ sampledBatchesCnt' \in 0..BatchCnt
        BY <1>t, <1>r, <1>v, <2>1 DEF TypeOK, WorkerSample, SamplingChanCap
      <3>. QED
        BY <1>t, <1>v, <3>1, <3>2, <3>3, <3>4 DEF TypeOK
    <2>3. SamplerInStep' /\ WorkerInStep' /\ FetcherInStep'
      BY <1>t, <1>r, <1>v, <2>1 DEF IInv, TypeOK, SamplerInStep, WorkerInStep, FetcherInStep,
                                    WorkerSample
    <2>4. SamplesConserved'
      <3>1. \A b \in Batches : received'[b] = IF b = current THEN BatchSize ELSE received[b]
        BY <1>t, <1>r, <1>v, <2>1 DEF TypeOK
      <3>2. \A b \in Batches : b \in Int /\ BatchSize > 0
        BY DEF Batches
      <3>3. \A b \in Batches :
              /\ b < current + 1 => received'[b] = BatchSize
              /\ b >= current + 1 => received'[b] = 0
        BY <1>t, <1>r, <3>1, <3>2 DEF SamplesConserved
      <3>4. (current + 1) * BatchSize = current * BatchSize + received[current] + 1
        <4>1. \A m, n \in Int : (m + 1) * n = m * n + n
          OBVIOUS
        <4>2. (current + 1) * BatchSize = current * BatchSize + BatchSize
          BY <1>r, <4>1
        <4>. QED
          BY <4>2, <2>1, <1>r
      <3>5. /\ toSample \in Int /\ samplingChan \in Int /\ current * BatchSize \in Int
            /\ BatchCnt * BatchSize \in Int
            /\ toSample + samplingChan + current * BatchSize + received[current]
                 = BatchCnt * BatchSize
        BY <1>t, <1>r DEF TypeOK, SamplesConserved, SamplingChanCap
      <3>6. (IF current + 1 < BatchCnt THEN received'[current + 1] ELSE 0) = 0
        BY <1>r, <3>3 DEF Batches
      <3>7. toSample + (samplingChan - 1) + (current + 1) * BatchSize + 0
              = BatchCnt * BatchSize
        BY <1>r, <3>4, <3>5
      <3>8. \A b \in Batches :
              /\ b < sampledBatchesCnt' => received'[b] = BatchSize
              /\ b > sampledBatchesCnt' => received'[b] = 0
              /\ b = sampledBatchesCnt' => received'[b] < BatchSize
        BY <1>r, <2>1, <3>2, <3>3
      <3>. QED
        BY <1>v, <2>1, <3>6, <3>7, <3>8 DEF SamplesConserved
    <2>5. OneSubmitterPerBatch'
      <3>1. /\ Len(encryptionChan') = Len(encryptionChan) + 1
            /\ Len(encryptionChan) \in Nat
            /\ \A i \in 1..Len(encryptionChan) : encryptionChan'[i] = encryptionChan[i]
            /\ encryptionChan'[Len(encryptionChan) + 1] = current
        BY <1>t, <1>r, <2>1 DEF TypeOK
      <3>2. current + 1 - (Len(encryptionChan) + 1) = current - Len(encryptionChan)
        BY <1>r, <3>1
      <3>. QED
        BY <1>t, <1>r, <1>v, <2>1, <3>1, <3>2 DEF OneSubmitterPerBatch
    <2>. QED
      BY <2>2, <2>3, <2>4, <2>5, <1>v, Frame DEF IInv
  <1>2. CASE ~Fills(received[current])
    <2>1. /\ UNCHANGED <<sampledBatchesCnt, encryptionChan, closes>>
          /\ received[current] + 1 < BatchSize
      BY <1>2, <1>r DEF WorkerSample, AddSample, Fills
    <2>2. TypeOK'
      <3>1. received' \in [Batches -> 0..BatchSize]
        BY <1>t, <1>r, <1>v DEF TypeOK
      <3>2. samplingChan' \in 0..SamplingChanCap
        BY <1>t, <1>v DEF TypeOK, WorkerSample, SamplingChanCap
      <3>. QED
        BY <1>t, <1>v, <2>1, <3>1, <3>2 DEF TypeOK
    <2>3. SamplerInStep' /\ WorkerInStep' /\ FetcherInStep'
      BY <1>v, <2>1 DEF IInv, SamplerInStep, WorkerInStep, FetcherInStep
    <2>4. SamplesConserved'
      <3>1. \A b \in Batches :
              received'[b] = IF b = current THEN received[current] + 1 ELSE received[b]
        BY <1>t, <1>r, <1>v DEF TypeOK
      <3>2. /\ toSample \in Int /\ samplingChan \in Int /\ current * BatchSize \in Int
            /\ BatchCnt * BatchSize \in Int
            /\ toSample + samplingChan + current * BatchSize + received[current]
                 = BatchCnt * BatchSize
            /\ current < BatchCnt
        BY <1>t, <1>r DEF TypeOK, SamplesConserved, SamplingChanCap
      <3>3. toSample + (samplingChan - 1) + current * BatchSize + (received[current] + 1)
              = BatchCnt * BatchSize
        BY <1>r, <3>2
      <3>4. \A b \in Batches :
              /\ b < current => received'[b] = BatchSize
              /\ b > current => received'[b] = 0
              /\ b = current => received'[b] < BatchSize
        BY <1>t, <1>r, <2>1, <3>1 DEF SamplesConserved, Batches
      <3>. QED
        BY <1>r, <1>v, <2>1, <3>1, <3>2, <3>3, <3>4 DEF SamplesConserved
    <2>. QED
      BY <2>1, <2>2, <2>3, <2>4, <1>v, Frame DEF IInv
  <1>. QED
    BY <1>1, <1>2

\* The steps of the worker, one by one.
LEMMA WorkerPreserves == IInv /\ Worker => IInv'
  <1>. SUFFICES ASSUME IInv, Worker PROVE IInv'
    OBVIOUS
  <1>. USE ConstantsAssumption
  <1>t. TypeOK /\ SamplerInStep /\ WorkerInStep /\ FetcherInStep
    BY DEF IInv
  <1>r. run["worker"] \in RunnableType /\ run["sampler"] \in RunnableType
    BY <1>t DEF TypeOK
  <1>1. CASE WorkerStart
    <2>. USE <1>1 DEF WorkerStart, sampling, batching, params, limits, submitting
    <2>1. TypeOK'
      BY <1>t, <1>r, RunnableTyped DEF TypeOK, PCs, Goroutines
    <2>2. SamplerInStep' /\ WorkerInStep' /\ FetcherInStep'
      BY <1>t DEF TypeOK, SamplerInStep, WorkerInStep, FetcherInStep
    <2>3. ParamsBaton'
      BY <1>t DEF IInv, ParamsBaton, At, WorkerInStep
    <2>. QED
      BY <2>1, <2>2, <2>3, Frame DEF IInv
  <1>2. CASE WorkerSample
    BY <1>2, WorkerSamplePreserves
  <1>3. CASE WorkerSamplingClosed
    <2>. USE <1>3 DEF WorkerSamplingClosed, sampling, params, limits, submitting
    <2>1. TypeOK'
      BY <1>t DEF TypeOK
    <2>2. SamplerInStep' /\ WorkerInStep' /\ FetcherInStep'
      BY <1>t DEF SamplerInStep, WorkerInStep, FetcherInStep
    <2>. QED
      BY <2>1, <2>2, Frame DEF IInv
  <1>4. CASE WorkerBatch
    <2>. USE <1>4 DEF WorkerBatch, sampling, params, limits
    <2>. DEFINE b == Head(encryptionChan)
                spawned == sampledBatchesCnt - Len(encryptionChan)
    <2>0. /\ Len(encryptionChan) \in Nat /\ Len(encryptionChan) > 0
          /\ b = encryptionChan[1] /\ b \in Batches
          /\ b = spawned
          /\ encryptionChan' \in Seq(Batches)
          /\ Len(encryptionChan') = Len(encryptionChan) - 1
          /\ \A i \in 1..Len(encryptionChan') : encryptionChan'[i] = encryptionChan[i + 1]
          /\ sub' = [sub EXCEPT ![b] = "baton"]
          /\ sub[b] = "none"
      <3>1. /\ Len(encryptionChan) \in Nat /\ Len(encryptionChan) > 0
            /\ b = encryptionChan[1] /\ b \in Batches
            /\ encryptionChan' \in Seq(Batches)
            /\ Len(encryptionChan') = Len(encryptionChan) - 1
            /\ \A i \in 1..Len(encryptionChan') : encryptionChan'[i] = encryptionChan[i + 1]
        <4>1. /\ encryptionChan \in Seq(Batches) /\ encryptionChan # <<>>
              /\ encryptionChan' = Tail(encryptionChan)
          BY <1>t DEF TypeOK
        <4>2. Len(encryptionChan) \in Nat /\ Len(encryptionChan) > 0
          BY ONLY <4>1, EmptySeq
        <4>3. b = encryptionChan[1]
          BY ONLY <4>1
        <4>. QED
          BY ONLY <4>1, <4>2, <4>3, HeadTailProperties
      <3>2. b = spawned
        BY <1>t, <3>1 DEF IInv, OneSubmitterPerBatch, TypeOK
      <3>3. b \in Int
        BY <3>1 DEF Batches
      <3>4. sub[b] = "none"
        BY <3>1, <3>2, <3>3 DEF IInv, OneSubmitterPerBatch
      <3>5. sub' = [sub EXCEPT ![b] = "baton"]
        OBVIOUS
      <3>. QED
        BY ONLY <3>1, <3>2, <3>4, <3>5
    <2>1. TypeOK'
      <3>1. sub' \in [Batches -> SubmitterPCs]
        BY <1>t, <2>0 DEF TypeOK, SubmitterPCs
      <3>2. encryptionChan' \in Seq(Batches) /\ Len(encryptionChan') <= EncryptionChanCap
        BY <1>t, <2>0, ConstantsAssumption DEF TypeOK, EncryptionChanCap
      <3>. QED
        BY <1>t, <3>1, <3>2 DEF TypeOK
    <2>2. SamplerInStep' /\ WorkerInStep' /\ FetcherInStep'
      BY <1>t DEF SamplerInStep, WorkerInStep, FetcherInStep
    <2>3. OneSubmitterPerBatch'
      <3>1. sampledBatchesCnt' - Len(encryptionChan') = spawned + 1
        BY <1>t, <2>0 DEF TypeOK
      <3>2. \A c \in Batches : sub'[c] # "none" <=> c < spawned + 1
        <4>1. \A c \in Batches : sub[c] # "none" <=> c < spawned
          BY DEF IInv, OneSubmitterPerBatch
        <4>2. sub' = [sub EXCEPT ![spawned] = "baton"] /\ spawned \in Batches
          BY <2>0
        <4>3. sub \in [Batches -> SubmitterPCs]
          BY <1>t DEF TypeOK
        <4>. QED
          BY ONLY <4>1, <4>2, <4>3, ConstantsAssumption DEF Batches
      <3>3. \A i \in 1..Len(encryptionChan') : encryptionChan'[i] = spawned + 1 + i - 1
        BY <1>t, <2>0 DEF TypeOK, IInv, OneSubmitterPerBatch
      <3>. QED
        BY <3>1, <3>2, <3>3 DEF OneSubmitterPerBatch
    <2>4. ASSUME NEW S, "none" \notin S, "baton" \notin S
          PROVE  At(S)' = At(S)
      BY <1>t, <2>0, <2>4 DEF At, Holders, TypeOK
    <2>5. ParamsBaton' /\ SubmissionTokens' /\ CancelMessages'
      BY <2>4 DEF IInv, ParamsBaton, SubmissionTokens, CancelMessages
    <2>. QED
      BY <2>1, <2>2, <2>3, <2>5, Frame DEF IInv
  <1>5. CASE WorkerBatchesClosed
    <2>. USE <1>5 DEF WorkerBatchesClosed, sampling, params, limits, submitting
    <2>1. TypeOK'
      BY <1>t, <1>r, RunnableTyped DEF TypeOK
    <2>2. SamplerInStep' /\ WorkerInStep' /\ FetcherInStep'
      BY <1>t DEF TypeOK, SamplerInStep, WorkerInStep, FetcherInStep
    <2>. QED
      BY <2>1, <2>2, Frame DEF IInv
  <1>6. CASE WorkerExit
    <2>. USE <1>6 DEF WorkerExit, Goto, sampling, params, limits, submitting
    <2>1. TypeOK'
      BY <1>t, <1>r, RunnableTyped DEF TypeOK, PCs, Goroutines
    <2>2. SamplerInStep' /\ WorkerInStep' /\ FetcherInStep'
      BY <1>t DEF TypeOK, Goroutines, SamplerInStep, WorkerInStep, FetcherInStep
    <2>. QED
      BY <1>t, <2>1, <2>2, Frame DEF IInv, TypeOK, Goroutines
  <1>7. CASE WorkerStopSampler
    <2>. USE <1>7 DEF WorkerStopSampler, Goto, sampling, batching, params, limits, submitting
    <2>1. TypeOK'
      BY <1>t, <1>r, RunnableTyped DEF TypeOK, PCs, Goroutines
    <2>2. SamplerInStep' /\ WorkerInStep' /\ FetcherInStep'
      <3>1. run'["sampler"].state \notin {"created", "running"}
        BY <1>t, <1>r, RunnableStates DEF TypeOK
      <3>. QED
        BY <1>t, <3>1 DEF TypeOK, Goroutines, SamplerInStep, WorkerInStep, FetcherInStep
    <2>. QED
      BY <1>t, <2>1, <2>2, Frame DEF IInv, TypeOK, Goroutines
  <1>8. CASE WorkerCancel
    <2>. USE <1>8 DEF WorkerCancel, Goto, sampling, params, submitting
    <2>0. CloseOnce(closes["encryption"]) \in Nat /\ CloseOnce(closes["encryption"]) <= 1
      BY <1>t DEF TypeOK, WorkerInStep, CloseOnce
    <2>1. TypeOK'
      BY <1>t, <2>0 DEF TypeOK, PCs, Goroutines
    <2>2. SamplerInStep' /\ WorkerInStep' /\ FetcherInStep'
      BY <1>t, <2>0 DEF TypeOK, Goroutines, SamplerInStep, WorkerInStep, FetcherInStep
    <2>3. SubmissionTokens' /\ CancelMessages'
      BY <1>t DEF IInv, SubmissionTokens, CancelMessages, At
    <2>. QED
      BY <1>t, <2>1, <2>2, <2>3, Frame DEF IInv, TypeOK, Goroutines
  <1>9. CASE WorkerSignal
    <2>. USE <1>9 DEF WorkerSignal, Goto, sampling, batching, params, submitting
    <2>0. /\ signals < MaxParallel /\ submissionCancelled
          /\ cancelSubmission + Cardinality(At({"putCancel"})) = signals
          /\ Cardinality(At({"putCancel"})) \in Nat
      BY <1>t, HoldersFinite DEF IInv, WorkerInStep, CancelMessages, At
    <2>1. TypeOK'
      BY <1>t, <2>0 DEF TypeOK, PCs, Goroutines
    <2>2. SamplerInStep' /\ WorkerInStep' /\ FetcherInStep'
      BY <1>t, <2>0 DEF TypeOK, Goroutines, SamplerInStep, WorkerInStep, FetcherInStep
    <2>3. CancelMessages'
      <3>1. /\ cancelSubmission' = cancelSubmission + 1 /\ signals' = signals + 1
            /\ cancelSubmission \in Int /\ signals \in Int
            /\ sub' = sub
        BY <1>t DEF TypeOK
      <3>2. submissionCancelled'
        BY <2>0
      <3>. QED
        BY ONLY <2>0, <3>1, <3>2 DEF CancelMessages, At, Holders
    <2>. QED
      BY <1>t, <2>1, <2>2, <2>3, Frame DEF IInv, TypeOK, Goroutines
  <1>10. CASE WorkerClose
    <2>. USE <1>10 DEF WorkerClose, Goto, sampling, batching, params, limits, submitting
    <2>1. TypeOK'
      BY <1>t, <1>r, RunnableTyped DEF TypeOK, PCs, Goroutines
    <2>2. SamplerInStep' /\ WorkerInStep' /\ FetcherInStep'
      BY <1>t DEF TypeOK, Goroutines, SamplerInStep, WorkerInStep, FetcherInStep
    <2>. QED
      BY <1>t, <2>1, <2>2, Frame DEF IInv, TypeOK, Goroutines
  <1>. QED
    BY <1>1, <1>2, <1>3, <1>4, <1>5, <1>6, <1>7, <1>8, <1>9, <1>10 DEF Worker

\* Stop touches nothing but the worker's Runnable.
LEMMA StopPreserves == IInv /\ Stop => IInv'
  <1>. SUFFICES ASSUME IInv, Stop PROVE IInv'
    OBVIOUS
  <1>. USE DEF Stop, sampling, batching, params, limits, submitting
  <1>t. TypeOK /\ run["worker"] \in RunnableType
    BY DEF IInv, TypeOK
  <1>1. TypeOK'
    BY <1>t, RunnableTyped DEF TypeOK
  <1>2. SamplerInStep' /\ WorkerInStep' /\ FetcherInStep'
    BY <1>t DEF IInv, TypeOK, SamplerInStep, WorkerInStep, FetcherInStep
  <1>. QED
    BY <1>1, <1>2, Frame DEF IInv

\* A submitter that moves on from a batch's first step keeps the batches in
\* order, and leaves the goroutines of the task alone.
LEMMA SubmitterFrame ==
  ASSUME IInv, NEW b \in Batches, sub[b] # "none",
         NEW to \in SubmitterPCs \ {"none"}, sub' = [sub EXCEPT ![b] = to],
         UNCHANGED <<pc, run, sampling, batching, encryptor>>
  PROVE  /\ sub' \in [Batches -> SubmitterPCs]
         /\ SamplesConserved' /\ OneSubmitterPerBatch'
         /\ SamplerInStep' /\ FetcherInStep'
         /\ UNCHANGED <<signals, submissionCancelled>> => WorkerInStep'
  <1>. USE DEF sampling, batching
  <1>t. TypeOK
    BY DEF IInv
  <1>1. sub' \in [Batches -> SubmitterPCs]
    BY <1>t DEF TypeOK
  <1>2. OneSubmitterPerBatch'
    <2>1. \A c \in Batches : sub'[c] # "none" <=> sub[c] # "none"
      BY <1>t DEF TypeOK
    <2>. QED
      BY <2>1 DEF IInv, OneSubmitterPerBatch
  <1>3. SamplerInStep' /\ FetcherInStep'
    BY DEF IInv, SamplerInStep, FetcherInStep
  <1>4. UNCHANGED <<signals, submissionCancelled>> => WorkerInStep'
    BY DEF IInv, WorkerInStep
  <1>5. SamplesConserved'
    BY Frame DEF IInv
  <1>. QED
    BY <1>1, <1>2, <1>3, <1>4, <1>5

\* How a move of one submitter changes a count of submitters.
LEMMA Moves ==
  ASSUME TypeOK, NEW b \in Batches, NEW to, sub' = [sub EXCEPT ![b] = to], NEW S
  PROVE  /\ Cardinality(At(S)) \in Nat
         /\ sub[b] \notin S /\ to \in S => Cardinality(At(S)') = Cardinality(At(S)) + 1
         /\ sub[b] \in S /\ to \notin S => Cardinality(At(S)') = Cardinality(At(S)) - 1
         /\ (sub[b] \in S <=> to \in S) => At(S)' = At(S)
  <1>1. sub \in [Batches -> SubmitterPCs]
    BY DEF TypeOK
  <1>2. /\ At(S) = Holders(sub, S)
        /\ At(S)' = Holders([sub EXCEPT ![b] = to], S)
    BY DEF At
  <1>3. Cardinality(At(S)) \in Nat
    BY <1>2, HoldersFinite
  <1>4. ASSUME sub[b] \notin S, to \in S
        PROVE  Cardinality(At(S)') = Cardinality(At(S)) + 1
    <2>1. Cardinality(Holders([sub EXCEPT ![b] = to], S)) = Cardinality(Holders(sub, S)) + 1
      BY <1>1, <1>4, HoldersEnter
    <2>. QED
      BY ONLY <2>1, <1>2
  <1>5. ASSUME sub[b] \in S, to \notin S
        PROVE  Cardinality(At(S)') = Cardinality(At(S)) - 1
    <2>1. Cardinality(Holders([sub EXCEPT ![b] = to], S)) = Cardinality(Holders(sub, S)) - 1
      BY <1>1, <1>5, HoldersLeave
    <2>. QED
      BY ONLY <2>1, <1>2
  <1>6. ASSUME sub[b] \in S <=> to \in S
        PROVE  At(S)' = At(S)
    BY <1>1, <1>2, <1>6, HoldersStay
  <1>. QED
    BY <1>3, <1>4, <1>5, <1>6

\* The three counts the invariant speaks of, when the move does not concern them.
LEMMA Untouched ==
  ASSUME TypeOK, NEW b \in Batches, NEW to, sub' = [sub EXCEPT ![b] = to]
  PROVE  /\ sub[b] # "giveBack" /\ to # "giveBack"
              => At({"giveBack"})' = At({"giveBack"})
         /\ sub[b] # "putCancel" /\ to # "putCancel"
              => At({"putCancel"})' = At({"putCancel"})
         /\ (sub[b] \in {"post", "check", "putToken"} <=> to \in {"post", "check", "putToken"})
              => At({"post", "check", "putToken"})' = At({"post", "check", "putToken"})
  <1>1. sub[b] # "giveBack" /\ to # "giveBack" => At({"giveBack"})' = At({"giveBack"})
    BY Moves
  <1>2. sub[b] # "putCancel" /\ to # "putCancel" => At({"putCancel"})' = At({"putCancel"})
    BY Moves
  <1>3. (sub[b] \in {"post", "check", "putToken"} <=> to \in {"post", "check", "putToken"})
          => At({"post", "check", "putToken"})' = At({"post", "check", "putToken"})
    BY Moves
  <1>. QED
    BY <1>1, <1>2, <1>3

\* A submitter that stops holding a token.
LEMMA TokenLeaves ==
  ASSUME TypeOK, NEW b \in Batches, sub[b] \in {"check", "putToken"},
         sub' = [sub EXCEPT ![b] = "returned"]
  PROVE  Cardinality(At({"post", "check", "putToken"})')
           = Cardinality(At({"post", "check", "putToken"})) - 1
  <1>1. sub[b] \in {"post", "check", "putToken"} /\ "returned" \notin {"post", "check", "putToken"}
    OBVIOUS
  <1>. QED
    BY <1>1, Moves

\* The submitter that holds the baton gives it back.
LEMMA BatonGiven ==
  ASSUME TypeOK, NEW b \in Batches, sub[b] = "giveBack",
         sub' = [sub EXCEPT ![b] = "encrypt"]
  PROVE  Cardinality(At({"giveBack"})') = Cardinality(At({"giveBack"})) - 1
  <1>1. sub[b] \in {"giveBack"} /\ "encrypt" \notin {"giveBack"}
    OBVIOUS
  <1>. QED
    BY <1>1, Moves

\* The submitter that has encrypted its batch holds nothing.
LEMMA BatchEncrypted ==
  ASSUME TypeOK, NEW b \in Batches, sub[b] = "encrypt",
         sub' = [sub EXCEPT ![b] = "select"]
  PROVE  /\ At({"post", "check", "putToken"})' = At({"post", "check", "putToken"})
         /\ At({"giveBack"})' = At({"giveBack"})
         /\ At({"putCancel"})' = At({"putCancel"})
  <1>1. /\ sub \in [Batches -> SubmitterPCs]
        /\ sub[b] \notin {"post", "check", "putToken", "giveBack", "putCancel"}
        /\ "select" \notin {"post", "check", "putToken", "giveBack", "putCancel"}
    BY DEF TypeOK
  <1>2. ASSUME NEW S \in SUBSET {"post", "check", "putToken", "giveBack", "putCancel"}
        PROVE  At(S)' = At(S)
    BY <1>1 DEF At, Holders
  <1>. QED
    BY <1>2

\* The submitter that passes on a cancel message returns.
LEMMA CancelPassedOn ==
  ASSUME TypeOK, NEW b \in Batches, sub[b] = "putCancel",
         sub' = [sub EXCEPT ![b] = "returned"]
  PROVE  Cardinality(At({"putCancel"})') = Cardinality(At({"putCancel"})) - 1
  <1>1. sub[b] \in {"putCancel"} /\ "returned" \notin {"putCancel"}
    OBVIOUS
  <1>. QED
    BY <1>1, Moves

\* A count of submitters is a number in the next state as well.
LEMMA CountInNat ==
  ASSUME NEW S
  PROVE  Cardinality(At(S)') \in Nat
  <1>1. At(S)' = Holders(sub', S)
    BY DEF At
  <1>. QED
    BY <1>1, HoldersFinite

\* The steps of a submitter move the messages the invariants count.
LEMMA SubmitterPreserves ==
  ASSUME IInv, NEW b \in Batches, Submitter(b)
  PROVE  IInv'
  <1>. USE ConstantsAssumption
  <1>. DEFINE Held == {"post", "check", "putToken"}
              Past == SubmitterPCs \ {"none", "baton"}
  <1>t. TypeOK /\ ParamsBaton /\ SubmissionTokens /\ CancelMessages /\ FetcherInStep
    BY DEF IInv
  <1>f. sub \in [Batches -> SubmitterPCs]
    BY <1>t DEF TypeOK
  <1>b. /\ Cardinality(At({"giveBack"})) \in Nat
        /\ Cardinality(At(Held)) \in Nat
        /\ Cardinality(At({"putCancel"})) \in Nat
    BY HoldersFinite DEF At
  <1>p. sub[b] \in Past => encryptor # "unset"
    <2>1. sub[b] \in Past => b \in At(Past)
      BY DEF At, Holders
    <2>. QED
      BY <2>1, <1>t DEF ParamsBaton
  <1>1. CASE TakeBaton(b)
    <2>. USE <1>1 DEF TakeBaton, SubGoto, AfterBaton, sampling, batching, limits
    <2>1. sub' = [sub EXCEPT ![b] = "giveBack"] /\ sub[b] = "baton"
      OBVIOUS
    <2>2. "giveBack" \in SubmitterPCs \ {"none"}
      BY DEF SubmitterPCs
    <2>3. /\ sub' \in [Batches -> SubmitterPCs]
          /\ SamplesConserved' /\ OneSubmitterPerBatch'
          /\ SamplerInStep' /\ FetcherInStep' /\ WorkerInStep'
      BY <2>1, <2>2, SubmitterFrame
    <2>4. TypeOK'
      BY <1>t, <2>3 DEF TypeOK
    <2>5. ParamsBaton'
      <3>1. Cardinality(At({"giveBack"})') = Cardinality(At({"giveBack"})) + 1
        BY <1>t, <2>1, Moves
      <3>2. pc["fetcher"] = "returned" /\ encryptor # "unset"
        BY <1>t, <1>b DEF ParamsBaton, TypeOK, FetcherInStep
      <3>. QED
        BY <1>t, <1>b, <3>1, <3>2 DEF ParamsBaton, TypeOK
    <2>6. At(Held)' = At(Held) /\ At({"putCancel"})' = At({"putCancel"})
      BY ONLY <1>f, <2>1 DEF At, Holders
    <2>7. SubmissionTokens' /\ CancelMessages'
      BY <1>t, <2>6 DEF SubmissionTokens, CancelMessages
    <2>. QED
      BY <2>3, <2>4, <2>5, <2>7 DEF IInv
  <1>2. CASE GiveBaton(b)
    <2>. USE <1>2 DEF GiveBaton, SubGoto, sampling, batching, limits
    <2>1. sub' = [sub EXCEPT ![b] = "encrypt"] /\ sub[b] = "giveBack"
      OBVIOUS
    <2>2. "encrypt" \in SubmitterPCs \ {"none"}
      BY DEF SubmitterPCs
    <2>3. /\ sub' \in [Batches -> SubmitterPCs]
          /\ SamplesConserved' /\ OneSubmitterPerBatch'
          /\ SamplerInStep' /\ FetcherInStep' /\ WorkerInStep'
      BY <2>1, <2>2, SubmitterFrame
    <2>4. ParamsBaton' /\ paramsFetched' \in 0..1
      <3>1. Cardinality(At({"giveBack"})') = Cardinality(At({"giveBack"})) - 1
        BY <1>t, <2>1, BatonGiven
      <3>n. Cardinality(At({"giveBack"})') \in Nat
        BY CountInNat
      <3>2. encryptor # "unset"
        BY <1>p, <2>1 DEF SubmitterPCs
      <3>. QED
        BY <1>t, <1>b, <3>1, <3>2, <3>n DEF ParamsBaton, TypeOK
    <2>5. TypeOK'
      BY <1>t, <2>3, <2>4 DEF TypeOK
    <2>6. At(Held)' = At(Held) /\ At({"putCancel"})' = At({"putCancel"})
      BY ONLY <1>f, <2>1 DEF At, Holders
    <2>7. SubmissionTokens' /\ CancelMessages'
      BY <1>t, <2>6 DEF SubmissionTokens, CancelMessages
    <2>. QED
      BY <2>3, <2>4, <2>5, <2>7 DEF IInv
  <1>3. CASE EncryptBatch(b)
    <2>. USE <1>3 DEF EncryptBatch, SubGoto, sampling, batching, params, limits
    <2>1. sub' = [sub EXCEPT ![b] = "select"] /\ sub[b] = "encrypt"
      OBVIOUS
    <2>2. "select" \in SubmitterPCs \ {"none"}
      BY DEF SubmitterPCs
    <2>3. /\ sub' \in [Batches -> SubmitterPCs]
          /\ SamplesConserved' /\ OneSubmitterPerBatch'
          /\ SamplerInStep' /\ FetcherInStep' /\ WorkerInStep'
      BY <2>1, <2>2, SubmitterFrame
    <2>4. TypeOK'
      <3>1. cipher' \in [Batches -> BOOLEAN]
        BY <1>t DEF TypeOK
      <3>. QED
        BY <1>t, <2>3, <3>1 DEF TypeOK
    <2>5. /\ At(Held)' = At(Held)
          /\ At({"giveBack"})' = At({"giveBack"})
          /\ At({"putCancel"})' = At({"putCancel"})
      BY <1>t, <2>1, BatchEncrypted
    <2>6. encryptor # "unset"
      BY <1>p, <2>1 DEF SubmitterPCs
    <2>7. ParamsBaton' /\ SubmissionTokens' /\ CancelMessages'
      BY <1>t, <2>5, <2>6 DEF ParamsBaton, SubmissionTokens, CancelMessages
    <2>. QED
      BY <2>3, <2>4, <2>7 DEF IInv
  <1>4. CASE EncryptPanic(b)
    <2>. USE <1>4 DEF EncryptPanic, sampling, batching, params, limits
    <2>1. TypeOK'
      BY <1>t DEF TypeOK
    <2>2. SamplerInStep' /\ WorkerInStep' /\ FetcherInStep'
      BY DEF IInv, SamplerInStep, WorkerInStep, FetcherInStep
    <2>. QED
      BY <2>1, <2>2, Frame DEF IInv
  <1>5. CASE TakeToken(b)
    <2>. USE <1>5 DEF TakeToken, SubGoto, sampling, batching, params
    <2>1. sub' = [sub EXCEPT ![b] = "post"] /\ sub[b] = "select"
      OBVIOUS
    <2>2. "post" \in SubmitterPCs \ {"none"}
      BY DEF SubmitterPCs
    <2>3. /\ sub' \in [Batches -> SubmitterPCs]
          /\ SamplesConserved' /\ OneSubmitterPerBatch'
          /\ SamplerInStep' /\ FetcherInStep' /\ WorkerInStep'
      BY <2>1, <2>2, SubmitterFrame
    <2>4. TypeOK'
      BY <1>t, <2>3 DEF TypeOK
    <2>5. SubmissionTokens'
      <3>1. Cardinality(At(Held)') = Cardinality(At(Held)) + 1
        BY <1>t, <2>1, Moves
      <3>2. rateLimiter' = rateLimiter - 1 /\ submissionCancelled' = submissionCancelled
        OBVIOUS
      <3>3. rateLimiter \in Nat
        BY <1>t DEF TypeOK
      <3>. QED
        BY ONLY <1>t, <1>b, <3>1, <3>2, <3>3 DEF SubmissionTokens
    <2>6. /\ At({"giveBack"})' = At({"giveBack"})
          /\ At({"putCancel"})' = At({"putCancel"})
      BY ONLY <1>f, <2>1 DEF At, Holders
    <2>7. encryptor # "unset"
      BY <1>p, <2>1 DEF SubmitterPCs
    <2>8. ParamsBaton' /\ CancelMessages'
      BY <1>t, <2>6, <2>7 DEF ParamsBaton, CancelMessages
    <2>. QED
      BY <2>3, <2>4, <2>5, <2>8 DEF IInv
  <1>6. CASE SubmitCipher(b)
    <2>. USE <1>6 DEF SubmitCipher, SubGoto, AfterPost, sampling, batching, params, limits
    <2>1. sub' = [sub EXCEPT ![b] = "check"] /\ sub[b] = "post"
      OBVIOUS
    <2>2. "check" \in SubmitterPCs \ {"none"}
      BY DEF SubmitterPCs
    <2>3. /\ sub' \in [Batches -> SubmitterPCs]
          /\ SamplesConserved' /\ OneSubmitterPerBatch'
          /\ SamplerInStep' /\ FetcherInStep' /\ WorkerInStep'
      BY <2>1, <2>2, SubmitterFrame
    <2>4. TypeOK'
      <3>1. arrived' \subseteq Batches
        BY <1>t DEF TypeOK
      <3>. QED
        BY <1>t, <2>3, <3>1 DEF TypeOK
    <2>5. /\ At(Held)' = At(Held)
          /\ At({"giveBack"})' = At({"giveBack"})
          /\ At({"putCancel"})' = At({"putCancel"})
      BY ONLY <1>f, <2>1 DEF At, Holders
    <2>6. encryptor # "unset"
      BY <1>p, <2>1 DEF SubmitterPCs
    <2>7. ParamsBaton' /\ SubmissionTokens' /\ CancelMessages'
      BY <1>t, <2>5, <2>6 DEF ParamsBaton, SubmissionTokens, CancelMessages
    <2>. QED
      BY <2>3, <2>4, <2>7 DEF IInv
  <1>7. CASE CheckCancelled(b)
    <2>. USE <1>7 DEF CheckCancelled, SubGoto, sampling, batching, params, limits
    <2>. DEFINE to == IF submissionCancelled THEN "returned" ELSE "putToken"
    <2>1. sub' = [sub EXCEPT ![b] = to] /\ sub[b] = "check"
      OBVIOUS
    <2>2. to \in SubmitterPCs \ {"none"}
      BY DEF SubmitterPCs
    <2>3. /\ sub' \in [Batches -> SubmitterPCs]
          /\ SamplesConserved' /\ OneSubmitterPerBatch'
          /\ SamplerInStep' /\ FetcherInStep' /\ WorkerInStep'
      BY <2>1, <2>2, SubmitterFrame
    <2>4. TypeOK'
      BY <1>t, <2>3 DEF TypeOK
    <2>5. /\ At({"giveBack"})' = At({"giveBack"})
          /\ At({"putCancel"})' = At({"putCancel"})
      BY ONLY <1>f, <2>1 DEF At, Holders
    <2>6. SubmissionTokens'
      <3>1. CASE submissionCancelled
        <4>0. sub' = [sub EXCEPT ![b] = "returned"]
          BY <2>1, <3>1
        <4>1. Cardinality(At(Held)') = Cardinality(At(Held)) - 1
          BY <1>t, <2>1, <4>0, TokenLeaves
        <4>. QED
          BY <1>t, <1>b, <3>1, <4>1 DEF SubmissionTokens, TypeOK
      <3>2. CASE ~submissionCancelled
        <4>0. sub' = [sub EXCEPT ![b] = "putToken"]
          BY <2>1, <3>2
        <4>1. At(Held)' = At(Held)
          BY <1>t, <2>1, <4>0, Untouched
        <4>. QED
          BY <1>t, <4>1 DEF SubmissionTokens
      <3>. QED
        BY <3>1, <3>2
    <2>7. encryptor # "unset"
      BY <1>p, <2>1 DEF SubmitterPCs
    <2>8. ParamsBaton' /\ CancelMessages'
      BY <1>t, <2>5, <2>7 DEF ParamsBaton, CancelMessages
    <2>. QED
      BY <2>3, <2>4, <2>6, <2>8 DEF IInv
  <1>8. CASE PutToken(b)
    <2>. USE <1>8 DEF PutToken, SubGoto, sampling, batching, params
    <2>1. sub' = [sub EXCEPT ![b] = "returned"] /\ sub[b] = "putToken"
      OBVIOUS
    <2>2. "returned" \in SubmitterPCs \ {"none"}
      BY DEF SubmitterPCs
    <2>3. /\ sub' \in [Batches -> SubmitterPCs]
          /\ SamplesConserved' /\ OneSubmitterPerBatch'
          /\ SamplerInStep' /\ FetcherInStep' /\ WorkerInStep'
      BY <2>1, <2>2, SubmitterFrame
    <2>4. SubmissionTokens' /\ rateLimiter' \in 0..MaxParallel
      <3>1. Cardinality(At(Held)') = Cardinality(At(Held)) - 1
        BY <1>t, <2>1, TokenLeaves
      <3>n. Cardinality(At(Held)') \in Nat
        BY CountInNat
      <3>. QED
        BY <1>t, <1>b, <3>1, <3>n DEF SubmissionTokens, TypeOK
    <2>5. TypeOK'
      BY <1>t, <2>3, <2>4 DEF TypeOK
    <2>6. /\ At({"giveBack"})' = At({"giveBack"})
          /\ At({"putCancel"})' = At({"putCancel"})
      BY ONLY <1>f, <2>1 DEF At, Holders
    <2>7. encryptor # "unset"
      BY <1>p, <2>1 DEF SubmitterPCs
    <2>8. ParamsBaton' /\ CancelMessages'
      BY <1>t, <2>6, <2>7 DEF ParamsBaton, CancelMessages
    <2>. QED
      BY <2>3, <2>4, <2>5, <2>8 DEF IInv
  <1>9. CASE TakeCancel(b)
    <2>. USE <1>9 DEF TakeCancel, SubGoto, AfterCancel, sampling, batching, params
    <2>1. sub' = [sub EXCEPT ![b] = "putCancel"] /\ sub[b] = "select"
      OBVIOUS
    <2>2. "putCancel" \in SubmitterPCs \ {"none"}
      BY DEF SubmitterPCs
    <2>3. /\ sub' \in [Batches -> SubmitterPCs]
          /\ SamplesConserved' /\ OneSubmitterPerBatch'
          /\ SamplerInStep' /\ FetcherInStep' /\ WorkerInStep'
      BY <2>1, <2>2, SubmitterFrame
    <2>4. TypeOK'
      BY <1>t, <2>3 DEF TypeOK
    <2>5. CancelMessages'
      <3>1. Cardinality(At({"putCancel"})') = Cardinality(At({"putCancel"})) + 1
        BY <1>t, <2>1, Moves
      <3>. QED
        BY <1>t, <1>b, <3>1 DEF CancelMessages, TypeOK
    <2>6. At(Held)' = At(Held) /\ At({"giveBack"})' = At({"giveBack"})
      BY ONLY <1>f, <2>1 DEF At, Holders
    <2>7. encryptor # "unset"
      BY <1>p, <2>1 DEF SubmitterPCs
    <2>8. ParamsBaton' /\ SubmissionTokens'
      BY <1>t, <2>6, <2>7 DEF ParamsBaton, SubmissionTokens
    <2>. QED
      BY <2>3, <2>4, <2>5, <2>8 DEF IInv
  <1>10. CASE PutCancel(b)
    <2>. USE <1>10 DEF PutCancel, SubGoto, sampling, batching, params
    <2>1. sub' = [sub EXCEPT ![b] = "returned"] /\ sub[b] = "putCancel"
      OBVIOUS
    <2>2. "returned" \in SubmitterPCs \ {"none"}
      BY DEF SubmitterPCs
    <2>3. /\ sub' \in [Batches -> SubmitterPCs]
          /\ SamplesConserved' /\ OneSubmitterPerBatch'
          /\ SamplerInStep' /\ FetcherInStep' /\ WorkerInStep'
      BY <2>1, <2>2, SubmitterFrame
    <2>4. CancelMessages' /\ cancelSubmission' \in 0..MaxParallel
      <3>1. Cardinality(At({"putCancel"})') = Cardinality(At({"putCancel"})) - 1
        BY <1>t, <2>1, CancelPassedOn
      <3>n. Cardinality(At({"putCancel"})') \in Nat
        BY CountInNat
      <3>. QED
        BY <1>t, <1>b, <3>1, <3>n DEF CancelMessages, TypeOK
    <2>5. TypeOK'
      BY <1>t, <2>3, <2>4 DEF TypeOK
    <2>6. At(Held)' = At(Held) /\ At({"giveBack"})' = At({"giveBack"})
      BY ONLY <1>f, <2>1 DEF At, Holders
    <2>7. encryptor # "unset"
      BY <1>p, <2>1 DEF SubmitterPCs
    <2>8. ParamsBaton' /\ SubmissionTokens'
      BY <1>t, <2>6, <2>7 DEF ParamsBaton, SubmissionTokens
    <2>. QED
      BY <2>3, <2>4, <2>5, <2>8 DEF IInv
  <1>. QED
    BY <1>1, <1>2, <1>3, <1>4, <1>5, <1>6, <1>7, <1>8, <1>9, <1>10 DEF Submitter

\* No step of anyone breaks the invariant.
LEMMA NextPreserves == IInv /\ [Next]_vars => IInv'
  <1>. SUFFICES ASSUME IInv, [Next]_vars PROVE IInv'
    OBVIOUS
  <1>1. ASSUME UNCHANGED vars PROVE IInv'
    <2>. USE <1>1 DEF vars, sampling, batching, params, limits, submitting
    <2>1. TypeOK'
      BY DEF IInv, TypeOK
    <2>2. SamplerInStep' /\ WorkerInStep' /\ FetcherInStep'
      BY DEF IInv, SamplerInStep, WorkerInStep, FetcherInStep
    <2>. QED
      BY <2>1, <2>2, Frame DEF IInv
  <1>2. ASSUME NEW b \in Batches, Submitter(b) PROVE IInv'
    BY <1>2, SubmitterPreserves
  <1>. QED
    BY <1>1, <1>2, SamplerPreserves, FetcherPreserves, WorkerPreserves, StopPreserves
       DEF Next, Terminated

-----------------------------------------------------------------------------
(* The theorems. *)

\* The inductive invariant holds in every reachable state of the task
\* (sensor/task-worker.go, sensor/sampler.go, sensor/task.go).
THEOREM IInvHolds == Spec => []IInv
  BY InitIInv, NextPreserves, PTL DEF Spec

\* No channel of the task ever holds more than it was made for, and no
\* counter leaves its range.
THEOREM TypeCorrect == Spec => []TypeOK
  <1>1. IInv => TypeOK
    BY DEF IInv
  <1>. QED
    BY <1>1, IInvHolds, PTL

\* Whatever the interleaving, no sample is lost or counted twice between the
\* sampler and the batches (Task.AddSample, Batch.AddSample).
THEOREM SamplesAreConserved == Spec => []SamplesConserved
  <1>1. IInv => SamplesConserved
    BY DEF IInv
  <1>. QED
    BY <1>1, IInvHolds, PTL

\* Every full batch gets exactly one submitter, in the order of the batches.
THEOREM BatchesHandedOnOnce == Spec => []OneSubmitterPerBatch
  <1>1. IInv => OneSubmitterPerBatch
    BY DEF IInv
  <1>. QED
    BY <1>1, IInvHolds, PTL

\* There is one baton, and nobody encrypts before the parameters are there.
THEOREM BatonIsUnique == Spec => []ParamsBaton
  <1>1. IInv => ParamsBaton
    BY DEF IInv
  <1>. QED
    BY <1>1, IInvHolds, PTL

\* Tokens never multiply, and before the cancellation none is lost.
THEOREM TokensConserved == Spec => []SubmissionTokens
  <1>1. IInv => SubmissionTokens
    BY DEF IInv
  <1>. QED
    BY <1>1, IInvHolds, PTL

\* A cancel message is never lost.
THEOREM CancelsConserved == Spec => []CancelMessages
  <1>1. IInv => CancelMessages
    BY DEF IInv
  <1>. QED
    BY <1>1, IInvHolds, PTL

\* No send on a closed or full channel, no second close, and no sample for a
\* batch that does not exist.
THEOREM NoChannelPanics == Spec => []ChannelsSafe
  <1>1. IInv => ChannelsSafe
    <2>. SUFFICES ASSUME IInv PROVE ChannelsSafe
      OBVIOUS
    <2>1. \A c \in DOMAIN closes : closes[c] <= 1
      BY DEF IInv, TypeOK, SamplerInStep, WorkerInStep
    <2>2. pc["sampler"] \in {"send", "done"} => Open("sampling")
      BY DEF IInv, SamplerInStep, Open
    <2>3. pc["sampler"] = "send" => toSample > 0
      BY DEF IInv, SamplerInStep
    <2>4. ASSUME pc["worker"] = "loop", samplingChan > 0
          PROVE  /\ sampledBatchesCnt < BatchCnt
                 /\ Open("encryption")
                 /\ Len(encryptionChan) < EncryptionChanCap
      <3>1. /\ sampledBatchesCnt \in 0..(BatchCnt - 1)
            /\ Len(encryptionChan) <= sampledBatchesCnt
            /\ closes["encryption"] = 0
        BY <2>4, RoomForSample DEF Batches
      <3>2. Len(encryptionChan) \in Nat
        BY DEF IInv, TypeOK
      <3>. QED
        BY <3>1, <3>2, ConstantsAssumption DEF Open, EncryptionChanCap
    <2>. QED
      BY <2>1, <2>2, <2>3, <2>4 DEF ChannelsSafe
  <1>. QED
    BY <1>1, IInvHolds, PTL
-----------------------------------------------------------------------------
(* What a worker that is done leaves behind.                                *)

\* How the worker's Runnable and its place fit together: it leaves its loop only
\* when it has ended, calls Done on itself only over a drained and closed
\* encryptionChan, is stopped only if somebody may stop it, and cancels completely.
WorkerEnds ==
  /\ run["worker"].exit > 0 \/ pc["worker"] \notin {"spawned", "loop"}
       => run["worker"].state \in {"done", "stopped"}
  /\ run["worker"].state = "done" => sampledBatchesCnt = BatchCnt /\ encryptionChan = <<>>
  /\ run["worker"].state \in {"stopped", "cancelled"} => Stoppable
  /\ submissionCancelled => pc["worker"] \in {"signal", "close", "returned"}
  /\ pc["worker"] \in {"close", "returned"} => signals = MaxParallel

\* All samples have been taken, every batch is full and has its submitter.
Whole ==
  /\ toSample = 0 /\ samplingChan = 0
  /\ \A b \in Batches : received[b] = BatchSize /\ sub[b] # "none"

\* A task is done only when it is whole; and where nobody may stop it, even the
\* submissions it cancels as it returns are of batches that were all handed on.
EndsWhole ==
  /\ run["worker"].state = "done" => Whole
  /\ submissionCancelled /\ ~Stoppable => Whole

\* Whoever waits for the baton, a token or a cancel message has somebody to wait
\* for: the message is there, or with a goroutine that waits for nobody and is on
\* its way to put it back; and the worker is still sending cancel messages.
NoSubmitterForgotten ==
  /\ pc["fetcher"] = "returned" /\ At({"baton"}) # {}
       => paramsFetched > 0 \/ At({"giveBack"}) # {}
  /\ At({"select"}) # {} =>
       \/ rateLimiter > 0 \/ cancelSubmission > 0
       \/ At({"post", "check", "putToken"}) # {} /\ ~submissionCancelled
       \/ At({"putCancel"}) # {}
       \/ pc["worker"] = "signal"

\* At first the worker has not ended.
LEMMA InitWorkerEnds == Init => WorkerEnds
  <1>. SUFFICES ASSUME Init PROVE WorkerEnds
    OBVIOUS
  <1>1. run["worker"].state = "created" /\ run["worker"].exit = 0
    BY DEF Init, NewRunnable
  <1>2. pc["worker"] = "spawned" /\ submissionCancelled = FALSE
    BY DEF Init, Goroutines
  <1>. QED
    BY ONLY <1>1, <1>2 DEF WorkerEnds

\* Steps that touch neither the worker nor what its end depends on.
LEMMA WorkerEndsStays ==
  ASSUME WorkerEnds, UNCHANGED <<run["worker"], pc["worker"], submissionCancelled, signals,
                                 sampledBatchesCnt, encryptionChan>>
  PROVE  WorkerEnds'
  BY DEF WorkerEnds

\* What the methods do to a Runnable: a message comes with an end.
LEMMA EndsBySignal ==
  ASSUME NEW r \in RunnableType
  PROVE  /\ StopOf(r) \in {r, Signal(r, "stopped"), [r EXCEPT !.state = "cancelled"]}
         /\ StopOf(r) # r => r.state \in {"created", "running"}
         /\ DoneOf(r) = r \/ (r.state = "running" /\ DoneOf(r) = Signal(r, "done"))
         /\ StartOf(r) = r \/ (r.state = "created" /\ StartOf(r) = [r EXCEPT !.state = "running"])
  BY DEF RunnableType, RunnableState, StopOf, DoneOf, StartOf, Signal

\* The worker ends only when its channel is drained and closed, or is stopped.
LEMMA WorkerEndsPreserved == IInv /\ WorkerEnds /\ [Next]_vars => WorkerEnds'
  <1>. SUFFICES ASSUME IInv, WorkerEnds, [Next]_vars PROVE WorkerEnds'
    OBVIOUS
  <1>. DEFINE r == run["worker"]
  <1>t. /\ r \in RunnableType /\ run \in [{"worker", "sampler"} -> RunnableType]
        /\ pc \in [Goroutines -> PCs] /\ sampledBatchesCnt \in 0..BatchCnt
    BY DEF IInv, TypeOK
  <1>r. /\ StartOf(r) \in RunnableType /\ StopOf(r) \in RunnableType /\ DoneOf(r) \in RunnableType
        /\ CloseOf(r) \in RunnableType /\ (Signalled(r) => Received(r) \in RunnableType)
    BY <1>t, RunnableTyped
  <1>1. CASE UNCHANGED vars
    BY <1>1, WorkerEndsStays DEF vars, batching, limits
  <1>2. CASE Sampler
    <2>1. UNCHANGED <<run["worker"], pc["worker"]>>
      BY <1>2, <1>t DEF Sampler, SamplerStart, SamplerTick, SamplerSend, SamplerDone, SamplerExit,
                        Goto, Goroutines
    <2>2. UNCHANGED <<submissionCancelled, signals, sampledBatchesCnt, encryptionChan>>
      BY <1>2 DEF Sampler, SamplerStart, SamplerTick, SamplerSend, SamplerDone, SamplerExit,
                  batching, limits
    <2>. QED
      BY <2>1, <2>2, WorkerEndsStays
  <1>3. CASE Fetcher
    <2>1. UNCHANGED <<run["worker"], pc["worker"], submissionCancelled, signals, sampledBatchesCnt,
                      encryptionChan>>
      BY <1>3, <1>t DEF Fetcher, Fetch, FetchPut, Goto, Goroutines, batching, limits
    <2>. QED
      BY <2>1, WorkerEndsStays
  <1>4. ASSUME NEW b \in Batches, Submitter(b) PROVE WorkerEnds'
    <2>1. UNCHANGED <<run["worker"], pc["worker"], submissionCancelled, signals, sampledBatchesCnt,
                      encryptionChan>>
      BY <1>4 DEF Submitter, TakeBaton, GiveBaton, EncryptBatch, EncryptPanic, TakeToken,
                  TakeCancel, PutCancel, SubmitCipher, CheckCancelled, PutToken, batching, limits
    <2>. QED
      BY <2>1, WorkerEndsStays
  <1>5. CASE Stop
    <2>1. /\ Stoppable
          /\ UNCHANGED <<pc, submissionCancelled, signals, sampledBatchesCnt, encryptionChan>>
          /\ run' = [run EXCEPT !["worker"] = StopOf(r)]
      BY <1>5 DEF Stop, batching, limits
    <2>2. run'["worker"] = StopOf(r)
      BY <1>t, <2>1
    <2>3. CASE StopOf(r) = r
      BY <2>1, <2>2, <2>3, WorkerEndsStays
    <2>4. CASE StopOf(r) # r
      <3>1. r.state \in {"created", "running"} /\ pc["worker"] \in {"spawned", "loop"} /\ ~(r.exit > 0)
        BY <2>4, <1>t, EndsBySignal DEF WorkerEnds
      <3>2. StopOf(r).state \in {"stopped", "cancelled"}
            /\ (StopOf(r).exit = r.exit \/ StopOf(r).state = "stopped")
        BY <1>t, <2>4, EndsBySignal DEF Signal, RunnableType
      <3>3. ~submissionCancelled
        BY <3>1 DEF WorkerEnds
      <3>. QED
        BY ONLY <2>1, <2>2, <3>1, <3>2, <3>3 DEF WorkerEnds
    <2>. QED
      BY <2>3, <2>4
  <1>6. CASE WorkerStart
    <2>1. /\ pc["worker"] = "spawned" /\ pc'["worker"] = "loop"
          /\ UNCHANGED <<submissionCancelled, signals, sampledBatchesCnt, encryptionChan>>
          /\ run' = [run EXCEPT !["worker"] = StartOf(r)]
      BY <1>6 DEF WorkerStart, batching, limits
    <2>2. run'["worker"] = StartOf(r)
      BY <1>t, <2>1
    <2>3. StartOf(r).exit = r.exit /\ (StartOf(r).state = r.state \/ StartOf(r).state = "running")
      BY <1>t, EndsBySignal DEF RunnableType
    <2>4. r.exit > 0 => StartOf(r).state = r.state
      BY <1>t, EndsBySignal DEF WorkerEnds
    <2>. QED
      BY ONLY <2>1, <2>2, <2>3, <2>4, WorkerEnds DEF WorkerEnds
  <1>7. CASE WorkerSample
    <2>1. UNCHANGED <<pc, run, submissionCancelled, signals>> /\ sampledBatchesCnt < BatchCnt
      <3>1. samplingChan > 0
        BY <1>7 DEF WorkerSample
      <3>. QED
        BY <1>7, <3>1, RoomForSample, ConstantsAssumption DEF WorkerSample, limits, Batches
    <2>2. r.state # "done"
      BY <2>1, <1>t, ConstantsAssumption DEF WorkerEnds
    <2>. QED
      BY ONLY <2>1, <2>2, WorkerEnds DEF WorkerEnds
  <1>8. CASE WorkerSamplingClosed
    BY <1>8, WorkerEndsStays DEF WorkerSamplingClosed, limits
  <1>9. CASE WorkerBatch
    <2>1. UNCHANGED <<pc, run, submissionCancelled, signals>> /\ encryptionChan # <<>>
      BY <1>9 DEF WorkerBatch, limits
    <2>. QED
      BY ONLY <2>1, WorkerEnds DEF WorkerEnds
  <1>10. CASE WorkerBatchesClosed
    <2>1. /\ pc["worker"] = "loop" /\ encryptionChan = <<>> /\ closes["encryption"] # 0
          /\ UNCHANGED <<pc, submissionCancelled, signals, sampledBatchesCnt, encryptionChan>>
          /\ run' = [run EXCEPT !["worker"] = DoneOf(r)]
      BY <1>10 DEF WorkerBatchesClosed, Open, limits
    <2>2. run'["worker"] = DoneOf(r)
      BY <1>t, <2>1
    <2>3. sampledBatchesCnt = BatchCnt
      BY <2>1, <1>t, ConstantsAssumption DEF IInv, WorkerInStep
    <2>4. DoneOf(r) = r \/ DoneOf(r).state = "done"
      BY <1>t, EndsBySignal DEF Signal
    <2>. QED
      BY ONLY <2>1, <2>2, <2>3, <2>4, WorkerEnds DEF WorkerEnds
  <1>11. CASE WorkerExit
    <2>1. /\ r.exit > 0 /\ pc["worker"] = "loop" /\ pc'["worker"] = "stopSampler"
          /\ UNCHANGED <<submissionCancelled, signals, sampledBatchesCnt, encryptionChan>>
          /\ run' = [run EXCEPT !["worker"] = Received(r)]
      BY <1>11, <1>t DEF WorkerExit, Goto, Goroutines, Signalled, limits
    <2>2. run'["worker"].state = r.state
      BY <1>t, <2>1, RunnableStates
    <2>. QED
      BY ONLY <2>1, <2>2, WorkerEnds DEF WorkerEnds
  <1>12. CASE WorkerStopSampler \/ WorkerSignal
    <2>1. /\ UNCHANGED <<submissionCancelled, sampledBatchesCnt, encryptionChan>>
          /\ run'["worker"] = r
          /\ pc["worker"] \notin {"spawned", "loop"} /\ pc'["worker"] \notin {"spawned", "loop"}
      BY <1>12, <1>t DEF WorkerStopSampler, WorkerSignal, Goto, Goroutines, batching, limits
    <2>2. /\ submissionCancelled => pc'["worker"] \in {"signal", "close", "returned"}
          /\ pc'["worker"] \in {"close", "returned"} => signals' = MaxParallel
      BY <1>12, <1>t DEF WorkerStopSampler, WorkerSignal, Goto, Goroutines, limits, WorkerEnds
    <2>. QED
      BY ONLY <2>1, <2>2, WorkerEnds DEF WorkerEnds
  <1>13. CASE WorkerCancel
    <2>1. /\ UNCHANGED <<run, sampledBatchesCnt, encryptionChan, signals>>
          /\ pc["worker"] = "cancel" /\ pc'["worker"] = "signal"
      BY <1>13, <1>t DEF WorkerCancel, Goto, Goroutines
    <2>. QED
      BY ONLY <2>1, WorkerEnds DEF WorkerEnds
  <1>14. CASE WorkerClose
    <2>1. /\ UNCHANGED <<submissionCancelled, signals, sampledBatchesCnt, encryptionChan>>
          /\ run' = [run EXCEPT !["worker"] = CloseOf(r)]
          /\ pc["worker"] = "close" /\ pc'["worker"] = "returned"
      BY <1>14, <1>t DEF WorkerClose, Goto, Goroutines, batching, limits
    <2>2. run'["worker"].state = r.state
      BY <1>t, <2>1, RunnableStates
    <2>. QED
      BY ONLY <2>1, <2>2, WorkerEnds DEF WorkerEnds
  <1>. QED
    BY <1>1, <1>2, <1>3, <1>4, <1>5, <1>6, <1>7, <1>8, <1>9, <1>10, <1>11, <1>12, <1>13, <1>14
       DEF Next, Terminated, Worker

\* Full batches and a drained channel leave no sample and no batch without a
\* submitter.
LEMMA WholeWhenDone ==
  ASSUME IInv, WorkerEnds, run["worker"].state = "done"
  PROVE  Whole
  <1>1. sampledBatchesCnt = BatchCnt /\ encryptionChan = <<>> /\ BatchCnt \in Nat
    BY ConstantsAssumption DEF WorkerEnds
  <1>2. toSample = 0 /\ samplingChan = 0
    <2>1. BatchCnt * BatchSize \in Int /\ toSample \in Nat /\ samplingChan \in Nat
      BY ConstantsAssumption DEF IInv, TypeOK, SamplingChanCap
    <2>2. toSample + samplingChan + BatchCnt * BatchSize = BatchCnt * BatchSize
      BY <1>1, <2>1 DEF IInv, SamplesConserved
    <2>. QED
      BY <2>1, <2>2
  <1>3. ASSUME NEW b \in Batches PROVE received[b] = BatchSize /\ sub[b] # "none"
    <2>1. b < BatchCnt /\ b < BatchCnt - Len(encryptionChan)
      BY <1>1 DEF Batches
    <2>. QED
      BY <1>1, <2>1 DEF IInv, SamplesConserved, OneSubmitterPerBatch
  <1>. QED
    BY <1>2, <1>3 DEF Whole

\* A task reports Done only when no sample and no batch of it is left behind; and
\* although a task that completes cancels submissions as a stopped one does
\* (task-worker.go, case <-r.ExitChan), it does so only after its last batch was
\* handed to a submitter.
THEOREM TasksEndWhole == Spec => []EndsWhole
  <1>1. Spec => []WorkerEnds
    BY InitWorkerEnds, IInvHolds, WorkerEndsPreserved, PTL DEF Spec
  <1>2. IInv /\ WorkerEnds => EndsWhole
    <2>. SUFFICES ASSUME IInv, WorkerEnds PROVE EndsWhole
      OBVIOUS
    <2>1. submissionCancelled /\ ~Stoppable => run["worker"].state = "done"
      BY DEF WorkerEnds
    <2>. QED
      BY <2>1, WholeWhenDone DEF EndsWhole
  <1>. QED
    BY <1>1, <1>2, IInvHolds, PTL

\* Tokens and cancel messages in hand are those that waiting submitters lack.
LEMMA WaitersHaveSomebody ==
  ASSUME IInv, WorkerEnds
  PROVE  NoSubmitterForgotten
  <1>1. ASSUME NEW S, Cardinality(At(S)) # 0 PROVE At(S) # {}
    BY <1>1, FS_EmptySet
  <1>2. ASSUME pc["fetcher"] = "returned", At({"baton"}) # {}
        PROVE  paramsFetched > 0 \/ At({"giveBack"}) # {}
    <2>1. paramsFetched + Cardinality(At({"giveBack"})) = 1 /\ paramsFetched \in 0..1
      BY <1>2 DEF IInv, ParamsBaton, TypeOK
    <2>2. CASE paramsFetched = 0
      <3>1. Cardinality(At({"giveBack"})) # 0
        BY <2>1, <2>2
      <3>. QED
        BY <3>1, <1>1
    <2>. QED
      BY <2>1, <2>2
  <1>3. CASE ~submissionCancelled
    <2>1. rateLimiter + Cardinality(At({"post", "check", "putToken"})) = MaxParallel
          /\ rateLimiter \in Nat /\ MaxParallel > 0
      BY <1>3, ConstantsAssumption DEF IInv, SubmissionTokens, TypeOK
    <2>2. CASE rateLimiter = 0
      <3>1. Cardinality(At({"post", "check", "putToken"})) # 0
        BY <2>1, <2>2
      <3>. QED
        BY <3>1, <1>1, <1>2, <1>3 DEF NoSubmitterForgotten
    <2>3. CASE rateLimiter # 0
      <3>1. rateLimiter > 0
        BY <2>1, <2>3
      <3>. QED
        BY <3>1, <1>2 DEF NoSubmitterForgotten
    <2>. QED
      BY <2>2, <2>3
  <1>4. CASE submissionCancelled /\ pc["worker"] # "signal"
    <2>1. cancelSubmission + Cardinality(At({"putCancel"})) = MaxParallel
          /\ cancelSubmission \in Nat /\ MaxParallel > 0
      BY <1>4, ConstantsAssumption DEF IInv, CancelMessages, TypeOK, WorkerEnds
    <2>2. CASE cancelSubmission = 0
      <3>1. Cardinality(At({"putCancel"})) # 0
        BY <2>1, <2>2
      <3>. QED
        BY <3>1, <1>1, <1>2 DEF NoSubmitterForgotten
    <2>3. CASE cancelSubmission # 0
      <3>1. cancelSubmission > 0
        BY <2>1, <2>3
      <3>. QED
        BY <3>1, <1>2 DEF NoSubmitterForgotten
    <2>. QED
      BY <2>2, <2>3
  <1>. QED
    BY <1>2, <1>3, <1>4 DEF NoSubmitterForgotten

\* Everyone waiting on everyone does not happen among the submitters: the baton is
\* there or on its way back, and so are the tokens before the cancellation and the
\* cancel messages after it (encryptionParamsFetched, rateLimiter, cancelSubmission
\* of task-worker.go).  This is what SubmittersReturn rests on besides fairness.
THEOREM NobodyWaitsInVain == Spec => []NoSubmitterForgotten
  <1>1. Spec => []WorkerEnds
    BY InitWorkerEnds, IInvHolds, WorkerEndsPreserved, PTL DEF Spec
  <1>2. IInv /\ WorkerEnds => NoSubmitterForgotten
    BY WaitersHaveSomebody
  <1>. QED
    BY <1>1, <1>2, IInvHolds, PTL

-----------------------------------------------------------------------------
(* The sampler after its worker.                                             *)

\* How the sampler's Runnable and its place fit together: one that has ended has
\* its message until it returns, one that has not called Start has not ended, and a
\* worker past stopSampler() leaves none running.
SamplerTold ==
  /\ run["sampler"].state \in Ended /\ pc["sampler"] # "returned" => Signalled(run["sampler"])
  /\ pc["sampler"] \in {"absent", "spawned"} => run["sampler"].state \in {"created", "cancelled"}
  /\ pc["worker"] \in {"cancel", "signal", "close", "returned"}
       => run["sampler"].state \notin {"created", "running"}

\* A sampler that outlives its worker is stranded in one of the two ways, or it has
\* its message and nothing between it and the select that reads it.
SamplerIsTold ==
  pc["worker"] = "returned" /\ pc["sampler"] # "returned" /\ ~SamplerStranded =>
    /\ Signalled(run["sampler"])
    /\ pc["sampler"] \in {"loop", "send", "done"}
    /\ HasRoom(samplingChan)

\* Steps that touch neither goroutine's place nor the sampler's Runnable.
LEMMA SamplerToldStays ==
  ASSUME SamplerTold, UNCHANGED <<run["sampler"], pc["sampler"], pc["worker"]>>
  PROVE  SamplerTold'
  BY DEF SamplerTold, Signalled

\* Stop ends a running Runnable with a message; one that has not started it only
\* marks.
LEMMA StopTells ==
  ASSUME NEW r \in RunnableType
  PROVE  /\ r.state \in {"created", "cancelled"} => StopOf(r).state = "cancelled"
         /\ StopOf(r).state \in Ended => StopOf(r) = r \/ Signalled(StopOf(r))
  BY DEF RunnableType, RunnableState, StopOf, Signal, Signalled, Ended

\* What the steps of worker and sampler keep of it.
LEMMA SamplerToldPreserved == IInv /\ SamplerTold /\ [Next]_vars => SamplerTold'
  <1>. SUFFICES ASSUME IInv, SamplerTold, [Next]_vars PROVE SamplerTold'
    OBVIOUS
  <1>. DEFINE r == run["sampler"]
  <1>t. /\ r \in RunnableType /\ run \in [{"worker", "sampler"} -> RunnableType]
        /\ pc \in [Goroutines -> PCs]
    BY DEF IInv, TypeOK
  <1>1. CASE UNCHANGED vars
    BY <1>1, SamplerToldStays DEF vars
  <1>2. CASE Fetcher
    <2>1. UNCHANGED <<run["sampler"], pc["sampler"], pc["worker"]>>
      BY <1>2, <1>t DEF Fetcher, Fetch, FetchPut, Goto, Goroutines
    <2>. QED
      BY <2>1, SamplerToldStays
  <1>3. ASSUME NEW b \in Batches, Submitter(b) PROVE SamplerTold'
    <2>1. UNCHANGED <<run["sampler"], pc["sampler"], pc["worker"]>>
      BY <1>3 DEF Submitter, TakeBaton, GiveBaton, EncryptBatch, EncryptPanic, TakeToken,
                  TakeCancel, PutCancel, SubmitCipher, CheckCancelled, PutToken
    <2>. QED
      BY <2>1, SamplerToldStays
  <1>4. CASE Stop \/ WorkerSample \/ WorkerSamplingClosed \/ WorkerBatch \/ WorkerBatchesClosed
    <2>1. UNCHANGED <<run["sampler"], pc["sampler"], pc["worker"]>>
      BY <1>4, <1>t DEF Stop, WorkerSample, WorkerSamplingClosed, WorkerBatch, WorkerBatchesClosed
    <2>. QED
      BY <2>1, SamplerToldStays
  <1>5. CASE SamplerStart
    <2>1. /\ pc["sampler"] = "spawned" /\ pc'["sampler"] = "loop" /\ pc'["worker"] = pc["worker"]
          /\ run'["sampler"] = StartOf(r)
      BY <1>5, <1>t DEF SamplerStart, Goto, Goroutines
    <2>2. r.state = "created" \/ (r.state = "cancelled" /\ StartOf(r) = r)
      BY <2>1, <1>t, EndsBySignal DEF SamplerTold
    <2>3. r.state = "created" => StartOf(r).state \in {"created", "running"}
      BY <1>t, EndsBySignal DEF RunnableType
    <2>. QED
      BY ONLY <2>1, <2>2, <2>3, SamplerTold DEF SamplerTold, Ended
  <1>6. CASE SamplerTick \/ SamplerSend
    <2>1. /\ pc["sampler"] \in {"loop", "send"} /\ pc'["sampler"] \in {"loop", "send", "done"}
          /\ pc'["worker"] = pc["worker"] /\ run' = run
      BY <1>6, <1>t DEF SamplerTick, SamplerSend, Goto, Goroutines
    <2>. QED
      BY ONLY <2>1, SamplerTold DEF SamplerTold, Signalled
  <1>7. CASE SamplerDone
    <2>1. /\ pc["sampler"] = "done" /\ pc'["sampler"] = "loop" /\ pc'["worker"] = pc["worker"]
          /\ run'["sampler"] = DoneOf(r)
      BY <1>7, <1>t DEF SamplerDone, Goto, Goroutines
    <2>2. DoneOf(r) = r \/ (Signalled(DoneOf(r)) /\ DoneOf(r).state = "done")
      BY <1>t, EndsBySignal DEF Signal, Signalled, RunnableType
    <2>. QED
      BY ONLY <2>1, <2>2, SamplerTold DEF SamplerTold
  <1>8. CASE SamplerExit
    <2>1. /\ pc'["sampler"] = "returned" /\ pc'["worker"] = pc["worker"] /\ Signalled(r)
          /\ run'["sampler"] = CloseOf(Received(r))
      BY <1>8, <1>t DEF SamplerExit, Goto, Goroutines
    <2>2. run'["sampler"].state = r.state
      BY <1>t, <2>1, RunnableTyped, RunnableStates
    <2>. QED
      BY ONLY <2>1, <2>2, SamplerTold DEF SamplerTold
  <1>9. CASE WorkerStart
    <2>1. /\ pc'["worker"] = "loop" /\ pc'["sampler"] = "spawned" /\ run'["sampler"] = r
          /\ pc["sampler"] = "absent"
      BY <1>9, <1>t DEF WorkerStart, IInv, WorkerInStep
    <2>. QED
      BY ONLY <2>1, SamplerTold DEF SamplerTold, Ended
  <1>10. CASE WorkerExit
    <2>1. /\ pc'["worker"] = "stopSampler" /\ pc'["sampler"] = pc["sampler"]
          /\ run'["sampler"] = r
      BY <1>10, <1>t DEF WorkerExit, Goto, Goroutines
    <2>. QED
      BY ONLY <2>1, SamplerTold DEF SamplerTold, Signalled
  <1>11. CASE WorkerStopSampler
    <2>1. /\ pc'["sampler"] = pc["sampler"] /\ run'["sampler"] = StopOf(r)
      BY <1>11, <1>t DEF WorkerStopSampler, Goto, Goroutines
    <2>2. StopOf(r).state \notin {"created", "running"}
      BY <1>t, RunnableStates
    <2>. QED
      BY ONLY <2>1, <2>2, <1>t, StopTells, SamplerTold DEF SamplerTold
  <1>12. CASE WorkerCancel \/ WorkerSignal \/ WorkerClose
    <2>1. /\ pc["worker"] \in {"cancel", "signal", "close"} /\ pc'["sampler"] = pc["sampler"]
          /\ run'["sampler"] = r
      BY <1>12, <1>t DEF WorkerCancel, WorkerSignal, WorkerClose, Goto, Goroutines
    <2>. QED
      BY ONLY <2>1, SamplerTold DEF SamplerTold, Signalled
  <1>. QED
    BY <1>1, <1>2, <1>3, <1>4, <1>5, <1>6, <1>7, <1>8, <1>9, <1>10, <1>11, <1>12
       DEF Next, Terminated, Worker, Sampler

\* What SamplerStops needs to be true: once the worker has returned, a sampler that
\* is not stranded has been told to return and can get to its select
\* (sampler.go sampler, task-worker.go stopSampler, runnable.go Stop).
THEOREM SamplersAreTold == Spec => []SamplerIsTold
  <1>1. Init => SamplerTold
    <2>1. ASSUME Init
          PROVE  /\ run["sampler"].state = "created"
                 /\ pc["sampler"] = "absent" /\ pc["worker"] = "spawned"
      BY <2>1 DEF Init, NewRunnable, Goroutines
    <2>. QED
      BY ONLY <2>1 DEF SamplerTold, Ended
  <1>2. Spec => []SamplerTold
    BY <1>1, IInvHolds, SamplerToldPreserved, PTL DEF Spec
  <1>3. IInv /\ SamplerTold => SamplerIsTold
    <2>. SUFFICES ASSUME IInv, SamplerTold, pc["worker"] = "returned",
                         pc["sampler"] # "returned", ~SamplerStranded
                  PROVE  /\ Signalled(run["sampler"])
                         /\ pc["sampler"] \in {"loop", "send", "done"}
                         /\ HasRoom(samplingChan)
      BY DEF SamplerIsTold
    <2>1. run["sampler"].state \in Ended
      BY DEF IInv, TypeOK, RunnableType, RunnableState, SamplerTold, SamplerStranded, Ended
    <2>2. Signalled(run["sampler"])
      BY <2>1 DEF SamplerTold
    <2>3. pc["sampler"] \in {"loop", "send", "done"}
      BY <2>1 DEF SamplerTold, Ended, IInv, SamplerInStep
    <2>4. HasRoom(samplingChan)
      BY ConstantsAssumption DEF HasRoom, SamplerStranded, IInv, TypeOK, SamplingChanCap
    <2>. QED
      BY <2>2, <2>3, <2>4
  <1>. QED
    BY <1>2, <1>3, IInvHolds, PTL
=============================================================================
