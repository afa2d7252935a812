----------------------------- MODULE SensorTask -----------------------------
(***************************************************************************)
(* One measuring task inside the sensor process: the sampler goroutine     *)
(* (sensor/sampler.go) feeds samples to the task worker                    *)
(* (sensor/task-worker.go), which groups them into batches; each full      *)
(* batch gets a goroutine of its own, the submitter, that waits for the    *)
(* encryption parameters, encrypts the batch and posts the cipher to the   *)
(* server.  A fetcher goroutine polls the authority for the parameters.    *)
(*                                                                         *)
(* A step is one atomic access to what the goroutines share: a channel     *)
(* operation, a call under a mutex, an atomic flag, or the end of an HTTP  *)
(* request.  The value of a sample is not modelled, only that it exists.   *)
(***************************************************************************)
EXTENDS Runnable, Integers, Sequences, FiniteSets

CONSTANTS
  BatchCnt,       \* batches of the task
  BatchSize,      \* samples in a batch
  MaxParallel,    \* MaxParallelSubmissionsPerSensor
  Stoppable,      \* whether the owner of the task may call its stopFn
  FetchReplies,   \* what the authority may answer: "ok", "rejected"
  SubmitReplies   \* how a POST to the server may end: "accepted", "refused", "lost"

ASSUME ConstantsAssumption ==
  /\ BatchCnt \in Nat \ {0}
  /\ BatchSize \in Nat \ {0}
  /\ MaxParallel \in Nat \ {0}
  /\ Stoppable \in BOOLEAN
  /\ FetchReplies \subseteq {"ok", "rejected"}
  /\ SubmitReplies \subseteq {"accepted", "refused", "lost"}

Batches == 0..(BatchCnt - 1)

SamplingChanCap == 2 * BatchSize
EncryptionChanCap == BatchCnt

Goroutines == {"worker", "sampler", "fetcher"}
PCs ==
  {"absent", "spawned", "loop", "returned",        \* all of them
   "send", "done",                                 \* the sampler
   "stopSampler", "cancel", "signal", "close",     \* the worker, on its way out
   "put"}                                          \* the fetcher

\* Where a submitter is; "none" before the worker has spawned it.
SubmitterPCs ==
  {"none", "baton", "giveBack", "encrypt", "select",
   "post", "check", "putToken", "putCancel", "returned"}

VARIABLES
  pc,                  \* pc[g]: where goroutine g is
  run,                 \* the Runnables of the worker and of the sampler
  toSample,            \* sampleCount: samples the sampler has still to send
  samplingChan,        \* number of samples in samplingChan
  encryptionChan,      \* indices in encryptionChan
  closes,              \* closes[c]: how often channel c has been closed
  watched,             \* channels the worker's select has not set to nil
  received,            \* received[b]: receivedSamplesCnt of batch b
  sampledBatchesCnt,
  encryptor,           \* "unset", "set" or, built from a refusal, "nil"
  paramsFetched,       \* messages in encryptionParamsFetched
  sub,                 \* sub[b]: where the submitter of batch b is
  cipher,              \* cipher[b]: whether batch b has been encrypted
  rateLimiter,         \* messages in rateLimiter
  cancelSubmission,    \* messages in cancelSubmission
  signals,             \* messages the worker has put into cancelSubmission
  submissionCancelled, \* the atomic flag
  arrived,             \* batches whose POST reached the server
  crashed              \* a goroutine panicked and took the process with it

\* The variables grouped by the steps that touch them.
sampling == <<toSample, samplingChan>>
batching == <<received, sampledBatchesCnt, encryptionChan, closes, watched>>
params == <<encryptor, paramsFetched>>
limits == <<rateLimiter, cancelSubmission, signals, submissionCancelled>>
submitting == <<sub, cipher, arrived, crashed>>
vars == <<pc, run, sampling, batching, params, limits, submitting>>

\* The rate limiter is filled before the first batch exists.
InitialTokensOneTooMany == MaxParallel + 1
InitialTokens == MaxParallel

Init ==
  /\ pc = [g \in Goroutines |-> IF g = "worker" THEN "spawned" ELSE "absent"]
  /\ run = [g \in {"worker", "sampler"} |-> NewRunnable]
  /\ toSample = BatchCnt * BatchSize
  /\ samplingChan = 0
  /\ encryptionChan = <<>>
  /\ closes = [c \in {"sampling", "encryption"} |-> 0]
  /\ watched = {"sampling", "encryption"}
  /\ received = [b \in Batches |-> 0]
  /\ sampledBatchesCnt = 0
  /\ encryptor = "unset"
  /\ paramsFetched = 0
  /\ sub = [b \in Batches |-> "none"]
  /\ cipher = [b \in Batches |-> FALSE]
  /\ rateLimiter = InitialTokens
  /\ cancelSubmission = 0
  /\ signals = 0
  /\ submissionCancelled = FALSE
  /\ arrived = {}
  /\ crashed = FALSE

-----------------------------------------------------------------------------
(* The sampler. *)

Goto(g, from, to) ==
  /\ pc[g] = from
  /\ pc' = [pc EXCEPT ![g] = to]

\* r.Start(), then the sleep until the start time of the task.
SamplerStart ==
  /\ Goto("sampler", "spawned", "loop")
  /\ run' = [run EXCEPT !["sampler"] = StartOf(@)]
  /\ UNCHANGED <<sampling, batching, params, limits, submitting>>

\* The timer fires and GetState still answers running.  In any other state
\* the sampler goes back to its select, which changes nothing.
SamplerTick ==
  /\ run["sampler"].state = "running"
  /\ Goto("sampler", "loop", "send")
  /\ UNCHANGED <<run, sampling, batching, params, limits, submitting>>

HasRoomUnchecked(used) == TRUE
HasRoom(used) == used < SamplingChanCap

\* *sampleChan <- sample, which blocks while the channel is full, and then
\* sampleCount--.
SamplerSend ==
  /\ HasRoom(samplingChan)
  /\ samplingChan' = samplingChan + 1
  /\ toSample' = toSample - 1
  /\ Goto("sampler", "send", IF toSample = 1 THEN "done" ELSE "loop")
  /\ UNCHANGED <<run, batching, params, limits, submitting>>

SamplerDone ==
  /\ Goto("sampler", "done", "loop")
  /\ run' = [run EXCEPT !["sampler"] = DoneOf(@)]
  /\ UNCHANGED <<sampling, batching, params, limits, submitting>>

\* case <-r.ExitChan: Close, and closeChannelFn closes samplingChan.
SamplerExit ==
  /\ Signalled(run["sampler"])
  /\ Goto("sampler", "loop", "returned")
  /\ run' = [run EXCEPT !["sampler"] = CloseOf(Received(@))]
  /\ closes' = [closes EXCEPT !["sampling"] = @ + 1]
  /\ UNCHANGED <<sampling, received, sampledBatchesCnt, encryptionChan, watched,
                 params, limits, submitting>>

Sampler == SamplerStart \/ SamplerTick \/ SamplerSend \/ SamplerDone \/ SamplerExit

-----------------------------------------------------------------------------
(* The fetcher. *)

\* FetchEncryptionParams.  An authority that cannot be reached is polled
\* again, which changes nothing.  A refusal comes with a body that does not
\* decode; neither the status nor the decoding error is looked at, so the
\* encryptor is built from nothing and the fetch counts as successful.
Fetch ==
  /\ Goto("fetcher", "spawned", "put")
  /\ \E reply \in FetchReplies :
       encryptor' = IF reply = "ok" THEN "set" ELSE "nil"
  /\ UNCHANGED <<run, sampling, batching, paramsFetched, limits, submitting>>

FetchPut ==
  /\ Goto("fetcher", "put", "returned")
  /\ paramsFetched' = paramsFetched + 1
  /\ UNCHANGED <<run, sampling, batching, encryptor, limits, submitting>>

Fetcher == Fetch \/ FetchPut

-----------------------------------------------------------------------------
(* The worker: batching. *)

Open(c) == closes[c] = 0

CloseOnceUnguarded(n) == n + 1

\* CloseEncryptionChan: the Swap lets only the first caller close.
CloseOnce(n) == IF n = 0 THEN 1 ELSE n

\* r.Start(), go fetch, StartSampler, and the channels of the submitters.
WorkerStart ==
  /\ pc["worker"] = "spawned"
  /\ pc' = [worker |-> "loop", sampler |-> "spawned", fetcher |-> "spawned"]
  /\ run' = [run EXCEPT !["worker"] = StartOf(@)]
  /\ UNCHANGED <<sampling, batching, params, limits, submitting>>

FillsEarly(cnt) == cnt + 2 >= BatchSize

\* Batch.AddSample: whether one more sample fills a batch of cnt samples.
Fills(cnt) == cnt + 1 = BatchSize

HandOnNext(chan, b) == Append(chan, b + 1)

\* t.encryptionChan <- currentBatchIdx
HandOn(chan, b) == Append(chan, b)

\* Task.AddSample: the sample goes into the current batch; the last sample of
\* a batch hands the batch on, and the last batch closes encryptionChan.
AddSample ==
  LET current == sampledBatchesCnt IN
  /\ received' = [received EXCEPT ![current] = @ + 1]
  /\ \/ /\ Fills(received[current])
        /\ sampledBatchesCnt' = current + 1
        /\ encryptionChan' = HandOn(encryptionChan, current)
        /\ closes' = IF current + 1 = BatchCnt
                       THEN [closes EXCEPT !["encryption"] = CloseOnce(@)]
                       ELSE closes
     \/ /\ ~Fills(received[current])
        /\ UNCHANGED <<sampledBatchesCnt, encryptionChan, closes>>

WorkerSample ==
  /\ pc["worker"] = "loop"
  /\ "sampling" \in watched
  /\ samplingChan > 0
  /\ samplingChan' = samplingChan - 1
  /\ AddSample
  /\ UNCHANGED <<pc, run, toSample, watched, params, limits, submitting>>

WorkerSamplingClosed ==
  /\ pc["worker"] = "loop"
  /\ "sampling" \in watched
  /\ samplingChan = 0 /\ ~Open("sampling")
  /\ watched' = watched \ {"sampling"}
  /\ UNCHANGED <<pc, run, sampling, received, sampledBatchesCnt, encryptionChan, closes,
                 params, limits, submitting>>

\* A full batch: go func(batchIdx int).
WorkerBatch ==
  /\ pc["worker"] = "loop"
  /\ "encryption" \in watched
  /\ encryptionChan # <<>>
  /\ encryptionChan' = Tail(encryptionChan)
  /\ sub' = [sub EXCEPT ![Head(encryptionChan)] = "baton"]
  /\ UNCHANGED <<pc, run, sampling, received, sampledBatchesCnt, closes, watched,
                 params, limits, cipher, arrived, crashed>>

\* The channel is drained and closed: the worker calls Done on itself.
WorkerBatchesClosed ==
  /\ pc["worker"] = "loop"
  /\ "encryption" \in watched
  /\ encryptionChan = <<>> /\ ~Open("encryption")
  /\ watched' = watched \ {"encryption"}
  /\ run' = [run EXCEPT !["worker"] = DoneOf(@)]
  /\ UNCHANGED <<pc, sampling, received, sampledBatchesCnt, encryptionChan, closes,
                 params, limits, submitting>>

-----------------------------------------------------------------------------
(* The worker: its way out, case <-r.ExitChan. *)

WorkerExit ==
  /\ Signalled(run["worker"])
  /\ Goto("worker", "loop", "stopSampler")
  /\ run' = [run EXCEPT !["worker"] = Received(@)]
  /\ watched' = watched \ {"encryption"}
  /\ UNCHANGED <<sampling, received, sampledBatchesCnt, encryptionChan, closes,
                 params, limits, submitting>>

WorkerStopSampler ==
  /\ Goto("worker", "stopSampler", "cancel")
  /\ run' = [run EXCEPT !["sampler"] = StopOf(@)]
  /\ UNCHANGED <<sampling, batching, params, limits, submitting>>

\* CloseEncryptionChan, then submissionCancelled.Store(true).
WorkerCancel ==
  /\ Goto("worker", "cancel", "signal")
  /\ closes' = [closes EXCEPT !["encryption"] = CloseOnce(@)]
  /\ submissionCancelled' = TRUE
  /\ UNCHANGED <<run, sampling, received, sampledBatchesCnt, encryptionChan, watched,
                 params, rateLimiter, cancelSubmission, signals, submitting>>

\* One turn of the loop that puts MaxParallel messages into cancelSubmission.
WorkerSignal ==
  /\ Goto("worker", "signal", IF signals + 1 = MaxParallel THEN "close" ELSE "signal")
  /\ signals' = signals + 1
  /\ cancelSubmission' = cancelSubmission + 1
  /\ UNCHANGED <<run, sampling, batching, params, rateLimiter, submissionCancelled,
                 submitting>>

\* cleanup, which does nothing, and Close.
WorkerClose ==
  /\ Goto("worker", "close", "returned")
  /\ run' = [run EXCEPT !["worker"] = CloseOf(@)]
  /\ UNCHANGED <<sampling, batching, params, limits, submitting>>

Worker ==
  \/ WorkerStart \/ WorkerSample \/ WorkerSamplingClosed
  \/ WorkerBatch \/ WorkerBatchesClosed
  \/ WorkerExit \/ WorkerStopSampler \/ WorkerCancel \/ WorkerSignal \/ WorkerClose

-----------------------------------------------------------------------------
(* The submitter of batch b. *)

SubGoto(b, from, to) ==
  /\ sub[b] = from
  /\ sub' = [sub EXCEPT ![b] = to]

KeepBaton == "encrypt"
AfterBaton == "giveBack"

\* <-encryptionParamsFetched
TakeBaton(b) ==
  /\ paramsFetched > 0
  /\ paramsFetched' = paramsFetched - 1
  /\ SubGoto(b, "baton", AfterBaton)
  /\ UNCHANGED <<pc, run, sampling, batching, encryptor, limits, cipher, arrived, crashed>>

\* encryptionParamsFetched <- true, for the next submitter.
GiveBaton(b) ==
  /\ SubGoto(b, "giveBack", "encrypt")
  /\ paramsFetched' = paramsFetched + 1
  /\ UNCHANGED <<pc, run, sampling, batching, encryptor, limits, cipher, arrived, crashed>>

\* EncryptBatch may fail; the submitter then logs that it aborts and goes on.
EncryptBatch(b) ==
  /\ encryptor # "nil"
  /\ SubGoto(b, "encrypt", "select")
  /\ \E ok \in BOOLEAN : cipher' = [cipher EXCEPT ![b] = ok]
  /\ UNCHANGED <<pc, run, sampling, batching, params, limits, arrived, crashed>>

\* Calling Encrypt on the nil encryptor panics; nothing recovers it.
EncryptPanic(b) ==
  /\ encryptor = "nil"
  /\ sub[b] = "encrypt"
  /\ crashed' = TRUE
  /\ UNCHANGED <<pc, run, sampling, batching, params, limits, sub, cipher, arrived>>

\* The two cases of the select.
TakeToken(b) ==
  /\ rateLimiter > 0
  /\ rateLimiter' = rateLimiter - 1
  /\ SubGoto(b, "select", "post")
  /\ UNCHANGED <<pc, run, sampling, batching, params, cancelSubmission, signals,
                 submissionCancelled, cipher, arrived, crashed>>

KeepCancel == "returned"
AfterCancel == "putCancel"

TakeCancel(b) ==
  /\ cancelSubmission > 0
  /\ cancelSubmission' = cancelSubmission - 1
  /\ SubGoto(b, "select", AfterCancel)
  /\ UNCHANGED <<pc, run, sampling, batching, params, rateLimiter, signals,
                 submissionCancelled, cipher, arrived, crashed>>

\* cancelSubmission <- true, so that the next submitter is cancelled too.
PutCancel(b) ==
  /\ SubGoto(b, "putCancel", "returned")
  /\ cancelSubmission' = cancelSubmission + 1
  /\ UNCHANGED <<pc, run, sampling, batching, params, rateLimiter, signals,
                 submissionCancelled, cipher, arrived, crashed>>

AfterPostLeaky(reply) == IF reply = "accepted" THEN "check" ELSE "returned"
AfterPost(reply) == "check"

\* SubmitCipher returns.  The request of a lost answer may have arrived.
SubmitCipher(b) ==
  /\ \E reply \in SubmitReplies :
       /\ SubGoto(b, "post", AfterPost(reply))
       /\ \/ reply \in {"accepted", "lost"} /\ arrived' = arrived \union {b}
          \/ reply \in {"refused", "lost"} /\ UNCHANGED arrived
  /\ UNCHANGED <<pc, run, sampling, batching, params, limits, cipher, crashed>>

\* if !submissionCancelled.Load(): the flag is read here, the token put back
\* in a step of its own.
CheckCancelled(b) ==
  /\ SubGoto(b, "check", IF submissionCancelled THEN "returned" ELSE "putToken")
  /\ UNCHANGED <<pc, run, sampling, batching, params, limits, cipher, arrived, crashed>>

PutToken(b) ==
  /\ SubGoto(b, "putToken", "returned")
  /\ rateLimiter' = rateLimiter + 1
  /\ UNCHANGED <<pc, run, sampling, batching, params, cancelSubmission, signals,
                 submissionCancelled, cipher, arrived, crashed>>

Submitter(b) ==
  \/ TakeBaton(b) \/ GiveBaton(b) \/ EncryptBatch(b) \/ EncryptPanic(b)
  \/ TakeToken(b) \/ SubmitCipher(b) \/ CheckCancelled(b) \/ PutToken(b)
  \/ TakeCancel(b) \/ PutCancel(b)

-----------------------------------------------------------------------------
\* task.stopFn, called by the owner of the task.
Stop ==
  /\ Stoppable
  /\ run' = [run EXCEPT !["worker"] = StopOf(@)]
  /\ UNCHANGED <<pc, sampling, batching, params, limits, submitting>>

AllReturned ==
  /\ \A g \in Goroutines : pc[g] = "returned"
  /\ \A b \in Batches : sub[b] = "returned"

\* Nothing is left to run.
Terminated == AllReturned /\ UNCHANGED vars

Next ==
  \/ /\ ~crashed
     /\ \/ Sampler \/ Fetcher \/ Worker \/ Stop
        \/ \E b \in Batches : Submitter(b)
  \/ Terminated

\* Every goroutine is scheduled; timers fire, the authority is eventually
\* reached and every HTTP request eventually ends.  Nobody has to call Stop.
Fairness ==
  /\ WF_vars(~crashed /\ Sampler)
  /\ WF_vars(~crashed /\ Fetcher)
  /\ WF_vars(~crashed /\ Worker)
  /\ \A b \in Batches : WF_vars(~crashed /\ Submitter(b))

Spec == Init /\ [][Next]_vars
FairSpec == Spec /\ Fairness

-----------------------------------------------------------------------------
(* Properties. *)

\* Batches whose submitter is at one of the places S.
Holders(f, S) == {b \in Batches : f[b] \in S}
At(S) == Holders(sub, S)

\* Every variable stays in its range; in particular no channel ever holds
\* more messages than it was made for (sensor/task.go NewTask,
\* sensor/task-worker.go taskWorker).
TypeOK ==
  /\ pc \in [Goroutines -> PCs]
  /\ run \in [{"worker", "sampler"} -> RunnableType]
  /\ toSample \in 0..(BatchCnt * BatchSize)
  /\ samplingChan \in 0..SamplingChanCap
  /\ encryptionChan \in Seq(Batches) /\ Len(encryptionChan) <= EncryptionChanCap
  /\ closes \in [{"sampling", "encryption"} -> Nat]
  /\ watched \subseteq {"sampling", "encryption"}
  /\ received \in [Batches -> 0..BatchSize]
  /\ sampledBatchesCnt \in 0..BatchCnt
  /\ encryptor \in {"unset", "set", "nil"}
  /\ paramsFetched \in 0..1
  /\ sub \in [Batches -> SubmitterPCs]
  /\ cipher \in [Batches -> BOOLEAN]
  /\ rateLimiter \in 0..MaxParallel
  /\ cancelSubmission \in 0..MaxParallel
  /\ signals \in 0..MaxParallel
  /\ submissionCancelled \in BOOLEAN
  /\ arrived \subseteq Batches
  /\ crashed \in BOOLEAN

\* No sample is lost, counted twice or put into the wrong batch between the
\* sampler and the batches: the batches before the current one are full, the
\* ones after it are empty, and what is sampled, buffered and still to come
\* adds up (sampler, Task.AddSample, Batch.AddSample).
SamplesConserved ==
  /\ \A b \in Batches :
       /\ b < sampledBatchesCnt => received[b] = BatchSize
       /\ b > sampledBatchesCnt => received[b] = 0
       /\ b = sampledBatchesCnt => received[b] < BatchSize
  /\ toSample + samplingChan + sampledBatchesCnt * BatchSize
       + (IF sampledBatchesCnt < BatchCnt THEN received[sampledBatchesCnt] ELSE 0)
     = BatchCnt * BatchSize

\* Each full batch is handed on exactly once and in order: the batches with a
\* submitter, then those waiting in encryptionChan, are the full ones.
OneSubmitterPerBatch ==
  LET spawned == sampledBatchesCnt - Len(encryptionChan) IN
  /\ \A b \in Batches : sub[b] # "none" <=> b < spawned
  /\ \A i \in 1..Len(encryptionChan) : encryptionChan[i] = spawned + i - 1

\* The calls that would panic or block the worker are never reached: a sample
\* for a batch that does not exist, a send on a closed or full encryptionChan,
\* a send on the closed samplingChan, a second close of either channel
\* (CloseEncryptionChan is called from AddSample and from the exit path).
ChannelsSafe ==
  /\ \A c \in DOMAIN closes : closes[c] <= 1
  /\ pc["sampler"] \in {"send", "done"} => Open("sampling")
  /\ pc["sampler"] = "send" => toSample > 0
  /\ (pc["worker"] = "loop" /\ samplingChan > 0) =>
       /\ sampledBatchesCnt < BatchCnt
       /\ Open("encryption")
       /\ Len(encryptionChan) < EncryptionChanCap

\* The message in encryptionParamsFetched is a baton: one submitter at a time
\* takes it and puts it back, and none encrypts before the fetcher put it in.
ParamsBaton ==
  /\ paramsFetched + Cardinality(At({"giveBack"}))
       = IF pc["fetcher"] = "returned" THEN 1 ELSE 0
  /\ At(SubmitterPCs \ {"none", "baton"}) # {} => encryptor # "unset"

\* A token is in rateLimiter or with a submitter that posts, until the
\* cancellation takes tokens out of circulation; they never multiply, so at
\* most MaxParallel POSTs run at once and giving a token back never blocks.
SubmissionTokens ==
  LET held == Cardinality(At({"post", "check", "putToken"})) IN
  /\ rateLimiter + held <= MaxParallel
  /\ ~submissionCancelled => rateLimiter + held = MaxParallel

\* A cancel message is in cancelSubmission or with the submitter that passes
\* it on: putting one in never blocks, and none gets lost while submitters
\* are still waiting for it.
CancelMessages ==
  /\ cancelSubmission + Cardinality(At({"putCancel"})) = signals
  /\ signals > 0 => submissionCancelled

Stage(b) ==
  IF b >= sampledBatchesCnt THEN "open"
  ELSE IF sub[b] \in {"none", "baton", "giveBack", "encrypt", "select"} THEN "sealed"
  ELSE IF sub[b] = "post" THEN "posting" ELSE "closed"

Pipeline == INSTANCE BatchPipeline WITH stage <- [b \in Batches |-> Stage(b)]

\* The task implements the batch pipeline (BatchPipeline): whatever the
\* goroutines do, batches complete in order, at most MaxParallel are posted
\* at once and each at most once.
ImplementsPipeline == Pipeline!Spec

\* A task nobody stops ends: all samples are taken, every batch goes through
\* its submitter, and all goroutines return.
Completes == <>AllReturned

\* A worker that was stopped while it ran returns, whatever its channels hold.
WorkerStops ==
  run["worker"].state = "stopped" ~> (pc["worker"] = "returned" \/ crashed)

\* No submitter is left behind waiting for the baton, a token or a cancel
\* message, also when the task is stopped under it.
SubmittersReturn ==
  \A b \in Batches : sub[b] = "baton" ~> (sub[b] = "returned" \/ crashed)

\* The two ways a sampler outlives its worker: stopped before it called Start
\* it never gets a message, and once nobody drains samplingChan it can block
\* on a full one.
SamplerStranded ==
  run["sampler"].state = "cancelled" \/ samplingChan = SamplingChanCap

\* In every other case the worker's stopSampler() ends the sampler.
SamplerStops ==
  (pc["worker"] = "returned" /\ ~SamplerStranded) ~> (pc["sampler"] = "returned" \/ crashed)

\* "http request cancelling in case the task daemon has been stopped"
\* (task-worker.go): only a task that was stopped cancels submissions.
CancelledOnlyWhenStopped ==
  At({"putCancel"}) # {} => run["worker"].state = "stopped"

\* "could not encrypt batch ...; aborting..." (task-worker.go): a batch whose
\* encryption failed is not submitted.
AbortedNotSubmitted == \A b \in At({"post"}) : cipher[b]
=============================================================================
