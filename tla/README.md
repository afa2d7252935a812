# Specifications of fe-private-sampler

TLA+ models of the private sampling system in `src/`, their model checking with
TLC, and theorems about them checked by TLAPS.

Three Go programs work together. A **server** accepts measuring tasks for the
sensors of a customer; an **authority** generates the keys of a functional
encryption scheme for each task; **sensors** sample, group the samples into
batches, encrypt each batch and post the ciphers to the server, which can
decrypt nothing but the weighted sum of all samples, with a key the authority
derives from the rates of the task.

## 1. Inventory

### Components

| Component (source) | State | Operations | Interacts through |
|---|---|---|---|
| Runnable (`common/runnable.go`) | `state`, `ExitChan` (room for one message), a mutex | Start, Stop, Done, Fail, Close, GetState | every long-lived goroutine has one; its creator calls Stop, the goroutine the rest |
| Sensor sampler (`sensor/sampler.go`) | samples left, cursor into the sequence | tick, send, Done, exit | writes `samplingChan`, closes it; read by the task worker |
| Sensor task worker (`sensor/task-worker.go`, `task.go`, `batch.go`) | batches with counters, `sampledBatchesCnt`, `encryptionChan` and its closed flag, rate limiter, cancel channel, cancel flag | add a sample, hand a batch on, finish, be stopped | spawns sampler, fetcher, and a submitter per batch |
| Sensor encryptors and clients (`sensor/fe.go`, `authority.go`, `server.go`) | the encryptor (nil until fetched) | fetch parameters, encrypt, submit | HTTP to authority and server |
| Server task worker (`server/task-worker.go`, `task.go`, `authority.go`) | `feDecryptor`, `decryptionParamsFetchedChan`, counters | submit the task, poll, send rates, poll, fetch the key; submit to sensors; add a cipher | HTTP to authority and sensors; one goroutine per cipher |
| Decryptors (`server/fe.go`) | received ciphers, processing times, result | AddCipher (concurrent), GetStats | called from AddCipher goroutines |
| Authority task and generators (`authority/task.go`, `fe.go`, `task-worker.go`) | `schemaParamsStatus`, the shared SchemaParams, maps of decryption parameters and their statuses | generate keys, hand out encryption parameters, derive and publish a decryption key | its handlers; one goroutine per derivation |
| Task daemon and host (`common/task-daemon.go`, `host.go`) | queue of 15 tasks | enqueue, start a worker, end | HTTP handlers write, the daemon reads |
| Server registry (`server/server.go`, `customer.go`, `sensor.go`) | maps of customers, sensors, tasks | create, register, remove, snapshot for a task | handlers run concurrently |
| Sensor configuration (`sensor/sensor.go`, `endpoints.go`) | server, customer | set once, register | handlers |
| Sequence generator and tariffs (`common/repeated-seq-gen.go`, `server/tariff.go`) | one growing sequence per process | read with a private cursor | all samplers of a sensor; all tasks of the server |
| HTTP transport, marshalling, logging, ids, mains | - | - | I/O and formats |

### Hard behaviours

* Up to `3 + BatchCnt` goroutines share seven channels and two flags in one
  sensor task; `select` chooses among ready cases at random; closing, sending
  and receiving race with Stop.
* A message in a channel is used as a baton (`encryptionParamsFetched`), as a
  token (`rateLimiter`) and as a broadcast passed on from goroutine to
  goroutine (`cancelSubmission`).
* The authority publishes a status and the thing it announces in two steps.
* Ciphers arrive before the key that decrypts them.
* `AddCipher` runs in one goroutine per cipher, and the library's lock covers
  only a part of it; `GetStats` reads along.
* Handlers of the registry and of the addresses that are set once load, decide
  and store in separate steps.
* A sampler, the worker's `AddSample` and a request for the samples share
  counters and slices of which only the counters are atomic.
* Requests fail, or succeed without their caller knowing; several errors are
  dropped (`Authority.SubmitTask`, `SendRates`, `GetEncryptionParams`).

`PROJECT.json` lists each hazard at its line, with the properties that cover it.

### What makes each component correct

* Runnable: one message per life, none after Close; the first decision stands;
  an ended goroutine returns.
* Sensor task: no sample is lost or misplaced; each batch is handed on once and
  in order; the channels are closed once and never written after; the number of
  parallel posts is bounded; nobody waits for ever, also when stopped.
* Key exchange: keys before sensors, decryptor before ciphers, one index per batch,
  no endless polling, no cipher left behind.
* Decryptors: every cipher counts once, in whatever order; exactly one goroutine
  computes the result, after the last; figures are shown only when written.
* Task daemon: every accepted task gets one worker, or waits.
* Server registry: no registration is lost from its customer; one object per
  sensor, each listing the other, unless registrations overlap; a task is
  complete when the daemon gets it.
* Sensor configuration: an address that is set stays.
* Sequence generator: all readers of a process get one sequence, within the
  bound of a reader; the samples shown are those that were stored.

## 2. Modules

| Module | Models | Extends / uses |
|---|---|---|
| `Runnable` | the record and its methods as operators; two lemmas | |
| `RunnableLifecycle` | goroutines of the template in `runnable.go`; proofs at its end | `Runnable` |
| `BatchPipeline` | abstract: what a sensor promises about batches | |
| `SensorTask` | sampler, fetcher, worker, submitters of one task | `Runnable`; `INSTANCE BatchPipeline` |
| `SensorTaskProofs` | inductive invariant and theorems | `SensorTask` |
| `SensorTaskRefinement` | the steps of a task as steps of the pipeline | `SensorTaskProofs` |
| `KeyExchange` | one task across server, authority and sensors | |
| `KeyExchangeProofs` | invariants and theorems | `KeyExchange` |
| `Collector` | abstract: what the server promises about the ciphers of a task | |
| `Decryptor` | goroutines of `AddCipher` in the three decryptors, `GET /task/:id` | `INSTANCE Collector` |
| `DecryptorProofs` | inductive invariant, theorems, step refinement | `Decryptor` |
| `TaskDaemon` | bounded channel, blocking handler, daemon | `Runnable` |
| `ServerHost` | registration, addresses, tariffs, creation of a task | `TaskDaemon` |
| `MCServerHost` | symmetry for TLC | `ServerHost` |
| `ServerHostProofs` | three invariants and theorems | `ServerHost` |
| `SequenceGenerator` | the shared sequence and its readers | |
| `Sampling` | a task from its request to its samples or rates, `GET` of the samples | `TaskDaemon`, `SequenceGenerator` |
| `SamplingProofs` | inductive invariant and theorems | `Sampling` |

The constants are small numbers and sets, so the `.cfg` files instantiate the
modules directly; only `ServerHost` has an MC module, for its symmetry.

**Runnable.** Each method holds the mutex throughout, so it is an operator from
record to record; `exit` counts the messages in `ExitChan`. `SensorTask` uses
the same operators for the handles of the worker and of the sampler.

**SensorTask.** A step is one atomic access to shared state: a channel
operation, a method of a Runnable, an atomic flag, the end of a request.
`pc[g]` is where the worker, sampler or fetcher is, `sub[b]` where the submitter
of batch `b` is; a channel is a counter, except `encryptionChan`, whose order
matters. `watched` is the set of channels the worker has not set to nil. The
worker's exit path has a step for `stopSampler`, one for closing and setting the
flag, one per cancel message and one for Close, because submitters and sampler
run in between. Ticks and failed fetches that change nothing are stuttering.
`closes[c]` counts the closes of a channel instead of raising a panic, so that
the invariant can say there is at most one. `cleanup` is empty in the code.
`Stop` is the task's `stopFn`; nothing in this version calls it outside the
Runnable, the constant `Stoppable` says whether the owner may.

**KeyExchange.** A request is one step of its caller, with the handler inside;
`lost` chooses whether the caller sees a failure, with or without the handler
having run. The steps that matter inside the authority are separate:
`GenerateStart/Generate/GenerateEnd` for `SetFEParams`, and
`Derive/DeriveSetStatus/DeriveStore` for the goroutine of
`AddNewDecryptionParams`. `clients` is the `NumClients` of the SchemaParams the
multi generator shares with everyone it hands it to; `key` and `decryptor`
carry the number on to the server. A place in the model is an entry of
`Task.Sensors`, not a sensor: `task.sensorIds` has the id of each, two may be the
same, and `getSensorIdx` looks for the first, as the authority does. `sen` and `cip`
are per entry, since the sensor is sent the task once for each and runs a `Task` of
its own for each. An id is named after its first entry, which stands for all lists
with the same repetitions. `crashed` is a panic in a server goroutine,
`up` is FALSE after one in the authority. An `AddCipher` is one step, with its
type assertion and its index.

`BuildDecryptor` is what `Decryptor` starts from, and its `Arrive` and `Open` are
the `PostCipher` and `CloseFetchedChan` of `KeyExchange`, whose one-step
`AddCipher` it refines, in tasks that list no sensor twice.

**Decryptor.** `pc[c]` follows the goroutine of cipher `c` through `AddCipher`;
the library's `ParallelDecryption` is one step that takes a cipher and tells
whether it was the last. Where goroutines read what others write without a lock,
the outcome is a choice: the sum over `PartialProcessingTimes` may find nil as
long as some flag in `ReceivedCiphers` is not set, and a reader of the dummy's
number may find half of its first update. An unlocked addition is a read and a
write. `Collector` is the abstract server: take, report, fail.

**TaskDaemon, ServerHost.** A step is one access to what handlers share: an
operation of a `sync.Map`, a section under a customer's lock, a read or write of
an unprotected field. The two appends of `Customer.AddSensor` are split, because
`Sensor.Customers` is written under the lock of a customer that may be another's.
The read and the write of a slice header are atomic in the model; torn headers
are left out. A request that is refused leaves nothing behind. `overlaps` is a
history variable: it remembers which handlers have ever run at the same time, so
that `SoundAlone` can say what only an overlap breaks. Nothing in this version
calls the daemon's stop function, which the host keeps; `Stoppable` lets it
happen.

**SequenceGenerator, Sampling.** `drawn[r]` is what reader `r` has read, its
cursor the length. `Sampling` has both users of the generator: a process is a
sensor, whose daemon starts samplers, or a server, whose workers generate rates.
`counted` and `stored` are the two halves of `Batch.AddSample`; batches fill one
after the other, so one number per task is enough. In `GetSamples` a load is one
step together with whatever comes right before it: a read of elements that were
stored commutes with everything the worker does.

## 3. Runs

| Run | Bounds | Shows |
|---|---|---|
| `runnable_lifecycle` | 3 goroutines | ExitChan is safe, decisions are final, ended goroutines return |
| `sensor_task_completes` | 3 batches of 2, 2 at once, posts accepted, refused or lost; not stopped | all safety invariants, the refinement of `BatchPipeline`, completion |
| `sensor_task_stopped` | 2 batches of 2, 2 at once, may be stopped at any step, the authority may refuse | the inductive invariant of the proofs, the refinement, and that worker, submitters and sampler return |
| `key_exchange` | a list of 2 sensors or of one sensor twice, 1 or 2 batches of 12, encrypted or not, any request lost | ordering of keys, sensors, decryptor and ciphers; an index names one batch of one sensor; no endless polling |
| `decryptor` | 3 ciphers, all three schemas, library calls that may fail | the refinement of `Collector`, one finisher, consistent figures, when a panic or a lost sum is possible |
| `server_host` | 2 customers, 1 sensor id, 2 registrations, 2 tasks, 2 settings of 2 addresses, channel of 1, daemon may be stopped | what reaches the daemon, what the registry keeps, what overlaps can break |
| `sampling` | 2 tasks under one id, 2 batches of 2, values 0 and 1 or the bound 0, channels of 1 | one sequence, true answers, every task is sampled |
| `runnable_stop_early`, `sensor_task_cancelled`, `sensor_task_aborted`, `key_exchange_ready`, `key_exchange_clients` | smallest instance | the disagreements of section 6 |

Some hazards of `PROJECT.json` the code does not avoid: a stranded sampler, polls of a
failed request, unlocked sums and figures, overlapping registrations and settings. There
a property does not rule the failure out but says what it takes (which overlap, which
order), so that it would notice if less sufficed; the `note` of the hazard says so.

Why the bounds are enough to be interesting: three batches and two tokens let a
batch wait while two are posted; `samplingChan` holds four of six samples, so
the sampler meets a full channel; two batches with a stop at any step reach
every order of last batch, stop and sampler. In the key exchange two entries,
of one sensor or of two, and up to two batches select all three generators; batch size 12 makes the
index of the dummy generator leave its array for one batch and stay inside for
two. Three ciphers let one goroutine finish while two others are at different
places between the library call and their flag. Two registrations, two tasks and
two settings are the smallest number that overlap; one sensor id makes the two
registrations meet, with one customer or with two; a channel of one makes the
second handler wait. Two tasks of two batches of two samples let one sampler
replay what the other has drawn, overtake it, and a request meet an empty, a
partly filled and a full batch; the channel between sampler and worker has room
for one instead of four samples there, which bounds how far the sampler is ahead.
What is proved (below) does not depend on the bounds.

`server_host` uses the symmetry of requests, customers and addresses; it has no
liveness property. `sampling` names tasks by the order of their requests instead.

Deadlock: `SensorTask` has an explicit `Terminated` step and
`sensor_task_completes` checks for deadlock. A stopped task, one that crashed,
Runnables nobody stops, a finished key exchange, a host without requests and a
process that has panicked really come to rest, and those runs switch the check
off.

### Fairness and environment

* A goroutine that can take a step takes one: weak fairness of each goroutine
  (Go's scheduler is preemptive). In a `select` no case is favoured or promised.
* Timers fire. The fetcher reaches the authority eventually, and a request ends
  eventually. The Go client sets no timeout (`common/remote-http-server.go`), so
  this is an assumption about the network, not a guarantee of the code.
* In `Decryptor` each goroutine of a cipher goes on; no cipher has to arrive, no
  decryptor has to come, nobody has to ask.
* In `Sampling` some goroutine goes on as long as one can; which one is left open,
  which is all `TasksSampled` needs.
* In `KeyExchange` no request has to be lost, no sensor has to fetch or post,
  and nobody has to stop a task or a Runnable.

The liveness properties except `Completes` allow for a crash of the process,
where the model has one (`TasksSampled` for the panic of a task with bound 0,
`ImplementsCollector` for failing library calls); `Completes` is checked where the authority accepts.

## 4. Proofs

Every invariant and every action property of the passing runs is a theorem, for
every value of the constants, and so are the steps of both refinements. Theorems
that no run states are invariants the liveness properties or the findings rest on;
they were checked by TLC on the constants of the component's run before they were
proved.

Assumptions: only the named ones on constants: `ConstantsAssumption` of
`SensorTask`, `KeyExchange` and `Decryptor` (positive sizes, subsets of the
listed answers), `SizesAssumption`, `BoundsAssumption` and `DaemonAssumption` of
`Sampling` and the modules it extends (sizes are positive, bounds and readers are
numbers, None is no reader), and `NoneAssumption` of `ServerHost` (None, for nil
and for the zero value, is no customer, object or address); `Routines` is any set.
All proofs are invariance arguments, most of them the same way: the invariant is a
conjunction of named parts, there is a lemma for each action, or for all actions
of one actor, and in it a step for each part that the action can disturb.

**RunnableLifecycle.** `ExitChanSafe` is not inductive: it does not know that
Start comes first. `InStep` adds that a goroutine that has not started is
created or cancelled and one that has is not created. A step changes one
goroutine, so `StepOfOne` reduces each action to the values of one record.
Theorems `TypeCorrect`, `ExitChanIsSafe`, and from the same invariant `DecisionsAreFinal`.

**SensorTaskProofs.** The counting invariants speak about numbers of submitters
at some places; lemmas `HoldersEnter`, `HoldersLeave` and `HoldersStay` say how
a move of one submitter changes such a number. `IInv` is the conjunction of the
type, the checked invariants and three parts that say where sampler, worker
and fetcher are relative to the channels: for instance that
`encryptionChan` is closed exactly when the last batch is full until the worker
cancels, which is why a second close does nothing and no sample comes after it.
There is a lemma for each goroutine and a step for each action. Theorems, for every number of batches,
batch size and limit: `TypeCorrect`, `SamplesAreConserved`,
`BatchesHandedOnOnce`, `BatonIsUnique`, `TokensConserved`, `CancelsConserved`,
`NoChannelPanics`. `IInv` itself is an invariant of `sensor_task_stopped`.

Two more follow with `WorkerEnds`, which ties the worker's Runnable to its place
and to `encryptionChan`: it calls Done only over a drained and closed channel, and
once it closes it has put all its cancel messages in. `TasksEndWhole`: a task is
done only when no sample and no batch is left behind, and where nobody may stop it
even the submissions it cancels as it returns (`sensor_task_cancelled`) are of
batches that were all handed on. `NobodyWaitsInVain`: a submitter that waits for
the baton, a token or a cancel message has one waiting for it, or somebody on the
way to put it back; with the counting invariants this is the safety part of
`SubmittersReturn`.

`SamplersAreTold` is that of `SamplerStops`. `SamplerTold` follows the sampler's
Runnable: once it has ended its message stays until the sampler returns, and a
worker past `stopSampler` leaves none running. So a sampler that outlives its worker
was only marked before it started, or blocks on a full `samplingChan`, or has its
message and reaches its select.

**SensorTaskRefinement.** `Stage(b)` reads the pipeline's stage of a batch off
`sampledBatchesCnt` and its submitter. The batch that gets full is the open one of
lowest index by definition, and `RoomForSample` says that there is one
(`SampleCollected`); handing it to a
submitter is not seen, because `OneSubmitterPerBatch` says it had none
(`SpawningUnseen`); a token can be taken only when fewer than `MaxParallel` batches
are posting, because `SubmissionTokens` bounds tokens and posting together
(`TokenStartsPost`); a cipher may arrive only while its batch is posting
(`PostEnds`). All other steps are stutters. Theorem `TaskImplementsPipeline`, for
the whole of `Pipeline!Spec`, which has no fairness.

**KeyExchangeProofs.** `SchemaReadyPastPolling`: once anything beyond the first
polling loop has happened the schema is ready, and stays so because the
authority's worker has returned. `KeyInStep` ties the position of the task
worker to `key`, `decryptor` and the channel. Theorems
`KeysComeBeforeSensors`, `DecryptorComesBeforeCiphers`, for any number of
sensors and batches, with and without lost requests.

`TypeCorrect`: `TypeOK` is inductive by itself, since a number of clients is copied
from generator to key to decryptor and `task.batchCnt`, which a sensor's request
writes over it, is at most `Total`. `IndicesNameOneBatch` needs `CiphersServed`:
only a sensor its schema serves ever posts, and only batches of the task; then
indices are `s * m + b` with `b` below `m` and `s` the entry `getSensorIdx` finds,
which `OffsetsApart` and `OffsetsBounded` tell apart and bound, or all of the sensor
of entry 0. `FirstEntryFound` is what the search returns: an entry with the same id,
none later than the one that asks.
`MisfitsAreOfLaterSensors` is what the finding `key_exchange_clients` can do at
most. `Sizes` follows the number of clients on its way: it is that of all ciphers,
or, once a sensor of a multi schema has asked, that of one sensor's batches; so the
ciphers of the sensor of entry 0, and those of the other schemas, always fit.
`PollingIsNotInVain` rests on `StatusInStep`: "created" is stored when a goroutine
of the authority starts and replaced before it ends, an id is handed out only with
a status, and the decryptor is built right before the channel is closed. It is the
safety part of `WorkerReturns` and `CiphersGoOn`.

`PanicsHaveTheirCauses` names, where no request is lost, every state in which the
server can have panicked: it polls before the authority's worker has stored a status,
it polls an authority that died deriving the key of a dummy, or `AddCipher` meets a
cipher that is nil or, by `MisfitsAreOfLaterSensors`, one of another sensor than the first. `Causes`
adds that nothing derives before the rates are sent and that only a lost answer
leaves the id empty.

**DecryptorProofs.** What is checked says little about who is where, so the
invariant adds it. `Counted`: a goroutine that has not come to its count is still
missing, and one on its way to the result is the one that was told so; as only
one can count last, `last` has at most one member. `Placed`: which decryptor takes
which way. `Written`: an entry before its flag, all times before `ResultReady`, and
a cipher of the multi decryptor is missing, flagged, or between the two - which is
what a panic needs. `Ended`: a result is the last step of the one goroutine that
could bring it, and after a failed call none can. `Added`: without overlap at most
one goroutine is between reading and writing the sum. `Shown`: what a request has
read stays true. Theorems, for every number of ciphers, all three decryptors, with
and without failing calls: `TypeCorrect`, `OneGoroutineFinishes`,
`StatsAreConsistent`, `CrashesNeedOverlap`, `SumIsExact`, and
`StepsImplementCollector`, that `Decryptor` implements the safety part of
`Collector` (the fairness of `Report` is checked by `decryptor`). `ResultComes` is
what that fairness rests on: with all ciphers taken and no failure, the goroutine
that was told so is on its way to the result.

**SamplingProofs.** `OneSequence` compares readers with each other; `Reading`
compares each with the one installed generator instead, says that no other ever
grows, and that each position of the sequence was drawn by a reader within its
bound. `Requested` is why a reader has a bound: who has a worker or waits for the
daemon came with a request. `Sampled` orders stored, counted and drawn samples.
`Answering` is an interval for each batch a request has read, between what was
stored when it came and what is stored now; the counter it holds may be ahead by
the sample that is being stored. Lemmas `InBatchMonotone` and `InBatchEmpty` carry
the intervals along. `TypeCorrect` adds that a value drawn is below a bound of
somebody (`DrawnWithinBounds`) and that the daemon keeps its types. Theorems, for
any number of tasks, ids, batches, bounds and channel sizes: `TypeCorrect`,
`ReadersGetOneSequence`, `AnswersAreTrue`.

`NoTaskIsForgotten` is the safety part of `TasksSampled`. `HandedOnce` says that
started and waiting tasks together are the accepted ones, each once, and that nothing
ends the daemon; hence an accepted task waits for a daemon that goes on or has one
worker, and `Sampled` leaves somebody a step until the last sample is stored.

**ServerHostProofs.** Three invariants, one on top of the others. `RegistryInv`:
`Locked`, that who is between lock and unlock of a customer holds its lock and what
it has read of the list is still the list, which makes the split append safe;
`ObjectsNamed`, that an object stays under the id it was made for; `Kept`, that the
places of an object in a list are as many as the registrations that put it there;
`Alone`, what holds while no two registrations have overlapped: there is at most
one, and what it has read is still true. `SettingInv`: an address that is set was
set by somebody, and without overlap at most one request is about to set it, while
it is not set. `TasksInv`: what each step of `addTaskEndpoint` has found stays true
(`JobSound`), since lists only grow (`MembersGrow`, `SensorsStay`), an address that
is set is not unset and its setter does not forget (`CellsStand`, `ToldStays`), and
the map only grows; so the checks and the copies, though in different steps, are of
one valid task. Theorems, for any number of requests, customers, sensors, addresses
and tasks: `RegistrationsStayListed`, `AddressesStand`, `RequestsAloneAreSound`,
`AcceptedTasksKept`, `HandedTasksComplete`, `TypeCorrect`; and, stated in the module
only, `LocksComeBack` (a lock that is taken has a holder inside `AddSensor`, so who
waits for it waits for somebody who waits for nobody) and `TasksStartInOrder` (the
tasks handed over grow at the end only, also while the daemon takes one).

Only model-checked: liveness (`EndedReturns`, `Completes`, `WorkerStops`,
`SubmittersReturn`, `SamplerStops`, `WorkerReturns`, `CiphersGoOn`, `TasksSampled`,
and the fairness of `Collector`), which is out of the prover's reach; for several of
them the safety part named above is proved. For `EndedReturns` that part is
`ExitChanSafe`: a goroutine that has ended and has not returned has its message.

## 5. Not modelled, and why

* Time and the mathematics of the encryption (external library); HTTP routing,
  marshalling and logging (I/O, represented by their outcomes).
* `RemoveFromCustomer`, `removeSensorEndpoint` and `removeTaskEndpoint`: they are
  registered as DELETE, and `common/http-server.go:75-82` routes only POST and
  GET, so no request reaches them.
* A closed `taskChan`: nothing closes it (`common/host.go:8`), and `StopTaskDaemon` is
  empty.
* `GET /customer/:id` and `GET /register` only read; the request the latter
  sends is a `PostSensor` of `ServerHost`.
* Validation of request bodies: a refused request changes nothing. The one caller
  that looks at a refusal is `SubmitTask` of `KeyExchange`.
* An empty customer id: `setCustomerEndpoint` (`sensor/endpoints.go:72-76`) takes it
  for "not set", answers with success and sets nothing. `Addresses` of `ServerHost`
  has no such value (`NoneAssumption`), so what `SoundAlone` says of an answered
  setting is said of the other ids.
* `Decryptor` has one cipher per index: a task that lists a sensor twice, whose
  ciphers collide (section 6), is followed in `KeyExchange` only.
* Several tasks on one sensor share the sequence generator (`Sampling`) and, as
  each has channels and limits of its own, nothing else; hence one task in
  `SensorTask`.

## 6. Disagreements between code and comments

* `runnable_stop_early`: a Stop before Start is never heard (`runnable.go:93`).
* `sensor_task_cancelled`: a task that completes cancels its waiting
  submissions, though cancelling is for a stopped task (`task-worker.go:47`).
* `sensor_task_aborted`: a batch whose encryption failed is submitted although
  the log says it is aborted (`task-worker.go:87`).
* `key_exchange_ready`: the decryption parameters are announced as ready before
  they can be fetched, and the server then gives up (`authority/task.go:240`).
* `key_exchange_clients`: overwriting `NumClients` does make a difference, when
  a sensor asks before the key is derived (`authority/fe.go:99`).

Seen while modelling, without a run of their own:

* `repeated-seq-gen.go:19` promises a sample in [0, maxValue]. A new value is
  below maxValue (`rand.Intn`), a replayed one may be beyond it (`OneSequence`
  says how far); a bound of 0 panics.
* `tariff.go:48` draws the rates with `MaxSampleValue`; `MaxTariffValue` is read
  nowhere.
* A sensor registers at `/customer/:id/sensor` (`sensor/server.go:26`), the
  server listens at `/group/:id/sensor` (`server/endpoints.go:359`).
* `GET /customer/:id` marshals a Customer whose sensors list the Customer again.
* A dummy decryptor never sets `ResultReady`: its task is never shown as finished.
  A finished answer may still lack the entry of a cipher whose flag is set late.
* `GetSamples` is no snapshot: an answer may show a partly filled batch followed
  by a later one that is not empty.
* A sensor that registers twice with a customer is in its list twice
  (`customer.go:49`), and gets each task twice, as two tasks under one id. The
  schema is made for the length of the list, but `authority/task.go:67-74` finds the
  first entry for both tasks: they get the same keys and offset and post each index
  twice, and the indices of the second entry never come. `authority/fe.go:91` says
  "every sensor submits batchCnt batches of samples". In the schemas that serve only
  index 0 both tasks of a sensor listed twice are served. `IndicesNameBatches` says
  that no other ciphers collide.
* A task that reaches a sensor before its server is set keeps the nil server
  (`sensor/task.go:52`), and its first submission panics.

## 7. Plan

In the order of importance; all of it is done, except for what section 4 leaves to TLC.

1. `Runnable`, `RunnableLifecycle`: invariants, liveness, proofs.
2. `SensorTask` with `BatchPipeline`: invariants, refinement, liveness, proofs.
3. `KeyExchange`: invariants, liveness, first proofs.
4. `Decryptor` with `Collector`: invariants, refinement.
5. `TaskDaemon`, `ServerHost`: invariants, addresses.
6. `SequenceGenerator`, `Sampling`: invariants, liveness.
7. Proofs of `Decryptor` with its refinement, and of `Sampling`.
8. Proofs of the pipeline's refinement, of the ranges and indices of `KeyExchange`,
   of `ServerHost`, of the safety parts of the liveness properties, and of the causes
   of a server's panic.
