------------------------------ MODULE Sampling ------------------------------
(***************************************************************************)
(* From the request that brings a task to the samples or rates it reads.   *)
(*                                                                         *)
(* In a sensor: POST /task stores the task and hands it to the daemon      *)
(* (sensor/endpoints.go, sensor/task.go), whose worker starts a sampler    *)
(* that reads the shared sequence; the samples fill batch after batch, and *)
(* GET /task/:id/samples reads them while they come (sensor/batch.go).     *)
(* In a server: POST /task does the same, and its worker reads the rates   *)
(* of the task from the server's own sequence (server/tariff.go).          *)
(*                                                                         *)
(* A task is named by the place of its request among the requests; a second*)
(* request for an id makes a second task.  Stopping a sampler or a worker  *)
(* is in SensorTask.  Nothing in this version calls the daemon's stop      *)
(* function; ServerHost shows what happens if something does.              *)
(***************************************************************************)
EXTENDS TaskDaemon, SequenceGenerator

CONSTANTS
  TaskIds,
  BatchCnt,
  BatchSize,
  SamplingChanCap  \* room in a task's samplingChan

ASSUME SizesAssumption ==
  /\ Readers \subseteq Nat
  /\ BatchCnt \in Nat \ {0}
  /\ BatchSize \in Nat \ {0}
  /\ SamplingChanCap \in Nat \ {0}

Tasks == Readers
Batches == 0..(BatchCnt - 1)

VARIABLES
  process,  \* which program this is
  tasks,    \* tasks[i]: the task the sensor has under id i
  post,     \* post[t]: where the handler of POST /task is
  counted,  \* counted[t]: samples counted by receivedSamplesCnt, all batches
  stored,   \* stored[t]: samples that are in their batch
  get,      \* the request GET /task/:id/samples
  before,   \* samples its task had stored when it came
  pages     \* the lengths of the batches it has read

requests == <<tasks, post>>
batching == <<counted, stored>>
asking == <<get, before, pages>>
vars == <<daemonVars, maxValue, generating, process, requests, batching, asking>>

NotAsked == [at |-> "idle", task |-> None, count |-> 0]

Init ==
  /\ DaemonInit /\ GeneratorInit
  /\ process \in {"sensor", "server"}
  /\ tasks = [i \in TaskIds |-> None]
  /\ post = [t \in Tasks |-> "absent"]
  /\ counted = [t \in Tasks |-> 0]
  /\ stored = [t \in Tasks |-> 0]
  /\ get = NotAsked /\ before = 0
  /\ pages = <<>>

-----------------------------------------------------------------------------
(* POST /task and the daemon. *)

\* submitTaskEndpoint: NewTask, which ends in AddTask.
PostTask(t, i, m) ==
  /\ post[t] = "absent" /\ \A u \in Tasks : u < t => post[u] # "absent"
  /\ post' = [post EXCEPT ![t] = "send"]
  /\ tasks' = [tasks EXCEPT ![i] = t]
  /\ maxValue' = [maxValue EXCEPT ![t] = m]
  /\ UNCHANGED <<daemonVars, generating, process, batching, asking>>

SendTask(t) ==
  /\ post[t] = "send"
  /\ SendTaskToDaemon(t)
  /\ post' = [post EXCEPT ![t] = "accepted"]
  /\ UNCHANGED <<maxValue, generating, process, tasks, batching, asking>>

RunDaemon == Daemon /\ UNCHANGED <<maxValue, generating, process, requests, batching, asking>>

HasWorker(t) == \E n \in DOMAIN started : started[n] = t

-----------------------------------------------------------------------------
(* The readers of the sequence. *)

\* Samples of the task; the slip is a loop that ends one sample early.
WantedFewer == BatchCnt * BatchSize - 1
Wanted == BatchCnt * BatchSize

Read(t) ==
  /\ HasWorker(t)
  /\ Attach(t) \/ (Len(drawn[t]) < Wanted /\ ReadSample(t))
  /\ UNCHANGED <<daemonVars, maxValue, process, requests, batching, asking>>

\* The sampler reads the next value when the last one is in the channel.
Sent(t) == Len(drawn[t]) - counted[t] <= SamplingChanCap
Sampler(t) == process = "sensor" /\ Sent(t) /\ Read(t)
GenerateRates(t) == process = "server" /\ Read(t)

-----------------------------------------------------------------------------
(* Batches of a sensor's task. *)

\* Batch.AddSample: the counter is raised, and then the sample stored.
CountSample(t) ==
  /\ counted[t] = stored[t] /\ counted[t] < Len(drawn[t])
  /\ counted' = [counted EXCEPT ![t] = @ + 1]
  /\ UNCHANGED stored

\* The sample is there for every reader when Task.AddSample releases its mutex.
StoreSample(t) ==
  /\ stored[t] < counted[t]
  /\ stored' = [stored EXCEPT ![t] = @ + 1]
  /\ UNCHANGED counted

AddSample(t) ==
  /\ process = "sensor"
  /\ CountSample(t) \/ StoreSample(t)
  /\ UNCHANGED <<daemonVars, maxValue, generating, process, requests, asking>>

\* Batches are filled one after the other: of n samples, those in batch b.
Smaller(m, n) == IF m < n THEN m ELSE n
InBatch(n, b) == IF n <= b * BatchSize THEN 0 ELSE Smaller(n - b * BatchSize, BatchSize)

-----------------------------------------------------------------------------
(* GET /task/:id/samples: getSamplesEndpoint, Task.GetSamples. *)

\* The slip is a loop over the batches that ends one batch early.
BatchesLeftFewer(b) == b < BatchCnt - 1
BatchesLeft(b) == b < BatchCnt

\* Whatever comes before it, receivedSamplesCnt.Load() of batch b; the first
\* empty batch ends the loop.
LoadCount(t, b) ==
  LET n == IF BatchesLeft(b) THEN InBatch(counted[t], b) ELSE 0
  IN [at |-> IF n = 0 THEN "answered" ELSE "read", task |-> t, count |-> n]

Ask(i) ==
  /\ get.at = "idle" /\ tasks[i] # None
  /\ get' = LoadCount(tasks[i], 0)
  /\ before' = stored[tasks[i]]
  /\ UNCHANGED pages

\* The elements that were counted are read.  One that is not stored is nil: the
\* handler panics and the framework answers 500.
ReadSamples ==
  /\ get.at = "read"
  /\ \/ /\ get.count <= InBatch(stored[get.task], Len(pages))
        /\ pages' = Append(pages, get.count)
        /\ get' = LoadCount(get.task, Len(pages) + 1)
     \/ /\ get.count > InBatch(stored[get.task], Len(pages))
        /\ get' = [get EXCEPT !.at = "failed"]
        /\ UNCHANGED pages
  /\ UNCHANGED before

Answer ==
  /\ get.at \in {"answered", "failed"}
  /\ get' = NotAsked /\ before' = 0 /\ pages' = <<>>

GetSamples ==
  /\ process = "sensor"
  /\ (\E i \in TaskIds : Ask(i)) \/ ReadSamples \/ Answer
  /\ UNCHANGED <<daemonVars, maxValue, generating, process, requests, batching>>

-----------------------------------------------------------------------------
Alive(A) == ~crashed /\ A

Next ==
  \/ Alive(RunDaemon) \/ Alive(GetSamples)
  \/ \E t \in Tasks :
       \/ \E i \in TaskIds, m \in Bounds : Alive(PostTask(t, i, m))
       \/ Alive(SendTask(t)) \/ Alive(Sampler(t)) \/ Alive(GenerateRates(t))
       \/ Alive(AddSample(t))

\* As long as some goroutine can go on, one does, and timers fire; which one is
\* left open.  No request has to come, and the rates of a server's task need not
\* be reached (KeyExchange).
Progress ==
  RunDaemon \/ \E t \in Tasks : SendTask(t) \/ Sampler(t) \/ AddSample(t)

Spec == Init /\ [][Next]_vars /\ WF_vars(Alive(Progress))

-----------------------------------------------------------------------------
(* Properties. *)

Values == UNION {0..(m - 1) : m \in Bounds}
Total == BatchCnt * BatchSize

\* Every variable stays in its range: no task reads or stores more samples than
\* its batches have room for.
TypeOK ==
  /\ daemon \in {"spawned", "loop", "returned"} /\ handle \in RunnableType
  /\ Len(taskChan) <= ChanSize
  /\ process \in {"sensor", "server"}
  /\ tasks \in [TaskIds -> Tasks \union {None}]
  /\ maxValue \in [Readers -> Bounds \union {None}]
  /\ shared \in Readers \union {None} /\ generator \in [Readers -> Readers \union {None}]
  /\ post \in [Tasks -> {"absent", "send", "accepted"}]
  /\ \A t \in Tasks :
       /\ \A n \in DOMAIN drawn[t] : drawn[t][n] \in Values
       /\ stored[t] <= counted[t] /\ counted[t] <= Len(drawn[t]) /\ Len(drawn[t]) <= Total
  /\ get.at \in {"idle", "read", "answered", "failed"}
  /\ Len(pages) <= BatchCnt /\ crashed \in BOOLEAN

\* sampler and GenerateRates: all tasks of a process read one sequence, however
\* their starts and reads interleave.  A value may lie beyond the bound of the
\* task that replays it, but not beyond the bounds of all tasks that have drawn
\* that position, and only a task that names the bound 0 crashes the process.
OneSequence ==
  /\ \A r, q \in Readers : \A n \in DOMAIN drawn[r] :
       n \in DOMAIN drawn[q] => drawn[r][n] = drawn[q][n]
  /\ \A r \in Readers : \A n \in DOMAIN drawn[r] :
       \E q \in Readers : n \in DOMAIN drawn[q] /\ drawn[r][n] < maxValue[q]
  /\ crashed => \E r \in Readers : HasWorker(r) /\ maxValue[r] = 0

Shown(b) == IF b + 1 \in DOMAIN pages THEN pages[b + 1] ELSE 0

\* GetSamples takes no lock and its batches are read at different times.  All
\* the same an answer has every sample stored before the request and none that
\* is not stored; and a request about a task that is complete does not fail.
AnswerTrue ==
  /\ get.at = "answered" => \A b \in Batches :
       /\ Shown(b) >= InBatch(before, b)
       /\ Shown(b) <= InBatch(stored[get.task], b)
  /\ get.at = "failed" => before < Total

\* submitTaskEndpoint to AddSample: a task a request has brought is sampled to
\* its end, also when its handler had to wait for a full channel or another
\* task came under its id, unless the process crashes.
TasksSampled ==
  \A t \in Tasks :
    process = "sensor" /\ post[t] = "send"
      ~> stored[t] = Total \/ crashed
=============================================================================
