--------------------------- MODULE SamplingProofs ---------------------------
(***************************************************************************)
(* For any number of tasks, ids, batches and bounds: all readers of a      *)
(* process get one sequence, and an answer to GET /task/:id/samples has    *)
(* all samples that were stored before the request and no other.           *)
(***************************************************************************)
EXTENDS Sampling, TLAPS

\* A task that waits for the daemon or has a worker came with a request, and
\* that request named its bound.
Requested ==
  /\ taskChan \in Seq(Tasks) /\ started \in Seq(Tasks)
  /\ post \in [Tasks -> {"absent", "send", "accepted"}]
  /\ maxValue \in [Readers -> Bounds \union {None}]
  /\ \A t \in Tasks : post[t] # "absent" => maxValue[t] \in Bounds
  /\ \A n \in DOMAIN taskChan : post[taskChan[n]] # "absent"
  /\ \A n \in DOMAIN started : post[started[n]] # "absent"

\* Who reads, reads the installed generator, and has read a prefix of it that
\* ends nowhere beyond what some reader has drawn within its bound.
Reading ==
  /\ shared \in Readers \union {None}
  /\ generator \in [Readers -> Readers \union {None}]
  /\ sequence \in [Readers -> Seq(Nat)]
  /\ drawn \in [Readers -> Seq(Nat)]
  /\ \A r \in Readers :
       /\ generator[r] # None => generator[r] = shared /\ HasWorker(r)
       /\ generator[r] = None => Len(drawn[r]) = 0
       /\ generator[r] # None => Len(drawn[r]) <= Len(sequence[shared])
       /\ \A n \in 1..Len(drawn[r]) : drawn[r][n] = sequence[shared][n]
  /\ shared = None => \A r \in Readers : generator[r] = None
  /\ shared # None => \A n \in 1..Len(sequence[shared]) :
       \E q \in Readers : n <= Len(drawn[q]) /\ sequence[shared][n] < maxValue[q]
  /\ \A g \in Readers : g # shared => Len(sequence[g]) = 0
  /\ crashed => \E r \in Readers : HasWorker(r) /\ maxValue[r] = 0

\* The worker is behind the sampler, and the sampler within the task.
Sampled ==
  /\ counted \in [Tasks -> Nat] /\ stored \in [Tasks -> Nat]
  /\ \A t \in Tasks :
       stored[t] <= counted[t] /\ counted[t] <= Len(drawn[t]) /\ Len(drawn[t]) <= Wanted

\* What a request has read so far lies, batch by batch, between what was stored
\* when it came and what is stored now; what it has counted may be one ahead.
Answering ==
  LET t == get.task
      n == Len(pages)
  IN
  /\ tasks \in [TaskIds -> Tasks \union {None}]
  /\ get \in [at : {"idle", "read", "answered", "failed"}, task : Tasks \union {None},
               count : Nat]
  /\ before \in Nat /\ pages \in Seq(Nat) /\ n <= BatchCnt
  /\ get.at = "idle" => n = 0
  /\ get.at # "idle" => t \in Tasks /\ before <= stored[t]
  /\ get.at # "idle" => \A b \in 1..n :
       InBatch(before, b - 1) <= pages[b] /\ pages[b] <= InBatch(stored[t], b - 1)
  /\ get.at = "read" =>
       n < BatchCnt /\ InBatch(before, n) <= get.count /\ get.count <= InBatch(counted[t], n)
  /\ get.at = "answered" => n = BatchCnt \/ InBatch(before, n) = 0
  /\ get.at = "failed" => before < Wanted

IInv == Requested /\ Reading /\ Sampled /\ Answering

-----------------------------------------------------------------------------
(* Lemmas about the numbers of samples in a batch. *)

\* A batch holds a number of samples.
LEMMA InBatchTyped ==
  ASSUME NEW n \in Nat, NEW b \in Nat
  PROVE  InBatch(n, b) \in Nat
  <1>1. b * BatchSize \in Nat /\ BatchSize \in Nat
    BY SizesAssumption
  <1>. DEFINE k == b * BatchSize
  <1>2. k \in Nat
    BY <1>1
  <1>. HIDE DEF k
  <1>3. (IF n <= k THEN 0 ELSE Smaller(n - k, BatchSize)) \in Nat
    BY <1>1, <1>2 DEF Smaller
  <1>. QED
    BY <1>3 DEF InBatch, k

\* More samples are more in every batch.
LEMMA InBatchMonotone ==
  ASSUME NEW m \in Nat, NEW n \in Nat, m <= n, NEW b \in Nat
  PROVE  InBatch(m, b) <= InBatch(n, b)
  <1>1. b * BatchSize \in Nat /\ BatchSize \in Nat
    BY SizesAssumption
  <1>. DEFINE k == b * BatchSize
  <1>2. k \in Nat
    BY <1>1
  <1>. HIDE DEF k
  <1>3. (IF m <= k THEN 0 ELSE Smaller(m - k, BatchSize))
          <= (IF n <= k THEN 0 ELSE Smaller(n - k, BatchSize))
    BY <1>1, <1>2 DEF Smaller
  <1>. QED
    BY <1>3 DEF InBatch, k

\* Behind an empty batch all are empty.
LEMMA InBatchEmpty ==
  ASSUME NEW n \in Nat, NEW b \in Nat, NEW c \in Nat, b <= c, InBatch(n, b) = 0
  PROVE  InBatch(n, c) = 0
  <1>1. BatchSize \in Nat /\ BatchSize > 0 /\ b * BatchSize \in Nat /\ c * BatchSize \in Nat
    BY SizesAssumption
  <1>2. b * BatchSize <= c * BatchSize
    <2>1. c = b + (c - b) /\ c - b \in Nat
      OBVIOUS
    <2>2. \A x, y, z \in Nat : (x + y) * z = x * z + y * z /\ y * z >= 0
      OBVIOUS
    <2>3. c * BatchSize = b * BatchSize + (c - b) * BatchSize /\ (c - b) * BatchSize >= 0
      BY <1>1, <2>1, <2>2
    <2>4. (c - b) * BatchSize \in Int
      BY <1>1, <2>1
    <2>. QED
      BY <1>1, <2>3, <2>4
  <1>. DEFINE k == b * BatchSize  l == c * BatchSize
  <1>3. k \in Nat /\ l \in Nat /\ k <= l
    BY <1>1, <1>2
  <1>4. (IF n <= k THEN 0 ELSE Smaller(n - k, BatchSize)) = 0
    BY DEF InBatch
  <1>. HIDE DEF k, l
  <1>5. (IF n <= l THEN 0 ELSE Smaller(n - l, BatchSize)) = 0
    BY <1>1, <1>3, <1>4 DEF Smaller
  <1>. QED
    BY <1>5 DEF InBatch, l

\* A task wants a number of samples.
LEMMA WantedTyped == Wanted \in Nat
  <1>1. \A m, n \in Nat : m * n \in Nat
    OBVIOUS
  <1>. QED
    BY <1>1, SizesAssumption DEF Wanted

-----------------------------------------------------------------------------
(* The invariant holds at first and is preserved by every action. *)

\* No task has come, nothing is read.
LEMMA InitIInv == Init => IInv
  <1>. SUFFICES ASSUME Init PROVE IInv
    OBVIOUS
  <1>. USE DEF Init, DaemonInit, GeneratorInit
  <1>1. Requested
    BY DEF Requested, Tasks
  <1>2. Reading
    BY DEF Reading
  <1>3. Sampled
    BY WantedTyped DEF Sampled, Tasks
  <1>4. Answering
    BY SizesAssumption DEF Answering, NotAsked
  <1>. QED
    BY <1>1, <1>2, <1>3, <1>4 DEF IInv

\* A reader of the sequence has a worker, and its bound is a number.
LEMMA ReaderHasBound ==
  ASSUME IInv, NEW r \in Readers, HasWorker(r)
  PROVE  maxValue[r] \in Nat /\ post[r] # "absent"
  BY BoundsAssumption DEF IInv, Requested, HasWorker, Tasks

\* The daemon moves tasks on and starts workers.
LEMMA DaemonPreserves ==
  ASSUME IInv, RunDaemon
  PROVE  IInv'
  <1>. USE DEF RunDaemon, generating, requests, batching, asking
  <1>1. CASE UNCHANGED <<taskChan, started>>
    BY <1>1 DEF IInv, Requested, Reading, HasWorker, Sampled, Answering
  <1>2. CASE DaemonTake
    <2>. USE <1>2 DEF DaemonTake, TakenFrom
    <2>1. /\ taskChan' \in Seq(Tasks) /\ started' \in Seq(Tasks)
          /\ \A n \in DOMAIN taskChan' : post[taskChan'[n]] # "absent"
          /\ \A n \in DOMAIN started' : post[started'[n]] # "absent"
      BY DEF IInv, Requested
    <2>2. ASSUME NEW t \in Tasks, HasWorker(t) PROVE HasWorker(t)'
      <3>1. PICK n \in DOMAIN started : started[n] = t
        BY <2>2 DEF HasWorker
      <3>2. started \in Seq(Tasks) /\ started' = Append(started, Head(taskChan))
        BY DEF IInv, Requested
      <3>3. n \in DOMAIN started' /\ started'[n] = t
        BY <3>1, <3>2
      <3>. QED
        BY <3>3 DEF HasWorker
    <2>3. Requested'
      BY <2>1 DEF IInv, Requested
    <2>4. Reading'
      BY <2>2 DEF IInv, Reading, Tasks
    <2>5. Sampled' /\ Answering'
      BY DEF IInv, Sampled, Answering
    <2>. QED
      BY <2>3, <2>4, <2>5 DEF IInv
  <1>. QED
    BY <1>1, <1>2 DEF Daemon, DaemonStart, DaemonExit

\* A new task comes with its bound and without a worker.
LEMMA PostPreserves ==
  ASSUME IInv, NEW t \in Tasks, NEW i \in TaskIds, NEW m \in Bounds, PostTask(t, i, m)
  PROVE  IInv'
  <1>. USE DEF PostTask, daemonVars, generating, batching, asking
  <1>1. Requested'
    BY DEF IInv, Requested, Tasks
  <1>2. ~HasWorker(t) /\ \A r \in Readers : HasWorker(r)' = HasWorker(r)
    BY DEF IInv, Requested, HasWorker
  <1>3. Len(drawn[t]) = 0
    BY <1>2 DEF IInv, Reading, Tasks
  <1>4. \A r \in Readers : r # t => maxValue'[r] = maxValue[r]
    BY DEF IInv, Requested
  <1>5. Reading'
    <2>1. ASSUME shared # None, NEW n \in 1..Len(sequence[shared])
          PROVE  \E q \in Readers : n <= Len(drawn[q]) /\ sequence[shared][n] < maxValue'[q]
      <3>1. PICK q \in Readers : n <= Len(drawn[q]) /\ sequence[shared][n] < maxValue[q]
        BY <2>1 DEF IInv, Reading
      <3>2. q # t
        BY <1>3, <3>1
      <3>. QED
        BY <1>4, <3>1, <3>2
    <2>2. crashed => \E r \in Readers : HasWorker(r)' /\ maxValue'[r] = 0
      BY <1>2, <1>4 DEF IInv, Reading
    <2>. QED
      BY <1>2, <2>1, <2>2 DEF IInv, Reading
  <1>6. Sampled'
    BY DEF IInv, Sampled
  <1>7. Answering'
    BY DEF IInv, Answering
  <1>. QED
    BY <1>1, <1>5, <1>6, <1>7 DEF IInv

\* A handler hands its task to the daemon.
LEMMA SendPreserves ==
  ASSUME IInv, NEW t \in Tasks, SendTask(t)
  PROVE  IInv'
  <1>. USE DEF SendTask, SendTaskToDaemon, generating, batching, asking
  <1>1. Requested'
    <2>1. taskChan' \in Seq(Tasks) /\ post' \in [Tasks -> {"absent", "send", "accepted"}]
      BY DEF IInv, Requested
    <2>2. \A u \in Tasks : post'[u] = "absent" <=> post[u] = "absent"
      BY DEF IInv, Requested
    <2>3. \A n \in DOMAIN taskChan' : post'[taskChan'[n]] # "absent"
      BY <2>2 DEF IInv, Requested
    <2>. QED
      BY <2>1, <2>2, <2>3 DEF IInv, Requested
  <1>2. Reading'
    BY DEF IInv, Reading, HasWorker
  <1>3. Sampled' /\ Answering'
    BY DEF IInv, Sampled, Answering
  <1>. QED
    BY <1>1, <1>2, <1>3 DEF IInv

\* The worker counts a sample that was drawn, and stores one that it has counted.
LEMMA AddPreserves ==
  ASSUME IInv, NEW t \in Tasks, AddSample(t)
  PROVE  IInv'
  <1>. USE DEF AddSample, CountSample, StoreSample, daemonVars, generating, requests, asking
  <1>1. Requested' /\ Reading'
    BY DEF IInv, Requested, Reading, HasWorker
  <1>2. Sampled'
    <2>1. ASSUME NEW u \in Tasks
          PROVE  /\ stored[u] \in Nat /\ counted[u] \in Nat /\ Len(drawn[u]) \in Nat
                 /\ stored[u] <= counted[u] /\ counted[u] <= Len(drawn[u])
      BY DEF IInv, Sampled, Reading, Tasks
    <2>2. CASE CountSample(t)
      BY <2>1, <2>2 DEF IInv, Sampled
    <2>3. CASE StoreSample(t)
      BY <2>1, <2>3 DEF IInv, Sampled
    <2>. QED
      BY <2>2, <2>3
  <1>3. \A u \in Tasks : /\ stored[u] \in Nat /\ stored'[u] \in Nat /\ stored[u] <= stored'[u]
                        /\ counted[u] \in Nat /\ counted'[u] \in Nat /\ counted[u] <= counted'[u]
    BY DEF IInv, Sampled
  <1>4. Answering'
    <2>. DEFINE u == get.task
    <2>1. ASSUME get.at # "idle", NEW b \in 1..Len(pages)
          PROVE  InBatch(before, b - 1) <= pages[b] /\ pages[b] <= InBatch(stored'[u], b - 1)
      <3>1. /\ u \in Tasks /\ b - 1 \in Nat /\ pages[b] \in Nat
            /\ InBatch(before, b - 1) <= pages[b] /\ pages[b] <= InBatch(stored[u], b - 1)
        BY <2>1 DEF IInv, Answering
      <3>2. InBatch(stored[u], b - 1) <= InBatch(stored'[u], b - 1)
        BY <1>3, <3>1, InBatchMonotone
      <3>3. InBatch(stored[u], b - 1) \in Nat /\ InBatch(stored'[u], b - 1) \in Nat
        BY <1>3, <3>1, InBatchTyped
      <3>. QED
        BY <3>1, <3>2, <3>3
    <2>2. ASSUME get.at = "read"
          PROVE  get.count <= InBatch(counted'[u], Len(pages))
      <3>1. /\ u \in Tasks /\ Len(pages) \in Nat /\ get.count \in Nat
            /\ get.count <= InBatch(counted[u], Len(pages))
        BY <2>2 DEF IInv, Answering
      <3>2. InBatch(counted[u], Len(pages)) <= InBatch(counted'[u], Len(pages))
        BY <1>3, <3>1, InBatchMonotone
      <3>3. InBatch(counted[u], Len(pages)) \in Nat /\ InBatch(counted'[u], Len(pages)) \in Nat
        BY <1>3, <3>1, InBatchTyped
      <3>. QED
        BY <3>1, <3>2, <3>3
    <2>3. get.at # "idle" => u \in Tasks /\ before <= stored'[u]
      BY <1>3 DEF IInv, Answering
    <2>. QED
      BY <2>1, <2>2, <2>3 DEF IInv, Answering
  <1>. QED
    BY <1>1, <1>2, <1>4 DEF IInv

\* The first reader installs its generator, all others take that one.
LEMMA AttachPreserves ==
  ASSUME IInv, NEW t \in Tasks, Read(t), Attach(t)
  PROVE  IInv'
  <1>. USE DEF Read, Attach, daemonVars, requests, batching, asking
  <1>1. t \in Readers /\ t # None
    BY BoundsAssumption DEF Tasks
  <1>2. Requested' /\ Sampled' /\ Answering'
    BY DEF IInv, Requested, Sampled, Answering
  <1>3. \A r \in Readers : HasWorker(r)' = HasWorker(r)
    BY DEF HasWorker
  <1>4. Len(drawn[t]) = 0
    BY <1>1 DEF IInv, Reading
  <1>5. CASE shared = None
    <2>1. shared' = t /\ generator' = [generator EXCEPT ![t] = t]
      BY <1>5 DEF Installed
    <2>2. \A r \in Readers : generator[r] = None /\ Len(drawn[r]) = 0 /\ Len(sequence[r]) = 0
      BY <1>1, <1>5, BoundsAssumption DEF IInv, Reading
    <2>3. \A r \in Readers : generator'[r] # None => r = t /\ generator'[r] = shared'
      BY <2>1, <2>2 DEF IInv, Reading
    <2>4. Len(sequence[shared']) = 0 /\ shared' \in Readers
      BY <1>1, <2>1, <2>2
    <2>5. \A r \in Readers : \A n \in 1..Len(drawn[r]) : FALSE
      BY <2>2
    <2>6. \A n \in 1..Len(sequence[shared']) : FALSE
      BY <2>4
    <2>7. generator' \in [Readers -> Readers \union {None}]
      BY <1>1, <2>1 DEF IInv, Reading
    <2>. QED
      BY <1>1, <1>2, <1>3, <2>2, <2>3, <2>4, <2>5, <2>6, <2>7 DEF IInv, Reading
  <1>6. CASE shared # None
    <2>1. shared' = shared /\ generator' = [generator EXCEPT ![t] = shared]
      BY <1>6 DEF Installed
    <2>2. shared \in Readers /\ sequence[shared] \in Seq(Nat)
      BY <1>6 DEF IInv, Reading
    <2>3. generator' \in [Readers -> Readers \union {None}]
      BY <2>1, <2>2 DEF IInv, Reading
    <2>4. \A r \in Readers :
            /\ r # t => generator'[r] = generator[r]
            /\ r = t => generator'[r] = shared
      BY <1>1, <2>1 DEF IInv, Reading
    <2>5. Len(drawn[t]) <= Len(sequence[shared])
      BY <1>4, <2>2
    <2>. QED
      BY <1>1, <1>2, <1>3, <1>4, <1>6, <2>1, <2>2, <2>3, <2>4, <2>5 DEF IInv, Reading
  <1>. QED
    BY <1>5, <1>6

\* What drawing one value does to the lengths.
LEMMA DrawAppends ==
  ASSUME IInv, NEW t \in Readers, NEW v \in Nat, Draw(t, v)
  PROVE  /\ drawn' \in [Readers -> Seq(Nat)]
         /\ \A r \in Readers : r # t => drawn'[r] = drawn[r]
         /\ drawn'[t] = Append(drawn[t], v)
         /\ Len(drawn[t]) \in Nat /\ Len(drawn'[t]) = Len(drawn[t]) + 1
         /\ \A n \in 1..Len(drawn[t]) : drawn'[t][n] = drawn[t][n]
         /\ drawn'[t][Len(drawn[t]) + 1] = v
  <1>1. drawn \in [Readers -> Seq(Nat)]
    BY DEF IInv, Reading
  <1>2. drawn[t] \in Seq(Nat)
    BY <1>1
  <1>3. drawn' = [drawn EXCEPT ![t] = Append(drawn[t], v)]
    BY DEF Draw
  <1>4. drawn'[t] = Append(drawn[t], v)
    BY <1>1, <1>3
  <1>. QED
    BY <1>1, <1>2, <1>3, <1>4

\* A reader appends to the sequence, or replays it.
LEMMA ReadSamplePreserves ==
  ASSUME IInv, NEW t \in Tasks, Read(t), Len(drawn[t]) < Wanted, ReadSample(t)
  PROVE  IInv'
  <1>. USE DEF Read, daemonVars, requests, batching, asking
  <1>1. t \in Readers /\ maxValue[t] \in Nat /\ HasWorker(t)
    BY ReaderHasBound DEF Tasks
  <1>2. Requested' /\ Answering'
    BY DEF IInv, Requested, Answering
  <1>3. \A r \in Readers : HasWorker(r)' = HasWorker(r)
    BY DEF HasWorker
  <1>4. /\ shared \in Readers /\ shared # None
        /\ generator[t] = shared /\ shared' = shared /\ generator' = generator
        /\ sequence[shared] \in Seq(Nat) /\ drawn[t] \in Seq(Nat)
    BY <1>1, BoundsAssumption DEF ReadSample, IInv, Reading
  <1>. DEFINE l == Len(sequence[shared])
  <1>5. l \in Nat /\ Len(drawn[t]) \in Nat /\ Len(drawn[t]) <= l
    BY <1>1, <1>4 DEF IInv, Reading
  <1>r. \A r \in Readers :
          /\ Len(drawn[r]) \in Nat /\ Len(drawn[r]) <= l
          /\ generator[r] = None => Len(drawn[r]) = 0
          /\ \A n \in 1..Len(drawn[r]) : drawn[r][n] = sequence[shared][n]
    <2>. TAKE r \in Readers
    <2>1. Len(drawn[r]) \in Nat
      BY DEF IInv, Reading
    <2>2. /\ generator[r] # None => Len(drawn[r]) <= l
          /\ generator[r] = None => Len(drawn[r]) = 0
          /\ \A n \in 1..Len(drawn[r]) : drawn[r][n] = sequence[shared][n]
      BY <1>4 DEF IInv, Reading
    <2>. QED
      BY <1>5, <2>1, <2>2
  <1>6. ASSUME NEW v \in Nat, v < maxValue[t], AtEnd(t), Draw(t, v), UNCHANGED crashed,
               sequence' = [sequence EXCEPT ![generator[t]] = Append(@, v)]
        PROVE  Reading' /\ Sampled'
    <2>1. /\ drawn' \in [Readers -> Seq(Nat)]
          /\ \A r \in Readers : r # t => drawn'[r] = drawn[r]
          /\ Len(drawn'[t]) = Len(drawn[t]) + 1
          /\ \A n \in 1..Len(drawn[t]) : drawn'[t][n] = drawn[t][n]
          /\ drawn'[t][Len(drawn[t]) + 1] = v
      BY <1>1, <1>6, DrawAppends
    <2>2. Len(drawn[t]) = l
      BY <1>4, <1>5, <1>6 DEF AtEnd, Position
    <2>3. /\ sequence' \in [Readers -> Seq(Nat)]
          /\ \A g \in Readers : g # shared => sequence'[g] = sequence[g]
          /\ sequence'[shared] = Append(sequence[shared], v)
      BY <1>4, <1>6 DEF IInv, Reading
    <2>4. /\ Len(sequence'[shared]) = l + 1
          /\ \A n \in 1..l : sequence'[shared][n] = sequence[shared][n]
          /\ sequence'[shared][l + 1] = v
      BY <1>4, <1>5, <2>3
    <2>5. ASSUME NEW r \in Readers
          PROVE  /\ generator[r] = None => Len(drawn'[r]) = 0
                 /\ generator[r] # None => Len(drawn'[r]) <= Len(sequence'[shared])
                 /\ \A n \in 1..Len(drawn'[r]) : drawn'[r][n] = sequence'[shared][n]
      <3>1. CASE r = t
        <4>1. generator[r] # None /\ Len(drawn'[r]) = l + 1
          BY <1>4, <2>1, <2>2, <3>1
        <4>2. \A n \in 1..l : drawn'[r][n] = sequence'[shared][n]
          BY <1>1, <1>r, <2>1, <2>2, <2>4, <3>1
        <4>3. drawn'[r][l + 1] = sequence'[shared][l + 1]
          BY <2>1, <2>2, <2>4, <3>1
        <4>4. \A n \in 1..(l + 1) : n \in 1..l \/ n = l + 1
          BY <1>5
        <4>. QED
          BY <1>5, <2>4, <4>1, <4>2, <4>3, <4>4
      <3>2. CASE r # t
        <4>1. drawn'[r] = drawn[r]
          BY <2>1, <3>2
        <4>2. Len(drawn[r]) <= l + 1 /\ \A n \in 1..Len(drawn[r]) : n \in 1..l
          BY <1>5, <1>r
        <4>. QED
          BY <1>r, <2>4, <4>1, <4>2
      <3>. QED
        BY <3>1, <3>2
    <2>6. ASSUME NEW n \in 1..Len(sequence'[shared])
          PROVE  \E q \in Readers : n <= Len(drawn'[q]) /\ sequence'[shared][n] < maxValue[q]
      <3>1. CASE n = l + 1
        <4>1. n <= Len(drawn'[t]) /\ sequence'[shared][n] < maxValue[t]
          BY <1>5, <1>6, <2>1, <2>2, <2>4, <3>1
        <4>. QED
          BY <1>1, <4>1
      <3>2. CASE n \in 1..l
        <4>1. PICK q \in Readers : n <= Len(drawn[q]) /\ sequence[shared][n] < maxValue[q]
          BY <1>4, <3>2 DEF IInv, Reading
        <4>2. n <= Len(drawn'[q])
          <5>1. CASE q = t
            BY <1>5, <2>1, <3>2, <4>1, <5>1
          <5>2. CASE q # t
            BY <2>1, <4>1, <5>2
          <5>. QED
            BY <5>1, <5>2
        <4>. QED
          BY <2>4, <3>2, <4>1, <4>2
      <3>. QED
        BY <1>5, <2>4, <3>1, <3>2
    <2>7. Reading'
      <3>1. crashed' => \E r \in Readers : HasWorker(r)' /\ maxValue'[r] = 0
        BY <1>3, <1>6 DEF IInv, Reading
      <3>2. \A r \in Readers : generator'[r] # None => generator'[r] = shared' /\ HasWorker(r)'
        BY <1>3, <1>4 DEF IInv, Reading
      <3>3. \A g \in Readers : g # shared' => Len(sequence'[g]) = 0
        BY <1>4, <2>3 DEF IInv, Reading
      <3>4. generator' \in [Readers -> Readers \union {None}]
        BY <1>4 DEF IInv, Reading
      <3>. QED
        BY <1>4, <2>1, <2>3, <2>5, <2>6, <3>1, <3>2, <3>3, <3>4 DEF Reading
    <2>8. Sampled'
      <3>1. ASSUME NEW u \in Tasks
            PROVE  counted[u] <= Len(drawn'[u]) /\ Len(drawn'[u]) <= Wanted
        <4>1. counted[u] \in Nat /\ counted[u] <= Len(drawn[u]) /\ Len(drawn[u]) <= Wanted
          BY DEF IInv, Sampled
        <4>2. CASE u = t
          BY <1>5, <2>1, <4>1, <4>2, WantedTyped
        <4>3. CASE u # t
          BY <2>1, <4>1, <4>3 DEF Tasks
        <4>. QED
          BY <4>2, <4>3
      <3>. QED
        BY <3>1 DEF IInv, Sampled
    <2>. QED
      BY <2>7, <2>8
  <1>7. ASSUME ~AtEnd(t), Draw(t, sequence[generator[t]][Position(t)]),
               UNCHANGED <<sequence, crashed>>
        PROVE  Reading' /\ Sampled'
    <2>. DEFINE v == sequence[shared][Len(drawn[t]) + 1]
    <2>1. Len(drawn[t]) + 1 \in 1..l
      BY <1>4, <1>5, <1>7 DEF AtEnd, Position
    <2>2. v \in Nat /\ Draw(t, v)
      BY <1>4, <1>7, <2>1 DEF Position
    <2>. HIDE DEF v
    <2>3. /\ drawn' \in [Readers -> Seq(Nat)]
          /\ \A r \in Readers : r # t => drawn'[r] = drawn[r]
          /\ Len(drawn'[t]) = Len(drawn[t]) + 1
          /\ \A n \in 1..Len(drawn[t]) : drawn'[t][n] = drawn[t][n]
          /\ drawn'[t][Len(drawn[t]) + 1] = v
      BY <1>1, <2>2, DrawAppends
    <2>4. ASSUME NEW r \in Readers
          PROVE  /\ generator[r] = None => Len(drawn'[r]) = 0
                 /\ generator[r] # None => Len(drawn'[r]) <= Len(sequence[shared])
                 /\ \A n \in 1..Len(drawn'[r]) : drawn'[r][n] = sequence[shared][n]
      <3>1. CASE r = t
        <4>. DEFINE m == Len(drawn[t])
        <4>1. generator[r] # None /\ Len(drawn'[r]) = m + 1
          BY <1>4, <2>3, <3>1
        <4>2. \A n \in 1..m : drawn'[r][n] = sequence[shared][n]
          BY <1>1, <1>r, <2>3, <3>1
        <4>3. drawn'[r][m + 1] = sequence[shared][m + 1]
          BY <2>3, <3>1 DEF v
        <4>4. \A n \in 1..(m + 1) : n \in 1..m \/ n = m + 1
          BY <1>5
        <4>. QED
          BY <1>5, <2>1, <4>1, <4>2, <4>3, <4>4
      <3>2. CASE r # t
        BY <1>r, <2>3, <3>2
      <3>. QED
        BY <3>1, <3>2
    <2>5. \A q \in Readers : Len(drawn[q]) \in Nat /\ Len(drawn'[q]) \in Nat
                            /\ Len(drawn[q]) <= Len(drawn'[q])
      BY <1>1, <1>r, <2>3
    <2>6. ASSUME NEW n \in 1..Len(sequence[shared])
          PROVE  \E q \in Readers : n <= Len(drawn'[q]) /\ sequence[shared][n] < maxValue[q]
      <3>1. PICK q \in Readers : n <= Len(drawn[q]) /\ sequence[shared][n] < maxValue[q]
        BY <1>4, <2>6 DEF IInv, Reading
      <3>2. n <= Len(drawn'[q])
        BY <1>5, <2>5, <2>6, <3>1
      <3>. QED
        BY <3>1, <3>2
    <2>7. Reading'
      BY <1>3, <1>4, <1>7, <2>3, <2>4, <2>6 DEF IInv, Reading
    <2>8. Sampled'
      <3>1. ASSUME NEW u \in Tasks
            PROVE  counted[u] <= Len(drawn'[u]) /\ Len(drawn'[u]) <= Wanted
        <4>1. counted[u] \in Nat /\ counted[u] <= Len(drawn[u]) /\ Len(drawn[u]) <= Wanted
          BY DEF IInv, Sampled
        <4>2. CASE u = t
          BY <1>5, <2>3, <4>1, <4>2, WantedTyped
        <4>3. CASE u # t
          BY <2>3, <4>1, <4>3 DEF Tasks
        <4>. QED
          BY <4>2, <4>3
      <3>. QED
        BY <3>1 DEF IInv, Sampled
    <2>. QED
      BY <2>7, <2>8
  <1>8. ASSUME maxValue[t] = 0, UNCHANGED <<sequence, drawn>>
        PROVE  Reading' /\ Sampled'
    <2>1. \E r \in Readers : HasWorker(r)' /\ maxValue[r] = 0
      BY <1>1, <1>3, <1>8
    <2>. QED
      BY <1>3, <1>4, <1>8, <2>1 DEF IInv, Reading, Sampled
  <1>9. \A v \in 0..(maxValue[t] - 1) : v \in Nat /\ v < maxValue[t]
    BY <1>1
  <1>10. Reading' /\ Sampled'
    BY <1>6, <1>7, <1>8, <1>9 DEF ReadSample
  <1>. QED
    BY <1>2, <1>10 DEF IInv

\* What loading the counter of batch b establishes, for a request that has read
\* the batches before it.
LEMMA LoadEstablishes ==
  ASSUME IInv, NEW t \in Tasks, NEW b \in Nat, b <= BatchCnt, NEW m \in Nat, m <= stored[t]
  PROVE  LET q == LoadCount(t, b) IN
         /\ q \in [at : {"read", "answered"}, task : Tasks, count : Nat] /\ q.task = t
         /\ q.at = "read" =>
              b < BatchCnt /\ InBatch(m, b) <= q.count /\ q.count <= InBatch(counted[t], b)
         /\ q.at = "answered" => b = BatchCnt \/ InBatch(m, b) = 0
  <1>1. counted[t] \in Nat /\ stored[t] \in Nat /\ m <= counted[t] /\ BatchCnt \in Nat
    BY SizesAssumption DEF IInv, Sampled
  <1>2. /\ InBatch(counted[t], b) \in Nat /\ InBatch(m, b) \in Nat
        /\ InBatch(m, b) <= InBatch(counted[t], b)
    BY <1>1, InBatchTyped, InBatchMonotone
  <1>3. CASE b < BatchCnt /\ InBatch(counted[t], b) # 0
    <2>1. LoadCount(t, b) = [at |-> "read", task |-> t, count |-> InBatch(counted[t], b)]
      BY <1>3 DEF LoadCount, BatchesLeft
    <2>. QED
      BY <1>2, <1>3, <2>1
  <1>4. CASE b < BatchCnt /\ InBatch(counted[t], b) = 0
    <2>1. LoadCount(t, b) = [at |-> "answered", task |-> t, count |-> 0]
      BY <1>4 DEF LoadCount, BatchesLeft
    <2>2. InBatch(m, b) = 0
      BY <1>2, <1>4
    <2>. QED
      BY <2>1, <2>2
  <1>5. CASE b = BatchCnt
    <2>1. LoadCount(t, b) = [at |-> "answered", task |-> t, count |-> 0]
      BY <1>1, <1>5 DEF LoadCount, BatchesLeft
    <2>. QED
      BY <1>5, <2>1
  <1>. QED
    BY <1>1, <1>3, <1>4, <1>5

\* A request reads on behind the worker.
LEMMA GetPreserves ==
  ASSUME IInv, GetSamples
  PROVE  IInv'
  <1>. USE DEF GetSamples, daemonVars, generating, requests, batching
  <1>1. Requested' /\ Reading' /\ Sampled'
    BY DEF IInv, Requested, Reading, HasWorker, Sampled
  <1>2. ASSUME NEW i \in TaskIds, Ask(i) PROVE Answering'
    <2>. DEFINE t == tasks[i]
    <2>1. t \in Tasks /\ stored[t] \in Nat /\ Len(pages) = 0 /\ pages \in Seq(Nat)
      BY <1>2 DEF Ask, IInv, Answering, Sampled
    <2>2. before' = stored[t] /\ pages' = pages /\ get' = LoadCount(t, 0)
      BY <1>2 DEF Ask
    <2>3. BatchCnt \in Nat
      BY SizesAssumption
    <2>4. /\ get' \in [at : {"read", "answered"}, task : Tasks, count : Nat] /\ get'.task = t
          /\ get'.at = "read" => 0 < BatchCnt /\ InBatch(before', 0) <= get'.count
                                 /\ get'.count <= InBatch(counted[t], 0)
          /\ get'.at = "answered" => 0 = BatchCnt \/ InBatch(before', 0) = 0
      BY <2>1, <2>2, <2>3, LoadEstablishes
    <2>. HIDE DEF t
    <2>5. \A b \in 1..Len(pages) : FALSE
      BY <2>1
    <2>. QED
      BY <2>1, <2>2, <2>3, <2>4, <2>5 DEF IInv, Answering
  <1>3. ASSUME ReadSamples PROVE Answering'
    <2>. DEFINE t == get.task  n == Len(pages)
    <2>1. /\ t \in Tasks /\ n \in Nat /\ n < BatchCnt /\ BatchCnt \in Nat
          /\ before \in Nat /\ before <= stored[t]
          /\ get.count \in Nat /\ InBatch(before, n) <= get.count
          /\ get.count <= InBatch(counted[t], n)
      BY <1>3, SizesAssumption DEF ReadSamples, IInv, Answering
    <2>2. CASE get.count <= InBatch(stored[t], n) /\ pages' = Append(pages, get.count)
               /\ get' = LoadCount(t, n + 1) /\ before' = before
      <3>1. /\ get' \in [at : {"read", "answered"}, task : Tasks, count : Nat] /\ get'.task = t
            /\ get'.at = "read" => n + 1 < BatchCnt /\ InBatch(before, n + 1) <= get'.count
                                   /\ get'.count <= InBatch(counted[t], n + 1)
            /\ get'.at = "answered" => n + 1 = BatchCnt \/ InBatch(before, n + 1) = 0
        BY <2>1, <2>2, LoadEstablishes
      <3>2. /\ pages' \in Seq(Nat) /\ Len(pages') = n + 1
            /\ \A b \in 1..n : pages'[b] = pages[b]
            /\ pages'[n + 1] = get.count
        BY <2>1, <2>2 DEF IInv, Answering
      <3>3. ASSUME NEW b \in 1..(n + 1)
            PROVE  InBatch(before, b - 1) <= pages'[b] /\ pages'[b] <= InBatch(stored[t], b - 1)
        <4>1. CASE b \in 1..n
          BY <1>3, <3>2, <4>1 DEF ReadSamples, IInv, Answering
        <4>2. CASE b = n + 1
          <5>1. b - 1 = n
            BY <2>1, <4>2
          <5>. QED
            BY <2>1, <2>2, <3>2, <4>2, <5>1
        <4>. QED
          BY <2>1, <4>1, <4>2
      <3>4. UNCHANGED <<tasks, stored, counted, before>>
        BY <1>3, <2>2 DEF ReadSamples
      <3>5. tasks \in [TaskIds -> Tasks \union {None}]
        BY DEF IInv, Answering
      <3>6. get'.at \in {"read", "answered"} /\ get' \in [at : {"idle", "read", "answered", "failed"},
                                                         task : Tasks \union {None}, count : Nat]
        BY <3>1
      <3>7. n + 1 <= BatchCnt
        BY <2>1
      <3>. HIDE DEF t, n
      <3>. QED
        BY ONLY <2>1, <3>1, <3>2, <3>3, <3>4, <3>5, <3>6, <3>7 DEF Answering
    <2>3. CASE get.count > InBatch(stored[t], n) /\ UNCHANGED <<pages, before>>
               /\ get' = [get EXCEPT !.at = "failed"]
      <3>1. /\ stored[t] \in Nat /\ counted[t] \in Nat /\ stored[t] <= counted[t]
            /\ counted[t] <= Wanted
        <4>1. Len(drawn[t]) \in Nat
          BY <2>1 DEF IInv, Reading, Tasks
        <4>. QED
          BY <2>1, <4>1, WantedTyped DEF IInv, Sampled
      <3>2. stored[t] # counted[t]
        <4>1. InBatch(stored[t], n) \in Nat
          BY <2>1, <3>1, InBatchTyped
        <4>. QED
          BY <2>1, <2>3, <4>1
      <3>3. before < Wanted
        BY <2>1, <3>1, <3>2, WantedTyped
      <3>4. /\ get' \in [at : {"failed"}, task : Tasks \union {None}, count : Nat]
            /\ get'.task = t
        BY <2>3 DEF IInv, Answering
      <3>5. get.at # "idle" /\ get'.at = "failed"
        BY <1>3, <3>4 DEF ReadSamples
      <3>. QED
        BY <2>1, <2>3, <3>3, <3>4, <3>5 DEF IInv, Answering
    <2>. QED
      BY <1>3, <2>2, <2>3 DEF ReadSamples
  <1>4. ASSUME Answer PROVE Answering'
    BY <1>4, SizesAssumption DEF Answer, NotAsked, IInv, Answering
  <1>. QED
    BY <1>1, <1>2, <1>3, <1>4 DEF IInv

\* No step breaks the invariant.
LEMMA NextPreserves == IInv /\ [Next]_vars => IInv'
  <1>. SUFFICES ASSUME IInv, [Next]_vars PROVE IInv'
    OBVIOUS
  <1>1. CASE UNCHANGED vars
    BY <1>1 DEF vars, daemonVars, generating, requests, batching, asking,
                IInv, Requested, Reading, HasWorker, Sampled, Answering
  <1>2. CASE RunDaemon
    BY <1>2, DaemonPreserves
  <1>3. CASE GetSamples
    BY <1>3, GetPreserves
  <1>4. ASSUME NEW t \in Tasks, NEW i \in TaskIds, NEW m \in Bounds, PostTask(t, i, m)
        PROVE  IInv'
    BY <1>4, PostPreserves
  <1>5. ASSUME NEW t \in Tasks, SendTask(t) PROVE IInv'
    BY <1>5, SendPreserves
  <1>6. ASSUME NEW t \in Tasks, Read(t) PROVE IInv'
    BY <1>6, AttachPreserves, ReadSamplePreserves DEF Read
  <1>7. ASSUME NEW t \in Tasks, AddSample(t) PROVE IInv'
    BY <1>7, AddPreserves
  <1>. QED
    BY <1>1, <1>2, <1>3, <1>4, <1>5, <1>6, <1>7 DEF Next, Alive, Sampler, GenerateRates

\* The inductive invariant holds in every state.
LEMMA IInvAlways == Spec => []IInv
  BY InitIInv, NextPreserves, PTL DEF Spec

\* However samplers or rate generations start and read side by side, they get
\* one sequence, every value within the bound of a task that has drawn that
\* position, and only a bound of 0 panics (common/repeated-seq-gen.go).
THEOREM ReadersGetOneSequence == Spec => []OneSequence
  <1>1. IInv => OneSequence
    <2>. SUFFICES ASSUME IInv PROVE OneSequence
      OBVIOUS
    <2>1. \A r \in Readers : DOMAIN drawn[r] = 1..Len(drawn[r])
      BY DEF IInv, Reading
    <2>2. ASSUME NEW r \in Readers, NEW n \in 1..Len(drawn[r])
          PROVE  /\ drawn[r][n] = sequence[shared][n]
                 /\ \E q \in Readers : n \in 1..Len(drawn[q]) /\ drawn[r][n] < maxValue[q]
      <3>1. generator[r] # None /\ shared # None /\ drawn[r][n] = sequence[shared][n]
        <4>1. Len(drawn[r]) # 0
          BY DEF IInv, Reading
        <4>. QED
          BY <4>1 DEF IInv, Reading
      <3>2. n \in 1..Len(sequence[shared])
        <4>1. shared \in Readers
          BY <3>1 DEF IInv, Reading
        <4>2. sequence[shared] \in Seq(Nat) /\ drawn[r] \in Seq(Nat)
          BY <4>1 DEF IInv, Reading
        <4>3. Len(drawn[r]) <= Len(sequence[shared])
          BY <3>1 DEF IInv, Reading
        <4>4. Len(drawn[r]) \in Nat /\ Len(sequence[shared]) \in Nat
          BY <4>2
        <4>. QED
          BY <4>3, <4>4
      <3>3. PICK q \in Readers : n <= Len(drawn[q]) /\ sequence[shared][n] < maxValue[q]
        BY <3>1, <3>2 DEF IInv, Reading
      <3>4. Len(drawn[q]) \in Nat
        BY DEF IInv, Reading
      <3>5. n \in 1..Len(drawn[q])
        BY <3>3, <3>4
      <3>. QED
        BY <3>1, <3>3, <3>5
    <2>3. crashed => \E r \in Readers : HasWorker(r) /\ maxValue[r] = 0
      BY DEF IInv, Reading
    <2>4. \A r, q \in Readers : \A n \in DOMAIN drawn[r] :
            n \in DOMAIN drawn[q] => drawn[r][n] = drawn[q][n]
      <3>. SUFFICES ASSUME NEW r \in Readers, NEW q \in Readers, NEW n \in DOMAIN drawn[r],
                           n \in DOMAIN drawn[q]
                    PROVE  drawn[r][n] = drawn[q][n]
        OBVIOUS
      <3>1. n \in 1..Len(drawn[r]) /\ n \in 1..Len(drawn[q])
        BY <2>1
      <3>2. drawn[r][n] = sequence[shared][n]
        BY <3>1, <2>2
      <3>3. drawn[q][n] = sequence[shared][n]
        BY <3>1, <2>2
      <3>. QED
        BY <3>2, <3>3
    <2>5. ASSUME NEW r \in Readers, NEW n \in DOMAIN drawn[r]
          PROVE  \E q \in Readers : n \in DOMAIN drawn[q] /\ drawn[r][n] < maxValue[q]
      <3>1. n \in 1..Len(drawn[r])
        BY <2>1
      <3>2. PICK q \in Readers : n \in 1..Len(drawn[q]) /\ drawn[r][n] < maxValue[q]
        BY <3>1, <2>2
      <3>. QED
        BY <3>2, <2>1
    <2>. QED
      BY <2>3, <2>4, <2>5 DEF OneSequence
  <1>. QED
    BY <1>1, IInvAlways, PTL

\* GetSamples, which takes no lock, shows all that was stored before the request
\* and nothing else, and fails only for a task that was not complete.
THEOREM AnswersAreTrue == Spec => []AnswerTrue
  <1>1. IInv => AnswerTrue
    <2>. SUFFICES ASSUME IInv PROVE AnswerTrue
      OBVIOUS
    <2>. DEFINE t == get.task  n == Len(pages)
    <2>1. ASSUME get.at = "answered", NEW b \in Batches
          PROVE  Shown(b) >= InBatch(before, b) /\ Shown(b) <= InBatch(stored[t], b)
      <3>1. /\ t \in Tasks /\ stored[t] \in Nat /\ before \in Nat /\ before <= stored[t]
            /\ n \in Nat /\ DOMAIN pages = 1..n /\ b \in Nat /\ b < BatchCnt /\ BatchCnt \in Nat
        BY <2>1, SizesAssumption DEF IInv, Answering, Sampled, Batches
      <3>2. InBatch(before, b) \in Nat /\ InBatch(stored[t], b) \in Nat
        BY <3>1, InBatchTyped
      <3>3. CASE b + 1 \in 1..n
        <4>0. pages \in Seq(Nat)
          BY DEF IInv, Answering
        <4>1. pages[b + 1] \in Nat /\ (b + 1) - 1 = b
          <5>1. pages[b + 1] \in Nat
            BY <4>0, <3>3
          <5>. QED
            BY <3>1, <5>1
        <4>2. InBatch(before, (b + 1) - 1) <= pages[b + 1]
              /\ pages[b + 1] <= InBatch(stored[t], (b + 1) - 1)
          BY <2>1, <3>3 DEF IInv, Answering
        <4>3. Shown(b) = pages[b + 1]
          BY <3>1, <3>3 DEF Shown
        <4>. QED
          BY <3>2, <4>1, <4>2, <4>3
      <3>4. CASE b + 1 \notin 1..n
        <4>1. n <= b /\ n # BatchCnt
          <5>1. \A x, y \in Nat : x + 1 \notin 1..y => y <= x
            OBVIOUS
          <5>2. n <= b
            <6>. HIDE DEF n
            <6>. QED
              BY <3>1, <3>4, <5>1
          <5>. HIDE DEF n
          <5>. QED
            BY <3>1, <5>2
        <4>2. InBatch(before, n) = 0
          BY <2>1, <4>1 DEF IInv, Answering
        <4>3. InBatch(before, b) = 0
          BY <3>1, <4>1, <4>2, InBatchEmpty
        <4>4. Shown(b) = 0
          BY <3>1, <3>4 DEF Shown
        <4>. QED
          BY <3>2, <4>3, <4>4
      <3>. QED
        BY <3>3, <3>4
    <2>2. get.at = "failed" => before < Total
      BY DEF IInv, Answering, Wanted, Total
    <2>. QED
      BY <2>1, <2>2 DEF AnswerTrue
  <1>. QED
    BY <1>1, IInvAlways, PTL

-----------------------------------------------------------------------------
(* Ranges. *)

\* The daemon's own variables, and what only takes one of a few values.
DaemonTyped ==
  /\ daemon \in {"spawned", "loop", "returned"} /\ handle \in RunnableType
  /\ taskChan \in Seq(Tasks) /\ Len(taskChan) <= ChanSize
  /\ process \in {"sensor", "server"} /\ crashed \in BOOLEAN

\* The daemon's channel is empty at first.
LEMMA InitDaemonTyped == Init => DaemonTyped
  <1>. SUFFICES ASSUME Init PROVE DaemonTyped
    OBVIOUS
  <1>1. NewRunnable \in RunnableType
    BY DEF NewRunnable, RunnableType, RunnableState
  <1>2. 0 <= ChanSize
    BY DaemonAssumption
  <1>3. taskChan \in Seq(Tasks) /\ Len(taskChan) <= ChanSize
    BY <1>2 DEF Init, DaemonInit
  <1>. QED
    BY <1>1, <1>3 DEF Init, DaemonInit, GeneratorInit, DaemonTyped

\* SendTaskToDaemon waits for room, and the daemon only takes tasks out.
LEMMA DaemonTypedPreserved ==
  ASSUME DaemonTyped, [Next]_vars
  PROVE  DaemonTyped'
  <1>1. ChanSize \in Nat /\ Len(taskChan) \in Nat
    BY DaemonAssumption DEF DaemonTyped
  <1>2. CASE RunDaemon
    <2>1. CASE DaemonStart
      BY <1>2, <2>1, RunnableTyped DEF DaemonStart, RunDaemon, generating, DaemonTyped
    <2>2. CASE DaemonTake
      BY <1>1, <1>2, <2>2 DEF DaemonTake, TakenFrom, RunDaemon, generating, DaemonTyped
    <2>3. CASE DaemonExit
      BY <1>2, <2>3, RunnableTyped DEF DaemonExit, RunDaemon, generating, DaemonTyped
    <2>. QED
      BY <1>2, <2>1, <2>2, <2>3 DEF RunDaemon, Daemon
  <1>3. ASSUME NEW t \in Tasks, SendTask(t) PROVE DaemonTyped'
    BY <1>1, <1>3 DEF SendTask, SendTaskToDaemon, HasRoom, generating, DaemonTyped
  <1>4. ASSUME NEW t \in Tasks, Read(t) PROVE DaemonTyped'
    BY <1>4 DEF Read, Attach, ReadSample, daemonVars, DaemonTyped
  <1>5. ASSUME \/ GetSamples \/ UNCHANGED vars
               \/ \E t \in Tasks : AddSample(t) \/ \E i \in TaskIds, m \in Bounds : PostTask(t, i, m)
        PROVE  DaemonTyped'
    BY <1>5 DEF GetSamples, AddSample, PostTask, vars, daemonVars, generating, DaemonTyped
  <1>. QED
    BY <1>2, <1>3, <1>4, <1>5 DEF Next, Alive, Sampler, GenerateRates

\* Every value a reader has got is below a bound some request named.
LEMMA DrawnWithinBounds ==
  ASSUME IInv, NEW r \in Readers, NEW n \in DOMAIN drawn[r]
  PROVE  drawn[r][n] \in Values
  <1>1. /\ drawn[r] \in Seq(Nat) /\ n \in 1..Len(drawn[r]) /\ drawn[r][n] \in Nat
        /\ Len(drawn[r]) \in Nat
    <2>1. drawn[r] \in Seq(Nat)
      BY DEF IInv, Reading
    <2>. QED
      BY <2>1
  <1>2. generator[r] # None /\ shared # None
    BY <1>1 DEF IInv, Reading
  <1>3. shared \in Readers /\ sequence[shared] \in Seq(Nat) /\ Len(drawn[r]) <= Len(sequence[shared])
    BY <1>2 DEF IInv, Reading
  <1>4. n \in 1..Len(sequence[shared]) /\ drawn[r][n] = sequence[shared][n]
    <2>1. Len(sequence[shared]) \in Nat
      BY <1>3
    <2>2. n \in 1..Len(sequence[shared])
      BY <1>1, <1>3, <2>1
    <2>. QED
      BY <1>1, <2>2 DEF IInv, Reading
  <1>5. PICK q \in Readers : n <= Len(drawn[q]) /\ sequence[shared][n] < maxValue[q]
    BY <1>2, <1>4 DEF IInv, Reading
  <1>6. maxValue[q] \in Bounds
    <2>1. Len(drawn[q]) # 0
      BY <1>1, <1>5 DEF IInv, Reading
    <2>2. HasWorker(q)
      BY <2>1 DEF IInv, Reading
    <2>. QED
      BY <2>2 DEF HasWorker, IInv, Requested, Tasks
  <1>7. drawn[r][n] \in 0..(maxValue[q] - 1)
    <2>1. maxValue[q] \in Nat
      BY <1>6, BoundsAssumption
    <2>. QED
      BY <1>1, <1>4, <1>5, <2>1
  <1>. QED
    BY <1>6, <1>7 DEF Values

\* Everything stays in its range: the daemon's channel within its room, the values
\* within the bounds of the requests, a task's samples within its batches, an
\* answer within the batches there are.
THEOREM TypeCorrect == Spec => []TypeOK
  <1>1. IInv /\ DaemonTyped => TypeOK
    <2>. SUFFICES ASSUME IInv, DaemonTyped PROVE TypeOK
      OBVIOUS
    <2>1. \A t \in Tasks :
            /\ \A n \in DOMAIN drawn[t] : drawn[t][n] \in Values
            /\ stored[t] <= counted[t] /\ counted[t] <= Len(drawn[t]) /\ Len(drawn[t]) <= Total
      BY DrawnWithinBounds DEF IInv, Sampled, Tasks, Wanted, Total
    <2>2. /\ tasks \in [TaskIds -> Tasks \union {None}]
          /\ get.at \in {"idle", "read", "answered", "failed"} /\ Len(pages) <= BatchCnt
      BY DEF IInv, Answering
    <2>. QED
      BY <2>1, <2>2 DEF IInv, Requested, Reading, DaemonTyped, TypeOK
  <1>2. DaemonTyped /\ [Next]_vars => DaemonTyped'
    BY DaemonTypedPreserved
  <1>. QED
    BY <1>1, <1>2, InitDaemonTyped, IInvAlways, PTL DEF Spec

-----------------------------------------------------------------------------
(* Tasks on their way to their last sample.                                  *)

\* The tasks handed to the daemon, in that order.
Handed == started \o taskChan

\* Nothing has ended the daemon, and it has been handed every accepted task once
\* and no other.
HandedOnce ==
  /\ daemon # "returned" /\ handle.exit = 0
  /\ taskChan \in Seq(Tasks) /\ started \in Seq(Tasks)
  /\ \A t \in Tasks : post[t] = "accepted" <=> \E n \in DOMAIN Handed : Handed[n] = t
  /\ \A m, n \in DOMAIN Handed : Handed[m] = Handed[n] => m = n

\* One of the goroutines of t has a step to make: the worker stores or counts a
\* sample, or the sampler, with the last one in the channel, attaches or reads.
CanGoOn(t) ==
  \/ stored[t] < counted[t]
  \/ counted[t] = stored[t] /\ counted[t] < Len(drawn[t])
  \/ Sent(t) /\ Len(drawn[t]) < Wanted

\* No accepted task is forgotten or sampled twice: it waits in the channel of a
\* daemon that goes on, or it has its worker, one, and in a sensor is complete or can
\* go on.
NoTaskForgotten ==
  /\ daemon # "returned"
  /\ \A t \in Tasks : post[t] = "accepted" =>
       \/ \E n \in DOMAIN taskChan : taskChan[n] = t
       \/ HasWorker(t) /\ (process = "sensor" => stored[t] = Wanted \/ CanGoOn(t))
  /\ \A m, n \in DOMAIN started : started[m] = started[n] => m = n

\* At first no task has been accepted.
LEMMA InitHandedOnce == Init => HandedOnce
  <1>. SUFFICES ASSUME Init PROVE HandedOnce
    OBVIOUS
  <1>1. DOMAIN Handed = {}
    BY DEF Init, DaemonInit, Handed
  <1>2. \A t \in Tasks : post[t] # "accepted"
    BY DEF Init
  <1>3. handle.exit = 0 /\ daemon # "returned" /\ taskChan \in Seq(Tasks) /\ started \in Seq(Tasks)
    BY DEF Init, DaemonInit, NewRunnable
  <1>. QED
    BY ONLY <1>1, <1>2, <1>3 DEF HandedOnce

\* Steps that hand nothing over.
LEMMA HandedOnceStays ==
  ASSUME HandedOnce, daemon' # "returned", handle'.exit = handle.exit,
         taskChan' \in Seq(Tasks), started' \in Seq(Tasks), Handed' = Handed,
         \A t \in Tasks : post'[t] = "accepted" <=> post[t] = "accepted"
  PROVE  HandedOnce'
  BY DEF HandedOnce

\* What the daemon takes stays in the order of all tasks; a handler hands over its
\* own task once.
LEMMA HandedOncePreserved == IInv /\ HandedOnce /\ [Next]_vars => HandedOnce'
  <1>. SUFFICES ASSUME IInv, HandedOnce, [Next]_vars PROVE HandedOnce'
    OBVIOUS
  <1>t. /\ taskChan \in Seq(Tasks) /\ started \in Seq(Tasks)
        /\ post \in [Tasks -> {"absent", "send", "accepted"}]
    BY DEF IInv, Requested
  <1>1. CASE RunDaemon
    <2>1. CASE DaemonStart
      <3>1. UNCHANGED <<taskChan, started, post>> /\ daemon' = "loop" /\ handle' = StartOf(handle)
        BY <1>1, <2>1 DEF RunDaemon, DaemonStart, requests
      <3>2. handle'.exit = handle.exit
        BY <3>1 DEF StartOf
      <3>3. Handed' = Handed
        BY <3>1 DEF Handed
      <3>. QED
        BY <1>t, <3>1, <3>2, <3>3, HandedOnceStays
    <2>2. CASE DaemonTake
      <3>1. /\ taskChan # <<>> /\ started' = Append(started, Head(taskChan))
            /\ taskChan' = Tail(taskChan) /\ UNCHANGED <<daemon, handle, post>>
        BY <1>1, <2>2 DEF RunDaemon, DaemonTake, TakenFrom, requests
      <3>2. taskChan' \in Seq(Tasks) /\ started' \in Seq(Tasks)
        BY <1>t, <3>1
      <3>3. Append(started, Head(taskChan)) \o Tail(taskChan) = started \o taskChan
        BY <1>t, <3>1
      <3>4. Handed' = Handed
        BY <3>1, <3>3 DEF Handed
      <3>5. daemon' # "returned"
        BY <3>1 DEF HandedOnce
      <3>. QED
        BY <3>1, <3>2, <3>4, <3>5, HandedOnceStays
    <2>3. CASE DaemonExit
      BY <2>3 DEF DaemonExit, Signalled, HandedOnce
    <2>. QED
      BY <1>1, <2>1, <2>2, <2>3 DEF RunDaemon, Daemon
  <1>2. ASSUME NEW t \in Tasks, SendTask(t) PROVE HandedOnce'
    <2>1. /\ post[t] = "send" /\ post' = [post EXCEPT ![t] = "accepted"]
          /\ taskChan' = Append(taskChan, t) /\ UNCHANGED <<daemon, handle, started>>
      BY <1>2 DEF SendTask, SendTaskToDaemon
    <2>. DEFINE h == Handed
    <2>2. h \in Seq(Tasks) /\ Handed' = Append(h, t)
      <3>1. h \in Seq(Tasks)
        BY <1>t DEF Handed
      <3>2. started \o Append(taskChan, t) = Append(started \o taskChan, t)
        BY <1>t
      <3>. QED
        BY <2>1, <3>1, <3>2 DEF Handed
    <2>3. \A n \in DOMAIN h : h[n] # t
      BY <2>1 DEF HandedOnce
    <2>4. /\ \A u \in Tasks : post[u] = "accepted" <=> \E n \in DOMAIN h : h[n] = u
          /\ \A m, n \in DOMAIN h : h[m] = h[n] => m = n
      BY DEF HandedOnce
    <2>5. Append(h, t) \in Seq(Tasks) /\ DOMAIN h = 1..Len(h) /\ Len(h) \in Nat
          /\ DOMAIN Append(h, t) = 1..(Len(h) + 1)
          /\ Append(h, t)[Len(h) + 1] = t
          /\ \A n \in 1..Len(h) : Append(h, t)[n] = h[n]
      BY <2>2
    <2>. HIDE DEF h
    <2>. DEFINE g == Append(h, t)
    <2>6. DOMAIN g = DOMAIN h \union {Len(h) + 1}
      BY <2>5
    <2>. HIDE DEF g
    <2>7. g[Len(h) + 1] = t /\ \A n \in DOMAIN h : g[n] = h[n]
      BY <2>5 DEF g
    <2>8. \A u \in Tasks : post'[u] = "accepted" <=> \E n \in DOMAIN g : g[n] = u
      BY <1>t, <2>1, <2>4, <2>6, <2>7
    <2>9. \A m, n \in DOMAIN g : g[m] = g[n] => m = n
      BY <2>3, <2>4, <2>6, <2>7
    <2>10. /\ daemon' # "returned" /\ handle'.exit = 0
           /\ taskChan' \in Seq(Tasks) /\ started' \in Seq(Tasks)
      BY <1>t, <2>1 DEF HandedOnce
    <2>11. Handed' = g
      BY <2>2 DEF g
    <2>. QED
      BY ONLY <2>8, <2>9, <2>10, <2>11 DEF HandedOnce
  <1>3. ASSUME \/ GetSamples \/ UNCHANGED vars
               \/ \E t \in Tasks :
                    Read(t) \/ AddSample(t) \/ \E i \in TaskIds, m \in Bounds : PostTask(t, i, m)
        PROVE  HandedOnce'
    <2>1. UNCHANGED <<daemon, handle, taskChan, started>>
      BY <1>3 DEF GetSamples, Read, AddSample, PostTask, vars, daemonVars
    <2>2. \A t \in Tasks : post'[t] = "accepted" <=> post[t] = "accepted"
      BY <1>3, <1>t DEF GetSamples, Read, AddSample, PostTask, vars, requests
    <2>3. daemon' # "returned" /\ Handed' = Handed
      BY <2>1 DEF HandedOnce, Handed
    <2>. QED
      BY <1>t, <2>1, <2>2, <2>3, HandedOnceStays
  <1>. QED
    BY <1>1, <1>2, <1>3 DEF Next, Alive, Sampler, GenerateRates

\* What TasksSampled needs to be true: from the request on a task is always with
\* somebody who can go on, and it is never sampled by two workers, also when another
\* task came under its id (submitTaskEndpoint, taskDaemon, Task.AddSample).
THEOREM NoTaskIsForgotten == Spec => []NoTaskForgotten
  <1>1. Spec => []HandedOnce
    BY InitHandedOnce, HandedOncePreserved, IInvAlways, PTL DEF Spec
  <1>2. IInv /\ HandedOnce => NoTaskForgotten
    <2>. SUFFICES ASSUME IInv, HandedOnce PROVE NoTaskForgotten
      OBVIOUS
    <2>1. /\ taskChan \in Seq(Tasks) /\ started \in Seq(Tasks)
          /\ Len(started) \in Nat /\ Len(taskChan) \in Nat
          /\ DOMAIN started = 1..Len(started) /\ DOMAIN taskChan = 1..Len(taskChan)
          /\ DOMAIN Handed = 1..(Len(started) + Len(taskChan))
          /\ \A n \in 1..Len(started) : Handed[n] = started[n]
          /\ \A n \in (Len(started) + 1)..(Len(started) + Len(taskChan)) :
               Handed[n] = taskChan[n - Len(started)]
      BY DEF HandedOnce, Handed
    <2>2. ASSUME NEW t \in Tasks, post[t] = "accepted"
          PROVE  (\E n \in DOMAIN taskChan : taskChan[n] = t) \/ HasWorker(t)
      <3>1. PICK n \in DOMAIN Handed : Handed[n] = t
        BY <2>2 DEF HandedOnce
      <3>2. CASE n \in 1..Len(started)
        BY <2>1, <3>1, <3>2 DEF HasWorker
      <3>3. CASE n \notin 1..Len(started)
        <4>1. n - Len(started) \in 1..Len(taskChan) /\ taskChan[n - Len(started)] = t
          BY <2>1, <3>1, <3>3
        <4>. QED
          BY <2>1, <4>1
      <3>. QED
        BY <3>2, <3>3
    <2>3. ASSUME NEW t \in Tasks PROVE stored[t] = Wanted \/ CanGoOn(t)
      <3>1. /\ stored[t] \in Nat /\ counted[t] \in Nat /\ Len(drawn[t]) \in Nat /\ Wanted \in Nat
            /\ stored[t] <= counted[t] /\ counted[t] <= Len(drawn[t]) /\ Len(drawn[t]) <= Wanted
        BY WantedTyped DEF IInv, Sampled, Reading, Tasks
      <3>. QED
        BY <3>1, SizesAssumption DEF CanGoOn, Sent
    <2>4. \A m, n \in DOMAIN started : started[m] = started[n] => m = n
      <3>1. \A n \in DOMAIN started : n \in DOMAIN Handed /\ Handed[n] = started[n]
        BY <2>1
      <3>. QED
        BY <3>1 DEF HandedOnce
    <2>. QED
      BY <2>2, <2>3, <2>4 DEF NoTaskForgotten, HandedOnce
  <1>. QED
    BY <1>1, <1>2, IInvAlways, PTL
=============================================================================
