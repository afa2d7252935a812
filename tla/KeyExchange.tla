----------------------------- MODULE KeyExchange -----------------------------
(***************************************************************************)
(* One task across the three programs: the server's task worker            *)
(* (server/task-worker.go, server/task.go) hands the task to the authority,*)
(* polls until the schema parameters are ready, hands the task to the      *)
(* sensors, sends the rates, polls until the decryption key is ready and   *)
(* fetches it.  The authority (authority/task.go) generates both in        *)
(* goroutines of its own.  The sensors fetch encryption parameters and     *)
(* post ciphers; each cipher waits at the server for the decryption key.   *)
(*                                                                         *)
(* An HTTP request is one step: the handler runs and the caller has the    *)
(* answer.  If Lossy, a request may fail for the caller, after its handler *)
(* has run or without.  The inside of a sensor is SensorTask's concern.    *)
(***************************************************************************)
EXTENDS Integers, FiniteSets

CONSTANTS
  SensorCnt,    \* entries in the task's list of sensors
  BatchCnts,    \* the numbers of batches a task may have
  BatchSize,
  Lossy         \* whether requests may fail

ASSUME ConstantsAssumption ==
  /\ SensorCnt \in Nat \ {0}
  /\ BatchCnts \subseteq Nat \ {0} /\ IsFiniteSet(BatchCnts) /\ BatchCnts # {}
  /\ BatchSize \in Nat \ {0}
  /\ Lossy \in BOOLEAN

\* The entries of Task.Sensors.  A sensor is added to its customer as often as it
\* is registered there (Customer.AddSensor), so one sensor may have several; it
\* gets, and works on, a task of its own for each.
Sensors == 0..(SensorCnt - 1)

\* The ids of the entries, as the authority gets them.  What counts is which are
\* equal, so an id is named after the first entry that has it.
SensorLists ==
  {ids \in [Sensors -> Sensors] : \A s \in Sensors : ids[s] <= s /\ ids[ids[s]] = ids[s]}

TaskParams == [batchCnt : BatchCnts, encrypted : BOOLEAN, sensorIds : SensorLists]

VARIABLES
  task,         \* the parameters of the task
  \* the server
  srv,          \* where taskWorker is
  next,         \* SubmitToSensors: the entry whose turn it is; -1 before it starts
  hasId,        \* whether the answer to SendRates was an id
  decryptor,    \* feDecryptor: -1 while nil, else the number of ciphers it is made for
  keyFetched,   \* decryptionParamsFetchedChan has been closed
  cip,          \* cip[c]: the cipher c, a pair of entry and batch
  crashed,      \* the server process panicked
  \* the authority
  up,           \* the authority process runs
  gen,          \* where the authority's taskWorker is
  schemaStatus, \* schemaParamsStatus; "unset" while the value is nil
  clients,      \* ciphers the generator is for: NumClients of the SchemaParams shared
                \* by all users of a multi generator
  der,          \* where the goroutine of AddNewDecryptionParams is
  keyStatus,    \* decryptionParamsStatus of the id
  key,          \* decryptionParams of the id: -1 while absent, else its NumClients
  derived,      \* what the goroutine has derived and not stored yet
  \* the sensors
  sen           \* sen[s], the task of an entry: "idle", "hasTask", "fetched" or "refused"

server == <<srv, next, hasId, decryptor, keyFetched, crashed>>
authority == <<up, gen, schemaStatus, clients, der, keyStatus, key, derived>>
vars == <<task, server, cip, authority, sen>>

Batches == 0..(task.batchCnt - 1)
Ciphers == Sensors \X UNION {0..(n - 1) : n \in BatchCnts}

\* SetFEParams: which generator the task gets.
Schema ==
  IF ~task.encrypted THEN "dummy" ELSE IF task.batchCnt = 1 THEN "single" ELSE "multi"

\* The number of ciphers the whole task is about, by the length of the list.
Total == task.batchCnt * SensorCnt

Init ==
  /\ task \in TaskParams
  /\ srv = "submit" /\ next = -1 /\ hasId = FALSE
  /\ decryptor = -1 /\ keyFetched = FALSE /\ crashed = FALSE
  /\ cip = [c \in Ciphers |-> "unsent"]
  /\ up = TRUE /\ gen = "absent" /\ schemaStatus = "unset" /\ clients = 0
  /\ der = "absent" /\ keyStatus = "not found" /\ key = -1 /\ derived = -1
  /\ sen = [s \in Sensors |-> "idle"]

\* Whether a request may be lost: its handler or its answer.
Losses == IF Lossy THEN BOOLEAN ELSE {FALSE}

-----------------------------------------------------------------------------
(* The authority. *)

\* POST /task: NewTask, AddTask, and the task daemon starts a taskWorker.
HandleTask == gen' = "spawned"

\* schemaParamsStatus.Store(StatusCreated)
GenerateStart ==
  /\ gen = "spawned"
  /\ gen' = "generate"
  /\ schemaStatus' = "created"
  /\ UNCHANGED <<up, clients, der, keyStatus, key, derived>>

\* setDummyParams, setSingleFEParams or setMultiFEParams; the library may fail.
Generate ==
  /\ gen = "generate"
  /\ \/ gen' = "ready" /\ clients' = Total
     \/ Schema # "dummy" /\ gen' = "error" /\ UNCHANGED clients
  /\ UNCHANGED <<up, schemaStatus, der, keyStatus, key, derived>>

PublishedOnlyReady(outcome) == IF outcome = "ready" THEN "ready" ELSE "created"
Published(outcome) == outcome

GenerateEnd ==
  /\ gen \in {"ready", "error"}
  /\ gen' = "returned"
  /\ schemaStatus' = Published(gen)
  /\ UNCHANGED <<up, clients, der, keyStatus, key, derived>>

\* Task.getSensorIdx: the first entry with the id.
IsFirstOf(s, id) == task.sensorIds[s] = id /\ \A t \in 0..(s - 1) : task.sensorIds[t] # id
getSensorIdx(id) == CHOOSE s \in Sensors : IsFirstOf(s, id)

\* A sensor asks by its id, so all its entries are served as the first of them.
SensorIdx(s) == getSensorIdx(task.sensorIds[s])

\* The single and the dummy schema serve the index 0 only.
ServesAll(s) == TRUE
Serves(s) == Schema = "multi" \/ SensorIdx(s) = 0

\* GetEncryptionParams of the generators: the multi schema overwrites the
\* NumClients of the SchemaParams it shares with everyone else.
HandleEncryption ==
  clients' = IF Schema = "multi" THEN task.batchCnt ELSE clients

\* DummyGenerator.GetDecryptionParams reads y[i * BatchCnt + j] with the
\* number of all ciphers for BatchCnt; y holds the rates of one sensor.
DummyOutOfRange ==
  Schema = "dummy" /\ (Total - 1) * Total + BatchSize > task.batchCnt * BatchSize

\* POST /rates: AddNewDecryptionParams.
HandleRates ==
  /\ keyStatus' = "created"
  /\ der' = "derive"

Derive ==
  /\ der = "derive"
  /\ \/ /\ DummyOutOfRange
        /\ up' = FALSE
        /\ UNCHANGED <<der, keyStatus, derived>>
     \/ /\ ~DummyOutOfRange
        /\ der' = "setStatus" /\ derived' = clients
        /\ UNCHANGED <<up, keyStatus>>
     \/ /\ Schema # "dummy"
        /\ der' = "returned" /\ keyStatus' = "error"
        /\ UNCHANGED <<up, derived>>
  /\ UNCHANGED <<gen, schemaStatus, clients, key>>

\* decryptionParamsStatus.Store, and only then decryptionParams.Store.
DeriveSetStatus ==
  /\ der = "setStatus"
  /\ der' = "store" /\ keyStatus' = "ready"
  /\ UNCHANGED <<up, gen, schemaStatus, clients, key, derived>>

DeriveStore ==
  /\ der = "store"
  /\ der' = "returned" /\ key' = derived
  /\ UNCHANGED <<up, gen, schemaStatus, clients, keyStatus, derived>>

\* What the GET handlers answer; "none" when they fail: the status of the
\* schema on a task the authority does not know or whose worker has not stored
\* a status yet, that of the key on an empty id, the key while it is not stored.
SchemaAnswer == IF ~up \/ schemaStatus = "unset" THEN "none" ELSE schemaStatus
KeyStatusAnswer == IF ~up \/ ~hasId THEN "none" ELSE keyStatus
KeyAnswer == IF up THEN key ELSE -1

Generator ==
  /\ up
  /\ GenerateStart \/ Generate \/ GenerateEnd
  /\ UNCHANGED <<server, cip, sen>>

Deriver ==
  /\ up
  /\ Derive \/ DeriveSetStatus \/ DeriveStore
  /\ UNCHANGED <<server, cip, sen>>

-----------------------------------------------------------------------------
(* The server's task worker. *)

\* Authority.SubmitTask drops the error of its POST, but not a 400, with which
\* the worker gives up; the handler's is that of a body it cannot read.
SubmitTask(lost) ==
  /\ srv = "submit"
  /\ \/ srv' = "pollSchema" /\ HandleTask
     \/ srv' = "pollSchema" /\ lost /\ UNCHANGED gen
     \/ srv' = "returned" /\ ~lost /\ UNCHANGED gen
  /\ UNCHANGED <<next, hasId, decryptor, keyFetched, crashed, cip, sen,
                 up, schemaStatus, clients, der, keyStatus, key, derived>>

\* FetchSchemaParamsStatus, FetchDecryptionParamsStatus: no answer, or one
\* other than 200, is a nil status.
Received(answer, lost) == IF lost THEN "none" ELSE answer

GoesOnUnlessError(status) == status \notin {"none", "error"}
GoesOn(status) == status = "ready"

\* GetFESchemaParams.  A nil status is dereferenced.  "created": poll again.
PollSchema(lost) ==
  /\ srv = "pollSchema"
  /\ \/ /\ Received(SchemaAnswer, lost) = "none"
        /\ crashed' = TRUE
        /\ UNCHANGED <<srv, next>>
     \/ /\ GoesOn(Received(SchemaAnswer, lost))
        /\ srv' = "sendRates" /\ next' = 0
        /\ UNCHANGED crashed
     \/ /\ Received(SchemaAnswer, lost) = "error"
        /\ srv' = "returned"
        /\ UNCHANGED <<next, crashed>>
  /\ UNCHANGED <<hasId, decryptor, keyFetched, cip, authority, sen>>

\* SendRates: when the POST fails its error is overwritten and an empty id
\* counts as success.
SendRates(lost) ==
  /\ srv = "sendRates"
  /\ srv' = "pollKey"
  /\ hasId' = ~lost
  /\ HandleRates \/ (lost /\ UNCHANGED <<keyStatus, der>>)
  /\ UNCHANGED <<next, decryptor, keyFetched, crashed, cip, sen,
                 up, gen, schemaStatus, clients, key, derived>>

\* DeriveDecryptionKey: again a nil status is dereferenced.
PollKey(lost) ==
  /\ srv = "pollKey"
  /\ \/ /\ Received(KeyStatusAnswer, lost) = "none"
        /\ crashed' = TRUE
        /\ UNCHANGED srv
     \/ /\ Received(KeyStatusAnswer, lost) = "ready"
        /\ srv' = "fetchKey"
        /\ UNCHANGED crashed
     \/ /\ Received(KeyStatusAnswer, lost) = "error"
        /\ srv' = "returned"
        /\ UNCHANGED crashed
  /\ UNCHANGED <<next, hasId, decryptor, keyFetched, cip, authority, sen>>

OpenFirst == "close"
AfterFetch == "build"

\* FetchDecryptionParams; a failure ends the worker.
FetchKey(lost) ==
  /\ srv = "fetchKey"
  /\ srv' = IF lost \/ KeyAnswer = -1 THEN "returned" ELSE AfterFetch
  /\ UNCHANGED <<next, hasId, decryptor, keyFetched, crashed, cip, authority, sen>>

\* NewFEDecryptor, whose arrays have NumClients elements.
BuildDecryptor ==
  /\ srv = "build"
  /\ srv' = "close" /\ decryptor' = key
  /\ UNCHANGED <<next, hasId, keyFetched, crashed, cip, authority, sen>>

StaysShut == keyFetched
Opened == TRUE

\* close(decryptionParamsFetchedChan)
CloseFetchedChan ==
  /\ srv = "close"
  /\ srv' = "returned" /\ keyFetched' = Opened
  /\ UNCHANGED <<next, hasId, decryptor, crashed, cip, authority, sen>>

Worker(lost) ==
  \/ SubmitTask(lost) \/ PollSchema(lost) \/ SendRates(lost) \/ PollKey(lost)
  \/ FetchKey(lost)
  \/ ~lost /\ (BuildDecryptor \/ CloseFetchedChan)

TurnsOneTooMany == 0..SensorCnt
Turns == Sensors

\* One turn of SubmitToSensors; the first failure ends it, and then the
\* sensor may or may not have the task.
SubmitToSensor(lost) ==
  /\ next \in Turns
  /\ next' = IF lost THEN SensorCnt ELSE next + 1
  /\ sen' = [sen EXCEPT ![next] = "hasTask"] \/ (lost /\ UNCHANGED sen)
  /\ UNCHANGED <<srv, hasId, decryptor, keyFetched, crashed, cip, authority>>

-----------------------------------------------------------------------------
(* Sensors and their ciphers. *)

\* FetchEncryptionParams.  Without an answer the sensor tries again; a refusal
\* leaves it with a nil encryptor (SensorTask).
FetchEncryption(s, lost) ==
  /\ up /\ sen[s] = "hasTask"
  /\ IF Serves(s) THEN HandleEncryption ELSE UNCHANGED clients
  /\ IF lost THEN UNCHANGED sen
             ELSE sen' = [sen EXCEPT ![s] = IF Serves(s) THEN "fetched" ELSE "refused"]
  /\ UNCHANGED <<server, cip, up, gen, schemaStatus, der, keyStatus, key, derived>>

\* POST /task/:taskId/:sensorId: go task.AddCipher.  A batch whose encryption
\* failed (the dummy never fails) is posted with a nil cipher.  Each batch comes
\* at most once, in any order (SensorTask's ImplementsPipeline).
PostCipher(s, b) ==
  /\ sen[s] = "fetched" /\ cip[<<s, b>>] = "unsent"
  /\ \E payload \in {"waiting"} \union IF Schema = "dummy" THEN {} ELSE {"nil"} :
       cip' = [cip EXCEPT ![<<s, b>>] = payload]
  /\ UNCHANGED <<server, authority, sen>>

\* MultiFECipher.Idx, DummyCipher.Idx: IdxOffset and the index of the batch.
Idx(s, b) == IF Schema = "multi" THEN SensorIdx(s) * task.batchCnt + b ELSE b

\* AddCipher.  The type assertion panics on nil; the multi decryptor indexes
\* an array of NumClients elements with the Idx of the cipher.
AddCipher(s, b) ==
  /\ keyFetched
  /\ cip[<<s, b>>] \in {"waiting", "nil"}
  /\ \/ /\ cip[<<s, b>>] = "nil" \/ Idx(s, b) >= decryptor
        /\ crashed' = TRUE
        /\ UNCHANGED cip
     \/ /\ cip[<<s, b>>] = "waiting" /\ Idx(s, b) < decryptor
        /\ cip' = [cip EXCEPT ![<<s, b>>] = "added"]
        /\ UNCHANGED crashed
  /\ UNCHANGED <<srv, next, hasId, decryptor, keyFetched, authority, sen>>

\* Nothing happens once the server process has died; the parameters of the
\* task never change.
Alive(A) == ~crashed /\ A /\ UNCHANGED task

Next ==
  \/ Alive(Generator) \/ Alive(Deriver)
  \/ \E lost \in Losses :
       \/ Alive(Worker(lost)) \/ Alive(SubmitToSensor(lost))
       \/ \E s \in Sensors : Alive(FetchEncryption(s, lost))
  \/ \E s \in Sensors, b \in Batches : Alive(PostCipher(s, b)) \/ Alive(AddCipher(s, b))

\* Every goroutine is scheduled; no request has to be lost, and no sensor has
\* to fetch or post anything.
Fairness ==
  /\ WF_vars(Alive(Generator))
  /\ WF_vars(Alive(Deriver))
  /\ WF_vars(Alive(Worker(FALSE)))
  /\ \A c \in Ciphers : WF_vars(Alive(AddCipher(c[1], c[2])))

Spec == Init /\ [][Next]_vars
FairSpec == Spec /\ Fairness

-----------------------------------------------------------------------------
(* Properties. *)

\* Every variable stays in its range.
TypeOK ==
  /\ task \in TaskParams
  /\ srv \in {"submit", "pollSchema", "sendRates", "pollKey", "fetchKey", "build", "close",
              "returned"}
  /\ next \in -1..SensorCnt
  /\ {hasId, keyFetched, crashed, up} \subseteq BOOLEAN
  /\ {decryptor, key, derived} \subseteq -1..Total
  /\ clients \in 0..Total
  /\ cip \in [Ciphers -> {"unsent", "waiting", "nil", "added"}]
  /\ gen \in {"absent", "spawned", "generate", "ready", "error", "returned"}
  /\ schemaStatus \in {"unset", "created", "ready", "error"}
  /\ der \in {"absent", "derive", "setStatus", "store", "returned"}
  /\ keyStatus \in {"not found", "created", "ready", "error"}
  /\ sen \in [Sensors -> {"idle", "hasTask", "fetched", "refused"}]

\* The authority answers GET /encryption without looking whether the keys
\* exist ("todo check that enc params are ready"); that is sound because the
\* server lets no sensor know of the task before they do.
KeysBeforeSensors ==
  /\ (\E s \in Sensors : sen[s] # "idle") => schemaStatus = "ready"
  /\ keyStatus # "not found" => schemaStatus = "ready"

\* No cipher reaches the decryptor before there is one: the channel is closed
\* after feDecryptor is set (DeriveDecryptionKey, AddCipher).
DecryptorBeforeCiphers ==
  (keyFetched \/ \E c \in Ciphers : cip[c] = "added") => decryptor # -1

\* Every index of a posted cipher is one of the task's, and two ciphers have the
\* same index exactly if they are the same batch of the same sensor: the offsets
\* handed out by getSensorIdx keep sensors apart, and the schemas without offsets
\* refuse all sensors but one.  So only a sensor that is listed twice posts an
\* index twice, and it does so with each of its batches.
IndicesNameBatches ==
  \A c, d \in {e \in Ciphers : cip[e] # "unsent"} :
    /\ Idx(c[1], c[2]) \in 0..(Total - 1)
    /\ Idx(c[1], c[2]) = Idx(d[1], d[2])
         <=> task.sensorIds[c[1]] = task.sensorIds[d[1]] /\ c[2] = d[2]

\* The task worker does not poll forever: it returns, or the server dies.
WorkerReturns == <>(srv = "returned" \/ crashed)

\* Once the worker has a decryptor and has returned, no cipher that arrived
\* keeps waiting for the key, however early it came.
CiphersGoOn ==
  \A c \in Ciphers :
    (srv = "returned" /\ decryptor # -1 /\ cip[c] = "waiting")
      ~> (cip[c] = "added" \/ crashed)

\* The status "indicates whether the parameters are successfully generated"
\* (GetDecryptionParamsStatus): a worker that was told they are ready gets them.
ReadyCanBeFetched ==
  srv = "returned" /\ keyStatus = "ready" => decryptor # -1

\* Overwriting NumClients "won't make a difference"
\* (MultiFEParamGenerator.GetEncryptionParams): the decryptor is made for the
\* ciphers of all sensors.
DecryptorForAllSensors == decryptor \in {-1, Total}
=============================================================================
