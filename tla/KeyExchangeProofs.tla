-------------------------- MODULE KeyExchangeProofs --------------------------
(***************************************************************************)
(* For any number of sensors and batches, with and without lost requests:  *)
(* no sensor learns of a task before the authority has its keys, no cipher *)
(* is given to a decryptor that does not exist yet, an index names one     *)
(* batch of one sensor, and a decryptor that is too small for a cipher is  *)
(* so only for those of other sensors than the first.  No status is polled *)
(* that nobody will replace.                                               *)
(***************************************************************************)
EXTENDS KeyExchange, TLAPS

\* Once the worker has got past its polling of the schema, the schema is ready
\* and stays so: the authority's worker has returned and is not started again.
PastPolling ==
  \/ srv \notin {"submit", "pollSchema", "returned"}
  \/ next # -1
  \/ keyStatus # "not found"
  \/ der # "absent"
  \/ \E s \in Sensors : sen[s] # "idle"

SchemaReadyPastPolling ==
  /\ srv = "submit" => gen = "absent" /\ schemaStatus = "unset"
  /\ schemaStatus = "ready" => gen = "returned"
  /\ PastPolling => schemaStatus = "ready"
  /\ sen \in [Sensors -> {"idle", "hasTask", "fetched", "refused"}]

\* Where the worker is against feDecryptor and the channel it closes.
KeyInStep ==
  /\ key \in Int
  /\ derived \in Int
  /\ der \in {"setStatus", "store"} => derived >= 0
  /\ key # -1 => key >= 0
  /\ clients \in Nat
  /\ srv = "build" => key >= 0
  /\ srv = "close" => decryptor >= 0
  /\ keyFetched => decryptor >= 0
  /\ \A c \in Ciphers : cip[c] = "added" => keyFetched
  /\ cip \in [Ciphers -> {"unsent", "waiting", "nil", "added"}]
  /\ task \in TaskParams

IInv == SchemaReadyPastPolling /\ KeyInStep

\* The number of ciphers is a number.
LEMMA TotalInNat == task \in TaskParams => Total \in Nat /\ task.batchCnt \in Nat
  <1>. SUFFICES ASSUME task \in TaskParams PROVE Total \in Nat /\ task.batchCnt \in Nat
    OBVIOUS
  <1>1. task.batchCnt \in Nat /\ SensorCnt \in Nat
    BY ConstantsAssumption DEF TaskParams
  <1>2. ASSUME NEW m \in Nat, NEW n \in Nat PROVE m * n \in Nat
    OBVIOUS
  <1>. QED
    BY <1>1, <1>2 DEF Total

\* At first nothing has been polled, derived or posted.
LEMMA InitIInv == Init => IInv
  <1>. SUFFICES ASSUME Init PROVE IInv
    OBVIOUS
  <1>1. SchemaReadyPastPolling
    BY DEF Init, SchemaReadyPastPolling, PastPolling
  <1>2. cip \in [Ciphers -> {"unsent", "waiting", "nil", "added"}] /\ keyFetched = FALSE
    BY DEF Init
  <1>3. \A c \in Ciphers : cip[c] = "unsent"
    BY DEF Init
  <1>4. key = -1 /\ derived = -1 /\ clients = 0
    BY DEF Init
  <1>5. der = "absent" /\ srv = "submit" /\ task \in TaskParams
    BY DEF Init
  <1>6. KeyInStep
    BY <1>2, <1>3, <1>4, <1>5 DEF KeyInStep
  <1>. QED
    BY <1>1, <1>6 DEF IInv

\* The steps of the authority.
LEMMA AuthorityPreserves ==
  ASSUME IInv, Generator \/ Deriver, UNCHANGED task
  PROVE  IInv'
  <1>. USE DEF server
  <1>t. Total \in Nat /\ task.batchCnt \in Nat
    BY TotalInNat DEF IInv, KeyInStep
  <1>1. CASE Generator
    <2>. USE <1>1 DEF Generator, GenerateStart, Generate, GenerateEnd, Published
    <2>1. SchemaReadyPastPolling'
      BY DEF IInv, SchemaReadyPastPolling, PastPolling
    <2>2. clients' \in Nat
      BY <1>t DEF IInv, KeyInStep
    <2>3. KeyInStep'
      BY <2>2 DEF IInv, KeyInStep
    <2>. QED
      BY <2>1, <2>3 DEF IInv
  <1>2. CASE Deriver
    <2>. USE <1>2 DEF Deriver, Derive, DeriveSetStatus, DeriveStore
    <2>1. SchemaReadyPastPolling'
      BY DEF IInv, SchemaReadyPastPolling, PastPolling
    <2>2. KeyInStep /\ clients \in Nat
      BY DEF IInv, KeyInStep
    <2>3. ASSUME Derive PROVE KeyInStep'
      <3>1. UNCHANGED <<srv, decryptor, keyFetched, cip, key, clients>>
        BY <2>3
      <3>2. der' \in {"setStatus", "store"} => derived' = clients
        BY <2>3
      <3>3. derived' \in {derived, clients}
        BY <2>3
      <3>4. derived' \in Int /\ (der' \in {"setStatus", "store"} => derived' >= 0)
        BY ONLY <2>2, <3>2, <3>3 DEF KeyInStep
      <3>. QED
        BY ONLY <2>2, <3>1, <3>4, UNCHANGED task DEF KeyInStep
    <2>4. ASSUME DeriveSetStatus PROVE KeyInStep'
      BY <2>2, <2>4 DEF KeyInStep
    <2>5. ASSUME DeriveStore PROVE KeyInStep'
      BY <2>2, <2>5 DEF KeyInStep
    <2>. QED
      BY <2>1, <2>3, <2>4, <2>5 DEF IInv
  <1>. QED
    BY <1>1, <1>2

\* The steps of the server's task worker and of SubmitToSensors.
LEMMA ServerPreserves ==
  ASSUME IInv, NEW lost, Worker(lost) \/ SubmitToSensor(lost), UNCHANGED task
  PROVE  IInv'
  <1>. USE DEF authority, AfterFetch, Opened, GoesOn, Turns, HandleTask, HandleRates
  <1>1. CASE SubmitTask(lost)
    BY <1>1 DEF SubmitTask, IInv, SchemaReadyPastPolling, PastPolling, KeyInStep
  <1>2. CASE PollSchema(lost)
    BY <1>2 DEF PollSchema, Received, SchemaAnswer, IInv, SchemaReadyPastPolling, PastPolling, KeyInStep
  <1>3. CASE SendRates(lost)
    BY <1>3 DEF SendRates, IInv, SchemaReadyPastPolling, PastPolling, KeyInStep
  <1>4. CASE PollKey(lost)
    BY <1>4 DEF PollKey, Received, KeyStatusAnswer, IInv, SchemaReadyPastPolling, PastPolling, KeyInStep
  <1>5. CASE FetchKey(lost)
    BY <1>5 DEF FetchKey, KeyAnswer, IInv, SchemaReadyPastPolling, PastPolling, KeyInStep
  <1>6. CASE BuildDecryptor
    BY <1>6 DEF BuildDecryptor, IInv, SchemaReadyPastPolling, PastPolling, KeyInStep
  <1>7. CASE CloseFetchedChan
    BY <1>7 DEF CloseFetchedChan, IInv, SchemaReadyPastPolling, PastPolling, KeyInStep
  <1>8. CASE SubmitToSensor(lost)
    <2>1. next # -1
      BY <1>8, ConstantsAssumption DEF SubmitToSensor, Sensors
    <2>2. SchemaReadyPastPolling'
      BY <1>8, <2>1 DEF SubmitToSensor, IInv, SchemaReadyPastPolling, PastPolling
    <2>3. KeyInStep'
      BY <1>8 DEF SubmitToSensor, IInv, KeyInStep
    <2>. QED
      BY <2>2, <2>3 DEF IInv
  <1>. QED
    BY <1>1, <1>2, <1>3, <1>4, <1>5, <1>6, <1>7, <1>8 DEF Worker

\* The steps of a sensor and of the ciphers it posts.
LEMMA SensorPreserves ==
  ASSUME IInv, NEW s \in Sensors, UNCHANGED task,
         (\E lost \in BOOLEAN : FetchEncryption(s, lost))
           \/ \E b \in Batches : PostCipher(s, b) \/ AddCipher(s, b)
  PROVE  IInv'
  <1>. USE DEF server, authority
  <1>1. ASSUME NEW lost \in BOOLEAN, FetchEncryption(s, lost) PROVE IInv'
    <2>. USE <1>1 DEF FetchEncryption, HandleEncryption
    <2>1. clients' \in Nat
      BY TotalInNat DEF IInv, KeyInStep
    <2>2. KeyInStep'
      BY <2>1 DEF IInv, KeyInStep
    <2>3. schemaStatus = "ready"
      BY DEF IInv, SchemaReadyPastPolling, PastPolling
    <2>4. sen' \in [Sensors -> {"idle", "hasTask", "fetched", "refused"}]
      BY DEF IInv, SchemaReadyPastPolling
    <2>5. SchemaReadyPastPolling'
      BY <2>3, <2>4 DEF IInv, SchemaReadyPastPolling
    <2>. QED
      BY <2>2, <2>5 DEF IInv
  <1>2. ASSUME NEW b \in Batches, PostCipher(s, b) PROVE IInv'
    BY <1>2 DEF PostCipher, IInv, SchemaReadyPastPolling, PastPolling, KeyInStep
  <1>3. ASSUME NEW b \in Batches, AddCipher(s, b) PROVE IInv'
    BY <1>3 DEF AddCipher, IInv, SchemaReadyPastPolling, PastPolling, KeyInStep
  <1>. QED
    BY <1>1, <1>2, <1>3

\* No step of anyone breaks the invariant.
LEMMA NextPreserves == IInv /\ [Next]_vars => IInv'
  <1>. SUFFICES ASSUME IInv, [Next]_vars PROVE IInv'
    OBVIOUS
  <1>1. CASE UNCHANGED vars
    BY <1>1 DEF vars, server, authority, IInv, SchemaReadyPastPolling, PastPolling, KeyInStep
  <1>2. CASE Next
    <2>1. ASSUME NEW lost \in Losses PROVE lost \in BOOLEAN
      BY <2>1 DEF Losses
    <2>. QED
      BY <1>2, <2>1, AuthorityPreserves, ServerPreserves, SensorPreserves DEF Next, Alive
  <1>. QED
    BY <1>1, <1>2

\* The authority need not look whether its keys are ready when a sensor asks:
\* whatever is lost, no sensor knows of the task before
\* (GetFESchemaParams, SubmitToSensors; authority/endpoints.go).
THEOREM KeysComeBeforeSensors == Spec => []KeysBeforeSensors
  <1>1. IInv => KeysBeforeSensors
    BY DEF IInv, SchemaReadyPastPolling, PastPolling, KeysBeforeSensors
  <1>. QED
    BY <1>1, InitIInv, NextPreserves, PTL DEF Spec

\* Closing the channel after setting feDecryptor is enough: no AddCipher ever
\* finds it nil (DeriveDecryptionKey, AddCipher).
THEOREM DecryptorComesBeforeCiphers == Spec => []DecryptorBeforeCiphers
  <1>1. IInv => DecryptorBeforeCiphers
    BY DEF IInv, KeyInStep, DecryptorBeforeCiphers
  <1>. QED
    BY <1>1, InitIInv, NextPreserves, PTL DEF Spec

-----------------------------------------------------------------------------
(* Ranges.  A number of clients is one of batches or of ciphers, never more *)
(* than Total.                                                              *)

\* The search for a sensor finds the entry its id is named after.
LEMMA FirstEntryFound ==
  ASSUME task \in TaskParams, NEW s \in Sensors
  PROVE  /\ SensorIdx(s) = task.sensorIds[s]
         /\ SensorIdx(s) \in 0..s
  <1>. DEFINE id == task.sensorIds[s]
  <1>1. task.sensorIds \in [Sensors -> Sensors]
        /\ \A t \in Sensors : task.sensorIds[t] <= t /\ task.sensorIds[task.sensorIds[t]] = task.sensorIds[t]
    BY DEF TaskParams, SensorLists
  <1>2. \A t \in Sensors : t \in Int /\ t >= 0 /\ \A u \in 0..(t - 1) : u \in Sensors
    BY ConstantsAssumption DEF Sensors
  <1>3. id \in Sensors /\ IsFirstOf(id, id)
    BY <1>1, <1>2 DEF IsFirstOf
  <1>4. ASSUME NEW t \in Sensors, IsFirstOf(t, id) PROVE t = id
    <2>1. id <= t
      BY <1>1, <1>4 DEF IsFirstOf
    <2>2. ~(id < t)
      BY <1>1, <1>2, <1>3, <1>4 DEF IsFirstOf
    <2>. QED
      BY <1>2, <1>3, <2>1, <2>2
  <1>5. getSensorIdx(id) = id
    BY <1>3, <1>4 DEF getSensorIdx
  <1>. QED
    BY <1>1, <1>2, <1>3, <1>5 DEF SensorIdx

\* What tells the ciphers of a task apart does not change.
LEMMA TaskFixed ==
  ASSUME UNCHANGED task
  PROVE  /\ Total' = Total /\ Batches' = Batches /\ Schema' = Schema
         /\ \A s, b : Idx(s, b)' = Idx(s, b)
         /\ \A s : Serves(s)' = Serves(s)
  <1>1. Schema' = Schema
    BY DEF Schema
  <1>2. \A s : SensorIdx(s)' = SensorIdx(s)
    BY DEF SensorIdx, getSensorIdx, IsFirstOf
  <1>. QED
    BY <1>1, <1>2 DEF Total, Batches, Idx, Serves

\* The ranges of the numbers, one by one.
LEMMA NumbersTyped ==
  ASSUME TypeOK
  PROVE  /\ task \in TaskParams /\ Total \in Nat
         /\ clients \in 0..Total
         /\ key \in -1..Total /\ derived \in -1..Total /\ decryptor \in -1..Total
         /\ next \in -1..SensorCnt
  <1>1. task \in TaskParams
    BY DEF TypeOK
  <1>. QED
    BY <1>1, TotalInNat DEF TypeOK

\* The batches of one sensor are among the ciphers of the task.
LEMMA BatchCntInTotal ==
  ASSUME task \in TaskParams
  PROVE  task.batchCnt \in 1..Total /\ Total \in Nat
  <1>1. task.batchCnt \in Nat \ {0} /\ SensorCnt \in Nat \ {0}
    BY ConstantsAssumption DEF TaskParams
  <1>2. ASSUME NEW m \in Nat \ {0}, NEW n \in Nat \ {0} PROVE m <= m * n /\ m * n \in Nat
    <2>1. n = 1 + (n - 1) /\ n - 1 \in Nat
      OBVIOUS
    <2>2. m * n = m + m * (n - 1)
      BY <2>1
    <2>3. m * (n - 1) \in Nat
      BY <2>1
    <2>. QED
      BY <2>2, <2>3
  <1>. QED
    BY <1>1, <1>2 DEF Total

\* A step that moves no goroutine and stores no status.
LEMMA StatusesTyped ==
  ASSUME TypeOK, UNCHANGED <<srv, gen, schemaStatus, der, keyStatus>>
  PROVE  /\ srv' \in {"submit", "pollSchema", "sendRates", "pollKey", "fetchKey", "build", "close",
                      "returned"}
         /\ gen' \in {"absent", "spawned", "generate", "ready", "error", "returned"}
         /\ schemaStatus' \in {"unset", "created", "ready", "error"}
         /\ der' \in {"absent", "derive", "setStatus", "store", "returned"}
         /\ keyStatus' \in {"not found", "created", "ready", "error"}
  <1>1. srv' \in {"submit", "pollSchema", "sendRates", "pollKey", "fetchKey", "build", "close",
                 "returned"}
    BY DEF TypeOK
  <1>2. gen' \in {"absent", "spawned", "generate", "ready", "error", "returned"}
    BY DEF TypeOK
  <1>3. schemaStatus' \in {"unset", "created", "ready", "error"}
    BY DEF TypeOK
  <1>4. der' \in {"absent", "derive", "setStatus", "store", "returned"}
    BY DEF TypeOK
  <1>5. keyStatus' \in {"not found", "created", "ready", "error"}
    BY DEF TypeOK
  <1>. QED
    BY <1>1, <1>2, <1>3, <1>4, <1>5

\* At first everything is in its range.
LEMMA InitTypeOK == Init => TypeOK
  <1>. SUFFICES ASSUME Init PROVE TypeOK
    OBVIOUS
  <1>1. Total \in Nat /\ task \in TaskParams
    BY BatchCntInTotal DEF Init
  <1>2. {decryptor, key, derived} \subseteq -1..Total /\ clients \in 0..Total
    <2>1. decryptor = -1 /\ key = -1 /\ derived = -1 /\ clients = 0
      BY DEF Init
    <2>2. -1 \in -1..Total /\ 0 \in 0..Total
      BY <1>1
    <2>. QED
      BY ONLY <2>1, <2>2
  <1>3. next \in -1..SensorCnt
    <2>1. next = -1
      BY DEF Init
    <2>. QED
      BY <2>1, ConstantsAssumption
  <1>4. {hasId, keyFetched, crashed, up} \subseteq BOOLEAN
    BY DEF Init
  <1>. QED
    BY <1>1, <1>2, <1>3, <1>4 DEF Init, TypeOK

\* The authority's goroutines keep the ranges: who generates or derives takes the
\* number of clients from the schema parameters.
LEMMA AuthorityTyped ==
  ASSUME TypeOK, Generator \/ Deriver, UNCHANGED task
  PROVE  TypeOK'
  <1>. USE DEF Generator, Deriver, GenerateStart, Generate, GenerateEnd, Published,
               Derive, DeriveSetStatus, DeriveStore, server
  <1>typed. TypeOK
    OBVIOUS
  <1>1. Total' = Total /\ Total \in Nat
    BY <1>typed, TaskFixed, BatchCntInTotal DEF TypeOK
  <1>2. /\ clients' \in 0..Total
        /\ key' \in -1..Total /\ derived' \in -1..Total /\ decryptor' \in -1..Total
    <2>1. /\ clients' \in {clients, Total} /\ key' \in {key, derived}
          /\ derived' \in {derived, clients} /\ decryptor' = decryptor
      OBVIOUS
    <2>2. 0..Total \subseteq -1..Total /\ Total \in 0..Total
      BY ONLY <1>1
    <2>. QED
      BY ONLY <2>1, <2>2, <1>typed, NumbersTyped
  <1>3. hasId' \in BOOLEAN /\ keyFetched' \in BOOLEAN /\ crashed' \in BOOLEAN /\ up' \in BOOLEAN
    BY DEF TypeOK
  <1>4. /\ gen' \in {"absent", "spawned", "generate", "ready", "error", "returned"}
        /\ schemaStatus' \in {"unset", "created", "ready", "error"}
        /\ der' \in {"absent", "derive", "setStatus", "store", "returned"}
        /\ keyStatus' \in {"not found", "created", "ready", "error"}
    <2>1. gen' \in {gen, "generate", "ready", "error", "returned"}
          /\ schemaStatus' \in {schemaStatus, "created", "ready", "error"}
      OBVIOUS
    <2>2. der' \in {der, "setStatus", "store", "returned"} /\ keyStatus' \in {keyStatus, "ready", "error"}
      OBVIOUS
    <2>3. gen' \in {"absent", "spawned", "generate", "ready", "error", "returned"}
      BY ONLY <2>1, <1>typed DEF TypeOK
    <2>4. schemaStatus' \in {"unset", "created", "ready", "error"}
      BY ONLY <2>1, <1>typed DEF TypeOK
    <2>5. der' \in {"absent", "derive", "setStatus", "store", "returned"}
      BY ONLY <2>2, <1>typed DEF TypeOK
    <2>6. keyStatus' \in {"not found", "created", "ready", "error"}
      BY ONLY <2>2, <1>typed DEF TypeOK
    <2>. QED
      BY <2>3, <2>4, <2>5, <2>6
  <1>5. UNCHANGED <<task, srv, next, cip, sen>>
    OBVIOUS
  <1>. QED
    BY ONLY <1>typed, <1>1, <1>2, <1>3, <1>4, <1>5 DEF TypeOK

\* The server's worker keeps the ranges: the decryptor gets the number of the key.
LEMMA ServerTyped ==
  ASSUME TypeOK, NEW lost \in BOOLEAN, Worker(lost) \/ SubmitToSensor(lost), UNCHANGED task
  PROVE  TypeOK'
  <1>. USE DEF Worker, SubmitTask, PollSchema, SendRates, PollKey, FetchKey, BuildDecryptor,
               CloseFetchedChan, SubmitToSensor, HandleTask, HandleRates, AfterFetch, Opened,
               Turns, authority
  <1>typed. TypeOK
    OBVIOUS
  <1>1. Total' = Total /\ Total \in Nat
    BY <1>typed, TaskFixed, BatchCntInTotal DEF TypeOK
  <1>2. /\ clients' \in 0..Total
        /\ key' \in -1..Total /\ derived' \in -1..Total /\ decryptor' \in -1..Total
    <2>1. UNCHANGED <<clients, key, derived>> /\ decryptor' \in {decryptor, key}
      OBVIOUS
    <2>. QED
      BY ONLY <2>1, <1>typed DEF TypeOK
  <1>3. hasId' \in BOOLEAN /\ keyFetched' \in BOOLEAN /\ crashed' \in BOOLEAN /\ up' \in BOOLEAN
    BY DEF TypeOK
  <1>4. /\ gen' \in {"absent", "spawned", "generate", "ready", "error", "returned"}
        /\ der' \in {"absent", "derive", "setStatus", "store", "returned"}
        /\ keyStatus' \in {"not found", "created", "ready", "error"}
        /\ srv' \in {"submit", "pollSchema", "sendRates", "pollKey", "fetchKey", "build",
                     "close", "returned"}
        /\ UNCHANGED <<task, schemaStatus, cip>>
    <2>1. gen' \in {gen, "spawned"} /\ der' \in {der, "derive"} /\ keyStatus' \in {keyStatus, "created"}
      OBVIOUS
    <2>2. srv' \in {srv, "pollSchema", "sendRates", "pollKey", "fetchKey", "build", "close", "returned"}
      OBVIOUS
    <2>3. UNCHANGED <<task, schemaStatus, cip>>
      OBVIOUS
    <2>. QED
      BY ONLY <2>1, <2>2, <2>3, <1>typed DEF TypeOK
  <1>5. sen' \in [Sensors -> {"idle", "hasTask", "fetched", "refused"}]
    <2>1. sen' = sen \/ sen' = [sen EXCEPT ![next] = "hasTask"]
      OBVIOUS
    <2>. QED
      BY ONLY <2>1, <1>typed DEF TypeOK
  <1>6. next' \in -1..SensorCnt
    <2>1. next' = next \/ next' = 0 \/ next' = SensorCnt \/ (next \in Sensors /\ next' = next + 1)
      OBVIOUS
    <2>2. next \in -1..SensorCnt /\ SensorCnt \in Nat
      BY <1>typed, NumbersTyped, ConstantsAssumption
    <2>. QED
      BY ONLY <2>1, <2>2 DEF Sensors
  <1>. QED
    BY ONLY <1>typed, <1>1, <1>2, <1>3, <1>4, <1>5, <1>6 DEF TypeOK

\* Sensors and ciphers keep the ranges: GetEncryptionParams writes the number of
\* batches for that of clients.
LEMMA SensorTyped ==
  ASSUME TypeOK, NEW s \in Sensors, UNCHANGED task,
         (\E lost \in BOOLEAN : FetchEncryption(s, lost))
           \/ \E b \in Batches : PostCipher(s, b) \/ AddCipher(s, b)
  PROVE  TypeOK'
  <1>. USE DEF FetchEncryption, HandleEncryption, PostCipher, AddCipher, server, authority
  <1>typed. TypeOK
    OBVIOUS
  <1>1. Total' = Total /\ Total \in Nat /\ task.batchCnt \in 0..Total
    <2>1. task.batchCnt \in 1..Total /\ Total \in Nat
      BY <1>typed, NumbersTyped, BatchCntInTotal
    <2>. QED
      BY <2>1, TaskFixed
  <1>2. /\ clients' \in 0..Total
        /\ key' \in -1..Total /\ derived' \in -1..Total /\ decryptor' \in -1..Total
    <2>1. clients' \in {clients, task.batchCnt} /\ UNCHANGED <<key, derived, decryptor>>
      OBVIOUS
    <2>. QED
      BY ONLY <2>1, <1>1, <1>typed, NumbersTyped
  <1>3. hasId' \in BOOLEAN /\ keyFetched' \in BOOLEAN /\ crashed' \in BOOLEAN /\ up' \in BOOLEAN
    BY DEF TypeOK
  <1>4. /\ cip' \in [Ciphers -> {"unsent", "waiting", "nil", "added"}]
        /\ sen' \in [Sensors -> {"idle", "hasTask", "fetched", "refused"}]
    <2>1. cip' \in [Ciphers -> {"unsent", "waiting", "nil", "added"}]
      BY DEF TypeOK
    <2>2. sen' \in [Sensors -> {"idle", "hasTask", "fetched", "refused"}]
      BY DEF TypeOK
    <2>. QED
      BY <2>1, <2>2
  <1>5. UNCHANGED <<task, srv, next, gen, schemaStatus, der, keyStatus>>
    OBVIOUS
  <1>6. /\ {hasId', keyFetched', crashed', up'} \subseteq BOOLEAN
        /\ {decryptor', key', derived'} \subseteq -1..Total'
    BY ONLY <1>1, <1>2, <1>3
  <1>7. clients' \in 0..Total'
    BY ONLY <1>1, <1>2
  <1>8. task' \in TaskParams /\ next' \in -1..SensorCnt
    BY ONLY <1>typed, <1>5 DEF TypeOK
  <1>9. /\ srv' \in {"submit", "pollSchema", "sendRates", "pollKey", "fetchKey", "build", "close",
                    "returned"}
        /\ gen' \in {"absent", "spawned", "generate", "ready", "error", "returned"}
        /\ schemaStatus' \in {"unset", "created", "ready", "error"}
        /\ der' \in {"absent", "derive", "setStatus", "store", "returned"}
        /\ keyStatus' \in {"not found", "created", "ready", "error"}
    BY ONLY <1>typed, <1>5, StatusesTyped
  <1>. QED
    BY ONLY <1>4, <1>6, <1>7, <1>8, <1>9 DEF TypeOK

\* No step leaves the ranges.
LEMMA NextTyped == TypeOK /\ [Next]_vars => TypeOK'
  <1>. SUFFICES ASSUME TypeOK, [Next]_vars PROVE TypeOK'
    OBVIOUS
  <1>1. CASE UNCHANGED vars
    <2>1. Total' = Total
      BY <1>1, TaskFixed DEF vars
    <2>2. UNCHANGED <<task, srv, next, hasId, decryptor, keyFetched, crashed, cip, up, gen,
                      schemaStatus, clients, der, keyStatus, key, derived, sen>>
      BY <1>1 DEF vars, server, authority
    <2>3. /\ {hasId', keyFetched', crashed', up'} \subseteq BOOLEAN
          /\ {decryptor', key', derived'} \subseteq -1..Total'
          /\ clients' \in 0..Total'
      BY ONLY TypeOK, <2>1, <2>2 DEF TypeOK
    <2>4. /\ task' \in TaskParams /\ next' \in -1..SensorCnt
          /\ cip' \in [Ciphers -> {"unsent", "waiting", "nil", "added"}]
          /\ sen' \in [Sensors -> {"idle", "hasTask", "fetched", "refused"}]
      BY ONLY TypeOK, <2>2 DEF TypeOK
    <2>5. /\ srv' \in {"submit", "pollSchema", "sendRates", "pollKey", "fetchKey", "build", "close",
                      "returned"}
          /\ gen' \in {"absent", "spawned", "generate", "ready", "error", "returned"}
          /\ schemaStatus' \in {"unset", "created", "ready", "error"}
          /\ der' \in {"absent", "derive", "setStatus", "store", "returned"}
          /\ keyStatus' \in {"not found", "created", "ready", "error"}
      BY <2>2, StatusesTyped
    <2>. QED
      BY ONLY <2>3, <2>4, <2>5 DEF TypeOK
  <1>2. CASE Next
    <2>1. ASSUME NEW lost \in Losses PROVE lost \in BOOLEAN
      BY <2>1 DEF Losses
    <2>. QED
      BY <1>2, <2>1, AuthorityTyped, ServerTyped, SensorTyped DEF Next, Alive
  <1>. QED
    BY <1>1, <1>2

\* The variables of the exchange keep their ranges; in particular a decryptor is
\* never made for more ciphers than the task has.
THEOREM TypeCorrect == Spec => []TypeOK
  BY InitTypeOK, NextTyped, PTL DEF Spec

-----------------------------------------------------------------------------
(* Indices. *)

\* Only a sensor its generator serves has parameters, and only such a sensor
\* posts ciphers, of batches of the task.
CiphersServed ==
  /\ \A s \in Sensors : sen[s] = "fetched" => Serves(s)
  /\ \A c \in Ciphers : cip[c] # "unsent" => Serves(c[1]) /\ c[2] \in Batches

\* Two numbers below m at different multiples of m differ.
LEMMA OffsetsApart ==
  ASSUME NEW m \in Nat, NEW s \in Nat, NEW t \in Nat, NEW b \in 0..(m - 1), NEW d \in 0..(m - 1),
         s * m + b = t * m + d
  PROVE  s = t /\ b = d
  <1>1. ASSUME NEW u \in Nat, NEW v \in Nat, u < v PROVE u * m + m <= v * m
    <2>1. v - u - 1 \in Nat
      BY <1>1
    <2>2. v = u + 1 + (v - u - 1)
      BY <1>1
    <2>3. v * m = u * m + m + (v - u - 1) * m
      BY <2>1, <2>2
    <2>4. (v - u - 1) * m \in Nat
      BY <2>1
    <2>5. u * m \in Nat /\ v * m \in Nat
      OBVIOUS
    <2>. QED
      BY <2>3, <2>4, <2>5
  <1>2. s * m \in Nat /\ t * m \in Nat
    OBVIOUS
  <1>3. ~(s < t)
    BY <1>1, <1>2
  <1>4. ~(t < s)
    BY <1>1, <1>2
  <1>5. s = t
    BY <1>3, <1>4
  <1>6. b = d
    BY <1>2, <1>5
  <1>. QED
    BY <1>5, <1>6

\* The last batch of the last of n sensors has the index n * m - 1.
LEMMA OffsetsBounded ==
  ASSUME NEW m \in Nat, NEW n \in Nat, NEW s \in 0..(n - 1), NEW b \in 0..(m - 1)
  PROVE  s * m + b \in 0..(m * n - 1)
  <1>1. n - s - 1 \in Nat /\ s \in Nat
    OBVIOUS
  <1>2. n = s + 1 + (n - s - 1)
    OBVIOUS
  <1>3. m * n = s * m + m + (n - s - 1) * m
    BY <1>1, <1>2
  <1>4. (n - s - 1) * m \in Nat /\ s * m \in Nat /\ m * n \in Nat
    BY <1>1
  <1>. QED
    BY <1>3, <1>4

\* No step gives parameters to a sensor that is not served, or posts without them.
LEMMA CiphersServedPreserved ==
  ASSUME TypeOK, CiphersServed, [Next]_vars
  PROVE  CiphersServed'
  <1>. USE DEF CiphersServed
  <1>1. UNCHANGED task
    BY DEF Next, Alive, vars
  <1>2. Batches' = Batches /\ \A s : Serves(s)' = Serves(s)
    BY <1>1, TaskFixed
  <1>3. sen \in [Sensors -> {"idle", "hasTask", "fetched", "refused"}]
        /\ cip \in [Ciphers -> {"unsent", "waiting", "nil", "added"}]
    BY DEF TypeOK
  <1>4. CASE UNCHANGED <<sen, cip>>
    BY <1>2, <1>4
  <1>5. ASSUME NEW lost \in BOOLEAN, Worker(lost) PROVE UNCHANGED <<sen, cip>>
    BY <1>5 DEF Worker, SubmitTask, PollSchema, SendRates, PollKey, FetchKey, BuildDecryptor,
                CloseFetchedChan
  <1>6. ASSUME NEW lost \in BOOLEAN, SubmitToSensor(lost) PROVE CiphersServed'
    <2>1. UNCHANGED cip /\ (sen' = [sen EXCEPT ![next] = "hasTask"] \/ UNCHANGED sen)
      BY <1>6 DEF SubmitToSensor
    <2>. QED
      BY <1>2, <1>3, <2>1
  <1>7. ASSUME NEW s \in Sensors, NEW lost \in BOOLEAN, FetchEncryption(s, lost)
        PROVE  CiphersServed'
    <2>1. /\ UNCHANGED cip
          /\ \/ UNCHANGED sen
             \/ Serves(s) /\ sen' = [sen EXCEPT ![s] = "fetched"]
             \/ sen' = [sen EXCEPT ![s] = "refused"]
      BY <1>7 DEF FetchEncryption
    <2>. QED
      BY <1>2, <1>3, <2>1
  <1>8. ASSUME NEW s \in Sensors, NEW b \in Batches, PostCipher(s, b) PROVE CiphersServed'
    <2>1. /\ UNCHANGED sen /\ sen[s] = "fetched"
          /\ \E payload : cip' = [cip EXCEPT ![<<s, b>>] = payload]
      BY <1>8 DEF PostCipher
    <2>. QED
      BY <1>2, <1>3, <2>1
  <1>9. ASSUME NEW s \in Sensors, NEW b \in Batches, AddCipher(s, b) PROVE CiphersServed'
    <2>1. /\ UNCHANGED sen /\ cip[<<s, b>>] # "unsent"
          /\ cip' = cip \/ cip' = [cip EXCEPT ![<<s, b>>] = "added"]
      BY <1>9 DEF AddCipher
    <2>. QED
      BY <1>2, <1>3, <2>1
  <1>10. Generator \/ Deriver \/ UNCHANGED vars => UNCHANGED <<sen, cip>>
    BY DEF Generator, Deriver, vars
  <1>11. \A lost \in Losses : lost \in BOOLEAN
    BY DEF Losses
  <1>. QED
    BY <1>4, <1>5, <1>6, <1>7, <1>8, <1>9, <1>10, <1>11 DEF Next, Alive

\* At first nobody has parameters or has posted anything.
LEMMA InitCiphersServed == Init => CiphersServed
  <1>. SUFFICES ASSUME Init PROVE CiphersServed
    OBVIOUS
  <1>1. \A c \in Ciphers : cip[c] = "unsent"
    BY DEF Init
  <1>2. \A s \in Sensors : sen[s] = "idle"
    BY DEF Init
  <1>. QED
    BY <1>1, <1>2 DEF CiphersServed

\* The search gives one index per id.
LEMMA IdsApart ==
  ASSUME task \in TaskParams, NEW s \in Sensors, NEW t \in Sensors
  PROVE  SensorIdx(s) = SensorIdx(t) <=> task.sensorIds[s] = task.sensorIds[t]
  BY FirstEntryFound

\* The index of a cipher that was posted is one of the task's.
LEMMA IndicesInRange ==
  ASSUME TypeOK, CiphersServed, NEW c \in Ciphers, cip[c] # "unsent"
  PROVE  Idx(c[1], c[2]) \in 0..(Total - 1)
  <1>1. task.batchCnt \in 1..Total /\ Total \in Nat /\ SensorCnt \in Nat /\ task.batchCnt \in Nat
    BY NumbersTyped, BatchCntInTotal, TotalInNat, ConstantsAssumption
  <1>2. c[1] \in Sensors /\ c[2] \in 0..(task.batchCnt - 1)
    BY DEF CiphersServed, Ciphers, Batches
  <1>s. SensorIdx(c[1]) \in 0..(SensorCnt - 1)
    <2>1. SensorIdx(c[1]) \in 0..c[1]
      BY <1>2, NumbersTyped, FirstEntryFound
    <2>2. c[1] \in 0..(SensorCnt - 1)
      BY <1>2 DEF Sensors
    <2>. QED
      BY ONLY <1>1, <2>1, <2>2
  <1>3. CASE Schema = "multi"
    <2>1. SensorIdx(c[1]) * task.batchCnt + c[2] \in 0..(task.batchCnt * SensorCnt - 1)
      BY <1>1, <1>2, <1>s, OffsetsBounded
    <2>. QED
      BY <1>3, <2>1 DEF Idx, Total
  <1>4. CASE Schema # "multi"
    BY <1>1, <1>2, <1>4 DEF Idx
  <1>. QED
    BY <1>3, <1>4

\* Two posted ciphers have the same index exactly if sensor and batch are the same.
LEMMA IndicesApart ==
  ASSUME TypeOK, CiphersServed, NEW c \in Ciphers, NEW d \in Ciphers,
         cip[c] # "unsent", cip[d] # "unsent"
  PROVE  Idx(c[1], c[2]) = Idx(d[1], d[2])
           <=> task.sensorIds[c[1]] = task.sensorIds[d[1]] /\ c[2] = d[2]
  <1>1. task \in TaskParams /\ task.batchCnt \in Nat /\ SensorCnt \in Nat
    BY NumbersTyped, TotalInNat, ConstantsAssumption
  <1>2. /\ c[1] \in Sensors /\ c[2] \in 0..(task.batchCnt - 1)
        /\ d[1] \in Sensors /\ d[2] \in 0..(task.batchCnt - 1)
    BY DEF CiphersServed, Ciphers, Batches
  <1>3. SensorIdx(c[1]) \in Nat /\ SensorIdx(d[1]) \in Nat
    BY <1>1, <1>2, FirstEntryFound
  <1>4. Idx(c[1], c[2]) = Idx(d[1], d[2])
          <=> SensorIdx(c[1]) = SensorIdx(d[1]) /\ c[2] = d[2]
    <2>1. CASE Schema = "multi"
      <3>1. Idx(c[1], c[2]) = SensorIdx(c[1]) * task.batchCnt + c[2]
            /\ Idx(d[1], d[2]) = SensorIdx(d[1]) * task.batchCnt + d[2]
        BY <2>1 DEF Idx
      <3>2. ASSUME Idx(c[1], c[2]) = Idx(d[1], d[2])
            PROVE  SensorIdx(c[1]) = SensorIdx(d[1]) /\ c[2] = d[2]
        BY <1>1, <1>2, <1>3, <3>1, <3>2, OffsetsApart
      <3>. QED
        BY <3>1, <3>2
    <2>2. CASE Schema # "multi"
      BY <2>2 DEF Idx, CiphersServed, Serves
    <2>. QED
      BY <2>1, <2>2
  <1>. QED
    BY <1>1, <1>2, <1>4, IdsApart

\* An index under which the decryptor collects ciphers never leaves the range of
\* the task and names one batch of one sensor (getSensorIdx, IdxOffset,
\* MultiFECipher.Idx): the sensors a schema without offsets would confuse get no
\* parameters from it.  Posts collide for a sensor that is listed twice, only.
THEOREM IndicesNameOneBatch == Spec => []IndicesNameBatches
  <1>1. TypeOK /\ CiphersServed => IndicesNameBatches
    BY IndicesInRange, IndicesApart DEF IndicesNameBatches
  <1>. QED
    BY <1>1, InitCiphersServed, CiphersServedPreserved, TypeCorrect, PTL DEF Spec

-----------------------------------------------------------------------------
(* What the finding about NumClients can and cannot break: the decryptor is *)
(* too small for other sensors than the first, never for the first one.      *)

\* A number of clients: that of all ciphers, or, once a sensor of a multi schema
\* has asked for its parameters, that of one sensor's batches.
Sized(n) ==
  \/ n = Total
  \/ Schema = "multi" /\ n = task.batchCnt /\ \E s \in Sensors : sen[s] # "idle"

\* A generator that has its keys has a number of clients, and it is handed on
\* from the generator to the goroutine that derives, the key and the decryptor.
Sizes ==
  /\ clients = 0 \/ Sized(clients)
  /\ gen = "ready" \/ schemaStatus = "ready" => clients # 0
  /\ der \in {"setStatus", "store"} => Sized(derived)
  /\ key # -1 => Sized(key)
  /\ decryptor # -1 => Sized(decryptor)

\* What AddCipher finds when the index of a cipher is not one of the decryptor's:
\* NumClients was overwritten before the key was derived, and another sensor than
\* that of the first entry has posted the cipher (MultiFECipher.Idx,
\* GetEncryptionParams).
OnlyLaterSensorsMisfit ==
  \A c \in Ciphers :
    keyFetched /\ cip[c] # "unsent" /\ Idx(c[1], c[2]) >= decryptor
      => /\ Schema = "multi" /\ decryptor = task.batchCnt
         /\ task.sensorIds[c[1]] # task.sensorIds[0]

\* The number of clients is one of those as long as no sensor forgets its task.
LEMMA SizedStays ==
  ASSUME UNCHANGED task,
         (\E s \in Sensors : sen[s] # "idle") => \E s \in Sensors : sen'[s] # "idle",
         NEW n, Sized(n)
  PROVE  Sized(n)'
  BY TaskFixed DEF Sized

\* The authority generates for all ciphers, and derives from what it has.
LEMMA AuthoritySized ==
  ASSUME IInv, Sizes, Generator \/ Deriver, UNCHANGED task
  PROVE  Sizes'
  <1>. USE DEF Generator, Deriver, GenerateStart, Generate, GenerateEnd, Published,
               Derive, DeriveSetStatus, DeriveStore, server
  <1>1. UNCHANGED <<sen, decryptor>>
    OBVIOUS
  <1>2. \A n : Sized(n)' <=> Sized(n)
    BY <1>1, TaskFixed DEF Sized
  <1>3. Sized(Total) /\ Total # 0
    BY BatchCntInTotal DEF Sized, IInv, KeyInStep
  <1>4. der = "derive" => schemaStatus = "ready"
    BY DEF IInv, SchemaReadyPastPolling, PastPolling
  <1>5. CASE Generator
    <2>1. UNCHANGED <<der, key, derived, decryptor>> /\ clients' \in {clients, Total}
      BY <1>5
    <2>2. gen' = "ready" \/ schemaStatus' = "ready" => clients' # 0
      BY <1>3, <1>5 DEF Sizes
    <2>. QED
      BY ONLY <2>1, <2>2, <1>2, <1>3, Sizes DEF Sizes
  <1>6. CASE Deriver
    <2>1. UNCHANGED <<gen, schemaStatus, clients, decryptor>>
      BY <1>6
    <2>2. der' \in {"setStatus", "store"} =>
            (der = "derive" /\ derived' = clients) \/ (der \in {"setStatus", "store"} /\ derived' = derived)
      BY <1>6
    <2>3. key' = key \/ (der = "store" /\ key' = derived)
      BY <1>6
    <2>. QED
      BY ONLY <2>1, <2>2, <2>3, <1>2, <1>4, Sizes DEF Sizes
  <1>. QED
    BY <1>5, <1>6

\* The worker builds the decryptor from the key; a sensor that gets the task has
\* it from then on.
LEMMA ServerSized ==
  ASSUME IInv, Sizes, NEW lost \in BOOLEAN, Worker(lost) \/ SubmitToSensor(lost), UNCHANGED task
  PROVE  Sizes'
  <1>. USE DEF Worker, SubmitTask, PollSchema, SendRates, PollKey, FetchKey, BuildDecryptor,
               CloseFetchedChan, SubmitToSensor, HandleTask, HandleRates, AfterFetch, Opened,
               Turns, authority
  <1>1. /\ UNCHANGED <<clients, key, derived, schemaStatus>>
        /\ gen' = gen \/ gen' = "spawned"
        /\ der' = der \/ der' = "derive"
    OBVIOUS
  <1>2. decryptor' = decryptor \/ (srv = "build" /\ decryptor' = key)
    OBVIOUS
  <1>3. srv = "build" => key # -1
    BY DEF IInv, KeyInStep
  <1>4. sen' = sen \/ sen' = [sen EXCEPT ![next] = "hasTask"]
    OBVIOUS
  <1>5. sen \in [Sensors -> {"idle", "hasTask", "fetched", "refused"}]
    BY DEF IInv, SchemaReadyPastPolling
  <1>6. (\E s \in Sensors : sen[s] # "idle") => \E s \in Sensors : sen'[s] # "idle"
    BY ONLY <1>4, <1>5
  <1>7. \A n : Sized(n) => Sized(n)'
    BY <1>6, SizedStays
  <1>. QED
    BY ONLY <1>1, <1>2, <1>3, <1>7, Sizes DEF Sizes

\* A sensor that asks for its parameters makes the number that of its batches.
LEMMA SensorSized ==
  ASSUME IInv, Sizes, NEW s \in Sensors, UNCHANGED task,
         (\E lost \in BOOLEAN : FetchEncryption(s, lost))
           \/ \E b \in Batches : PostCipher(s, b) \/ AddCipher(s, b)
  PROVE  Sizes'
  <1>. USE DEF FetchEncryption, HandleEncryption, PostCipher, AddCipher, server, authority
  <1>1. UNCHANGED <<gen, schemaStatus, der, key, derived, decryptor>>
    OBVIOUS
  <1>2. sen' = sen \/ sen' = [sen EXCEPT ![s] = "fetched"] \/ sen' = [sen EXCEPT ![s] = "refused"]
    OBVIOUS
  <1>3. clients' = clients
          \/ (Schema = "multi" /\ sen[s] = "hasTask" /\ clients' = task.batchCnt)
    OBVIOUS
  <1>4. sen \in [Sensors -> {"idle", "hasTask", "fetched", "refused"}]
    BY DEF IInv, SchemaReadyPastPolling
  <1>5. (\E t \in Sensors : sen[t] # "idle") => \E t \in Sensors : sen'[t] # "idle"
    BY ONLY <1>2, <1>4
  <1>6. \A n : Sized(n) => Sized(n)'
    BY <1>5, SizedStays
  <1>7. clients' = clients \/ (Sized(clients') /\ clients' # 0)
    <2>1. task.batchCnt # 0
      BY BatchCntInTotal DEF IInv, KeyInStep
    <2>. QED
      BY <1>3, <2>1 DEF Sized
  <1>8. (clients = 0 \/ Sized(clients))'
    <2>1. CASE clients' = clients
      BY ONLY <2>1, <1>6, Sizes DEF Sizes
    <2>2. CASE Sized(clients')
      BY <2>2, <1>5, TaskFixed DEF Sized
    <2>. QED
      BY <2>1, <2>2, <1>7
  <1>. QED
    BY ONLY <1>1, <1>6, <1>7, <1>8, Sizes DEF Sizes

\* No step makes a number of clients of another kind.
LEMMA SizesPreserved == IInv /\ Sizes /\ [Next]_vars => Sizes'
  <1>. SUFFICES ASSUME IInv, Sizes, [Next]_vars PROVE Sizes'
    OBVIOUS
  <1>1. CASE UNCHANGED vars
    <2>1. UNCHANGED <<task, sen, clients, gen, schemaStatus, der, derived, key, decryptor>>
      BY <1>1 DEF vars, server, authority
    <2>2. \A n : Sized(n) => Sized(n)'
      BY <2>1, TaskFixed DEF Sized
    <2>. QED
      BY ONLY <2>1, <2>2, Sizes DEF Sizes
  <1>2. CASE Next
    <2>1. \A lost \in Losses : lost \in BOOLEAN
      BY DEF Losses
    <2>. QED
      BY <1>2, <2>1, AuthoritySized, ServerSized, SensorSized DEF Next, Alive
  <1>. QED
    BY <1>1, <1>2

\* An index of the first sensor is below the number of its batches, which no
\* decryptor is too small for; any index is below the number of all ciphers.
LEMMA MisfitsOfLaterSensors ==
  ASSUME IInv, TypeOK, CiphersServed, Sizes
  PROVE  OnlyLaterSensorsMisfit
  <1>. SUFFICES ASSUME NEW c \in Ciphers, keyFetched, cip[c] # "unsent",
                       Idx(c[1], c[2]) >= decryptor
                PROVE  /\ Schema = "multi" /\ decryptor = task.batchCnt
                       /\ task.sensorIds[c[1]] # task.sensorIds[0]
    BY DEF OnlyLaterSensorsMisfit
  <1>1. Sized(decryptor)
    BY DEF IInv, KeyInStep, Sizes
  <1>2. Idx(c[1], c[2]) \in 0..(Total - 1) /\ Total \in Nat /\ task.batchCnt \in Nat
    BY IndicesInRange, NumbersTyped, TotalInNat
  <1>3. decryptor # Total
    BY <1>2
  <1>4. Schema = "multi" /\ decryptor = task.batchCnt
    BY <1>1, <1>3 DEF Sized
  <1>5. c[2] \in 0..(task.batchCnt - 1)
    BY DEF CiphersServed, Batches
  <1>6. task.sensorIds[c[1]] # task.sensorIds[0]
    <2>. SUFFICES ASSUME task.sensorIds[c[1]] = task.sensorIds[0] PROVE FALSE
      OBVIOUS
    <2>0. SensorIdx(c[1]) = 0
      <3>1. c[1] \in Sensors /\ 0 \in Sensors
        BY ConstantsAssumption DEF Ciphers, Sensors
      <3>2. SensorIdx(c[1]) = SensorIdx(0) /\ SensorIdx(0) \in 0..0
        BY <3>1, NumbersTyped, IdsApart, FirstEntryFound
      <3>. QED
        BY ONLY <3>2
    <2>1. Idx(c[1], c[2]) = 0 * task.batchCnt + c[2]
      BY <1>4, <2>0 DEF Idx
    <2>2. Idx(c[1], c[2]) = c[2]
      BY <2>1, <1>2, <1>5
    <2>. QED
      BY <2>2, <1>2, <1>4, <1>5
  <1>. QED
    BY <1>4, <1>6

\* However requests are ordered and lost, a cipher AddCipher cannot store is one of
\* another sensor than the first, and its decryptor was made for the batches of one
\* sensor: those of the first sensor, and all of a dummy or a single schema, fit.
THEOREM MisfitsAreOfLaterSensors == Spec => []OnlyLaterSensorsMisfit
  <1>1. Init => Sizes
    BY DEF Init, Sizes
  <1>2. Spec => []IInv
    BY InitIInv, NextPreserves, PTL DEF Spec
  <1>3. Spec => []CiphersServed
    BY InitCiphersServed, CiphersServedPreserved, TypeCorrect, PTL DEF Spec
  <1>4. Spec => []Sizes
    BY <1>1, <1>2, SizesPreserved, PTL DEF Spec
  <1>. QED
    BY <1>2, <1>3, <1>4, TypeCorrect, MisfitsOfLaterSensors, PTL

-----------------------------------------------------------------------------
(* Polling and waiting: who is polled or waited for is still on its way.     *)

\* A status that keeps the worker polling is that of a goroutine of the authority
\* that has a step to make; a worker that returns with a decryptor has let the
\* waiting ciphers go on (GetFESchemaParams, DeriveDecryptionKey, AddCipher).
NobodyPollsInVain ==
  /\ srv = "pollSchema" /\ SchemaAnswer \notin {"none", "ready", "error"}
       => up /\ gen \in {"generate", "ready", "error"}
  /\ srv = "pollKey" /\ KeyStatusAnswer \notin {"none", "ready", "error"}
       => up /\ der \in {"derive", "setStatus"}
  /\ srv = "returned" /\ decryptor # -1 => keyFetched

\* Why that is so: "created" is stored as a goroutine starts and replaced before
\* it ends, an id is only handed out with a status, and the decryptor is built
\* right before the channel is closed.
StatusInStep ==
  /\ schemaStatus = "created" => gen \in {"generate", "ready", "error"}
  /\ keyStatus = "created" => der \in {"derive", "setStatus"}
  /\ hasId => keyStatus # "not found"
  /\ decryptor # -1 => srv = "close" \/ (srv = "returned" /\ keyFetched)

\* A status is replaced by whoever announced it.
LEMMA StatusPreserved == IInv /\ TypeOK /\ StatusInStep /\ [Next]_vars => StatusInStep'
  <1>. SUFFICES ASSUME IInv, TypeOK, StatusInStep, [Next]_vars PROVE StatusInStep'
    OBVIOUS
  <1>. USE DEF StatusInStep, server, authority
  <1>1. CASE UNCHANGED vars
    BY <1>1 DEF vars
  <1>2. CASE Generator
    BY <1>2 DEF Generator, GenerateStart, Generate, GenerateEnd, Published
  <1>3. CASE Deriver
    BY <1>3 DEF Deriver, Derive, DeriveSetStatus, DeriveStore
  <1>4. ASSUME NEW lost \in BOOLEAN, Worker(lost) PROVE StatusInStep'
    <2>1. CASE SubmitTask(lost)
      BY <2>1 DEF SubmitTask, HandleTask, IInv, SchemaReadyPastPolling
    <2>2. CASE PollSchema(lost) \/ PollKey(lost) \/ FetchKey(lost)
      <3>1. /\ UNCHANGED <<schemaStatus, gen, keyStatus, der, hasId, decryptor, keyFetched>>
            /\ srv \in {"pollSchema", "pollKey", "fetchKey"}
        BY <2>2 DEF PollSchema, PollKey, FetchKey
      <3>. QED
        BY ONLY <3>1, StatusInStep DEF StatusInStep
    <2>3. CASE SendRates(lost)
      BY <2>3 DEF SendRates, HandleRates
    <2>4. CASE BuildDecryptor \/ CloseFetchedChan
      <3>1. /\ UNCHANGED <<schemaStatus, gen, keyStatus, der, hasId>>
            /\ srv' = "close" \/ (srv' = "returned" /\ keyFetched' = TRUE)
        BY <2>4 DEF BuildDecryptor, CloseFetchedChan, Opened
      <3>. QED
        BY ONLY <3>1, StatusInStep DEF StatusInStep
    <2>. QED
      BY <1>4, <2>1, <2>2, <2>3, <2>4 DEF Worker
  <1>5. ASSUME NEW lost \in BOOLEAN, SubmitToSensor(lost) PROVE StatusInStep'
    BY <1>5 DEF SubmitToSensor
  <1>6. ASSUME NEW s \in Sensors, NEW lost \in BOOLEAN, FetchEncryption(s, lost)
        PROVE  StatusInStep'
    BY <1>6 DEF FetchEncryption
  <1>7. ASSUME NEW s \in Sensors, NEW b \in Batches, PostCipher(s, b) \/ AddCipher(s, b)
        PROVE  StatusInStep'
    <2>1. UNCHANGED <<schemaStatus, gen, keyStatus, der, hasId, decryptor, keyFetched, srv>>
      BY <1>7 DEF PostCipher, AddCipher
    <2>. QED
      BY ONLY <2>1, StatusInStep DEF StatusInStep
  <1>8. \A lost \in Losses : lost \in BOOLEAN
    BY DEF Losses
  <1>. QED
    BY <1>1, <1>2, <1>3, <1>4, <1>5, <1>6, <1>7, <1>8 DEF Next, Alive

\* The worker never polls a status nobody will replace, and leaves no cipher behind
\* that waits for a key it has fetched: what WorkerReturns and CiphersGoOn rest on
\* besides fairness.
THEOREM PollingIsNotInVain == Spec => []NobodyPollsInVain
  <1>1. Init => StatusInStep
    BY DEF Init, StatusInStep
  <1>2. Spec => []IInv
    BY InitIInv, NextPreserves, PTL DEF Spec
  <1>3. Spec => []StatusInStep
    BY <1>1, <1>2, TypeCorrect, StatusPreserved, PTL DEF Spec
  <1>4. TypeOK /\ StatusInStep => NobodyPollsInVain
    BY DEF TypeOK, StatusInStep, NobodyPollsInVain, SchemaAnswer, KeyStatusAnswer
  <1>. QED
    BY <1>3, <1>4, TypeCorrect, PTL

-----------------------------------------------------------------------------
(* Panics of the server. *)

\* What a panic of the server goes back to, where no request is lost: a first poll
\* before the authority's worker has stored a status, an authority that died
\* deriving the key of a dummy, or a cipher that is nil or does not fit.
PanicExplained ==
  crashed =>
    \/ Lossy
    \/ srv = "pollSchema" /\ schemaStatus = "unset"
    \/ srv = "pollKey" /\ ~up /\ DummyOutOfRange
    \/ keyFetched /\ \E c \in Ciphers :
         cip[c] = "nil" \/ (cip[c] = "waiting" /\ Idx(c[1], c[2]) >= decryptor)

\* The authority dies only while it derives, which nothing starts before the rates
\* are sent; an empty id comes of a lost answer.
Causes ==
  /\ srv \in {"submit", "pollSchema"} => der = "absent"
  /\ ~up => DummyOutOfRange /\ der = "derive"
  /\ srv = "pollKey" /\ ~hasId => Lossy
  /\ PanicExplained

\* What the panics of the ciphers depend on does not change with the task fixed.
LEMMA DummyFixed ==
  ASSUME UNCHANGED task PROVE DummyOutOfRange' = DummyOutOfRange
  BY TaskFixed DEF DummyOutOfRange

\* A step after which the server has crashed is the one that crashed it.
LEMMA CausesPreserved ==
  IInv /\ TypeOK /\ StatusInStep /\ Causes /\ [Next]_vars => Causes'
  <1>. SUFFICES ASSUME IInv, TypeOK, StatusInStep, Causes, [Next]_vars PROVE Causes'
    OBVIOUS
  <1>1. CASE UNCHANGED vars
    <2>1. UNCHANGED <<task, srv, der, up, hasId, crashed, schemaStatus, keyFetched, cip, decryptor>>
      BY <1>1 DEF vars, server, authority
    <2>. QED
      BY ONLY <2>1, DummyFixed, TaskFixed, Causes DEF Causes, PanicExplained
  <1>2. CASE Next
    <2>alive. ~crashed /\ UNCHANGED task
      BY <1>2 DEF Next, Alive
    <2>fixed. /\ DummyOutOfRange' = DummyOutOfRange
              /\ \A s, b : Idx(s, b)' = Idx(s, b)
      BY <2>alive, DummyFixed, TaskFixed
    <2>lost. \A lost \in Losses : lost \in BOOLEAN /\ (lost => Lossy)
      BY ConstantsAssumption DEF Losses
    \* Steps that leave the server running need only the first parts.
    <2>runs. ASSUME ~crashed',
                    srv' \in {"submit", "pollSchema"} => der' = "absent",
                    ~up' => DummyOutOfRange /\ der' = "derive",
                    srv' = "pollKey" /\ ~hasId' => Lossy
             PROVE  Causes'
      BY <2>runs, <2>fixed DEF Causes, PanicExplained
    <2>1. CASE Generator
      <3>1. UNCHANGED <<srv, der, up, hasId, crashed>>
        BY <2>1 DEF Generator, GenerateStart, Generate, GenerateEnd, server
      <3>. QED
        BY <3>1, <2>alive, <2>runs DEF Causes
    <2>2. CASE Deriver
      <3>1. UNCHANGED <<srv, hasId, crashed>> /\ der # "absent"
        BY <2>2 DEF Deriver, Derive, DeriveSetStatus, DeriveStore, server
      <3>2. ~up' => DummyOutOfRange /\ der' = "derive"
        BY <2>2 DEF Deriver, Derive, DeriveSetStatus, DeriveStore
      <3>. QED
        BY <3>1, <3>2, <2>alive, <2>runs DEF Causes
    <2>3. ASSUME NEW lost \in Losses, Worker(lost) PROVE Causes'
      <3>1. CASE SubmitTask(lost) \/ FetchKey(lost) \/ BuildDecryptor \/ CloseFetchedChan
        <4>1. UNCHANGED <<der, up, hasId, crashed>> /\ srv' # "pollKey"
              /\ (srv' \in {"submit", "pollSchema"} => srv = "submit")
          BY <3>1 DEF SubmitTask, FetchKey, BuildDecryptor, CloseFetchedChan, authority, AfterFetch
        <4>. QED
          BY <4>1, <2>alive, <2>runs DEF Causes
      <3>2. CASE PollSchema(lost)
        <4>0. schemaStatus # "none"
          BY DEF TypeOK
        <4>1. /\ UNCHANGED <<der, up, hasId, schemaStatus>> /\ srv = "pollSchema" /\ srv' # "pollKey"
              /\ crashed' => srv' = srv
              /\ crashed' => lost \/ ~up \/ schemaStatus = "unset"
          <5>1. UNCHANGED <<der, up, hasId, schemaStatus>> /\ srv = "pollSchema"
            BY <3>2 DEF PollSchema, authority
          <5>2. srv' # "pollKey" /\ (crashed' => srv' = srv)
            BY <3>2, <2>alive DEF PollSchema
          <5>3. crashed' => lost \/ ~up \/ schemaStatus = "unset"
            BY <3>2, <2>alive, <2>lost, <4>0 DEF PollSchema, Received, SchemaAnswer
          <5>. QED
            BY <5>1, <5>2, <5>3
        <4>2. up /\ der = "absent"
          BY <4>1 DEF Causes
        <4>3. CASE crashed'
          BY <4>1, <4>2, <4>3, <2>lost DEF Causes, PanicExplained
        <4>4. CASE ~crashed'
          BY <4>1, <4>2, <4>4, <2>runs
        <4>. QED
          BY <4>3, <4>4
      <3>3. CASE SendRates(lost)
        <4>1. UNCHANGED <<up, crashed>> /\ srv = "sendRates" /\ srv' = "pollKey" /\ hasId' = ~lost
              /\ der' \in {"derive", der}
          BY <3>3 DEF SendRates, HandleRates
        <4>2. ~up' => DummyOutOfRange /\ der' = "derive"
          BY <4>1 DEF Causes
        <4>. QED
          BY <4>1, <4>2, <2>alive, <2>lost, <2>runs
      <3>4. CASE PollKey(lost)
        <4>1. /\ UNCHANGED <<der, up, hasId>> /\ srv = "pollKey" /\ srv' \notin {"submit", "pollSchema"}
              /\ crashed' => srv' = srv
              /\ crashed' => lost \/ ~up \/ ~hasId \/ keyStatus = "none"
          BY <3>4, <2>alive, <2>lost DEF PollKey, Received, KeyStatusAnswer, authority
        <4>2. keyStatus # "none"
          BY DEF TypeOK
        <4>3. CASE crashed'
          BY <4>1, <4>2, <4>3, <2>fixed, <2>lost DEF Causes, PanicExplained
        <4>4. CASE ~crashed'
          BY <4>1, <4>4, <2>runs DEF Causes
        <4>. QED
          BY <4>3, <4>4
      <3>. QED
        BY <2>3, <3>1, <3>2, <3>3, <3>4 DEF Worker
    <2>4. ASSUME NEW lost \in Losses, SubmitToSensor(lost) PROVE Causes'
      <3>1. UNCHANGED <<srv, der, up, hasId, crashed>>
        BY <2>4 DEF SubmitToSensor, authority
      <3>. QED
        BY <3>1, <2>alive, <2>runs DEF Causes
    <2>5. ASSUME NEW lost \in Losses, NEW s \in Sensors, FetchEncryption(s, lost) PROVE Causes'
      <3>1. UNCHANGED <<srv, der, up, hasId, crashed>>
        BY <2>5 DEF FetchEncryption, server
      <3>. QED
        BY <3>1, <2>alive, <2>runs DEF Causes
    <2>6. ASSUME NEW s \in Sensors, NEW b \in Batches, PostCipher(s, b) PROVE Causes'
      <3>1. UNCHANGED <<srv, der, up, hasId, crashed>>
        BY <2>6 DEF PostCipher, server, authority
      <3>. QED
        BY <3>1, <2>alive, <2>runs DEF Causes
    <2>7. ASSUME NEW s \in Sensors, NEW b \in Batches, AddCipher(s, b) PROVE Causes'
      <3>1. UNCHANGED <<srv, der, up, hasId>>
        BY <2>7 DEF AddCipher, authority
      <3>2. CASE ~crashed'
        BY <3>1, <3>2, <2>runs DEF Causes
      <3>3. CASE crashed'
        <4>1. /\ UNCHANGED <<cip, keyFetched, decryptor>> /\ keyFetched
              /\ cip[<<s, b>>] = "nil" \/ (cip[<<s, b>>] = "waiting" /\ Idx(s, b) >= decryptor)
          BY <2>7, <2>alive, <3>3 DEF AddCipher
        <4>2. <<s, b>> \in Ciphers
          BY DEF Ciphers, Batches, IInv, KeyInStep, TaskParams
        <4>3. PanicExplained'
          <5>1. \E c \in Ciphers : cip'[c] = "nil" \/ (cip'[c] = "waiting" /\ Idx(c[1], c[2])' >= decryptor')
            BY <4>1, <4>2, <2>fixed
          <5>. QED
            BY <4>1, <5>1 DEF PanicExplained
        <4>. QED
          BY <3>1, <4>3, <2>fixed DEF Causes
      <3>. QED
        BY <3>2, <3>3
    <2>. QED
      BY <1>2, <2>1, <2>2, <2>3, <2>4, <2>5, <2>6, <2>7, <2>lost DEF Next, Alive
  <1>. QED
    BY <1>1, <1>2

\* Where no request is lost the server dies of one of three causes only: it polled
\* too early, the authority died, or AddCipher met a cipher that is nil or, by
\* MisfitsAreOfLaterSensors, one of another sensor (GetFESchemaParams,
\* DeriveDecryptionKey, AddCipher).
THEOREM PanicsHaveTheirCauses == Spec => []PanicExplained
  <1>1. Init => Causes
    BY DEF Init, Causes, PanicExplained
  <1>2. Init => StatusInStep
    BY DEF Init, StatusInStep
  <1>3. Spec => [](IInv /\ TypeOK /\ StatusInStep)
    BY <1>2, InitIInv, NextPreserves, InitTypeOK, NextTyped, StatusPreserved, PTL DEF Spec
  <1>4. Spec => []Causes
    BY <1>1, <1>3, CausesPreserved, PTL DEF Spec
  <1>5. Causes => PanicExplained
    BY DEF Causes
  <1>. QED
    BY <1>4, <1>5, PTL
=============================================================================
