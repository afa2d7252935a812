----------------------------- MODULE ServerHost -----------------------------
(***************************************************************************)
(* The requests that set the system up and create tasks, as the concurrent *)
(* handlers they are: the server's registry of customers and sensors       *)
(* (server/server.go, customer.go, sensor.go), its tariffs, the creation of*)
(* a task up to its worker (server/endpoints.go, task.go, TaskDaemon), and *)
(* the three addresses that are set once: the server's authority, and the  *)
(* server and customer of a sensor (sensor/endpoints.go).                  *)
(*                                                                         *)
(* A step is one access to what the handlers share: an operation of a      *)
(* sync.Map, a section under a customer's lock, a read or a write of an    *)
(* unprotected field.  A Sensor object is named by the request whose       *)
(* handler has allocated it.                                               *)
(***************************************************************************)
EXTENDS TaskDaemon, Integers, FiniteSets

CONSTANTS
  Customers,    \* the ids AddCustomer draws
  SensorIds,
  SensorPosts,  \* requests POST /group/:id/sensor
  TaskPosts,    \* requests POST /task; each is the task it creates
  SetPosts,     \* requests that set an address
  Addresses,
  None

ASSUME NoneAssumption == None \notin Customers \union SensorPosts \union Addresses

Cells == {"authority", "server", "customer"}

VARIABLES
  created,      \* customers in the server's map
  tariff,       \* the tariff of the tasks has been saved
  sensors,      \* sensors[id]: the Sensor object in the server's map
  members,      \* members[c]: Customer.Sensors
  customersOf,  \* customersOf[o]: Sensor.Customers of object o
  lock,         \* lock[c]: who holds the mutex of customer c for writing
  reg,          \* reg[p]: the handler of sensor post p
  tasks,        \* the server's map of tasks
  job,          \* job[t]: the handler of task post t
  cell,         \* cell[k]: Server.Authority, Sensor.Server, Sensor.CustomerId
  setter,       \* setter[p]: the handler of set post p
  overlaps      \* "sensors" once two registrations have overlapped, a cell once
                \* two requests that set it have

registry == <<sensors, members, customersOf, lock, reg>>
creation == <<tasks, job>>
setting == <<cell, setter>>
vars == <<daemonVars, created, tariff, registry, creation, setting, overlaps>>

\* A request that is refused leaves nothing behind: it is as if it had not come.
NoJob == [at |-> "absent", customer |-> None, authority |-> None, sensors |-> <<>>]

Init ==
  /\ DaemonInit
  /\ created = {} /\ tariff = FALSE
  /\ sensors = [i \in SensorIds |-> None]
  /\ members = [c \in Customers |-> <<>>]
  /\ customersOf = [o \in SensorPosts |-> <<>>]
  /\ lock = [c \in Customers |-> None]
  /\ reg = [p \in SensorPosts |-> [at |-> "absent", id |-> None, customer |-> None,
                                   object |-> None, listed |-> <<>>]]
  /\ tasks = {}
  /\ job = [t \in TaskPosts |-> NoJob]
  /\ cell = [k \in Cells |-> None]
  /\ setter = [p \in SetPosts |-> [at |-> "absent", cell |-> None, address |-> None]]
  /\ overlaps = {}

-----------------------------------------------------------------------------
(* POST /customer and POST /tariff: one store each. *)

CreateCustomer(c) ==
  /\ c \notin created
  /\ created' = created \union {c}
  /\ UNCHANGED <<daemonVars, tariff, registry, creation, setting, overlaps>>

AddTariff ==
  /\ tariff' = TRUE
  /\ UNCHANGED <<daemonVars, created, registry, creation, setting, overlaps>>

-----------------------------------------------------------------------------
(* POST /group/:id/sensor: addSensorEndpoint and AddSensorToCustomer. *)

Registering == {p \in SensorPosts : reg[p].at \in {"load", "make", "store", "add", "append", "list"}}

\* GetCustomer; for an unknown customer the request is refused.
PostSensor(p, i, c) ==
  /\ reg[p].at = "absent" /\ c \in created
  /\ reg' = [reg EXCEPT ![p].at = "load", ![p].id = i, ![p].customer = c]
  /\ overlaps' = IF Registering # {}
                   THEN overlaps \union {"sensors"} ELSE overlaps
  /\ UNCHANGED <<daemonVars, created, tariff, sensors, members, customersOf, lock,
                 creation, setting>>

\* sensors.Load; the slip does not look for an existing one.
KnownNever(i) == FALSE
Known(i) == sensors[i] # None

LoadSensor(p) ==
  /\ reg[p].at = "load"
  /\ reg' = [reg EXCEPT ![p].at = IF Known(reg[p].id) THEN "add" ELSE "make",
                        ![p].object = IF Known(reg[p].id) THEN sensors[reg[p].id] ELSE p]
  /\ UNCHANGED <<sensors, members, customersOf, lock>>

\* NewSensor stores the object, and AddSensorToCustomer stores it again.
StoreSensor(p) ==
  /\ \/ reg[p].at = "make" /\ reg' = [reg EXCEPT ![p].at = "store"]
     \/ reg[p].at = "store" /\ reg' = [reg EXCEPT ![p].at = "add"]
  /\ sensors' = [sensors EXCEPT ![reg[p].id] = reg[p].object]
  /\ UNCHANGED <<members, customersOf, lock>>

UnlockedAlways(c) == TRUE
Unlocked(c) == lock[c] = None

\* AddSensor: g.mutex.Lock(), and the read of the append to Customer.Sensors.
LockCustomer(p) ==
  LET c == reg[p].customer IN
  /\ reg[p].at = "add" /\ Unlocked(c)
  /\ lock' = [lock EXCEPT ![c] = p]
  /\ reg' = [reg EXCEPT ![p].at = "append", ![p].listed = members[c]]
  /\ UNCHANGED <<sensors, members, customersOf>>

\* Its write, and the read of the append to Sensor.Customers.
AddSensor(p) ==
  LET o == reg[p].object IN
  /\ reg[p].at = "append"
  /\ members' = [members EXCEPT ![reg[p].customer] = Append(reg[p].listed, o)]
  /\ reg' = [reg EXCEPT ![p].at = "list", ![p].listed = customersOf[o]]
  /\ UNCHANGED <<sensors, customersOf, lock>>

\* The write of that one, which the lock of another customer does not exclude.
ListCustomer(p) ==
  LET c == reg[p].customer IN
  /\ reg[p].at = "list"
  /\ customersOf' = [customersOf EXCEPT ![reg[p].object] = Append(reg[p].listed, c)]
  /\ lock' = [lock EXCEPT ![c] = None]
  /\ reg' = [reg EXCEPT ![p].at = "done", ![p].listed = <<>>]
  /\ UNCHANGED <<sensors, members>>

AddSensorToCustomer(p) ==
  /\ LoadSensor(p) \/ StoreSensor(p) \/ LockCustomer(p) \/ AddSensor(p) \/ ListCustomer(p)
  /\ UNCHANGED <<daemonVars, created, tariff, creation, setting, overlaps>>

-----------------------------------------------------------------------------
(* Addresses that are set once: setAuthorityEndpoint of the server,          *)
(* setServerEndpoint and setCustomerEndpoint of a sensor.                    *)

Deciding(k) == {p \in SetPosts : setter[p].at = "assign" /\ setter[p].cell = k}

\* Only nil or the same address is accepted; the slip overwrites another one.
AcceptsAny(k, a) == TRUE
Accepts(k, a) == cell[k] \in {None, a}

PostAddress(p, k, a) ==
  /\ setter[p].at = "absent" /\ Accepts(k, a)
  /\ setter' = [setter EXCEPT ![p] =
       [at |-> IF cell[k] = a THEN "already" ELSE "assign", cell |-> k, address |-> a]]
  /\ overlaps' = IF Deciding(k) # {} THEN overlaps \union {k} ELSE overlaps
  /\ UNCHANGED <<daemonVars, created, tariff, registry, creation, cell>>

Assign(p) ==
  /\ setter[p].at = "assign"
  /\ cell' = [cell EXCEPT ![setter[p].cell] = setter[p].address]
  /\ setter' = [setter EXCEPT ![p].at = "set"]
  /\ UNCHANGED <<daemonVars, created, tariff, registry, creation, overlaps>>

-----------------------------------------------------------------------------
(* POST /task: addTaskEndpoint. *)

\* IsAuthoritySet comes first.
PostTask(t, c) ==
  /\ job[t].at = "absent" /\ cell["authority"] # None
  /\ job' = [job EXCEPT ![t].at = "check", ![t].customer = c]
  /\ UNCHANGED <<taskChan, daemon, handle, started, tasks>>

Refused(t) == job' = [job EXCEPT ![t] = NoJob]

\* GetTariff panics on an id it does not know (the framework answers 500); a
\* duration that is no multiple of a batch and an unknown customer are refused;
\* NewTask copies the authority.
NewTask(t) ==
  /\ job[t].at = "check"
  /\ \/ Refused(t)
     \/ /\ tariff /\ job[t].customer \in created
        /\ job' = [job EXCEPT ![t].at = "new", ![t].authority = cell["authority"]]
  /\ UNCHANGED <<daemonVars, tasks>>

\* A customer without sensors is refused; the slip lets it pass.
AnySensors(c) == TRUE
HasSensors(c) == members[c] # <<>>

\* What comes after the sensors are set; the slip sends the task first.
SendFirst == "send"
AfterSensors == "store"

SetSensors(t) ==
  LET c == job[t].customer IN
  /\ job[t].at = "new" /\ Unlocked(c)
  /\ \/ /\ HasSensors(c)
        /\ job' = [job EXCEPT ![t].at = AfterSensors, ![t].sensors = members[c]]
     \/ ~HasSensors(c) /\ Refused(t)
  /\ UNCHANGED <<daemonVars, tasks>>

AddTask(t) ==
  /\ job[t].at = "store"
  /\ tasks' = tasks \union {t}
  /\ job' = [job EXCEPT ![t].at = "send"]
  /\ UNCHANGED daemonVars

SendTask(t) ==
  /\ job[t].at = "send"
  /\ SendTaskToDaemon(t)
  /\ job' = [job EXCEPT ![t].at = "accepted"]
  /\ UNCHANGED tasks

CreateTask(t) ==
  /\ NewTask(t) \/ SetSensors(t) \/ AddTask(t) \/ SendTask(t)
  /\ UNCHANGED <<created, tariff, registry, setting, overlaps>>

-----------------------------------------------------------------------------
RunDaemon == Daemon /\ UNCHANGED <<created, tariff, registry, creation, setting, overlaps>>
StopDaemon == DaemonStop /\ UNCHANGED <<created, tariff, registry, creation, setting, overlaps>>
Request(t, c) == PostTask(t, c) /\ UNCHANGED <<created, tariff, registry, setting, overlaps>>

Next ==
  \/ RunDaemon \/ StopDaemon \/ AddTariff
  \/ \E c \in Customers :
       \/ CreateCustomer(c)
       \/ \E p \in SensorPosts, i \in SensorIds : PostSensor(p, i, c)
       \/ \E t \in TaskPosts : Request(t, c)
  \/ \E p \in SetPosts, k \in Cells, a \in Addresses : PostAddress(p, k, a)
  \/ \E p \in SensorPosts : AddSensorToCustomer(p)
  \/ \E p \in SetPosts : Assign(p)
  \/ \E t \in TaskPosts : CreateTask(t)

Spec == Init /\ [][Next]_vars

-----------------------------------------------------------------------------
(* Properties. *)

Entries(list) == {list[n] : n \in DOMAIN list}
Objects == SensorPosts

\* Every variable stays in its range; the task channel holds no more than it
\* was made for.
TypeOK ==
  /\ daemon \in {"spawned", "loop", "returned"} /\ handle \in RunnableType
  /\ Len(taskChan) <= ChanSize /\ Entries(taskChan \o started) \subseteq TaskPosts
  /\ created \subseteq Customers /\ tariff \in BOOLEAN /\ tasks \subseteq TaskPosts
  /\ sensors \in [SensorIds -> Objects \union {None}]
  /\ \A c \in Customers : Entries(members[c]) \subseteq Objects
  /\ \A o \in Objects : Entries(customersOf[o]) \subseteq Customers
  /\ lock \in [Customers -> SensorPosts \union {None}]
  /\ \A p \in SensorPosts :
       reg[p].at \in {"absent", "load", "make", "store", "add", "append", "list", "done"}
  /\ \A t \in TaskPosts :
       job[t].at \in {"absent", "check", "new", "store", "send", "accepted"}
  /\ cell \in [Cells -> Addresses \union {None}]
  /\ \A p \in SetPosts : setter[p].at \in {"absent", "assign", "already", "set"}
  /\ overlaps \subseteq Cells \union {"sensors"}

Handed == started \o taskChan

\* addTaskEndpoint: when the daemon gets a task, the server's map has it (its
\* ciphers and GET /task/:id will ask for it), its authority is one somebody
\* was told is set, and its sensors are the ones its customer had at some
\* moment, at least one.  The checks and the copies are in different steps.
TasksComplete ==
  \A t \in Entries(Handed) :
    LET list == members[job[t].customer] IN
    /\ t \in tasks
    /\ \E p \in SetPosts : /\ setter[p].cell = "authority" /\ setter[p].at = "set"
                           /\ setter[p].address = job[t].authority
    /\ Len(job[t].sensors) \in 1..Len(list)
    /\ job[t].sensors = SubSeq(list, 1, Len(job[t].sensors))

\* SendTaskToDaemon and TaskDaemon: every accepted task is waiting or has a
\* worker, and none twice, also when the channel was full or the daemon stopped.
EachAcceptedOnce ==
  /\ Entries(Handed) = {t \in TaskPosts : job[t].at = "accepted"}
  /\ \A m, n \in DOMAIN Handed : Handed[m] = Handed[n] => m = n

\* AddSensor: registrations of one customer that overlap all stay in its list,
\* each under the id it came for (a sensor that registers twice is listed twice).
RegistrationsKept ==
  \A c \in Customers, o \in Objects :
    LET posts == {p \in SensorPosts : /\ reg[p].at \in {"list", "done"}
                                      /\ reg[p].customer = c /\ reg[p].object = o}
    IN /\ Cardinality({n \in DOMAIN members[c] : members[c][n] = o}) = Cardinality(posts)
       /\ \A p \in posts : reg[p].id = reg[o].id

\* What only overlapping requests can break.  Of registrations that come one
\* after the other, a sensor has one object, the one in the map, and customer
\* and sensor list each other; of requests that set an address one after the
\* other, all that were told of success named the address that is set.
SoundAlone ==
  /\ "sensors" \notin overlaps =>
       \A p \in SensorPosts : reg[p].at = "done" =>
         /\ reg[p].object = sensors[reg[p].id]
         /\ reg[p].customer \in Entries(customersOf[reg[p].object])
  /\ \A p \in SetPosts :
       setter[p].at \in {"already", "set"} /\ setter[p].cell \notin overlaps =>
         cell[setter[p].cell] = setter[p].address

\* setAuthorityEndpoint, setServerEndpoint, setCustomerEndpoint: an address that
\* is set never changes, unless two requests to set it have overlapped, and it
\* is never unset (the task worker uses the authority without looking).
SetOnceStands ==
  [][\A k \in Cells : cell[k] # None =>
       cell'[k] = cell[k] \/ (k \in overlaps /\ cell'[k] # None)]_vars
=============================================================================
