-------------------------- MODULE ServerHostProofs --------------------------
(***************************************************************************)
(* For any number of requests, customers, sensors and addresses, however   *)
(* the handlers interleave: what the registry, the addresses and the tasks *)
(* promise.  The registry and the addresses each have an invariant of      *)
(* their own; that of the tasks rests on both.                             *)
(***************************************************************************)
EXTENDS ServerHost, FiniteSetTheorems, SequenceTheorems, TLAPS

-----------------------------------------------------------------------------
(* The invariants. *)

\* A handler knows its sensor and customer from its start, the object from when
\* it has looked for one; what it has read to append to depends on where it is.
RegistryTyped ==
  /\ created \subseteq Customers
  /\ sensors \in [SensorIds -> Objects \union {None}]
  /\ members \in [Customers -> Seq(Objects)]
  /\ customersOf \in [Objects -> Seq(Customers)]
  /\ lock \in [Customers -> SensorPosts \union {None}]
  /\ reg \in [SensorPosts ->
                [at : {"absent", "load", "make", "store", "add", "append", "list", "done"},
                 id : SensorIds \union {None}, customer : Customers \union {None},
                 object : Objects \union {None}, listed : Seq(Objects) \union Seq(Customers)]]
  /\ \A p \in SensorPosts :
       /\ reg[p].at # "absent" => reg[p].id \in SensorIds /\ reg[p].customer \in Customers
       /\ reg[p].at \notin {"absent", "load"} => reg[p].object \in Objects
       /\ reg[p].at = "append" => reg[p].listed \in Seq(Objects)
       /\ reg[p].at = "list" => reg[p].listed \in Seq(Customers)

\* The lock of a customer has one holder, and what that has read of the list is
\* still the list.
Locked ==
  \A p \in SensorPosts :
    /\ reg[p].at \in {"append", "list"} => lock[reg[p].customer] = p
    /\ reg[p].at = "append" => reg[p].listed = members[reg[p].customer]

\* An object belongs to the id of the request that made it, and is used and
\* stored under that id only.
ObjectsNamed ==
  /\ \A p \in SensorPosts : reg[p].at \notin {"absent", "load"} =>
       reg[reg[p].object].at # "absent" /\ reg[reg[p].object].id = reg[p].id
  /\ \A i \in SensorIds : sensors[i] # None =>
       reg[sensors[i]].at # "absent" /\ reg[sensors[i]].id = i

\* Registrations that put object o on the list of customer c, and its places there.
Posts(c, o) ==
  {p \in SensorPosts : reg[p].at \in {"list", "done"} /\ reg[p].customer = c /\ reg[p].object = o}
PlacesIn(list, o) == {n \in DOMAIN list : list[n] = o}
Places(c, o) == PlacesIn(members[c], o)

\* Each registration has put its object on the list once.
Kept ==
  \A c \in Customers, o \in Objects :
    IsFiniteSet(Posts(c, o)) /\ Cardinality(Places(c, o)) = Cardinality(Posts(c, o))

\* While no two registrations overlap, what one has read stays true until it has
\* ended, and no second object for an id is made.
Alone ==
  "sensors" \notin overlaps =>
    /\ \A p, q \in Registering : p = q
    /\ \A p \in SensorPosts :
         /\ reg[p].at = "make" => sensors[reg[p].id] = None
         /\ reg[p].at \in {"store", "add", "append", "list", "done"} =>
              sensors[reg[p].id] = reg[p].object
         /\ reg[p].at = "list" => reg[p].listed = customersOf[reg[p].object]
         /\ reg[p].at = "done" => reg[p].customer \in Entries(customersOf[reg[p].object])

RegistryInv == RegistryTyped /\ Locked /\ ObjectsNamed /\ Kept /\ Alone

SettingTyped ==
  /\ cell \in [Cells -> Addresses \union {None}]
  /\ setter \in [SetPosts -> [at : {"absent", "assign", "already", "set"},
                              cell : Cells \union {None}, address : Addresses \union {None}]]
  /\ \A p \in SetPosts :
       setter[p].at # "absent" => setter[p].cell \in Cells /\ setter[p].address \in Addresses
  /\ overlaps \subseteq Cells \union {"sensors"}

\* Somebody was told that address a of k is set.
Told(k, a) ==
  \E p \in SetPosts : setter[p].cell = k /\ setter[p].at = "set" /\ setter[p].address = a

\* An address that is set has been set by somebody; while no two requests for it
\* overlap, only one is about to set it, and only if it is not set.
SettingSound ==
  /\ \A k \in Cells : cell[k] # None => Told(k, cell[k])
  /\ \A k \in Cells : k \notin overlaps =>
       /\ \A p, q \in Deciding(k) : p = q
       /\ Deciding(k) # {} => cell[k] = None
  /\ \A p \in SetPosts :
       setter[p].at \in {"already", "set"} /\ setter[p].cell \notin overlaps =>
         cell[setter[p].cell] = setter[p].address

SettingInv == SettingTyped /\ SettingSound

TasksTyped ==
  /\ daemon \in {"spawned", "loop", "returned"} /\ handle \in RunnableType
  /\ taskChan \in Seq(TaskPosts) /\ Len(taskChan) <= ChanSize /\ started \in Seq(TaskPosts)
  /\ tariff \in BOOLEAN /\ tasks \subseteq TaskPosts
  /\ job \in [TaskPosts ->
                [at : {"absent", "check", "new", "store", "send", "accepted"},
                 customer : Customers \union {None}, authority : Addresses \union {None},
                 sensors : Seq(Objects)]]

\* The sensors of a task are those its customer had first.
SensorsOf(t) ==
  LET list == members[job[t].customer] IN
  /\ Len(job[t].sensors) \in 1..Len(list)
  /\ job[t].sensors = SubSeq(list, 1, Len(job[t].sensors))

\* What each step of addTaskEndpoint has found stays true.
JobSound(t) ==
  /\ job[t].at # "absent" => job[t].customer \in Customers /\ cell["authority"] # None
  /\ job[t].at \in {"new", "store", "send", "accepted"} =>
       job[t].authority \in Addresses /\ Told("authority", job[t].authority)
  /\ job[t].at \in {"store", "send", "accepted"} => SensorsOf(t)
  /\ job[t].at \in {"send", "accepted"} => t \in tasks
JobsSound == \A t \in TaskPosts : JobSound(t)

TasksInv == TasksTyped /\ JobsSound /\ EachAcceptedOnce

IInv == RegistryInv /\ SettingInv /\ TasksInv

-----------------------------------------------------------------------------
(* The registry. *)

\* What the registry is made of.
registering == <<created, sensors, members, customersOf, lock, reg>>

\* The registration that has its object on the list, and keeps its customer.
LEMMA PostsStay ==
  ASSUME UNCHANGED members,
         \A q \in SensorPosts :
           /\ reg'[q].at \in {"list", "done"} <=> reg[q].at \in {"list", "done"}
           /\ reg[q].at \in {"list", "done"} =>
                reg'[q].customer = reg[q].customer /\ reg'[q].object = reg[q].object,
         Kept
  PROVE  Kept'
  <1>1. ASSUME NEW c \in Customers, NEW o \in Objects
        PROVE  Posts(c, o)' = Posts(c, o) /\ Places(c, o)' = Places(c, o)
    BY DEF Posts, Places, PlacesIn
  <1>. QED
    BY <1>1 DEF Kept

\* Nobody else moves.
LEMMA RegistryStays ==
  ASSUME RegistryInv, UNCHANGED registering, overlaps \subseteq overlaps'
  PROVE  RegistryInv'
  <1>1. RegistryTyped' /\ Locked' /\ ObjectsNamed'
    BY DEF RegistryInv, registering, RegistryTyped, Locked, ObjectsNamed
  <1>2. Kept'
    BY PostsStay DEF RegistryInv, registering
  <1>3. Alone'
    BY DEF RegistryInv, registering, Alone, Registering
  <1>. QED
    BY <1>1, <1>2, <1>3 DEF RegistryInv

\* A new customer has an empty list already.
LEMMA CustomerRegistered ==
  ASSUME RegistryInv, NEW c \in Customers, CreateCustomer(c)
  PROVE  RegistryInv'
  <1>. USE DEF CreateCustomer, registry
  <1>1. RegistryTyped' /\ Locked' /\ ObjectsNamed'
    BY DEF RegistryInv, RegistryTyped, Locked, ObjectsNamed
  <1>2. Kept'
    BY PostsStay DEF RegistryInv
  <1>3. Alone'
    BY DEF RegistryInv, Alone, Registering
  <1>. QED
    BY <1>1, <1>2, <1>3 DEF RegistryInv

\* What RegistryTyped says of one registration.
RegistrationTyped(v) ==
  /\ v \in [at : {"absent", "load", "make", "store", "add", "append", "list", "done"},
            id : SensorIds \union {None}, customer : Customers \union {None},
            object : Objects \union {None}, listed : Seq(Objects) \union Seq(Customers)]
  /\ v.at # "absent" => v.id \in SensorIds /\ v.customer \in Customers
  /\ v.at \notin {"absent", "load"} => v.object \in Objects
  /\ v.at = "append" => v.listed \in Seq(Objects)
  /\ v.at = "list" => v.listed \in Seq(Customers)

\* One registration moves on; the lists and the map of sensors keep their types.
LEMMA RegistryStaysTyped ==
  ASSUME RegistryTyped, NEW p \in SensorPosts, NEW v, RegistrationTyped(v),
         reg' = [reg EXCEPT ![p] = v], UNCHANGED created,
         sensors' \in [SensorIds -> Objects \union {None}],
         members' \in [Customers -> Seq(Objects)],
         customersOf' \in [Objects -> Seq(Customers)],
         lock' \in [Customers -> SensorPosts \union {None}]
  PROVE  RegistryTyped'
  <1>1. \A q \in SensorPosts : RegistrationTyped(reg'[q])
    BY DEF RegistryTyped, RegistrationTyped
  <1>2. DOMAIN reg' = SensorPosts /\ reg' = [q \in SensorPosts |-> reg'[q]]
    BY DEF RegistryTyped
  <1>. QED
    BY <1>1, <1>2 DEF RegistryTyped, RegistrationTyped


\* A registration begins: none refers to it as an object yet.
LEMMA PostRegistered ==
  ASSUME RegistryInv, NEW p \in SensorPosts, NEW i \in SensorIds, NEW c \in Customers,
         PostSensor(p, i, c)
  PROVE  RegistryInv'
  <1>. USE DEF PostSensor
  <1>1. /\ reg[p].at = "absent"
        /\ reg' = [reg EXCEPT ![p] = [reg[p] EXCEPT !.at = "load", !.id = i, !.customer = c]]
        /\ UNCHANGED <<created, sensors, members, customersOf, lock>>
    BY DEF RegistryInv, RegistryTyped
  <1>2. /\ \A q \in SensorPosts : q # p => reg'[q] = reg[q]
        /\ reg'[p].at = "load" /\ reg'[p].id = i /\ reg'[p].customer = c
        /\ reg'[p].object = reg[p].object /\ reg'[p].listed = reg[p].listed
    BY <1>1 DEF RegistryInv, RegistryTyped
  <1>3. RegistryTyped'
    <2>1. reg[p].object \in Objects \union {None} /\ reg[p].listed \in Seq(Objects) \union Seq(Customers)
      BY DEF RegistryInv, RegistryTyped
    <2>2. [reg[p] EXCEPT !.at = "load", !.id = i, !.customer = c]
            \in [at : {"load"}, id : SensorIds, customer : Customers, object : Objects \union {None},
                listed : Seq(Objects) \union Seq(Customers)]
      BY <2>1 DEF RegistryInv, RegistryTyped
    <2>. QED
      BY <1>1, <1>2, <2>2 DEF RegistryInv, RegistryTyped
  <1>4. Locked'
    BY <1>1, <1>2 DEF RegistryInv, Locked
  <1>5. ObjectsNamed'
    <2>1. ASSUME NEW q \in SensorPosts, reg'[q].at \notin {"absent", "load"}
          PROVE  reg'[reg'[q].object].at # "absent" /\ reg'[reg'[q].object].id = reg'[q].id
      <3>1. q # p /\ reg[q].at \notin {"absent", "load"}
        BY <1>2, <2>1
      <3>2. reg[q].object \in SensorPosts /\ reg[q].object # p
        BY <1>1, <3>1 DEF RegistryInv, RegistryTyped, ObjectsNamed, Objects
      <3>3. reg[reg[q].object].at # "absent" /\ reg[reg[q].object].id = reg[q].id
        BY <3>1 DEF RegistryInv, ObjectsNamed
      <3>4. reg'[q] = reg[q] /\ reg'[reg[q].object] = reg[reg[q].object]
        BY <1>2, <3>1, <3>2
      <3>. QED
        BY ONLY <3>3, <3>4
    <2>2. ASSUME NEW j \in SensorIds, sensors[j] # None
          PROVE  reg'[sensors[j]].at # "absent" /\ reg'[sensors[j]].id = j
      <3>1. sensors[j] \in SensorPosts /\ sensors[j] # p
        BY <1>1, <2>2 DEF RegistryInv, RegistryTyped, ObjectsNamed, Objects
      <3>. QED
        BY <1>2, <2>2, <3>1 DEF RegistryInv, ObjectsNamed
    <2>. QED
      BY <1>1, <2>1, <2>2 DEF ObjectsNamed
  <1>6. Kept'
    BY <1>1, <1>2, PostsStay DEF RegistryInv
  <1>7. Alone'
    <2>. SUFFICES ASSUME "sensors" \notin overlaps'
                  PROVE  Alone'
      BY DEF Alone
    <2>1. Registering = {} /\ "sensors" \notin overlaps
      BY DEF PostSensor
    <2>2. Registering' \subseteq {p}
      BY <1>2, <2>1 DEF Registering
    <2>3. \A q \in SensorPosts : reg'[q].at \notin {"absent", "load"} => q # p /\ reg'[q] = reg[q]
      BY <1>2
    <2>. QED
      BY ONLY RegistryInv, <1>1, <2>1, <2>2, <2>3 DEF RegistryInv, Alone
  <1>. QED
    BY <1>3, <1>4, <1>5, <1>6, <1>7 DEF RegistryInv

\* A registration that has looked for its sensor has one, or itself makes it.
LEMMA LoadRegistered ==
  ASSUME RegistryInv, NEW p \in SensorPosts, LoadSensor(p), UNCHANGED <<created, overlaps>>
  PROVE  RegistryInv'
  <1>. DEFINE known == sensors[reg[p].id] # None
              object == IF known THEN sensors[reg[p].id] ELSE p
  <1>1. /\ reg[p].at = "load"
        /\ reg' = [reg EXCEPT ![p] = [reg[p] EXCEPT !.at = IF known THEN "add" ELSE "make",
                                                     !.object = object]]
        /\ UNCHANGED <<created, sensors, members, customersOf, lock, overlaps>>
    BY DEF LoadSensor, Known, RegistryInv, RegistryTyped
  <1>2. /\ \A q \in SensorPosts : q # p => reg'[q] = reg[q]
        /\ reg'[p].at = IF known THEN "add" ELSE "make"
        /\ reg'[p].id = reg[p].id /\ reg'[p].customer = reg[p].customer
        /\ reg'[p].object = object /\ reg'[p].listed = reg[p].listed
        /\ reg[p].id \in SensorIds /\ object \in Objects
    BY <1>1 DEF RegistryInv, RegistryTyped, Objects
  <1>3. RegistryTyped'
    <2>. DEFINE v == [reg[p] EXCEPT !.at = IF known THEN "add" ELSE "make", !.object = object]
    <2>0. RegistrationTyped(reg[p])
      BY DEF RegistryInv, RegistryTyped, RegistrationTyped
    <2>1. RegistrationTyped(v)
      BY ONLY <1>1, <1>2, <2>0 DEF RegistrationTyped
    <2>2. reg' = [reg EXCEPT ![p] = v]
      BY <1>1
    <2>. HIDE DEF v
    <2>. QED
      BY <1>1, <2>1, <2>2, RegistryStaysTyped DEF RegistryInv, RegistryTyped
  <1>4. Locked'
    BY <1>1, <1>2 DEF RegistryInv, Locked
  <1>5. \A q \in SensorPosts : reg'[q].id = reg[q].id /\ (reg[q].at # "absent" => reg'[q].at # "absent")
    BY <1>1, <1>2
  <1>6. ObjectsNamed'
    <2>1. object \in SensorPosts /\ reg[object].at # "absent" /\ reg[object].id = reg[p].id
      <3>1. CASE known
        BY <1>2, <3>1 DEF RegistryInv, RegistryTyped, ObjectsNamed, Objects
      <3>2. CASE ~known
        BY <1>1, <3>2
      <3>. QED
        BY <3>1, <3>2
    <2>2. ASSUME NEW q \in SensorPosts, reg'[q].at \notin {"absent", "load"}
          PROVE  reg'[reg'[q].object].at # "absent" /\ reg'[reg'[q].object].id = reg'[q].id
      <3>1. CASE q = p
        <4>1. reg'[q].object = object /\ reg'[q].id = reg[p].id
          BY <1>2, <3>1
        <4>. HIDE DEF object
        <4>. QED
          BY ONLY <1>5, <2>1, <4>1
      <3>2. CASE q # p
        <4>1. /\ reg'[q] = reg[q] /\ reg[q].object \in SensorPosts
              /\ reg[reg[q].object].at # "absent" /\ reg[reg[q].object].id = reg[q].id
          BY <1>2, <2>2, <3>2 DEF RegistryInv, RegistryTyped, ObjectsNamed, Objects
        <4>. QED
          BY ONLY <1>5, <4>1
      <3>. QED
        BY <3>1, <3>2
    <2>3. ASSUME NEW j \in SensorIds, sensors[j] # None
          PROVE  reg'[sensors[j]].at # "absent" /\ reg'[sensors[j]].id = j
      <3>1. /\ sensors[j] \in SensorPosts
            /\ reg[sensors[j]].at # "absent" /\ reg[sensors[j]].id = j
        BY <2>3 DEF RegistryInv, RegistryTyped, ObjectsNamed, Objects
      <3>. QED
        BY ONLY <1>5, <3>1
    <2>. QED
      BY <1>1, <2>2, <2>3 DEF ObjectsNamed
  <1>7. Kept'
    BY <1>1, <1>2, PostsStay DEF RegistryInv
  <1>8. Alone'
    <2>. SUFFICES ASSUME "sensors" \notin overlaps PROVE Alone'
      BY <1>1 DEF Alone
    <2>1. Registering' = Registering
      BY <1>1, <1>2 DEF Registering
    <2>2. \/ reg'[p].at = "make" /\ sensors[reg[p].id] = None
          \/ reg'[p].at = "add" /\ sensors[reg[p].id] = reg'[p].object
      BY <1>2
    <2>3. reg'[p].id = reg[p].id /\ \A q \in SensorPosts : q # p => reg'[q] = reg[q]
      BY <1>2
    <2>4. UNCHANGED <<sensors, customersOf, overlaps>>
      BY <1>1
    <2>. QED
      BY ONLY RegistryInv, <2>1, <2>2, <2>3, <2>4 DEF RegistryInv, Alone
  <1>. QED
    BY <1>3, <1>4, <1>6, <1>7, <1>8 DEF RegistryInv

\* The sensor is stored under its own id, for the first time if no registration
\* overlaps this one.
LEMMA StoreRegistered ==
  ASSUME RegistryInv, NEW p \in SensorPosts, StoreSensor(p), UNCHANGED <<created, overlaps>>
  PROVE  RegistryInv'
  <1>. DEFINE i == reg[p].id
  <1>1. /\ reg[p].at \in {"make", "store"}
        /\ reg' = [reg EXCEPT ![p] = [reg[p] EXCEPT !.at = IF reg[p].at = "make" THEN "store" ELSE "add"]]
        /\ sensors' = [sensors EXCEPT ![i] = reg[p].object]
        /\ UNCHANGED <<created, members, customersOf, lock, overlaps>>
    BY DEF StoreSensor, RegistryInv, RegistryTyped
  <1>2. /\ \A q \in SensorPosts : q # p => reg'[q] = reg[q]
        /\ reg'[p].at = IF reg[p].at = "make" THEN "store" ELSE "add"
        /\ reg'[p].id = i /\ reg'[p].customer = reg[p].customer
        /\ reg'[p].object = reg[p].object /\ reg'[p].listed = reg[p].listed
        /\ i \in SensorIds /\ reg[p].object \in Objects
    BY <1>1 DEF RegistryInv, RegistryTyped
  <1>3. sensors'[i] = reg[p].object /\ \A j \in SensorIds : j # i => sensors'[j] = sensors[j]
    BY <1>1, <1>2 DEF RegistryInv, RegistryTyped
  <1>4. RegistryTyped'
    <2>. DEFINE v == [reg[p] EXCEPT !.at = IF reg[p].at = "make" THEN "store" ELSE "add"]
    <2>0. RegistrationTyped(reg[p])
      BY DEF RegistryInv, RegistryTyped, RegistrationTyped
    <2>1. RegistrationTyped(v)
      BY ONLY <1>1, <1>2, <2>0 DEF RegistrationTyped
    <2>2. reg' = [reg EXCEPT ![p] = v]
      BY <1>1
    <2>. HIDE DEF v
    <2>3. sensors' \in [SensorIds -> Objects \union {None}]
      BY <1>1, <1>2 DEF RegistryInv, RegistryTyped
    <2>. QED
      BY <1>1, <2>1, <2>2, <2>3, RegistryStaysTyped DEF RegistryInv, RegistryTyped
  <1>5. Locked'
    BY <1>1, <1>2 DEF RegistryInv, Locked
  <1>6. \A q \in SensorPosts : reg'[q].id = reg[q].id /\ (reg[q].at # "absent" => reg'[q].at # "absent")
    BY <1>1, <1>2
  <1>7. ObjectsNamed'
    BY <1>1, <1>2, <1>3, <1>6 DEF RegistryInv, RegistryTyped, ObjectsNamed, Objects
  <1>8. Kept'
    BY <1>1, <1>2, PostsStay DEF RegistryInv
  <1>9. Alone'
    <2>. SUFFICES ASSUME "sensors" \notin overlaps PROVE Alone'
      BY <1>1 DEF Alone
    <2>1. \A q \in Registering : q = p
      BY <1>1 DEF RegistryInv, Alone, Registering
    <2>2. Registering' \subseteq Registering
      BY <1>1, <1>2 DEF Registering
    <2>3. ASSUME NEW q \in SensorPosts, q # p, reg[q].at \in {"load", "make", "store", "add", "append", "list"}
          PROVE  FALSE
      BY <2>1, <2>3 DEF Registering
    <2>4. ASSUME NEW q \in SensorPosts, q # p, reg[q].at = "done" PROVE sensors'[reg[q].id] = reg[q].object
      <3>1. sensors[reg[q].id] = reg[q].object /\ reg[q].object \in Objects /\ reg[q].id \in SensorIds
        BY <2>4 DEF RegistryInv, Alone, RegistryTyped
      <3>2. CASE reg[p].at = "make"
        BY <1>3, <3>1, <3>2, NoneAssumption DEF RegistryInv, Alone, Objects
      <3>3. CASE reg[p].at = "store"
        BY <1>3, <3>1, <3>3 DEF RegistryInv, Alone
      <3>. QED
        BY <1>1, <3>2, <3>3
    <2>. QED
      BY <1>1, <1>2, <1>3, <2>1, <2>2, <2>3, <2>4 DEF RegistryInv, Alone
  <1>. QED
    BY <1>4, <1>5, <1>7, <1>8, <1>9 DEF RegistryInv

\* A registration takes the lock that nobody has, and reads the list.
LEMMA LockRegistered ==
  ASSUME RegistryInv, NEW p \in SensorPosts, LockCustomer(p), UNCHANGED <<created, overlaps>>
  PROVE  RegistryInv'
  <1>. DEFINE c == reg[p].customer
  <1>1. /\ reg[p].at = "add" /\ lock[c] = None
        /\ reg' = [reg EXCEPT ![p] = [reg[p] EXCEPT !.at = "append", !.listed = members[c]]]
        /\ lock' = [lock EXCEPT ![c] = p]
        /\ UNCHANGED <<created, sensors, members, customersOf, overlaps>>
    BY DEF LockCustomer, Unlocked, RegistryInv, RegistryTyped
  <1>2. /\ \A q \in SensorPosts : q # p => reg'[q] = reg[q]
        /\ reg'[p].at = "append"
        /\ reg'[p].id = reg[p].id /\ reg'[p].customer = c
        /\ reg'[p].object = reg[p].object /\ reg'[p].listed = members[c]
        /\ c \in Customers /\ members[c] \in Seq(Objects)
    BY <1>1 DEF RegistryInv, RegistryTyped
  <1>3. lock'[c] = p /\ \A d \in Customers : d # c => lock'[d] = lock[d]
    BY <1>1, <1>2 DEF RegistryInv, RegistryTyped
  <1>4. RegistryTyped'
    <2>. DEFINE v == [reg[p] EXCEPT !.at = "append", !.listed = members[c]]
    <2>0. RegistrationTyped(reg[p])
      BY DEF RegistryInv, RegistryTyped, RegistrationTyped
    <2>1. RegistrationTyped(v)
      BY ONLY <1>1, <1>2, <2>0 DEF RegistrationTyped
    <2>2. reg' = [reg EXCEPT ![p] = v]
      BY <1>1
    <2>. HIDE DEF v
    <2>3. lock' \in [Customers -> SensorPosts \union {None}]
      BY <1>1 DEF RegistryInv, RegistryTyped
    <2>. QED
      BY <1>1, <2>1, <2>2, <2>3, RegistryStaysTyped DEF RegistryInv, RegistryTyped
  <1>5. Locked'
    <2>1. ASSUME NEW q \in SensorPosts, q # p, reg[q].at \in {"append", "list"}
          PROVE  lock'[reg[q].customer] = q
      <3>1. reg[q].customer \in Customers /\ lock[reg[q].customer] = q /\ q # None
        BY <2>1, NoneAssumption DEF RegistryInv, RegistryTyped, Locked
      <3>. QED
        BY <1>1, <1>3, <3>1
    <2>. QED
      BY <1>1, <1>2, <1>3, <2>1 DEF RegistryInv, Locked
  <1>6. \A q \in SensorPosts : reg'[q].id = reg[q].id /\ (reg[q].at # "absent" => reg'[q].at # "absent")
    BY <1>1, <1>2
  <1>7. ObjectsNamed'
    BY <1>1, <1>2, <1>6 DEF RegistryInv, RegistryTyped, ObjectsNamed, Objects
  <1>8. Kept'
    BY <1>1, <1>2, PostsStay DEF RegistryInv
  <1>9. Alone'
    BY <1>1, <1>2 DEF RegistryInv, Alone, Registering
  <1>. QED
    BY <1>4, <1>5, <1>7, <1>8, <1>9 DEF RegistryInv

\* Appending one object to a list adds one place of that object and none of another.
LEMMA PlacesOfAppend ==
  ASSUME NEW list \in Seq(Objects), NEW o \in Objects, NEW new \in Objects
  PROVE  /\ IsFiniteSet(PlacesIn(list, o))
         /\ o # new => PlacesIn(Append(list, new), o) = PlacesIn(list, o)
         /\ o = new => /\ PlacesIn(Append(list, new), o) = PlacesIn(list, o) \union {Len(list) + 1}
                       /\ Len(list) + 1 \notin PlacesIn(list, o)
  <1>1. /\ Len(list) \in Nat /\ DOMAIN list = 1..Len(list)
        /\ DOMAIN Append(list, new) = 1..(Len(list) + 1)
        /\ Append(list, new)[Len(list) + 1] = new
        /\ \A n \in 1..Len(list) : Append(list, new)[n] = list[n]
    OBVIOUS
  <1>2. 1..(Len(list) + 1) = 1..Len(list) \union {Len(list) + 1} /\ Len(list) + 1 \notin 1..Len(list)
    BY <1>1
  <1>3. IsFiniteSet(PlacesIn(list, o))
    <2>1. PlacesIn(list, o) \subseteq 1..Len(list)
      BY <1>1 DEF PlacesIn
    <2>2. IsFiniteSet(1..Len(list))
      BY <1>1, FS_Interval
    <2>. QED
      BY <2>1, <2>2, FS_Subset
  <1>4. o # new => PlacesIn(Append(list, new), o) = PlacesIn(list, o)
    BY <1>1, <1>2 DEF PlacesIn
  <1>5. o = new => /\ PlacesIn(Append(list, new), o) = PlacesIn(list, o) \union {Len(list) + 1}
                   /\ Len(list) + 1 \notin PlacesIn(list, o)
    BY <1>1, <1>2 DEF PlacesIn
  <1>. QED
    BY <1>3, <1>4, <1>5

\* Holding the lock, a registration appends its object to the list as it is.
LEMMA AppendRegistered ==
  ASSUME RegistryInv, NEW p \in SensorPosts, AddSensor(p), UNCHANGED <<created, overlaps>>
  PROVE  RegistryInv'
  <1>. DEFINE c == reg[p].customer  o == reg[p].object
  <1>1. /\ reg[p].at = "append" /\ c \in Customers /\ o \in Objects
        /\ reg[p].listed = members[c] /\ members[c] \in Seq(Objects)
        /\ customersOf[o] \in Seq(Customers) /\ lock[c] = p
    BY DEF AddSensor, RegistryInv, RegistryTyped, Locked
  <1>2. /\ reg' = [reg EXCEPT ![p] = [reg[p] EXCEPT !.at = "list", !.listed = customersOf[o]]]
        /\ members' = [members EXCEPT ![c] = Append(members[c], o)]
        /\ UNCHANGED <<created, sensors, customersOf, lock, overlaps>>
    BY <1>1 DEF AddSensor, RegistryInv, RegistryTyped
  <1>3. /\ \A q \in SensorPosts : q # p => reg'[q] = reg[q]
        /\ reg'[p].at = "list"
        /\ reg'[p].id = reg[p].id /\ reg'[p].customer = c
        /\ reg'[p].object = o /\ reg'[p].listed = customersOf[o]
    BY <1>1, <1>2 DEF RegistryInv, RegistryTyped
  <1>4. /\ members'[c] = Append(members[c], o)
        /\ \A d \in Customers : d # c => members'[d] = members[d]
    BY <1>1, <1>2 DEF RegistryInv, RegistryTyped
  <1>5. RegistryTyped'
    <2>1. Append(members[c], o) \in Seq(Objects)
      BY <1>1
    <2>2. members' \in [Customers -> Seq(Objects)]
      BY <1>2, <2>1 DEF RegistryInv, RegistryTyped
    <2>. DEFINE v == [reg[p] EXCEPT !.at = "list", !.listed = customersOf[o]]
    <2>3. RegistrationTyped(reg[p])
      BY DEF RegistryInv, RegistryTyped, RegistrationTyped
    <2>4. RegistrationTyped(v)
      BY ONLY <1>1, <2>3 DEF RegistrationTyped
    <2>5. reg' = [reg EXCEPT ![p] = v]
      BY <1>2
    <2>. HIDE DEF v
    <2>. QED
      BY <1>2, <2>2, <2>4, <2>5, RegistryStaysTyped DEF RegistryInv, RegistryTyped
  <1>6. Locked'
    <2>1. ASSUME NEW q \in SensorPosts, q # p, reg[q].at = "append"
          PROVE  reg[q].listed = members'[reg[q].customer]
      BY <1>1, <1>4, <2>1 DEF RegistryInv, RegistryTyped, Locked
    <2>. QED
      BY <1>1, <1>2, <1>3, <2>1 DEF RegistryInv, Locked
  <1>7. \A q \in SensorPosts : reg'[q].id = reg[q].id /\ (reg[q].at # "absent" => reg'[q].at # "absent")
    BY <1>1, <1>3
  <1>8. ObjectsNamed'
    BY <1>1, <1>2, <1>3, <1>7 DEF RegistryInv, RegistryTyped, ObjectsNamed, Objects
  <1>9. Kept'
    <2>. SUFFICES ASSUME NEW d \in Customers, NEW e \in Objects
                  PROVE  /\ IsFiniteSet(Posts(d, e)')
                         /\ Cardinality(Places(d, e)') = Cardinality(Posts(d, e)')
      BY DEF Kept
    <2>1. IsFiniteSet(Posts(d, e)) /\ Cardinality(Places(d, e)) = Cardinality(Posts(d, e))
      BY DEF RegistryInv, Kept
    <2>2. Places(d, e)' = PlacesIn(members'[d], e)
      BY DEF Places, PlacesIn
    <2>3. CASE d = c /\ e = o
      <3>1. Posts(d, e)' = Posts(d, e) \union {p} /\ p \notin Posts(d, e)
        BY <1>1, <1>3, <2>3 DEF Posts
      <3>2. /\ Places(d, e)' = Places(d, e) \union {Len(members[d]) + 1}
            /\ Len(members[d]) + 1 \notin Places(d, e) /\ IsFiniteSet(Places(d, e))
        <4>1. members'[d] = Append(members[d], e) /\ members[d] \in Seq(Objects)
          BY <1>1, <1>4, <2>3
        <4>2. /\ IsFiniteSet(PlacesIn(members[d], e))
              /\ PlacesIn(Append(members[d], e), e) = PlacesIn(members[d], e) \union {Len(members[d]) + 1}
              /\ Len(members[d]) + 1 \notin PlacesIn(members[d], e)
          BY <4>1, PlacesOfAppend
        <4>3. Places(d, e) = PlacesIn(members[d], e)
          BY DEF Places
        <4>. QED
          BY ONLY <2>2, <4>1, <4>2, <4>3
      <3>3. IsFiniteSet(Posts(d, e)') /\ Cardinality(Posts(d, e)') = Cardinality(Posts(d, e)) + 1
        BY <2>1, <3>1, FS_AddElement
      <3>4. Cardinality(Places(d, e)') = Cardinality(Places(d, e)) + 1
        BY <3>2, FS_AddElement
      <3>. QED
        BY <2>1, <3>3, <3>4
    <2>4. CASE d # c \/ e # o
      <3>1. Posts(d, e)' = Posts(d, e)
        BY <1>1, <1>3, <2>4 DEF Posts
      <3>2. Places(d, e)' = Places(d, e)
        <4>1. CASE d = c
          <5>1. members'[d] = Append(members[d], o) /\ members[d] \in Seq(Objects) /\ e # o
            BY <1>1, <1>4, <2>4, <4>1
          <5>2. PlacesIn(Append(members[d], o), e) = PlacesIn(members[d], e)
            BY <1>1, <5>1, PlacesOfAppend
          <5>3. Places(d, e) = PlacesIn(members[d], e)
            BY DEF Places
          <5>. QED
            BY ONLY <2>2, <5>1, <5>2, <5>3
        <4>2. CASE d # c
          BY <1>4, <2>2, <4>2 DEF Places
        <4>. QED
          BY <4>1, <4>2
      <3>. QED
        BY <2>1, <3>1, <3>2
    <2>. QED
      BY <2>3, <2>4
  <1>10. Alone'
    BY <1>1, <1>2, <1>3 DEF RegistryInv, Alone, Registering
  <1>. QED
    BY <1>5, <1>6, <1>8, <1>9, <1>10 DEF RegistryInv

\* It writes what it has read of the customers of the sensor, with one more; only
\* a registration that overlaps can have added another in between.
LEMMA ListRegistered ==
  ASSUME RegistryInv, NEW p \in SensorPosts, ListCustomer(p), UNCHANGED <<created, overlaps>>
  PROVE  RegistryInv'
  <1>. DEFINE c == reg[p].customer  o == reg[p].object
  <1>1. /\ reg[p].at = "list" /\ c \in Customers /\ o \in Objects
        /\ reg[p].listed \in Seq(Customers) /\ lock[c] = p
    BY DEF ListCustomer, RegistryInv, RegistryTyped, Locked
  <1>2. /\ reg' = [reg EXCEPT ![p] = [reg[p] EXCEPT !.at = "done", !.listed = <<>>]]
        /\ customersOf' = [customersOf EXCEPT ![o] = Append(reg[p].listed, c)]
        /\ lock' = [lock EXCEPT ![c] = None]
        /\ UNCHANGED <<created, sensors, members, overlaps>>
    BY <1>1 DEF ListCustomer, RegistryInv, RegistryTyped
  <1>3. /\ \A q \in SensorPosts : q # p => reg'[q] = reg[q]
        /\ reg'[p].at = "done"
        /\ reg'[p].id = reg[p].id /\ reg'[p].customer = c /\ reg'[p].object = o
    BY <1>1, <1>2 DEF RegistryInv, RegistryTyped
  <1>4. /\ customersOf'[o] = Append(reg[p].listed, c)
        /\ \A e \in Objects : e # o => customersOf'[e] = customersOf[e]
    BY <1>1, <1>2 DEF RegistryInv, RegistryTyped
  <1>5. RegistryTyped'
    <2>1. Append(reg[p].listed, c) \in Seq(Customers) /\ <<>> \in Seq(Customers)
      BY <1>1
    <2>2. customersOf' \in [Objects -> Seq(Customers)]
      BY <1>2, <2>1 DEF RegistryInv, RegistryTyped
    <2>. DEFINE v == [reg[p] EXCEPT !.at = "done", !.listed = <<>>]
    <2>3. <<>> \in Seq(Objects)
      OBVIOUS
    <2>4. RegistrationTyped(v)
      <3>1. RegistrationTyped(reg[p])
        BY DEF RegistryInv, RegistryTyped, RegistrationTyped
      <3>. QED
        BY ONLY <1>1, <2>1, <2>3, <3>1 DEF RegistrationTyped
    <2>5. reg' = [reg EXCEPT ![p] = v]
      BY <1>2
    <2>6. lock' \in [Customers -> SensorPosts \union {None}]
      BY <1>2 DEF RegistryInv, RegistryTyped
    <2>. HIDE DEF v
    <2>. QED
      BY <1>2, <2>2, <2>4, <2>5, <2>6, RegistryStaysTyped DEF RegistryInv, RegistryTyped
  <1>6. Locked'
    <2>1. ASSUME NEW q \in SensorPosts, q # p, reg[q].at \in {"append", "list"}
          PROVE  lock'[reg[q].customer] = q
      BY <1>1, <1>2, <2>1 DEF RegistryInv, RegistryTyped, Locked
    <2>. QED
      BY <1>1, <1>2, <1>3, <2>1 DEF RegistryInv, Locked
  <1>7. \A q \in SensorPosts : reg'[q].id = reg[q].id /\ (reg[q].at # "absent" => reg'[q].at # "absent")
    BY <1>1, <1>3
  <1>8. ObjectsNamed'
    BY <1>1, <1>2, <1>3, <1>7 DEF RegistryInv, RegistryTyped, ObjectsNamed, Objects
  <1>9. Kept'
    BY <1>1, <1>2, <1>3, PostsStay DEF RegistryInv
  <1>10. Alone'
    <2>. SUFFICES ASSUME "sensors" \notin overlaps PROVE Alone'
      BY <1>2 DEF Alone
    <2>1. \A q \in Registering : q = p
      BY <1>1 DEF RegistryInv, Alone, Registering
    <2>2. Registering' \subseteq Registering
      BY <1>1, <1>3 DEF Registering
    <2>3. ASSUME NEW q \in SensorPosts, q # p, reg[q].at \in {"load", "make", "store", "add", "append", "list"}
          PROVE  FALSE
      BY <2>1, <2>3 DEF Registering
    <2>4. /\ reg[p].listed = customersOf[o] /\ customersOf[o] \in Seq(Customers)
          /\ Entries(customersOf'[o]) = Entries(customersOf[o]) \union {c}
      <3>1. reg[p].listed = customersOf[o]
        BY <1>1 DEF RegistryInv, Alone
      <3>2. \A list \in Seq(Customers) : Entries(Append(list, c)) = Entries(list) \union {c}
        <4>. SUFFICES ASSUME NEW list \in Seq(Customers)
                      PROVE  Entries(Append(list, c)) = Entries(list) \union {c}
          OBVIOUS
        <4>1. /\ Len(list) \in Nat /\ DOMAIN list = 1..Len(list)
              /\ DOMAIN Append(list, c) = 1..Len(list) \union {Len(list) + 1}
              /\ Append(list, c)[Len(list) + 1] = c
              /\ \A n \in 1..Len(list) : Append(list, c)[n] = list[n]
          BY <1>1
        <4>. QED
          BY <4>1 DEF Entries
      <3>. QED
        BY <1>1, <1>4, <3>1, <3>2
    <2>5. ASSUME NEW q \in SensorPosts, q # p, reg[q].at = "done"
          PROVE  reg[q].customer \in Entries(customersOf'[reg[q].object])
      <3>1. reg[q].customer \in Entries(customersOf[reg[q].object]) /\ reg[q].object \in Objects
        BY <2>5 DEF RegistryInv, Alone, RegistryTyped
      <3>. QED
        BY <1>4, <2>4, <3>1
    <2>6. c \in Entries(customersOf'[o])
      BY <2>4
    <2>7. sensors[reg[p].id] = o
      BY <1>1 DEF RegistryInv, Alone
    <2>8. \A q \in SensorPosts : q # p => reg[q].at \in {"absent", "done"}
      BY <2>1 DEF RegistryInv, RegistryTyped, Registering
    <2>. QED
      BY <1>1, <1>2, <1>3, <2>1, <2>2, <2>3, <2>5, <2>6, <2>7, <2>8 DEF RegistryInv, Alone
  <1>. QED
    BY <1>5, <1>6, <1>8, <1>9, <1>10 DEF RegistryInv

\* The registry is in order before anything has come.
LEMMA InitRegistryInv == Init => RegistryInv
  <1>. SUFFICES ASSUME Init PROVE RegistryInv
    OBVIOUS
  <1>1. /\ \A p \in SensorPosts : reg[p].at = "absent"
        /\ \A i \in SensorIds : sensors[i] = None
    BY DEF Init
  <1>2. RegistryTyped
    <2>1. reg \in [SensorPosts ->
                     [at : {"absent"}, id : {None}, customer : {None}, object : {None},
                      listed : Seq(Objects)]]
      BY DEF Init
    <2>2. /\ created \subseteq Customers
          /\ sensors \in [SensorIds -> Objects \union {None}]
          /\ members \in [Customers -> Seq(Objects)]
          /\ customersOf \in [Objects -> Seq(Customers)]
          /\ lock \in [Customers -> SensorPosts \union {None}]
      BY DEF Init, Objects
    <2>. QED
      BY <1>1, <2>1, <2>2 DEF RegistryTyped
  <1>3. Locked /\ ObjectsNamed /\ Alone
    BY <1>1 DEF Locked, ObjectsNamed, Alone, Registering
  <1>4. Kept
    <2>1. ASSUME NEW c \in Customers, NEW o \in Objects
          PROVE  Posts(c, o) = {} /\ Places(c, o) = {}
      BY <1>1 DEF Init, Posts, Places, PlacesIn
    <2>. QED
      BY <2>1, FS_EmptySet DEF Kept
  <1>. QED
    BY <1>2, <1>3, <1>4 DEF RegistryInv

\* All other handlers leave the registry alone, and an overlap is never forgotten.
LEMMA RegistryInvPreserved ==
  ASSUME RegistryInv, [Next]_vars
  PROVE  RegistryInv'
  <1>1. CASE UNCHANGED vars
    BY <1>1, RegistryStays DEF vars, registry, registering
  <1>2. CASE \/ RunDaemon \/ StopDaemon \/ AddTariff
             \/ \E t \in TaskPosts : CreateTask(t) \/ \E c \in Customers : Request(t, c)
    BY <1>2, RegistryStays DEF RunDaemon, StopDaemon, AddTariff, CreateTask, Request, registry, registering
  <1>3. CASE \E p \in SetPosts : Assign(p) \/ \E k \in Cells, a \in Addresses : PostAddress(p, k, a)
    BY <1>3, RegistryStays DEF Assign, PostAddress, registry, registering
  <1>4. ASSUME NEW p \in SensorPosts, AddSensorToCustomer(p) PROVE RegistryInv'
    BY <1>4, LoadRegistered, StoreRegistered, LockRegistered, AppendRegistered, ListRegistered
       DEF AddSensorToCustomer
  <1>. QED
    BY <1>1, <1>2, <1>3, <1>4, CustomerRegistered, PostRegistered DEF Next

\* So the registry's invariant holds in every state.
LEMMA RegistryInvAlways == Spec => []RegistryInv
  BY InitRegistryInv, RegistryInvPreserved, PTL DEF Spec

\* However registrations of a customer interleave, its list has each of them once,
\* under the id it came for (AddSensor, AddSensorToCustomer).
THEOREM RegistrationsStayListed == Spec => []RegistrationsKept
  <1>1. RegistryInv => RegistrationsKept
    <2>. SUFFICES ASSUME RegistryInv, NEW c \in Customers, NEW o \in Objects
                  PROVE  /\ Cardinality({n \in DOMAIN members[c] : members[c][n] = o})
                              = Cardinality(Posts(c, o))
                         /\ \A p \in Posts(c, o) : reg[p].id = reg[o].id
      BY DEF RegistrationsKept, Posts
    <2>1. Cardinality(Places(c, o)) = Cardinality(Posts(c, o))
      BY DEF RegistryInv, Kept
    <2>2. \A p \in Posts(c, o) : reg[p].id = reg[o].id
      BY DEF RegistryInv, ObjectsNamed, Posts
    <2>. QED
      BY <2>1, <2>2 DEF Places, PlacesIn
  <1>. QED
    BY <1>1, RegistryInvAlways, PTL

\* A customer's lock that is taken is held by a handler of that customer inside
\* AddSensor, which waits for nothing: who waits for the lock will get it.
LocksInUse ==
  \A c \in Customers : lock[c] # None =>
    /\ lock[c] \in SensorPosts
    /\ reg[lock[c]].at \in {"append", "list"} /\ reg[lock[c]].customer = c

\* A lock is taken and given back by its holder only.
LEMMA LocksInUsePreserved ==
  ASSUME RegistryInv, LocksInUse, [Next]_vars
  PROVE  LocksInUse'
  <1>. USE DEF RegistryInv, LocksInUse
  <1>t. /\ lock \in [Customers -> SensorPosts \union {None}]
        /\ \A p \in SensorPosts : reg[p].at \in {"append", "list"} =>
             reg[p].customer \in Customers /\ lock[reg[p].customer] = p
    BY DEF RegistryTyped, Locked
  <1>1. CASE UNCHANGED <<lock, reg>>
    BY <1>1
  <1>2. CASE \/ UNCHANGED vars \/ RunDaemon \/ StopDaemon \/ AddTariff
             \/ \E t \in TaskPosts : CreateTask(t) \/ \E c \in Customers : Request(t, c)
             \/ \E p \in SetPosts : Assign(p) \/ \E k \in Cells, a \in Addresses : PostAddress(p, k, a)
             \/ \E c \in Customers : CreateCustomer(c)
    BY <1>1, <1>2 DEF vars, RunDaemon, StopDaemon, AddTariff, CreateTask, Request, Assign,
                      PostAddress, CreateCustomer, registry
  <1>4. ASSUME NEW p \in SensorPosts, UNCHANGED lock, reg[p].at \notin {"append", "list"},
               \A q \in SensorPosts : q # p => reg'[q] = reg[q]
        PROVE  LocksInUse'
    BY <1>4
  <1>5. ASSUME NEW p \in SensorPosts, NEW i \in SensorIds, NEW c \in Customers, PostSensor(p, i, c)
        PROVE  LocksInUse'
    <2>1. UNCHANGED lock /\ reg[p].at = "absent" /\ \A q \in SensorPosts : q # p => reg'[q] = reg[q]
      BY <1>5 DEF PostSensor, RegistryTyped
    <2>. QED
      BY <2>1, <1>4
  <1>6. ASSUME NEW p \in SensorPosts, LoadSensor(p) \/ StoreSensor(p) PROVE LocksInUse'
    <2>1. /\ UNCHANGED lock /\ reg[p].at \notin {"append", "list"}
          /\ \A q \in SensorPosts : q # p => reg'[q] = reg[q]
      BY <1>6 DEF LoadSensor, StoreSensor, RegistryTyped
    <2>. QED
      BY <2>1, <1>4
  <1>7. ASSUME NEW p \in SensorPosts, LockCustomer(p) PROVE LocksInUse'
    <2>1. /\ lock' = [lock EXCEPT ![reg[p].customer] = p] /\ reg[p].customer \in Customers
          /\ reg[p].at = "add" /\ reg'[p].at = "append" /\ reg'[p].customer = reg[p].customer
          /\ \A q \in SensorPosts : q # p => reg'[q] = reg[q]
      BY <1>7 DEF LockCustomer, RegistryTyped
    <2>. QED
      BY <2>1, <1>t
  <1>8. ASSUME NEW p \in SensorPosts, AddSensor(p) PROVE LocksInUse'
    <2>1. /\ UNCHANGED lock
          /\ reg[p].at = "append" /\ reg'[p].at = "list" /\ reg'[p].customer = reg[p].customer
          /\ \A q \in SensorPosts : q # p => reg'[q] = reg[q]
      BY <1>8 DEF AddSensor, RegistryTyped
    <2>. QED
      BY <2>1, <1>t
  <1>9. ASSUME NEW p \in SensorPosts, ListCustomer(p) PROVE LocksInUse'
    <2>1. /\ lock' = [lock EXCEPT ![reg[p].customer] = None] /\ reg[p].customer \in Customers
          /\ lock[reg[p].customer] = p
          /\ \A q \in SensorPosts : q # p => reg'[q] = reg[q]
      BY <1>9, <1>t DEF ListCustomer, RegistryTyped
    <2>. QED
      BY <2>1, <1>t
  <1>. QED
    BY <1>2, <1>5, <1>6, <1>7, <1>8, <1>9 DEF Next, AddSensorToCustomer

\* No handler waits for a lock that nobody will give back: neither a registration
\* nor addTaskEndpoint, which reads the list under it (Customer.AddSensor, Task.SetSensors).
THEOREM LocksComeBack == Spec => []LocksInUse
  <1>1. Init => LocksInUse
    BY DEF Init, LocksInUse
  <1>. QED
    BY <1>1, RegistryInvAlways, LocksInUsePreserved, PTL DEF Spec

-----------------------------------------------------------------------------
(* The addresses. *)

\* No address is set before a request has come.
LEMMA InitSettingInv == Init => SettingInv
  <1>. SUFFICES ASSUME Init PROVE SettingInv
    OBVIOUS
  <1>1. /\ \A p \in SetPosts : setter[p].at = "absent"
        /\ \A k \in Cells : cell[k] = None
    BY DEF Init
  <1>2. SettingTyped
    <2>1. setter \in [SetPosts -> [at : {"absent"}, cell : {None}, address : {None}]]
      BY DEF Init
    <2>2. cell \in [Cells -> Addresses \union {None}] /\ overlaps \subseteq Cells \union {"sensors"}
      BY DEF Init
    <2>. QED
      BY <1>1, <2>1, <2>2 DEF SettingTyped
  <1>3. SettingSound
    BY <1>1 DEF SettingSound, Deciding
  <1>. QED
    BY <1>2, <1>3 DEF SettingInv

\* Whatever does not touch the addresses.
LEMMA SettingStays ==
  ASSUME SettingInv, UNCHANGED setting, overlaps' \in {overlaps, overlaps \union {"sensors"}}
  PROVE  SettingInv'
  <1>. USE DEF setting
  <1>1. SettingTyped'
    BY DEF SettingInv, SettingTyped
  <1>2. SettingSound'
    BY DEF SettingInv, SettingSound, Told, Deciding
  <1>. QED
    BY <1>1, <1>2 DEF SettingInv

\* A request that finds no address decides to set its own; one that finds its own
\* is told that it is set.
LEMMA AddressDecided ==
  ASSUME SettingInv, NEW p \in SetPosts, NEW k \in Cells, NEW a \in Addresses, PostAddress(p, k, a)
  PROVE  SettingInv'
  <1>. DEFINE at == IF cell[k] = a THEN "already" ELSE "assign"
  <1>1. /\ setter[p].at = "absent" /\ cell[k] \in {None, a} /\ UNCHANGED cell
        /\ setter' = [setter EXCEPT ![p] = [at |-> at, cell |-> k, address |-> a]]
        /\ overlaps' = IF Deciding(k) # {} THEN overlaps \union {k} ELSE overlaps
    BY DEF PostAddress, Accepts
  <1>2. /\ \A q \in SetPosts : q # p => setter'[q] = setter[q]
        /\ setter'[p].at = at /\ setter'[p].cell = k /\ setter'[p].address = a
    BY <1>1 DEF SettingInv, SettingTyped
  <1>3. SettingTyped'
    <2>1. [at |-> at, cell |-> k, address |-> a]
            \in [at : {"already", "assign"}, cell : Cells, address : Addresses]
      OBVIOUS
    <2>. HIDE DEF at
    <2>. QED
      BY <1>1, <1>2, <2>1 DEF SettingInv, SettingTyped
  <1>4. \A j \in Cells : cell'[j] # None => Told(j, cell[j])'
    <2>. SUFFICES ASSUME NEW j \in Cells, cell[j] # None
                  PROVE  \E q \in SetPosts : /\ setter'[q].cell = j /\ setter'[q].at = "set"
                                             /\ setter'[q].address = cell'[j]
      BY <1>1 DEF Told
    <2>1. PICK q \in SetPosts : setter[q].cell = j /\ setter[q].at = "set" /\ setter[q].address = cell[j]
      BY DEF SettingInv, SettingSound, Told
    <2>2. q # p
      BY <1>1, <2>1
    <2>. QED
      BY <1>1, <1>2, <2>1, <2>2
  <1>5. ASSUME NEW j \in Cells, j \notin overlaps'
        PROVE  /\ \A q, r \in Deciding(j)' : q = r
               /\ Deciding(j)' # {} => cell[j] = None
    <2>1. j \notin overlaps /\ (j = k => Deciding(k) = {})
      BY <1>1, <1>5
    <2>2. /\ \A q, r \in Deciding(j) : q = r
          /\ Deciding(j) # {} => cell[j] = None
      BY <2>1 DEF SettingInv, SettingSound
    <2>3. CASE j # k
      <3>1. Deciding(j)' = Deciding(j)
        BY <1>1, <1>2, <2>3 DEF Deciding
      <3>. QED
        BY <2>2, <3>1
    <2>4. CASE j = k
      <3>1. Deciding(j)' \subseteq {p} /\ (Deciding(j)' # {} => at = "assign")
        BY <1>2, <2>1, <2>4 DEF Deciding
      <3>. QED
        BY <1>1, <2>4, <3>1
    <2>. QED
      BY <2>3, <2>4
  <1>6. ASSUME NEW q \in SetPosts, setter'[q].at \in {"already", "set"}, setter'[q].cell \notin overlaps'
        PROVE  cell[setter'[q].cell] = setter'[q].address
    <2>1. overlaps \subseteq overlaps'
      BY <1>1
    <2>2. CASE q = p
      BY <1>2, <1>6, <2>2
    <2>3. CASE q # p
      BY <1>2, <1>6, <2>1, <2>3 DEF SettingInv, SettingSound
    <2>. QED
      BY <2>2, <2>3
  <1>7. SettingSound'
    BY <1>1, <1>4, <1>5, <1>6 DEF SettingSound
  <1>. QED
    BY <1>3, <1>7 DEF SettingInv

\* The address that is set was not, unless another request was setting it too.
LEMMA AddressAssigned ==
  ASSUME SettingInv, NEW p \in SetPosts, Assign(p)
  PROVE  SettingInv'
  <1>. DEFINE k == setter[p].cell  a == setter[p].address
  <1>1. /\ setter[p].at = "assign" /\ k \in Cells /\ a \in Addresses /\ UNCHANGED overlaps
        /\ cell' = [cell EXCEPT ![k] = a]
        /\ setter' = [setter EXCEPT ![p] = [setter[p] EXCEPT !.at = "set"]]
    BY DEF Assign, SettingInv, SettingTyped
  <1>2. /\ \A q \in SetPosts : q # p => setter'[q] = setter[q]
        /\ setter'[p].at = "set" /\ setter'[p].cell = k /\ setter'[p].address = a
        /\ cell'[k] = a /\ \A j \in Cells : j # k => cell'[j] = cell[j]
    BY <1>1 DEF SettingInv, SettingTyped
  <1>3. SettingTyped'
    BY <1>1, <1>2 DEF SettingInv, SettingTyped
  <1>4. \A j \in Cells : cell'[j] # None => Told(j, cell[j])'
    <2>. SUFFICES ASSUME NEW j \in Cells, cell'[j] # None
                  PROVE  \E q \in SetPosts : /\ setter'[q].cell = j /\ setter'[q].at = "set"
                                             /\ setter'[q].address = cell'[j]
      BY DEF Told
    <2>1. CASE j = k
      BY <1>2, <2>1
    <2>2. CASE j # k
      <3>1. PICK q \in SetPosts : setter[q].cell = j /\ setter[q].at = "set" /\ setter[q].address = cell[j]
        BY <1>2, <2>2 DEF SettingInv, SettingSound, Told
      <3>2. q # p
        BY <1>1, <3>1
      <3>. QED
        BY <1>2, <2>2, <3>1, <3>2
    <2>. QED
      BY <2>1, <2>2
  <1>5. k \notin overlaps => /\ cell[k] = None
                             /\ \A q \in Deciding(k) : q = p
    BY <1>1 DEF SettingInv, SettingSound, Deciding
  <1>6. ASSUME NEW j \in Cells, j \notin overlaps
        PROVE  /\ \A q, r \in Deciding(j)' : q = r
               /\ Deciding(j)' # {} => cell'[j] = None
    <2>2. /\ \A q, r \in Deciding(j) : q = r
          /\ Deciding(j) # {} => cell[j] = None
      BY <1>6 DEF SettingInv, SettingSound
    <2>3. CASE j # k
      <3>1. Deciding(j)' = Deciding(j)
        BY <1>1, <1>2, <2>3 DEF Deciding
      <3>. QED
        BY <1>2, <2>2, <2>3, <3>1
    <2>4. CASE j = k
      <3>1. Deciding(j)' = {}
        BY <1>2, <1>5, <1>6, <2>4 DEF Deciding
      <3>. QED
        BY <3>1
    <2>. QED
      BY <2>3, <2>4
  <1>7. ASSUME NEW q \in SetPosts, setter'[q].at \in {"already", "set"}, setter'[q].cell \notin overlaps
        PROVE  cell'[setter'[q].cell] = setter'[q].address
    <2>1. CASE q = p
      BY <1>2, <2>1
    <2>2. CASE q # p
      <3>1. /\ cell[setter[q].cell] = setter[q].address /\ setter'[q] = setter[q]
            /\ setter[q].cell \in Cells /\ setter[q].address \in Addresses
        BY <1>2, <1>7, <2>2 DEF SettingInv, SettingSound, SettingTyped
      <3>2. setter[q].cell # k
        BY <1>5, <1>7, <3>1, NoneAssumption
      <3>. QED
        BY <1>2, <3>1, <3>2
    <2>. QED
      BY <2>1, <2>2
  <1>8. SettingSound'
    BY <1>1, <1>4, <1>6, <1>7 DEF SettingSound
  <1>. QED
    BY <1>3, <1>8 DEF SettingInv

\* What the other requests do to the overlaps is about registrations.
LEMMA SettingInvPreserved ==
  ASSUME SettingInv, [Next]_vars
  PROVE  SettingInv'
  <1>1. CASE UNCHANGED vars
    BY <1>1, SettingStays DEF vars
  <1>2. CASE \/ RunDaemon \/ StopDaemon \/ AddTariff
             \/ \E t \in TaskPosts : CreateTask(t) \/ \E c \in Customers : Request(t, c)
    BY <1>2, SettingStays DEF RunDaemon, StopDaemon, AddTariff, CreateTask, Request
  <1>3. CASE \/ \E c \in Customers : CreateCustomer(c)
             \/ \E p \in SensorPosts : AddSensorToCustomer(p)
    BY <1>3, SettingStays DEF CreateCustomer, AddSensorToCustomer
  <1>4. ASSUME NEW p \in SensorPosts, NEW i \in SensorIds, NEW c \in Customers, PostSensor(p, i, c)
        PROVE  SettingInv'
    BY <1>4, SettingStays DEF PostSensor
  <1>. QED
    BY <1>1, <1>2, <1>3, <1>4, AddressDecided, AddressAssigned DEF Next

\* So the invariant of the addresses holds in every state.
LEMMA SettingInvAlways == Spec => []SettingInv
  BY InitSettingInv, SettingInvPreserved, PTL DEF Spec

\* Only a request that finds an address unset writes it: unless two requests for
\* it have overlapped it stands, and in no case is it unset again
\* (setAuthorityEndpoint, setServerEndpoint, setCustomerEndpoint).
LEMMA CellsStand ==
  ASSUME SettingInv, [Next]_vars, NEW k \in Cells, cell[k] # None
  PROVE  cell'[k] = cell[k] \/ (k \in overlaps /\ cell'[k] # None)
  <1>1. CASE UNCHANGED cell
    BY <1>1
  <1>2. ASSUME NEW p \in SetPosts, Assign(p)
        PROVE  cell'[k] = cell[k] \/ (k \in overlaps /\ cell'[k] # None)
    <2>1. /\ setter[p].at = "assign" /\ setter[p].cell \in Cells /\ setter[p].address \in Addresses
          /\ cell' = [cell EXCEPT ![setter[p].cell] = setter[p].address]
      BY <1>2 DEF Assign, SettingInv, SettingTyped
    <2>2. CASE k # setter[p].cell
      BY <2>1, <2>2 DEF SettingInv, SettingTyped
    <2>3. CASE k = setter[p].cell
      <3>1. p \in Deciding(k)
        BY <2>1, <2>3 DEF Deciding
      <3>2. k \in overlaps
        BY <3>1 DEF SettingInv, SettingSound
      <3>3. cell'[k] # None
        BY <2>1, <2>3, NoneAssumption DEF SettingInv, SettingTyped
      <3>. QED
        BY <3>2, <3>3
    <2>. QED
      BY <2>2, <2>3
  <1>3. Next => UNCHANGED cell \/ \E p \in SetPosts : Assign(p)
    BY DEF Next, RunDaemon, StopDaemon, AddTariff, CreateTask, Request, CreateCustomer,
           AddSensorToCustomer, PostSensor, PostAddress, setting
  <1>. QED
    BY <1>1, <1>2, <1>3 DEF vars, setting

\* An address that is set stands, whatever requests for it come later
\* (IsAuthoritySet and its like); the task worker need not look again.
THEOREM AddressesStand == Spec => SetOnceStands
  <1>1. SettingInv /\ [Next]_vars =>
          [\A k \in Cells : cell[k] # None =>
             cell'[k] = cell[k] \/ (k \in overlaps /\ cell'[k] # None)]_vars
    BY CellsStand
  <1>. QED
    BY <1>1, SettingInvAlways, PTL DEF Spec, SetOnceStands

\* Requests that come one after the other need no lock: a sensor has one object,
\* on both lists, and every setter was told of the address that is set
\* (AddSensorToCustomer, setAuthorityEndpoint).
THEOREM RequestsAloneAreSound == Spec => []SoundAlone
  <1>1. RegistryInv /\ SettingInv => SoundAlone
    <2>. SUFFICES ASSUME RegistryInv, SettingInv PROVE SoundAlone
      OBVIOUS
    <2>1. "sensors" \notin overlaps =>
            \A p \in SensorPosts : reg[p].at = "done" =>
              /\ reg[p].object = sensors[reg[p].id]
              /\ reg[p].customer \in Entries(customersOf[reg[p].object])
      BY DEF RegistryInv, Alone
    <2>2. \A p \in SetPosts :
            setter[p].at \in {"already", "set"} /\ setter[p].cell \notin overlaps =>
              cell[setter[p].cell] = setter[p].address
      BY DEF SettingInv, SettingSound
    <2>. QED
      BY <2>1, <2>2 DEF SoundAlone
  <1>. QED
    BY <1>1, RegistryInvAlways, SettingInvAlways, PTL

-----------------------------------------------------------------------------
(* The tasks. *)

\* A list of sensors only grows, one object at a time.
LEMMA MembersGrow ==
  ASSUME RegistryInv, [Next]_vars, NEW c \in Customers
  PROVE  members'[c] = members[c] \/ \E o \in Objects : members'[c] = Append(members[c], o)
  <1>1. CASE UNCHANGED members
    BY <1>1
  <1>2. ASSUME NEW p \in SensorPosts, AddSensor(p)
        PROVE  members'[c] = members[c] \/ \E o \in Objects : members'[c] = Append(members[c], o)
    <2>1. /\ reg[p].customer \in Customers /\ reg[p].object \in Objects
          /\ reg[p].listed = members[reg[p].customer]
          /\ members' = [members EXCEPT ![reg[p].customer] = Append(reg[p].listed, reg[p].object)]
      BY <1>2 DEF AddSensor, RegistryInv, RegistryTyped, Locked
    <2>. QED
      BY <2>1 DEF RegistryInv, RegistryTyped
  <1>3. Next => UNCHANGED members \/ \E p \in SensorPosts : AddSensor(p)
    BY DEF Next, RunDaemon, StopDaemon, AddTariff, CreateTask, Request, CreateCustomer, PostAddress,
           Assign, AddSensorToCustomer, PostSensor, LoadSensor, StoreSensor, LockCustomer,
           ListCustomer, registry
  <1>. QED
    BY <1>1, <1>2, <1>3 DEF vars, registry

\* What is a prefix of a list is one of the longer list too.
LEMMA PrefixOfAppend ==
  ASSUME NEW list \in Seq(Objects), NEW o \in Objects, NEW n \in 1..Len(list)
  PROVE  /\ n \in 1..Len(Append(list, o))
         /\ SubSeq(Append(list, o), 1, n) = SubSeq(list, 1, n)
  <1>1. /\ Len(list) \in Nat /\ Len(Append(list, o)) = Len(list) + 1
        /\ Append(list, o) \in Seq(Objects)
        /\ \A m \in 1..Len(list) : Append(list, o)[m] = list[m]
    OBVIOUS
  <1>2. n \in 1..Len(Append(list, o))
    BY <1>1
  <1>3. SubSeq(list, 1, n) = [m \in 1..n |-> list[m]]
    BY <1>1
  <1>4. SubSeq(Append(list, o), 1, n) = [m \in 1..n |-> Append(list, o)[m]]
    BY <1>1
  <1>5. \A m \in 1..n : Append(list, o)[m] = list[m]
    BY <1>1
  <1>. QED
    BY <1>2, <1>3, <1>4, <1>5

\* The sensors a task was given stay the first of its customer.
LEMMA SensorsStay ==
  ASSUME RegistryInv, [Next]_vars, NEW t \in TaskPosts, SensorsOf(t),
         job[t].customer \in Customers,
         job'[t].customer = job[t].customer, job'[t].sensors = job[t].sensors
  PROVE  SensorsOf(t)'
  <1>. DEFINE c == job[t].customer  n == Len(job[t].sensors)
  <1>1. members[c] \in Seq(Objects) /\ n \in 1..Len(members[c])
    BY DEF RegistryInv, RegistryTyped, SensorsOf
  <1>2. PICK list : list = members'[c]
    OBVIOUS
  <1>3. n \in 1..Len(list) /\ SubSeq(list, 1, n) = SubSeq(members[c], 1, n)
    <2>1. list = members[c] \/ \E o \in Objects : list = Append(members[c], o)
      BY <1>2, MembersGrow
    <2>. HIDE DEF c, n
    <2>. QED
      BY <1>1, <2>1, PrefixOfAppend
  <1>. QED
    BY <1>2, <1>3 DEF SensorsOf

\* Who was told that an address is set stays told.
LEMMA ToldStays ==
  ASSUME SettingInv, [Next]_vars, NEW k \in Cells, NEW a \in Addresses, Told(k, a)
  PROVE  Told(k, a)'
  <1>1. PICK p \in SetPosts : setter[p].cell = k /\ setter[p].at = "set" /\ setter[p].address = a
    BY DEF Told
  <1>2. setter'[p] = setter[p]
    <2>1. CASE UNCHANGED setter
      BY <2>1
    <2>2. ASSUME NEW q \in SetPosts, Assign(q) PROVE setter'[p] = setter[p]
      BY <1>1, <2>2 DEF Assign, SettingInv, SettingTyped
    <2>3. ASSUME NEW q \in SetPosts, NEW j \in Cells, NEW b \in Addresses, PostAddress(q, j, b)
          PROVE  setter'[p] = setter[p]
      BY <1>1, <2>3 DEF PostAddress, SettingInv, SettingTyped
    <2>4. Next => \/ UNCHANGED setter
                  \/ \E q \in SetPosts : Assign(q) \/ \E j \in Cells, b \in Addresses : PostAddress(q, j, b)
      BY DEF Next, RunDaemon, StopDaemon, AddTariff, CreateTask, Request, CreateCustomer,
             AddSensorToCustomer, PostSensor, setting
    <2>. QED
      BY <2>1, <2>2, <2>3, <2>4 DEF vars, setting
  <1>. QED
    BY <1>1, <1>2 DEF Told

\* What a handler has found stays true while it does not move.
LEMMA JobStays ==
  ASSUME RegistryInv, SettingInv, [Next]_vars, tasks \subseteq tasks',
         NEW t \in TaskPosts, job'[t] = job[t], JobSound(t)
  PROVE  JobSound(t)'
  <1>1. cell["authority"] # None => cell'["authority"] # None
    BY CellsStand DEF Cells
  <1>2. job[t].authority \in Addresses /\ Told("authority", job[t].authority)
          => Told("authority", job[t].authority)'
    <2>. SUFFICES ASSUME NEW a \in Addresses, a = job[t].authority, Told("authority", a)
                  PROVE  Told("authority", job[t].authority)'
      OBVIOUS
    <2>1. Told("authority", a)'
      BY ToldStays DEF Cells
    <2>. QED
      BY <2>1 DEF Told
  <1>3. job[t].customer \in Customers /\ SensorsOf(t) => SensorsOf(t)'
    BY SensorsStay
  <1>. QED
    BY <1>1, <1>2, <1>3 DEF JobSound

\* Only the handler of t has moved.
LEMMA OneJobMoves ==
  ASSUME RegistryInv, SettingInv, JobsSound, [Next]_vars, tasks \subseteq tasks',
         NEW t \in TaskPosts, \A u \in TaskPosts : u # t => job'[u] = job[u], JobSound(t)'
  PROVE  JobsSound'
  <1>1. ASSUME NEW u \in TaskPosts, u # t PROVE JobSound(u)'
    BY <1>1, JobStays DEF JobsSound
  <1>. QED
    BY <1>1 DEF JobsSound

\* A task goes from the front of the channel to the end of those started.
LEMMA TakenIsStarted ==
  ASSUME NEW S, NEW s \in Seq(S), NEW q \in Seq(S), q # <<>>
  PROVE  /\ Append(s, Head(q)) \in Seq(S) /\ Tail(q) \in Seq(S) /\ Len(Tail(q)) <= Len(q)
         /\ Append(s, Head(q)) \o Tail(q) = s \o q
  <1>1. Head(q) \in S /\ Tail(q) \in Seq(S) /\ <<Head(q)>> \in Seq(S) /\ Len(Tail(q)) <= Len(q)
    OBVIOUS
  <1>2. <<Head(q)>> \o Tail(q) = q
    BY <1>1
  <1>3. Append(s, Head(q)) = s \o <<Head(q)>>
    BY <1>1, AppendIsConcat
  <1>4. (s \o <<Head(q)>>) \o Tail(q) = s \o (<<Head(q)>> \o Tail(q))
    BY <1>1, ConcatAssociative
  <1>. QED
    BY <1>1, <1>2, <1>3, <1>4

\* What appending to the channel does to the tasks handed over.
LEMMA HandedAppends ==
  ASSUME NEW S, NEW s \in Seq(S), NEW q \in Seq(S), NEW t \in S
  PROVE  /\ s \o Append(q, t) = Append(s \o q, t) /\ s \o q \in Seq(S)
         /\ Entries(s \o Append(q, t)) = Entries(s \o q) \union {t}
  <1>1. s \o Append(q, t) = Append(s \o q, t)
    <2>1. Append(q, t) = q \o <<t>> /\ <<t>> \in Seq(S)
      BY AppendIsConcat
    <2>2. s \o q \in Seq(S)
      OBVIOUS
    <2>3. Append(s \o q, t) = (s \o q) \o <<t>>
      BY <2>2, AppendIsConcat
    <2>. QED
      BY <2>1, <2>3, ConcatAssociative
  <1>2. ASSUME NEW list \in Seq(S) PROVE Entries(Append(list, t)) = Entries(list) \union {t}
    <2>1. /\ Len(list) \in Nat /\ DOMAIN list = 1..Len(list)
          /\ DOMAIN Append(list, t) = 1..Len(list) \union {Len(list) + 1}
          /\ Append(list, t)[Len(list) + 1] = t
          /\ \A n \in 1..Len(list) : Append(list, t)[n] = list[n]
      OBVIOUS
    <2>. QED
      BY <2>1 DEF Entries
  <1>3. s \o q \in Seq(S)
    OBVIOUS
  <1>4. Entries(Append(s \o q, t)) = Entries(s \o q) \union {t}
    BY <1>2, <1>3
  <1>. QED
    BY <1>1, <1>3, <1>4

\* Neither the daemon nor a handler hands anything over.
LEMMA AcceptedStay ==
  ASSUME EachAcceptedOnce, Handed' = Handed,
         \A t \in TaskPosts : job'[t].at = "accepted" <=> job[t].at = "accepted"
  PROVE  EachAcceptedOnce'
  <1>1. {t \in TaskPosts : job'[t].at = "accepted"} = {t \in TaskPosts : job[t].at = "accepted"}
    OBVIOUS
  <1>. QED
    BY <1>1 DEF EachAcceptedOnce, Entries

\* A request that does not create a task.
LEMMA TasksStay ==
  ASSUME RegistryInv, SettingInv, TasksInv, [Next]_vars, UNCHANGED <<daemonVars, creation>>,
         tariff' \in BOOLEAN
  PROVE  TasksInv'
  <1>. USE DEF daemonVars, creation
  <1>1. TasksTyped'
    BY DEF TasksInv, TasksTyped
  <1>2. JobsSound'
    BY JobStays DEF TasksInv, JobsSound
  <1>3. EachAcceptedOnce'
    BY AcceptedStay DEF TasksInv, Handed
  <1>. QED
    BY <1>1, <1>2, <1>3 DEF TasksInv

\* The daemon starts the task it takes.
LEMMA DaemonKeepsTasks ==
  ASSUME RegistryInv, SettingInv, TasksInv, [Next]_vars, RunDaemon \/ StopDaemon
  PROVE  TasksInv'
  <1>. USE DEF RunDaemon, StopDaemon, creation
  <1>1. UNCHANGED <<tariff, tasks, job>>
    OBVIOUS
  <1>2. /\ daemon' \in {"spawned", "loop", "returned"} /\ handle' \in RunnableType
        /\ taskChan' \in Seq(TaskPosts) /\ Len(taskChan') <= ChanSize
        /\ started' \in Seq(TaskPosts) /\ Handed' = Handed
    <2>1. CASE DaemonStart
      BY <2>1, RunnableTyped DEF DaemonStart, TasksInv, TasksTyped, Handed
    <2>2. CASE DaemonTake
      <3>1. /\ Append(started, Head(taskChan)) \in Seq(TaskPosts) /\ Tail(taskChan) \in Seq(TaskPosts)
            /\ Len(Tail(taskChan)) <= Len(taskChan)
            /\ Append(started, Head(taskChan)) \o Tail(taskChan) = started \o taskChan
        BY <2>2, TakenIsStarted DEF DaemonTake, TasksInv, TasksTyped
      <3>2. Len(Tail(taskChan)) <= ChanSize
        <4>1. Len(Tail(taskChan)) \in Nat /\ Len(taskChan) \in Nat /\ Len(taskChan) <= ChanSize
          BY <3>1 DEF TasksInv, TasksTyped
        <4>. QED
          BY <3>1, <4>1, DaemonAssumption
      <3>. QED
        BY <2>2, <3>1, <3>2 DEF DaemonTake, TakenFrom, TasksInv, TasksTyped, Handed
    <2>3. CASE DaemonExit
      BY <2>3, RunnableTyped DEF DaemonExit, TasksInv, TasksTyped, Handed
    <2>4. CASE DaemonStop
      BY <2>4, RunnableTyped DEF DaemonStop, TasksInv, TasksTyped, Handed
    <2>. QED
      BY <2>1, <2>2, <2>3, <2>4 DEF Daemon
  <1>3. TasksTyped'
    BY <1>1, <1>2 DEF TasksInv, TasksTyped
  <1>4. JobsSound'
    BY <1>1, JobStays DEF TasksInv, JobsSound
  <1>5. EachAcceptedOnce'
    BY <1>1, <1>2, AcceptedStay DEF TasksInv
  <1>. QED
    BY <1>3, <1>4, <1>5 DEF TasksInv

\* A request for a task comes when the authority is set.
LEMMA RequestKeepsTasks ==
  ASSUME RegistryInv, SettingInv, TasksInv, [Next]_vars, NEW t \in TaskPosts, NEW c \in Customers,
         Request(t, c)
  PROVE  TasksInv'
  <1>. USE DEF Request, setting
  <1>1. /\ job[t].at = "absent" /\ cell["authority"] # None
        /\ job' = [job EXCEPT ![t] = [job[t] EXCEPT !.at = "check", !.customer = c]]
        /\ UNCHANGED <<daemonVars, tariff, tasks, cell>>
    BY DEF PostTask, daemonVars, TasksInv, TasksTyped
  <1>2. /\ \A u \in TaskPosts : u # t => job'[u] = job[u]
        /\ job'[t].at = "check" /\ job'[t].customer = c
    BY <1>1 DEF TasksInv, TasksTyped
  <1>3. TasksTyped'
    BY <1>1 DEF TasksInv, TasksTyped, daemonVars
  <1>4. JobSound(t)'
    BY <1>1, <1>2 DEF JobSound
  <1>5. JobsSound'
    BY <1>1, <1>2, <1>4, OneJobMoves DEF TasksInv
  <1>6. EachAcceptedOnce'
    BY <1>1, <1>2, AcceptedStay DEF TasksInv, Handed, daemonVars
  <1>. QED
    BY <1>3, <1>5, <1>6 DEF TasksInv

\* A handler that is refused leaves nothing behind.
LEMMA RefusedKeepsTasks ==
  ASSUME RegistryInv, SettingInv, TasksInv, [Next]_vars, NEW t \in TaskPosts, Refused(t),
         job[t].at # "accepted", UNCHANGED <<daemonVars, tariff, tasks>>
  PROVE  TasksInv'
  <1>1. NoJob \in [at : {"absent"}, customer : {None}, authority : {None}, sensors : Seq(Objects)]
    BY DEF NoJob
  <1>2. /\ \A u \in TaskPosts : u # t => job'[u] = job[u]
        /\ job'[t].at = "absent"
    BY <1>1 DEF Refused, TasksInv, TasksTyped
  <1>3. TasksTyped'
    BY <1>1 DEF Refused, TasksInv, TasksTyped, daemonVars
  <1>4. JobsSound'
    BY <1>2, OneJobMoves DEF TasksInv, JobSound
  <1>5. EachAcceptedOnce'
    BY <1>2, AcceptedStay DEF TasksInv, Handed, daemonVars
  <1>. QED
    BY <1>3, <1>4, <1>5 DEF TasksInv

\* The authority that is copied is one that somebody was told is set.
LEMMA NewKeepsTasks ==
  ASSUME RegistryInv, SettingInv, TasksInv, [Next]_vars, NEW t \in TaskPosts,
         NewTask(t), UNCHANGED <<tariff, members, cell, setter>>
  PROVE  TasksInv'
  <1>1. CASE Refused(t)
    BY <1>1, RefusedKeepsTasks DEF NewTask
  <1>2. CASE job' = [job EXCEPT ![t].at = "new", ![t].authority = cell["authority"]]
    <2>1. /\ job[t].at = "check" /\ UNCHANGED <<daemonVars, tasks>>
          /\ job[t].customer \in Customers /\ cell["authority"] \in Addresses
      BY DEF NewTask, TasksInv, JobsSound, JobSound, SettingInv, SettingTyped, Cells
    <2>2. job' = [job EXCEPT ![t] = [job[t] EXCEPT !.at = "new", !.authority = cell["authority"]]]
      BY <1>2 DEF TasksInv, TasksTyped
    <2>3. /\ \A u \in TaskPosts : u # t => job'[u] = job[u]
          /\ job'[t].at = "new" /\ job'[t].authority = cell["authority"]
          /\ job'[t].customer = job[t].customer
      BY <2>2 DEF TasksInv, TasksTyped
    <2>4. TasksTyped'
      BY <2>1, <2>2 DEF TasksInv, TasksTyped, daemonVars
    <2>5. Told("authority", cell["authority"])
      BY <2>1, NoneAssumption DEF SettingInv, SettingSound, Cells
    <2>6. JobSound(t)'
      BY <2>1, <2>3, <2>5, NoneAssumption DEF JobSound, Told
    <2>7. JobsSound'
      BY <2>1, <2>3, <2>6, OneJobMoves DEF TasksInv
    <2>8. EachAcceptedOnce'
      BY <2>1, <2>3, AcceptedStay DEF TasksInv, Handed, daemonVars
    <2>. QED
      BY <2>4, <2>7, <2>8 DEF TasksInv
  <1>. QED
    BY <1>1, <1>2 DEF NewTask

\* The sensors that are copied are all the customer has, and it has some.
LEMMA SensorsKeepTasks ==
  ASSUME RegistryInv, SettingInv, TasksInv, [Next]_vars, NEW t \in TaskPosts,
         SetSensors(t), UNCHANGED <<tariff, members, cell, setter>>
  PROVE  TasksInv'
  <1>. DEFINE c == job[t].customer
  <1>1. CASE Refused(t)
    BY <1>1, RefusedKeepsTasks DEF SetSensors
  <1>2. CASE HasSensors(c) /\ job' = [job EXCEPT ![t].at = AfterSensors, ![t].sensors = members[c]]
    <2>1. /\ job[t].at = "new" /\ UNCHANGED <<daemonVars, tasks>> /\ JobSound(t)
          /\ members[c] # <<>> /\ members[c] \in Seq(Objects)
      BY <1>2 DEF SetSensors, HasSensors, TasksInv, JobsSound, JobSound, RegistryInv, RegistryTyped
    <2>2. job' = [job EXCEPT ![t] = [job[t] EXCEPT !.at = "store", !.sensors = members[c]]]
      BY <1>2 DEF AfterSensors, TasksInv, TasksTyped
    <2>3. /\ \A u \in TaskPosts : u # t => job'[u] = job[u]
          /\ job'[t].at = "store" /\ job'[t].sensors = members[c]
          /\ job'[t].customer = c /\ job'[t].authority = job[t].authority
      BY <2>2 DEF TasksInv, TasksTyped
    <2>4. TasksTyped'
      BY <2>1, <2>2 DEF TasksInv, TasksTyped, daemonVars
    <2>5. Len(members[c]) \in 1..Len(members[c]) /\ members[c] = SubSeq(members[c], 1, Len(members[c]))
      BY <2>1, SubSeqFull
    <2>6. SensorsOf(t)'
      BY <2>3, <2>5 DEF SensorsOf
    <2>7. JobSound(t)'
      BY <2>1, <2>3, <2>6 DEF JobSound, Told
    <2>8. JobsSound'
      BY <2>1, <2>3, <2>7, OneJobMoves DEF TasksInv
    <2>9. EachAcceptedOnce'
      BY <2>1, <2>3, AcceptedStay DEF TasksInv, Handed, daemonVars
    <2>. QED
      BY <2>4, <2>8, <2>9 DEF TasksInv
  <1>. QED
    BY <1>1, <1>2 DEF SetSensors

\* The task is in the map before it is sent.
LEMMA AddKeepsTasks ==
  ASSUME RegistryInv, SettingInv, TasksInv, [Next]_vars, NEW t \in TaskPosts,
         AddTask(t), UNCHANGED <<tariff, members, cell, setter>>
  PROVE  TasksInv'
  <1>1. /\ job[t].at = "store" /\ tasks' = tasks \union {t} /\ UNCHANGED daemonVars
        /\ job' = [job EXCEPT ![t] = [job[t] EXCEPT !.at = "send"]]
    BY DEF AddTask, TasksInv, TasksTyped
  <1>2. /\ \A u \in TaskPosts : u # t => job'[u] = job[u]
        /\ job'[t].at = "send" /\ job'[t].sensors = job[t].sensors
        /\ job'[t].customer = job[t].customer /\ job'[t].authority = job[t].authority
    BY <1>1 DEF TasksInv, TasksTyped
  <1>3. TasksTyped'
    BY <1>1 DEF TasksInv, TasksTyped, daemonVars
  <1>4. JobSound(t)'
    BY <1>1, <1>2 DEF TasksInv, JobsSound, JobSound, Told, SensorsOf
  <1>5. JobsSound'
    BY <1>1, <1>2, <1>4, OneJobMoves DEF TasksInv
  <1>6. EachAcceptedOnce'
    BY <1>1, <1>2, AcceptedStay DEF TasksInv, Handed, daemonVars
  <1>. QED
    BY <1>3, <1>5, <1>6 DEF TasksInv

\* The channel has room for the task that is sent, which was not sent before.
LEMMA SendKeepsTasks ==
  ASSUME RegistryInv, SettingInv, TasksInv, [Next]_vars, NEW t \in TaskPosts,
         SendTask(t), UNCHANGED <<tariff, members, cell, setter>>
  PROVE  TasksInv'
  <1>1. /\ job[t].at = "send" /\ Len(taskChan) < ChanSize /\ taskChan' = Append(taskChan, t)
        /\ UNCHANGED <<daemon, handle, started, tasks>>
        /\ job' = [job EXCEPT ![t] = [job[t] EXCEPT !.at = "accepted"]]
    BY DEF SendTask, SendTaskToDaemon, HasRoom, TasksInv, TasksTyped
  <1>2. /\ \A u \in TaskPosts : u # t => job'[u] = job[u]
        /\ job'[t].at = "accepted" /\ job'[t].sensors = job[t].sensors
        /\ job'[t].customer = job[t].customer /\ job'[t].authority = job[t].authority
    BY <1>1 DEF TasksInv, TasksTyped
  <1>3. TasksTyped'
    <2>1. taskChan' \in Seq(TaskPosts) /\ Len(taskChan') <= ChanSize
      <3>1. taskChan \in Seq(TaskPosts)
        BY DEF TasksInv, TasksTyped
      <3>. QED
        BY <1>1, <3>1, DaemonAssumption
    <2>. QED
      BY <1>1, <2>1 DEF TasksInv, TasksTyped
  <1>4. JobSound(t)'
    BY <1>1, <1>2 DEF TasksInv, JobsSound, JobSound, Told, SensorsOf
  <1>5. JobsSound'
    BY <1>1, <1>2, <1>4, OneJobMoves DEF TasksInv
  <1>6. EachAcceptedOnce'
    <2>1. /\ Handed' = Append(Handed, t) /\ Handed \in Seq(TaskPosts)
          /\ Entries(Handed)' = Entries(Handed) \union {t}
      <3>1. /\ started \o Append(taskChan, t) = Append(started \o taskChan, t)
            /\ started \o taskChan \in Seq(TaskPosts)
            /\ Entries(started \o Append(taskChan, t)) = Entries(started \o taskChan) \union {t}
        BY HandedAppends DEF TasksInv, TasksTyped
      <3>2. Handed' = started \o Append(taskChan, t)
        BY <1>1 DEF Handed
      <3>3. Entries(Handed)' = Entries(started \o Append(taskChan, t))
        BY <3>2 DEF Entries
      <3>. QED
        BY <3>1, <3>2, <3>3 DEF Handed
    <2>2. {u \in TaskPosts : job'[u].at = "accepted"} = {u \in TaskPosts : job[u].at = "accepted"} \union {t}
      BY <1>2
    <2>3. /\ Entries(Handed) = {u \in TaskPosts : job[u].at = "accepted"}
          /\ \A m, n \in DOMAIN Handed : Handed[m] = Handed[n] => m = n
      BY DEF TasksInv, EachAcceptedOnce
    <2>4. t \notin Entries(Handed)
      BY <1>1, <2>3
    <2>5. ASSUME NEW list \in Seq(TaskPosts), t \notin Entries(list),
                 \A m, n \in DOMAIN list : list[m] = list[n] => m = n
          PROVE  \A m, n \in DOMAIN Append(list, t) : Append(list, t)[m] = Append(list, t)[n] => m = n
      <3>1. /\ Len(list) \in Nat /\ DOMAIN list = 1..Len(list)
            /\ DOMAIN Append(list, t) = 1..Len(list) \union {Len(list) + 1}
            /\ Append(list, t)[Len(list) + 1] = t
            /\ \A n \in 1..Len(list) : Append(list, t)[n] = list[n]
        OBVIOUS
      <3>2. \A n \in 1..Len(list) : list[n] # t
        BY <2>5, <3>1 DEF Entries
      <3>. QED
        BY <2>5, <3>1, <3>2
    <2>6. \A m, n \in DOMAIN Handed' : Handed'[m] = Handed'[n] => m = n
      BY <2>1, <2>3, <2>4, <2>5
    <2>. QED
      BY <2>1, <2>2, <2>3, <2>6 DEF EachAcceptedOnce
  <1>. QED
    BY <1>3, <1>5, <1>6 DEF TasksInv

\* No task is there before a request.
LEMMA InitTasksInv == Init => TasksInv
  <1>. SUFFICES ASSUME Init PROVE TasksInv
    OBVIOUS
  <1>1. \A t \in TaskPosts : job[t].at = "absent"
    BY DEF Init, NoJob
  <1>2. TasksTyped
    <2>1. job \in [TaskPosts -> [at : {"absent"}, customer : {None}, authority : {None},
                                 sensors : Seq(Objects)]]
      BY DEF Init, NoJob
    <2>2. NewRunnable \in RunnableType
      BY DEF NewRunnable, RunnableType, RunnableState
    <2>3. taskChan \in Seq(TaskPosts) /\ started \in Seq(TaskPosts) /\ Len(taskChan) <= ChanSize
      BY DaemonAssumption DEF Init, DaemonInit
    <2>. QED
      BY <2>1, <2>2, <2>3 DEF Init, DaemonInit, TasksTyped
  <1>3. JobsSound
    BY <1>1 DEF JobsSound, JobSound
  <1>4. EachAcceptedOnce
    <2>1. Handed = <<>>
      BY DEF Init, DaemonInit, Handed
    <2>2. DOMAIN Handed = {}
      BY <2>1
    <2>. QED
      BY <1>1, <2>2 DEF EachAcceptedOnce, Entries
  <1>. QED
    BY <1>2, <1>3, <1>4 DEF TasksInv

\* Every handler of a task, and whatever else runs beside it.
LEMMA TasksInvPreserved ==
  ASSUME RegistryInv, SettingInv, TasksInv, [Next]_vars
  PROVE  TasksInv'
  <1>1. tariff \in BOOLEAN
    BY DEF TasksInv, TasksTyped
  <1>2. CASE UNCHANGED vars \/ AddTariff \/ \E c \in Customers : CreateCustomer(c)
    BY <1>1, <1>2, TasksStay DEF vars, AddTariff, CreateCustomer
  <1>3. CASE \E p \in SensorPosts :
               AddSensorToCustomer(p) \/ \E i \in SensorIds, c \in Customers : PostSensor(p, i, c)
    BY <1>1, <1>3, TasksStay DEF AddSensorToCustomer, PostSensor
  <1>4. CASE \E p \in SetPosts : Assign(p) \/ \E k \in Cells, a \in Addresses : PostAddress(p, k, a)
    BY <1>1, <1>4, TasksStay DEF Assign, PostAddress
  <1>5. ASSUME NEW t \in TaskPosts, CreateTask(t) PROVE TasksInv'
    <2>1. UNCHANGED <<tariff, members, cell, setter>>
      BY <1>5 DEF CreateTask, registry, setting
    <2>. QED
      BY <1>5, <2>1, NewKeepsTasks, SensorsKeepTasks, AddKeepsTasks, SendKeepsTasks DEF CreateTask
  <1>. QED
    BY <1>2, <1>3, <1>4, <1>5, DaemonKeepsTasks, RequestKeepsTasks DEF Next

\* The three invariants hold in every state.
LEMMA IInvAlways == Spec => []IInv
  <1>1. RegistryInv /\ SettingInv /\ TasksInv /\ [Next]_vars => TasksInv'
    BY TasksInvPreserved
  <1>2. RegistryInv /\ SettingInv /\ TasksInv => IInv
    BY DEF IInv
  <1>. QED
    BY <1>1, <1>2, InitTasksInv, RegistryInvAlways, SettingInvAlways, PTL DEF Spec

\* An accepted task is waiting or has a worker, once, also when the channel is
\* full or the daemon has been stopped (SendTaskToDaemon, TaskDaemon).
THEOREM AcceptedTasksKept == Spec => []EachAcceptedOnce
  <1>1. IInv => EachAcceptedOnce
    BY DEF IInv, TasksInv
  <1>. QED
    BY <1>1, IInvAlways, PTL

\* A task the daemon gets is complete, although addTaskEndpoint checks and copies
\* in steps between which the authority, the lists and the map change.
THEOREM HandedTasksComplete == Spec => []TasksComplete
  <1>1. IInv => TasksComplete
    <2>. SUFFICES ASSUME IInv, NEW t \in Entries(Handed)
                  PROVE  t \in tasks /\ Told("authority", job[t].authority) /\ SensorsOf(t)
      BY DEF TasksComplete, Told, SensorsOf
    <2>1. t \in TaskPosts /\ job[t].at = "accepted"
      BY DEF IInv, TasksInv, EachAcceptedOnce
    <2>. QED
      BY <2>1 DEF IInv, TasksInv, JobsSound, JobSound
  <1>. QED
    BY <1>1, IInvAlways, PTL

\* Every variable of the host keeps its range, and the task channel its size.
THEOREM TypeCorrect == Spec => []TypeOK
  <1>1. IInv => TypeOK
    <2>. SUFFICES ASSUME IInv PROVE TypeOK
      OBVIOUS
    <2>1. \A S : \A list \in Seq(S) : Entries(list) \subseteq S
      BY DEF Entries
    <2>2. taskChan \o started \in Seq(TaskPosts)
      BY DEF IInv, TasksInv, TasksTyped
    <2>3. /\ daemon \in {"spawned", "loop", "returned"} /\ handle \in RunnableType
          /\ Len(taskChan) <= ChanSize /\ Entries(taskChan \o started) \subseteq TaskPosts
          /\ tariff \in BOOLEAN /\ tasks \subseteq TaskPosts
          /\ \A t \in TaskPosts :
               job[t].at \in {"absent", "check", "new", "store", "send", "accepted"}
      BY <2>1, <2>2 DEF IInv, TasksInv, TasksTyped
    <2>4. /\ created \subseteq Customers
          /\ sensors \in [SensorIds -> Objects \union {None}]
          /\ \A c \in Customers : Entries(members[c]) \subseteq Objects
          /\ \A o \in Objects : Entries(customersOf[o]) \subseteq Customers
          /\ lock \in [Customers -> SensorPosts \union {None}]
          /\ \A p \in SensorPosts :
               reg[p].at \in {"absent", "load", "make", "store", "add", "append", "list", "done"}
      BY <2>1 DEF IInv, RegistryInv, RegistryTyped
    <2>5. /\ cell \in [Cells -> Addresses \union {None}]
          /\ \A p \in SetPosts : setter[p].at \in {"absent", "assign", "already", "set"}
          /\ overlaps \subseteq Cells \union {"sensors"}
      BY DEF IInv, SettingInv, SettingTyped
    <2>. QED
      BY <2>3, <2>4, <2>5 DEF TypeOK
  <1>. QED
    BY <1>1, IInvAlways, PTL

\* Tasks are handed over one by one, at the end, and none is taken back.
TasksInOrder ==
  [][Handed' = Handed \/ \E t \in TaskPosts : job[t].at = "send" /\ Handed' = Append(Handed, t)]_vars

\* What the daemon takes from the front of the channel stays where it is in the
\* order of all tasks.
LEMMA DaemonKeepsOrder ==
  ASSUME TasksInv, RunDaemon \/ StopDaemon
  PROVE  Handed' = Handed
  <1>1. CASE DaemonTake
    <2>1. Append(started, Head(taskChan)) \o Tail(taskChan) = started \o taskChan
      BY <1>1, TakenIsStarted DEF DaemonTake, TasksInv, TasksTyped
    <2>. QED
      BY <1>1, <2>1 DEF DaemonTake, TakenFrom, Handed
  <1>. QED
    BY <1>1 DEF RunDaemon, StopDaemon, Daemon, DaemonStart, DaemonExit, DaemonStop, Handed

\* A handler puts its own task at the end or leaves the order alone.
LEMMA HandlersKeepOrder ==
  ASSUME TasksInv, NEW t \in TaskPosts, CreateTask(t)
  PROVE  Handed' = Handed \/ (job[t].at = "send" /\ Handed' = Append(Handed, t))
  <1>1. CASE SendTask(t)
    <2>1. started \o Append(taskChan, t) = Append(started \o taskChan, t)
      BY HandedAppends DEF TasksInv, TasksTyped
    <2>. QED
      BY <1>1, <2>1 DEF SendTask, SendTaskToDaemon, Handed
  <1>. QED
    BY <1>1 DEF CreateTask, NewTask, SetSensors, AddTask, daemonVars, Handed

\* Workers are started in the order in which the handlers got their tasks into the
\* channel, and what was handed over stays (SendTaskToDaemon, TaskDaemon).
THEOREM TasksStartInOrder == Spec => TasksInOrder
  <1>1. IInv /\ [Next]_vars =>
          [Handed' = Handed \/ \E t \in TaskPosts : job[t].at = "send" /\ Handed' = Append(Handed, t)]_vars
    <2>. SUFFICES ASSUME IInv, Next
                  PROVE  \/ Handed' = Handed
                         \/ \E t \in TaskPosts : job[t].at = "send" /\ Handed' = Append(Handed, t)
      OBVIOUS
    <2>1. TasksInv
      BY DEF IInv
    <2>2. CASE \/ AddTariff
               \/ \E c \in Customers : CreateCustomer(c) \/ \E t \in TaskPosts : Request(t, c)
               \/ \E p \in SensorPosts :
                    AddSensorToCustomer(p) \/ \E i \in SensorIds, c \in Customers : PostSensor(p, i, c)
               \/ \E p \in SetPosts : Assign(p) \/ \E k \in Cells, a \in Addresses : PostAddress(p, k, a)
      BY <2>2 DEF AddTariff, CreateCustomer, Request, PostTask, AddSensorToCustomer, PostSensor, Assign,
                  PostAddress, daemonVars, Handed
    <2>. QED
      BY <2>1, <2>2, DaemonKeepsOrder, HandlersKeepOrder DEF Next
  <1>. QED
    BY <1>1, IInvAlways, PTL DEF Spec, TasksInOrder
=============================================================================
