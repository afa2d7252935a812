----------------------------- MODULE Decryptor -----------------------------
(***************************************************************************)
(* The ciphers of one task inside the server.  Each POST of a cipher starts*)
(* a goroutine of its own (server/endpoints.go submitCipherEndpoint) that  *)
(* waits for the decryptor and then runs its AddCipher (server/task.go,    *)
(* server/fe.go) side by side with the others; the goroutine of the last   *)
(* cipher computes the result.  Meanwhile GET /task/:id reads the figures  *)
(* of the decryptor and the result.                                        *)
(*                                                                         *)
(* A step is one access to what the goroutines share.  The parallel        *)
(* decryption is the library's: a call takes one cipher and tells how many *)
(* are left.  A time is only set or not; a sum is the set of the ciphers   *)
(* added up in it.  A cipher is its index: the task is one whose sensors   *)
(* are each listed once, so that every index comes once (KeyExchange's     *)
(* IndicesNameBatches).                                                    *)
(***************************************************************************)
EXTENDS Integers, FiniteSets

CONSTANTS
  CipherCnt,   \* ciphers the decryptor is made for, if it is not a single one
  Schemas,     \* schemas the task may have
  MayFail      \* whether a call into the library may return an error

ASSUME ConstantsAssumption ==
  /\ CipherCnt \in Nat \ {0}
  /\ Schemas \subseteq {"single", "multi", "dummy"}
  /\ MayFail \in BOOLEAN

VARIABLES
  schema,
  opened,         \* decryptionParamsFetchedChan is closed, feDecryptor is set
  pc,             \* pc[c]: where the goroutine of cipher c is
  missing,        \* ciphers the library or RemainingCiphers still counts as missing
  last,           \* goroutines that were told that none is missing
  partial,        \* ciphers with an entry in PartialProcessingTimes
  received,       \* ReceivedCiphers
  decryptionTime, \* DecryptionTime is set
  totalTime,      \* TotalDecryptionTime is set
  resultReady,    \* ResultReady
  sum,            \* DummyDecryptor.Result
  loaded,         \* loaded[c]: the sum as goroutine c has read it
  overlapped,     \* two updates of the sum have overlapped
  result,         \* Task.Result is set
  gaveUp,         \* a library call has failed
  crashed,        \* a goroutine panicked and took the server with it
  at,             \* where the request GET /task/:id is
  cursor,         \* idx of its loop over the ciphers
  seen            \* what it has read so far

figures == <<partial, received, decryptionTime, totalTime, resultReady>>
dummy == <<sum, loaded, overlapped>>
ends == <<result, gaveUp, crashed>>
reader == <<at, cursor, seen>>
vars == <<schema, opened, pc, missing, last, figures, dummy, ends, reader>>

\* The indices a decryptor is made for; a single one takes whatever comes.
Ciphers == 0..(CipherCnt - 1)
Expected == IF schema = "single" THEN {0} ELSE Ciphers

NothingSeen ==
  [finished |-> FALSE, total |-> FALSE, time |-> FALSE, times |-> {}, nils |-> {},
   result |-> FALSE]

\* NewFEDecryptor, in a task without a result.
Init ==
  /\ schema \in Schemas
  /\ opened = FALSE
  /\ pc = [c \in Ciphers |-> "unsent"]
  /\ missing = Expected
  /\ last = {}
  /\ partial = {} /\ received = {}
  /\ decryptionTime = FALSE /\ totalTime = FALSE /\ resultReady = FALSE
  /\ sum = {} /\ loaded = [c \in Ciphers |-> {}] /\ overlapped = FALSE
  /\ result = FALSE /\ gaveUp = FALSE /\ crashed = FALSE
  /\ at = "idle" /\ cursor = 0 /\ seen = NothingSeen

Goto(c, from, to) == pc[c] = from /\ pc' = [pc EXCEPT ![c] = to]

-----------------------------------------------------------------------------
(* The goroutine of a cipher. *)

\* POST /task/:taskId/:sensorId: go task.AddCipher(feCipher).
Arrive(c) ==
  /\ c \in Expected
  /\ Goto(c, "unsent", "waiting")
  /\ UNCHANGED <<schema, opened, missing, last, figures, dummy, ends, reader>>

\* The task worker sets feDecryptor and closes the channel (KeyExchange).
Open ==
  /\ ~opened
  /\ opened' = TRUE
  /\ UNCHANGED <<schema, pc, missing, last, figures, dummy, ends, reader>>

\* Counting one cipher down, and learning whether it was the last.  (The slip is
\* comparing before the subtraction.)
CountDownEarly(c) ==
  /\ missing' = missing \ {c}
  /\ last' = IF Cardinality(missing') <= 1 THEN last \union {c} ELSE last
CountDown(c) ==
  /\ missing' = missing \ {c}
  /\ last' = IF missing' = {} THEN last \union {c} ELSE last

\* ParallelDecryption, or Decrypt of the single schema.
Call(c) ==
  /\ opened /\ schema # "dummy"
  /\ \/ Goto(c, "waiting", "time") /\ CountDown(c) /\ UNCHANGED gaveUp
     \/ /\ MayFail
        /\ Goto(c, "waiting", "timeFailed")
        /\ gaveUp' = TRUE
        /\ UNCHANGED <<missing, last>>
  /\ UNCHANGED <<schema, opened, figures, dummy, result, crashed, reader>>

\* The elapsed time is stored whether or not the call failed.
StoreTime(c) ==
  /\ \/ Goto(c, "time", IF schema = "single" THEN "publish" ELSE "mark")
     \/ Goto(c, "timeFailed", "returned")
  /\ IF schema = "single"
       THEN decryptionTime' = TRUE /\ UNCHANGED partial
       ELSE partial' = partial \union {c} /\ UNCHANGED decryptionTime
  /\ UNCHANGED <<schema, opened, missing, last, received, totalTime, resultReady,
                 dummy, ends, reader>>

\* Only the goroutine that was told so goes on to the result; not the one that
\* has the last cipher by its index.
IsLastByIndex(c) == c = CipherCnt - 1
IsLast(c) == c \in last

\* ReceivedCiphers[idx].Store(true)
Mark(c) ==
  /\ Goto(c, "mark", IF IsLast(c) THEN "finish" ELSE "returned")
  /\ received' = received \union {c}
  /\ UNCHANGED <<schema, opened, missing, last, partial, decryptionTime, totalTime,
                 resultReady, dummy, ends, reader>>

\* What follows GetResult: the sum of the times, and then ResultReady.
ReadyFirst == "publish"
AfterResult == "add"

\* GetResult, whose time is stored before its error is looked at.
Finish(c) ==
  /\ \/ Goto(c, "finish", AfterResult) /\ UNCHANGED gaveUp
     \/ MayFail /\ Goto(c, "finish", "returned") /\ gaveUp' = TRUE
  /\ decryptionTime' = TRUE
  /\ UNCHANGED <<schema, opened, missing, last, partial, received, totalTime, resultReady,
                 dummy, result, crashed, reader>>

\* The sum over PartialProcessingTimes dereferences every entry.  Another
\* goroutine stores its entry after the library has counted its cipher and
\* without a lock: until its flag in ReceivedCiphers is set this read may still
\* find nil.
AddTimes(c) ==
  /\ \/ /\ partial = Expected
        /\ Goto(c, "add", "publish")
        /\ totalTime' = TRUE
        /\ UNCHANGED crashed
     \/ /\ received # Expected
        /\ pc[c] = "add" /\ crashed' = TRUE
        /\ UNCHANGED <<pc, totalTime>>
  /\ UNCHANGED <<schema, opened, missing, last, partial, received, decryptionTime,
                 resultReady, dummy, result, gaveUp, reader>>

\* ResultReady.Store(true), and AddCipher returns the result.
Publish(c) ==
  /\ Goto(c, "publish", "report")
  /\ resultReady' = TRUE
  /\ UNCHANGED <<schema, opened, missing, last, partial, received, decryptionTime, totalTime,
                 dummy, ends, reader>>

\* Task.AddCipher stores what AddCipher has returned.
Report(c) ==
  /\ Goto(c, "report", "returned")
  /\ result' = TRUE
  /\ UNCHANGED <<schema, opened, missing, last, figures, dummy, gaveUp, crashed, reader>>

Updating == {d \in Ciphers : pc[d] = "store"}

\* p.Result.Add(p.Result, sum) without a lock, first half: reading.  While the
\* first update installs the digits of the number, a reader may find their
\* length without their address.
DummyLoad(c) ==
  /\ opened /\ schema = "dummy"
  /\ \/ /\ Goto(c, "waiting", "store")
        /\ loaded' = [loaded EXCEPT ![c] = sum]
        /\ UNCHANGED crashed
     \/ /\ pc[c] = "waiting" /\ sum = {} /\ Updating # {}
        /\ crashed' = TRUE
        /\ UNCHANGED <<pc, loaded>>
  /\ overlapped' = (overlapped \/ Updating # {})
  /\ UNCHANGED <<schema, opened, missing, last, figures, sum, result, gaveUp, reader>>

\* Big numbers are added in place; SetTo is the slip of overwriting them.
SetTo(total, c) == {c}
Plus(total, c) == total \union {c}

\* Second half: writing.
DummyStore(c) ==
  /\ Goto(c, "store", "count")
  /\ sum' = Plus(loaded[c], c)
  /\ UNCHANGED <<schema, opened, missing, last, figures, loaded, overlapped, ends, reader>>

\* RemainingCiphers is counted down atomically.  ResultReady is never set.
DummyCount(c) ==
  /\ CountDown(c)
  /\ Goto(c, "count", IF c \in last' THEN "report" ELSE "returned")
  /\ UNCHANGED <<schema, opened, figures, dummy, ends, reader>>

AddCipher(c) ==
  \/ Call(c) \/ StoreTime(c) \/ Mark(c) \/ Finish(c) \/ AddTimes(c) \/ Publish(c)
  \/ DummyLoad(c) \/ DummyStore(c) \/ DummyCount(c)
  \/ Report(c)

-----------------------------------------------------------------------------
(* GET /task/:id: getTaskDetailsEndpoint, which calls GetStats. *)

\* ResultReady is read first; without a decryptor there are no figures.
Ask ==
  /\ at \in {"idle", "answered"}
  /\ at' = IF opened THEN "time" ELSE "result"
  /\ seen' = [NothingSeen EXCEPT !.finished = resultReady]
  /\ UNCHANGED cursor

\* TotalDecryptionTime is looked at only if the decryptor has finished.
ReadTime ==
  /\ at = "time"
  /\ at' = IF schema = "multi" THEN "entries" ELSE "result"
  /\ seen' = [seen EXCEPT !.time = decryptionTime, !.total = seen.finished /\ totalTime]
  /\ UNCHANGED cursor

NextEntryPastEnd(i) == (i + 1) % (CipherCnt + 1)
NextEntry(i) == (i + 1) % CipherCnt

\* One turn of the loop over ReceivedCiphers.
ReadEntry ==
  /\ at = "entries"
  /\ seen' = [seen EXCEPT
       !.times = IF cursor \in received THEN @ \union {cursor} ELSE @,
       !.nils  = IF cursor \in received \ partial THEN @ \union {cursor} ELSE @]
  /\ cursor' = NextEntry(cursor)
  /\ at' = IF cursor' = 0 THEN "result" ELSE at

\* Task.Result is read last.
ReadResult ==
  /\ at = "result"
  /\ at' = "answered"
  /\ seen' = [seen EXCEPT !.result = result]
  /\ UNCHANGED cursor

GetTaskDetails ==
  /\ Ask \/ ReadTime \/ ReadEntry \/ ReadResult
  /\ UNCHANGED <<schema, opened, pc, missing, last, figures, dummy, ends>>

-----------------------------------------------------------------------------
Alive(A) == ~crashed /\ A

Next ==
  \/ Alive(Open) \/ Alive(GetTaskDetails)
  \/ \E c \in Ciphers : Alive(Arrive(c)) \/ Alive(AddCipher(c))

\* A goroutine that can go on does; no cipher has to arrive, the decryptor need
\* not come, and nobody has to ask.
Fairness == \A c \in Ciphers : WF_vars(Alive(AddCipher(c)))

Spec == Init /\ [][Next]_vars
FairSpec == Spec /\ Fairness

-----------------------------------------------------------------------------
(* Properties. *)

\* Every variable stays in its range.
TypeOK ==
  /\ schema \in Schemas
  /\ pc \in [Ciphers -> {"unsent", "waiting", "time", "timeFailed", "mark", "finish", "add",
                         "publish", "report", "store", "count", "returned"}]
  /\ \A S \in {missing, last, partial, received, sum} : S \subseteq Expected
  /\ loaded \in [Ciphers -> SUBSET Expected]
  /\ {opened, decryptionTime, totalTime, resultReady, overlapped, result, gaveUp, crashed}
       \subseteq BOOLEAN
  /\ at \in {"idle", "time", "entries", "result", "answered"}
  /\ cursor \in Ciphers
  /\ seen \in [finished : BOOLEAN, total : BOOLEAN, time : BOOLEAN, times : SUBSET Ciphers,
               nils : SUBSET Ciphers, result : BOOLEAN]

\* AddCipher of whatever decryptor: of all goroutines at most one goes on to
\* the result, only after every cipher was taken, and whatever says that the
\* task is finished comes after that.
OneFinisher ==
  /\ \A c, d \in last : c = d
  /\ last # {} \/ resultReady \/ result => missing = {}

\* GetStats takes no lock.  The order in which AddCipher sets the fields makes
\* its answer sound all the same: an entry shown as received has a time, an
\* answer that says finished has the times of the whole decryption, and a
\* result is shown of a complete task only.  (A finished answer may still lack
\* the entry of a cipher whose flag is set late.)
StatsConsistent ==
  at = "answered" =>
    /\ seen.nils = {}
    /\ seen.finished => seen.time /\ (schema = "multi" => seen.total)
    /\ seen.result => missing = {}

\* The sum over PartialProcessingTimes and the unlocked sum of the dummy can
\* only panic while a second AddCipher is between its update and the flag (or
\* the write) that makes it visible; ciphers that come one by one are safe.
CrashNeedsOverlap ==
  crashed => \/ schema = "multi" /\ \E c \in Ciphers : pc[c] \in {"time", "mark"}
             \/ schema = "dummy" /\ overlapped

\* The dummy's result is the sum over all ciphers unless two unlocked updates
\* overlapped; what is reported is the live number, and nobody changes it
\* after RemainingCiphers has reached zero.
SumExact ==
  schema = "dummy" /\ result =>
    /\ ~overlapped => sum = Expected
    /\ Updating = {}

\* The goroutines together are the abstract collector: every cipher counts
\* once, and once all are in the result is reported, unless the library or the
\* process fails.
Collected == INSTANCE Collector
  WITH reported <- result, failed <- gaveUp \/ crashed
ImplementsCollector == Collected!Spec
=============================================================================
