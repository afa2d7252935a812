--------------------------- MODULE DecryptorProofs ---------------------------
(***************************************************************************)
(* For any number of ciphers and all three decryptors, whether or not      *)
(* library calls fail: one goroutine computes the result, the figures shown*)
(* are written, only overlapping calls panic or lose a part of the sum, a  *)
(* result that is due is on its way, and every step is a step of the       *)
(* abstract collector or none.                                             *)
(***************************************************************************)
EXTENDS Decryptor, TLAPS

\* Which goroutine still counts as missing, and which one goes for the result.
Counted ==
  /\ \A c \in Ciphers : c \notin Expected => pc[c] = "unsent"
  /\ \A c \in Expected :
       pc[c] \in {"unsent", "waiting", "timeFailed", "store", "count"} => c \in missing
  /\ last # {} => missing = {}
  /\ \A c, d \in last : c = d
  /\ \A c \in Ciphers : pc[c] \in {"finish", "add", "publish", "report"} => c \in last
  /\ \A c \in Ciphers : schema = "single" /\ pc[c] = "time" => c \in last

\* Which goroutines take which way through AddCipher.
Placed ==
  /\ \A c \in Ciphers :
       /\ pc[c] \in {"time", "timeFailed", "publish"} => schema # "dummy"
       /\ pc[c] \in {"mark", "finish", "add"} => schema = "multi"
       /\ pc[c] \in {"store", "count"} => schema = "dummy"
       /\ ~opened => pc[c] \in {"unsent", "waiting"}
  /\ resultReady => opened

\* What is written when: an entry before its flag, every time before ResultReady.
Written ==
  /\ received \subseteq partial
  /\ \A c \in Ciphers :
       /\ pc[c] = "mark" => c \in partial
       /\ pc[c] \in {"add", "publish"} => decryptionTime
       /\ pc[c] = "publish" /\ schema = "multi" => totalTime
  /\ schema = "multi" =>
       \A c \in Expected : c \in missing \/ c \in received \/ pc[c] \in {"time", "mark"}
  /\ resultReady => decryptionTime /\ last # {} /\ (schema = "multi" => totalTime)

\* A result, and a failure that lets none come, are the last step of the one
\* goroutine that could bring it; or else the cipher of a failed call is missing.
Ended ==
  /\ result => last # {} /\ \A c \in last : pc[c] = "returned"
  /\ gaveUp =>
       \/ \E c \in missing : pc[c] \in {"timeFailed", "returned"}
       \/ last # {} /\ \A c \in last : pc[c] = "returned"
  /\ CrashNeedsOverlap

\* Updates of the dummy's sum that have not overlapped are one after the other.
Added ==
  schema = "dummy" /\ ~overlapped =>
    /\ \A c, d \in Ciphers : pc[c] = "store" /\ pc[d] = "store" => c = d
    /\ \A c \in Ciphers : pc[c] = "store" => loaded[c] = sum
    /\ \A c \in Ciphers : pc[c] = "count" => c \in sum
    /\ \A c \in Expected : c \in missing \/ c \in sum

\* What a request has read so far is still true.
Shown ==
  /\ seen.nils = {}
  /\ seen.finished => resultReady
  /\ at \in {"entries", "result", "answered"} /\ seen.finished =>
       seen.time /\ (schema = "multi" => seen.total)
  /\ seen.result => result

IInv == TypeOK /\ Counted /\ Placed /\ Written /\ Ended /\ Added /\ Shown

-----------------------------------------------------------------------------
(* What the parts of the type say one by one, and what a goto does. *)

Places == {"unsent", "waiting", "time", "timeFailed", "mark", "finish", "add",
           "publish", "report", "store", "count", "returned"}

\* TypeOK, one variable at a time.
LEMMA Typing ==
  ASSUME TypeOK
  PROVE  /\ schema \in {"single", "multi", "dummy"} /\ schema \in Schemas
         /\ pc \in [Ciphers -> Places]
         /\ missing \subseteq Expected /\ last \subseteq Expected /\ sum \subseteq Expected
         /\ partial \subseteq Expected /\ received \subseteq Expected
         /\ loaded \in [Ciphers -> SUBSET Expected]
         /\ opened \in BOOLEAN /\ decryptionTime \in BOOLEAN /\ totalTime \in BOOLEAN
         /\ resultReady \in BOOLEAN /\ overlapped \in BOOLEAN /\ result \in BOOLEAN
         /\ gaveUp \in BOOLEAN /\ crashed \in BOOLEAN
         /\ Expected \subseteq Ciphers
  <1>1. schema \in {"single", "multi", "dummy"} /\ schema \in Schemas
    BY ConstantsAssumption DEF TypeOK
  <1>2. pc \in [Ciphers -> Places] /\ loaded \in [Ciphers -> SUBSET Expected]
    BY DEF TypeOK, Places
  <1>3. \A S \in {missing, last, partial, received, sum} : S \subseteq Expected
    BY DEF TypeOK
  <1>4. {opened, decryptionTime, totalTime, resultReady, overlapped, result, gaveUp, crashed}
          \subseteq BOOLEAN
    BY DEF TypeOK
  <1>5. Expected \subseteq Ciphers
    BY ConstantsAssumption DEF Expected, Ciphers
  <1>. QED
    BY <1>1, <1>2, <1>3, <1>4, <1>5

\* A goto moves one goroutine and no other.
LEMMA Moves ==
  ASSUME TypeOK, NEW c \in Ciphers, NEW from, NEW to \in Places, Goto(c, from, to)
  PROVE  /\ pc[c] = from /\ pc'[c] = to
         /\ \A d \in Ciphers : d # c => pc'[d] = pc[d]
         /\ pc' \in [Ciphers -> Places]
  <1>1. pc \in [Ciphers -> Places]
    BY Typing
  <1>. QED
    BY <1>1 DEF Goto

\* The task worker's decryptor comes.
LEMMA OpenPreserves == IInv /\ Alive(Open) => IInv'
  <1>. SUFFICES ASSUME IInv, Open PROVE IInv'
    BY DEF Alive
  <1>. USE DEF Open, figures, dummy, ends, reader
  <1>typed. TypeOK
    BY DEF IInv
  <1>1. TypeOK'
    BY <1>typed DEF TypeOK, Expected
  <1>2. Counted'
    BY DEF IInv, Counted, Expected
  <1>3. Placed'
    BY DEF IInv, Placed
  <1>4. Written'
    BY DEF IInv, Written, Expected
  <1>5. Ended'
    BY DEF IInv, Ended, CrashNeedsOverlap
  <1>6. Added'
    BY DEF IInv, Added, Expected
  <1>7. Shown'
    BY DEF IInv, Shown
  <1>. QED
    BY <1>1, <1>2, <1>3, <1>4, <1>5, <1>6, <1>7 DEF IInv

\* A cipher is posted.
LEMMA ArrivePreserves ==
  ASSUME NEW c \in Ciphers PROVE IInv /\ Alive(Arrive(c)) => IInv'
  <1>. SUFFICES ASSUME IInv, Arrive(c), ~crashed PROVE IInv'
    BY DEF Alive
  <1>typed. TypeOK
    BY DEF IInv
  <1>. USE Typing, <1>typed DEF figures, dummy, ends, reader
  <1>. USE DEF Arrive
  <1>move. /\ pc[c] = "unsent" /\ pc'[c] = "waiting" /\ pc' \in [Ciphers -> Places]
       /\ \A d \in Ciphers : d # c => pc'[d] = pc[d]
    BY Moves DEF Places
  <1>1. TypeOK'
    BY <1>move DEF TypeOK, Expected, Places
  <1>2. Counted'
    BY <1>move DEF IInv, Counted, Expected
  <1>3. Placed'
    BY <1>move DEF IInv, Placed
  <1>4. Written'
    BY <1>move DEF IInv, Written, Expected
  <1>5. Ended'
    BY <1>move DEF IInv, Ended, CrashNeedsOverlap, Expected, Updating
  <1>6. Added'
    BY <1>move DEF IInv, Added, Expected, Updating
  <1>7. Shown'
    BY <1>move DEF IInv, Shown
  <1>. QED
    BY <1>1, <1>2, <1>3, <1>4, <1>5, <1>6, <1>7 DEF IInv

\* ParallelDecryption or Decrypt takes a cipher, or fails and leaves it missing.
LEMMA CallPreserves ==
  ASSUME NEW c \in Ciphers PROVE IInv /\ Alive(Call(c)) => IInv'
  <1>. SUFFICES ASSUME IInv, Call(c), ~crashed PROVE IInv'
    BY DEF Alive
  <1>typed. TypeOK
    BY DEF IInv
  <1>. USE Typing, <1>typed DEF figures, dummy, ends, reader
  <1>1. CASE Goto(c, "waiting", "time") /\ CountDown(c) /\ UNCHANGED gaveUp
    <2>. USE <1>1 DEF Call, CountDown
    <2>move. /\ pc[c] = "waiting" /\ pc'[c] = "time" /\ pc' \in [Ciphers -> Places]
         /\ \A d \in Ciphers : d # c => pc'[d] = pc[d]
      BY Moves, <1>1 DEF Places
    <2>known. c \in Expected /\ c \in missing /\ last = {}
      BY <2>move DEF IInv, Counted
    <2>1. TypeOK'
      BY <2>move, <2>known DEF TypeOK, Expected, Places
    <2>2. Counted'
      BY <2>move, <2>known DEF IInv, Counted, Expected
    <2>3. Placed'
      BY <2>move, <2>known DEF IInv, Placed
    <2>4. Written'
      BY <2>move, <2>known DEF IInv, Written, Expected
    <2>5. Ended'
      BY <2>move, <2>known DEF IInv, Ended, CrashNeedsOverlap, Expected, Updating
    <2>6. Added'
      BY <2>move, <2>known DEF IInv, Added, Expected, Updating
    <2>7. Shown'
      BY <2>move, <2>known DEF IInv, Shown
    <2>. QED
      BY <2>1, <2>2, <2>3, <2>4, <2>5, <2>6, <2>7 DEF IInv
  <1>2. CASE Goto(c, "waiting", "timeFailed") /\ gaveUp' = TRUE /\ UNCHANGED <<missing, last>>
    <2>. USE <1>2 DEF Call
    <2>move. /\ pc[c] = "waiting" /\ pc'[c] = "timeFailed" /\ pc' \in [Ciphers -> Places]
         /\ \A d \in Ciphers : d # c => pc'[d] = pc[d]
      BY Moves, <1>2 DEF Places
    <2>known. c \in Expected /\ c \in missing /\ last = {}
      BY <2>move DEF IInv, Counted
    <2>1. TypeOK'
      BY <2>move, <2>known DEF TypeOK, Expected, Places
    <2>2. Counted'
      BY <2>move, <2>known DEF IInv, Counted, Expected
    <2>3. Placed'
      BY <2>move, <2>known DEF IInv, Placed
    <2>4. Written'
      BY <2>move, <2>known DEF IInv, Written, Expected
    <2>5. Ended'
      BY <2>move, <2>known DEF IInv, Ended, CrashNeedsOverlap, Expected, Updating
    <2>6. Added'
      BY <2>move, <2>known DEF IInv, Added, Expected, Updating
    <2>7. Shown'
      BY <2>move, <2>known DEF IInv, Shown
    <2>. QED
      BY <2>1, <2>2, <2>3, <2>4, <2>5, <2>6, <2>7 DEF IInv
  <1>. QED
    BY <1>1, <1>2 DEF Call

\* The time of the call is stored before anything says the cipher is there.
LEMMA StoreTimePreserves ==
  ASSUME NEW c \in Ciphers PROVE IInv /\ Alive(StoreTime(c)) => IInv'
  <1>. SUFFICES ASSUME IInv, StoreTime(c), ~crashed PROVE IInv'
    BY DEF Alive
  <1>typed. TypeOK
    BY DEF IInv
  <1>. USE Typing, <1>typed DEF figures, dummy, ends, reader
  <1>move. /\ pc' \in [Ciphers -> Places] /\ \A d \in Ciphers : d # c => pc'[d] = pc[d]
        /\ pc[c] \in {"time", "timeFailed"}
        /\ pc'[c] = IF pc[c] = "timeFailed" THEN "returned"
                    ELSE IF schema = "single" THEN "publish" ELSE "mark"
    <2>. DEFINE next == IF schema = "single" THEN "publish" ELSE "mark"
    <2>1. CASE Goto(c, "time", next)
      BY <2>1, Moves DEF Places
    <2>2. CASE Goto(c, "timeFailed", "returned")
      BY <2>2, Moves DEF Places
    <2>. QED
      BY <2>1, <2>2 DEF StoreTime
  <1>known. c \in Expected /\ schema # "dummy"
    BY <1>move DEF IInv, Counted, Placed
  <1>kept. partial' \subseteq Expected /\ decryptionTime' \in BOOLEAN
    BY <1>known DEF StoreTime
  <1>. USE DEF StoreTime
  <1>1. TypeOK'
    BY <1>move, <1>known, <1>kept DEF TypeOK, Expected, Places
  <1>2. Counted'
    BY <1>move, <1>known DEF IInv, Counted, Expected
  <1>3. Placed'
    BY <1>move, <1>known DEF IInv, Placed
  <1>4. Written'
    BY <1>move, <1>known DEF IInv, Written, Expected
  <1>5. Ended'
    BY <1>move, <1>known DEF IInv, Ended, CrashNeedsOverlap, Expected, Updating
  <1>6. Added'
    BY <1>move, <1>known DEF IInv, Added, Expected, Updating
  <1>7. Shown'
    BY <1>move, <1>known DEF IInv, Shown
  <1>. QED
    BY <1>1, <1>2, <1>3, <1>4, <1>5, <1>6, <1>7 DEF IInv

\* The flag is set after the entry; only the last goes on.
LEMMA MarkPreserves ==
  ASSUME NEW c \in Ciphers PROVE IInv /\ Alive(Mark(c)) => IInv'
  <1>. SUFFICES ASSUME IInv, Mark(c), ~crashed PROVE IInv'
    BY DEF Alive
  <1>typed. TypeOK
    BY DEF IInv
  <1>. USE Typing, <1>typed DEF figures, dummy, ends, reader
  <1>move. /\ pc' \in [Ciphers -> Places] /\ \A d \in Ciphers : d # c => pc'[d] = pc[d]
        /\ pc[c] = "mark" /\ pc'[c] = IF c \in last THEN "finish" ELSE "returned"
    BY Moves DEF Mark, IsLast, Places
  <1>known. c \in Expected /\ schema = "multi" /\ c \in partial
    BY <1>move DEF IInv, Counted, Placed, Written
  <1>. USE DEF Mark
  <1>1. TypeOK'
    BY <1>move, <1>known DEF TypeOK, Expected, Places
  <1>2. Counted'
    BY <1>move, <1>known DEF IInv, Counted, Expected
  <1>3. Placed'
    BY <1>move, <1>known DEF IInv, Placed
  <1>4. Written'
    BY <1>move, <1>known DEF IInv, Written, Expected
  <1>5. Ended'
    BY <1>move, <1>known DEF IInv, Ended, CrashNeedsOverlap, Expected, Updating
  <1>6. Added'
    BY <1>move, <1>known DEF IInv, Added, Expected, Updating
  <1>7. Shown'
    BY <1>move, <1>known DEF IInv, Shown
  <1>. QED
    BY <1>1, <1>2, <1>3, <1>4, <1>5, <1>6, <1>7 DEF IInv

\* GetResult, called by the last goroutine only.
LEMMA FinishPreserves ==
  ASSUME NEW c \in Ciphers PROVE IInv /\ Alive(Finish(c)) => IInv'
  <1>. SUFFICES ASSUME IInv, Finish(c), ~crashed PROVE IInv'
    BY DEF Alive
  <1>typed. TypeOK
    BY DEF IInv
  <1>. USE Typing, <1>typed DEF figures, dummy, ends, reader
  <1>1. CASE Goto(c, "finish", AfterResult) /\ UNCHANGED gaveUp
    <2>. USE <1>1 DEF Finish
    <2>move. /\ pc[c] = "finish" /\ pc'[c] = "add" /\ pc' \in [Ciphers -> Places]
          /\ \A d \in Ciphers : d # c => pc'[d] = pc[d]
      BY <1>1, Moves DEF Places, AfterResult
    <2>known. c \in last /\ missing = {} /\ \A d \in last : d = c
      BY <2>move DEF IInv, Counted
    <2>1. TypeOK'
      BY <2>move, <2>known DEF TypeOK, Expected, Places
    <2>2. Counted'
      BY <2>move, <2>known DEF IInv, Counted, Expected
    <2>3. Placed'
      BY <2>move, <2>known DEF IInv, Placed
    <2>4. Written'
      BY <2>move, <2>known DEF IInv, Written, Expected
    <2>5. Ended'
      BY <2>move, <2>known DEF IInv, Ended, CrashNeedsOverlap, Expected, Updating
    <2>6. Added'
      BY <2>move, <2>known DEF IInv, Added, Expected, Updating
    <2>7. Shown'
      BY <2>move, <2>known DEF IInv, Shown
    <2>. QED
      BY <2>1, <2>2, <2>3, <2>4, <2>5, <2>6, <2>7 DEF IInv
  <1>2. CASE Goto(c, "finish", "returned") /\ gaveUp' = TRUE
    <2>. USE <1>2 DEF Finish
    <2>move. /\ pc[c] = "finish" /\ pc'[c] = "returned" /\ pc' \in [Ciphers -> Places]
         /\ \A d \in Ciphers : d # c => pc'[d] = pc[d]
      BY Moves, <1>2 DEF Places
    <2>known. c \in last /\ missing = {} /\ \A d \in last : d = c
      BY <2>move DEF IInv, Counted
    <2>1. TypeOK'
      BY <2>move, <2>known DEF TypeOK, Expected, Places
    <2>2. Counted'
      BY <2>move, <2>known DEF IInv, Counted, Expected
    <2>3. Placed'
      BY <2>move, <2>known DEF IInv, Placed
    <2>4. Written'
      BY <2>move, <2>known DEF IInv, Written, Expected
    <2>5. Ended'
      BY <2>move, <2>known DEF IInv, Ended, CrashNeedsOverlap, Expected, Updating
    <2>6. Added'
      BY <2>move, <2>known DEF IInv, Added, Expected, Updating
    <2>7. Shown'
      BY <2>move, <2>known DEF IInv, Shown
    <2>. QED
      BY <2>1, <2>2, <2>3, <2>4, <2>5, <2>6, <2>7 DEF IInv
  <1>. QED
    BY <1>1, <1>2 DEF Finish

\* The sum of the times, where nil is found only while another flag is not set.
LEMMA AddTimesPreserves ==
  ASSUME NEW c \in Ciphers PROVE IInv /\ Alive(AddTimes(c)) => IInv'
  <1>. SUFFICES ASSUME IInv, AddTimes(c), ~crashed PROVE IInv'
    BY DEF Alive
  <1>typed. TypeOK
    BY DEF IInv
  <1>. USE Typing, <1>typed DEF figures, dummy, ends, reader
  <1>1. CASE Goto(c, "add", "publish") /\ totalTime' = TRUE /\ UNCHANGED crashed
    <2>. USE <1>1 DEF AddTimes
    <2>move. /\ pc[c] = "add" /\ pc'[c] = "publish" /\ pc' \in [Ciphers -> Places]
         /\ \A d \in Ciphers : d # c => pc'[d] = pc[d]
      BY Moves, <1>1 DEF Places
    <2>known. c \in last /\ missing = {} /\ schema = "multi" /\ \A d \in last : d = c
      BY <2>move DEF IInv, Counted, Placed
    <2>1. TypeOK'
      BY <2>move, <2>known DEF TypeOK, Expected, Places
    <2>2. Counted'
      BY <2>move, <2>known DEF IInv, Counted, Expected
    <2>3. Placed'
      BY <2>move, <2>known DEF IInv, Placed
    <2>4. Written'
      BY <2>move, <2>known DEF IInv, Written, Expected
    <2>5. Ended'
      BY <2>move, <2>known DEF IInv, Ended, CrashNeedsOverlap, Expected, Updating
    <2>6. Added'
      BY <2>move, <2>known DEF IInv, Added, Expected, Updating
    <2>7. Shown'
      BY <2>move, <2>known DEF IInv, Shown
    <2>. QED
      BY <2>1, <2>2, <2>3, <2>4, <2>5, <2>6, <2>7 DEF IInv
  <1>2. CASE /\ received # Expected /\ pc[c] = "add" /\ crashed' = TRUE
             /\ UNCHANGED <<pc, totalTime>>
    <2>. USE <1>2 DEF AddTimes
    <2>known. c \in last /\ missing = {} /\ schema = "multi"
      BY <1>2 DEF IInv, Counted, Placed
    <2>move. \E d \in Ciphers : pc[d] \in {"time", "mark"}
      BY <1>2, <2>known DEF IInv, Written
    <2>1. TypeOK'
      BY <2>move, <2>known DEF TypeOK, Expected, Places
    <2>2. Counted'
      BY <2>move, <2>known DEF IInv, Counted, Expected
    <2>3. Placed'
      BY <2>move, <2>known DEF IInv, Placed
    <2>4. Written'
      BY <2>move, <2>known DEF IInv, Written, Expected
    <2>5. Ended'
      BY <2>move, <2>known DEF IInv, Ended, CrashNeedsOverlap, Expected, Updating
    <2>6. Added'
      BY <2>move, <2>known DEF IInv, Added, Expected, Updating
    <2>7. Shown'
      BY <2>move, <2>known DEF IInv, Shown
    <2>. QED
      BY <2>1, <2>2, <2>3, <2>4, <2>5, <2>6, <2>7 DEF IInv
  <1>. QED
    BY <1>1, <1>2 DEF AddTimes

\* ResultReady is set after every time.
LEMMA PublishPreserves ==
  ASSUME NEW c \in Ciphers PROVE IInv /\ Alive(Publish(c)) => IInv'
  <1>. SUFFICES ASSUME IInv, Publish(c), ~crashed PROVE IInv'
    BY DEF Alive
  <1>typed. TypeOK
    BY DEF IInv
  <1>. USE Typing, <1>typed DEF figures, dummy, ends, reader
  <1>. USE DEF Publish
  <1>move. /\ pc[c] = "publish" /\ pc'[c] = "report" /\ pc' \in [Ciphers -> Places]
       /\ \A d \in Ciphers : d # c => pc'[d] = pc[d]
    BY Moves DEF Places
  <1>known. c \in last /\ missing = {} /\ opened /\ \A d \in last : d = c
    BY <1>move DEF IInv, Counted, Placed
  <1>1. TypeOK'
    BY <1>move, <1>known DEF TypeOK, Expected, Places
  <1>2. Counted'
    BY <1>move, <1>known DEF IInv, Counted, Expected
  <1>3. Placed'
    BY <1>move, <1>known DEF IInv, Placed
  <1>4. Written'
    BY <1>move, <1>known DEF IInv, Written, Expected
  <1>5. Ended'
    BY <1>move, <1>known DEF IInv, Ended, CrashNeedsOverlap, Expected, Updating
  <1>6. Added'
    BY <1>move, <1>known DEF IInv, Added, Expected, Updating
  <1>7. Shown'
    BY <1>move, <1>known DEF IInv, Shown
  <1>. QED
    BY <1>1, <1>2, <1>3, <1>4, <1>5, <1>6, <1>7 DEF IInv

\* The goroutine that was last stores the result.
LEMMA ReportPreserves ==
  ASSUME NEW c \in Ciphers PROVE IInv /\ Alive(Report(c)) => IInv'
  <1>. SUFFICES ASSUME IInv, Report(c), ~crashed PROVE IInv'
    BY DEF Alive
  <1>typed. TypeOK
    BY DEF IInv
  <1>. USE Typing, <1>typed DEF figures, dummy, ends, reader
  <1>. USE DEF Report
  <1>move. /\ pc[c] = "report" /\ pc'[c] = "returned" /\ pc' \in [Ciphers -> Places]
       /\ \A d \in Ciphers : d # c => pc'[d] = pc[d]
    BY Moves DEF Places
  <1>known. c \in last /\ missing = {} /\ \A d \in last : d = c
    BY <1>move DEF IInv, Counted
  <1>1. TypeOK'
    BY <1>move, <1>known DEF TypeOK, Expected, Places
  <1>2. Counted'
    BY <1>move, <1>known DEF IInv, Counted, Expected
  <1>3. Placed'
    BY <1>move, <1>known DEF IInv, Placed
  <1>4. Written'
    BY <1>move, <1>known DEF IInv, Written, Expected
  <1>5. Ended'
    BY <1>move, <1>known DEF IInv, Ended, CrashNeedsOverlap, Expected, Updating
  <1>6. Added'
    BY <1>move, <1>known DEF IInv, Added, Expected, Updating
  <1>7. Shown'
    BY <1>move, <1>known DEF IInv, Shown
  <1>. QED
    BY <1>1, <1>2, <1>3, <1>4, <1>5, <1>6, <1>7 DEF IInv

\* A reader of the sum that finds an update under way has overlapped it.
LEMMA DummyLoadPreserves ==
  ASSUME NEW c \in Ciphers PROVE IInv /\ Alive(DummyLoad(c)) => IInv'
  <1>. SUFFICES ASSUME IInv, DummyLoad(c), ~crashed PROVE IInv'
    BY DEF Alive
  <1>typed. TypeOK
    BY DEF IInv
  <1>. USE Typing, <1>typed DEF figures, dummy, ends, reader
  <1>1. CASE /\ Goto(c, "waiting", "store") /\ UNCHANGED crashed
             /\ loaded' = [loaded EXCEPT ![c] = sum]
    <2>. USE <1>1 DEF DummyLoad
    <2>move. /\ pc[c] = "waiting" /\ pc'[c] = "store" /\ pc' \in [Ciphers -> Places]
         /\ \A d \in Ciphers : d # c => pc'[d] = pc[d]
      BY Moves, <1>1 DEF Places
    <2>known. c \in Expected /\ c \in missing /\ last = {}
      BY <2>move DEF IInv, Counted
    <2>kept. loaded' \in [Ciphers -> SUBSET Expected] /\ overlapped' \in BOOLEAN
      BY <1>1
    <2>1. TypeOK'
      BY <2>move, <2>known, <2>kept DEF TypeOK, Expected, Places
    <2>2. Counted'
      BY <2>move, <2>known DEF IInv, Counted, Expected
    <2>3. Placed'
      BY <2>move, <2>known DEF IInv, Placed
    <2>4. Written'
      BY <2>move, <2>known DEF IInv, Written, Expected
    <2>5. Ended'
      BY <2>move, <2>known DEF IInv, Ended, CrashNeedsOverlap, Expected, Updating
    <2>6. Added'
      BY <2>move, <2>known DEF IInv, Added, Expected, Updating
    <2>7. Shown'
      BY <2>move, <2>known DEF IInv, Shown
    <2>. QED
      BY <2>1, <2>2, <2>3, <2>4, <2>5, <2>6, <2>7 DEF IInv
  <1>2. CASE /\ pc[c] = "waiting" /\ Updating # {} /\ crashed' = TRUE
             /\ UNCHANGED <<pc, loaded>>
    <2>. USE <1>2 DEF DummyLoad
    <2>1. TypeOK'
      BY <1>2 DEF TypeOK, Expected, Places
    <2>2. Counted'
      BY <1>2 DEF IInv, Counted, Expected
    <2>3. Placed'
      BY <1>2 DEF IInv, Placed
    <2>4. Written'
      BY <1>2 DEF IInv, Written, Expected
    <2>5. Ended'
      BY <1>2 DEF IInv, Ended, CrashNeedsOverlap, Expected, Updating
    <2>6. Added'
      BY <1>2 DEF IInv, Added, Expected, Updating
    <2>7. Shown'
      BY <1>2 DEF IInv, Shown
    <2>. QED
      BY <2>1, <2>2, <2>3, <2>4, <2>5, <2>6, <2>7 DEF IInv
  <1>. QED
    BY <1>1, <1>2 DEF DummyLoad

\* An update that has not overlapped adds to the sum as it is.
LEMMA DummyStorePreserves ==
  ASSUME NEW c \in Ciphers PROVE IInv /\ Alive(DummyStore(c)) => IInv'
  <1>. SUFFICES ASSUME IInv, DummyStore(c), ~crashed PROVE IInv'
    BY DEF Alive
  <1>typed. TypeOK
    BY DEF IInv
  <1>. USE Typing, <1>typed DEF figures, dummy, ends, reader
  <1>. USE DEF DummyStore, Plus
  <1>move. /\ pc[c] = "store" /\ pc'[c] = "count" /\ pc' \in [Ciphers -> Places]
       /\ \A d \in Ciphers : d # c => pc'[d] = pc[d]
    BY Moves DEF Places
  <1>known. c \in Expected /\ c \in missing /\ last = {} /\ schema = "dummy"
    BY <1>move DEF IInv, Counted, Placed
  <1>1. TypeOK'
    BY <1>move, <1>known DEF TypeOK, Expected, Places
  <1>2. Counted'
    BY <1>move, <1>known DEF IInv, Counted, Expected
  <1>3. Placed'
    BY <1>move, <1>known DEF IInv, Placed
  <1>4. Written'
    BY <1>move, <1>known DEF IInv, Written, Expected
  <1>5. Ended'
    BY <1>move, <1>known DEF IInv, Ended, CrashNeedsOverlap, Expected, Updating
  <1>6. Added'
    BY <1>move, <1>known DEF IInv, Added, Expected, Updating
  <1>7. Shown'
    BY <1>move, <1>known DEF IInv, Shown
  <1>. QED
    BY <1>1, <1>2, <1>3, <1>4, <1>5, <1>6, <1>7 DEF IInv

\* A cipher is counted after it was added.
LEMMA DummyCountPreserves ==
  ASSUME NEW c \in Ciphers PROVE IInv /\ Alive(DummyCount(c)) => IInv'
  <1>. SUFFICES ASSUME IInv, DummyCount(c), ~crashed PROVE IInv'
    BY DEF Alive
  <1>typed. TypeOK
    BY DEF IInv
  <1>. USE Typing, <1>typed DEF figures, dummy, ends, reader
  <1>move. /\ pc' \in [Ciphers -> Places] /\ \A d \in Ciphers : d # c => pc'[d] = pc[d]
        /\ pc[c] = "count" /\ pc'[c] = IF c \in last' THEN "report" ELSE "returned"
    BY Moves DEF DummyCount, Places
  <1>known. c \in Expected /\ c \in missing /\ last = {} /\ schema = "dummy"
    BY <1>move DEF IInv, Counted, Placed
  <1>. USE DEF DummyCount, CountDown
  <1>1. TypeOK'
    BY <1>move, <1>known DEF TypeOK, Expected, Places
  <1>2. Counted'
    BY <1>move, <1>known DEF IInv, Counted, Expected
  <1>3. Placed'
    BY <1>move, <1>known DEF IInv, Placed
  <1>4. Written'
    BY <1>move, <1>known DEF IInv, Written, Expected
  <1>5. Ended'
    BY <1>move, <1>known DEF IInv, Ended, CrashNeedsOverlap, Expected, Updating
  <1>6. Added'
    BY <1>move, <1>known DEF IInv, Added, Expected, Updating
  <1>7. Shown'
    BY <1>move, <1>known DEF IInv, Shown
  <1>. QED
    BY <1>1, <1>2, <1>3, <1>4, <1>5, <1>6, <1>7 DEF IInv

\* What reading leaves alone stays true.
LEMMA ReadingLeavesAlone ==
  ASSUME IInv, UNCHANGED <<schema, opened, pc, missing, last, figures, dummy, ends>>
  PROVE  Counted' /\ Placed' /\ Written' /\ Ended' /\ Added'
  <1>. USE DEF IInv, figures, dummy, ends, Expected
  <1>1. Counted'
    BY DEF Counted
  <1>2. Placed'
    BY DEF Placed
  <1>3. Written'
    BY DEF Written
  <1>4. Ended'
    BY DEF Ended, CrashNeedsOverlap
  <1>5. Added'
    BY DEF Added
  <1>. QED
    BY <1>1, <1>2, <1>3, <1>4, <1>5

\* The loop of GetStats stays within the ciphers.
LEMMA NextEntryInRange == ASSUME NEW i \in Ciphers PROVE NextEntry(i) \in Ciphers
  <1>1. i + 1 \in Nat /\ CipherCnt \in Nat \ {0}
    BY ConstantsAssumption DEF Ciphers
  <1>2. \A n \in Nat, m \in Nat \ {0} : n % m \in 0..(m - 1)
    OBVIOUS
  <1>. QED
    BY <1>1, <1>2 DEF NextEntry, Ciphers

\* A request that reads finds what was written before.
LEMMA GetTaskDetailsPreserves == IInv /\ Alive(GetTaskDetails) => IInv'
  <1>. SUFFICES ASSUME IInv, GetTaskDetails PROVE IInv'
    BY DEF Alive
  <1>typed. TypeOK
    BY DEF IInv
  <1>known. /\ seen \in [finished : BOOLEAN, total : BOOLEAN, time : BOOLEAN,
                     times : SUBSET Ciphers, nils : SUBSET Ciphers, result : BOOLEAN]
        /\ cursor \in Ciphers /\ received \subseteq Ciphers /\ received \subseteq partial
        /\ schema \in {"single", "multi", "dummy"}
    BY <1>typed, Typing DEF TypeOK, IInv, Written
  <1>same. UNCHANGED <<schema, opened, pc, missing, last, figures, dummy, ends>>
    BY DEF GetTaskDetails
  <1>kept. Counted' /\ Placed' /\ Written' /\ Ended' /\ Added'
    BY <1>same, ReadingLeavesAlone
  <1>range. ASSUME seen' \in [finished : BOOLEAN, total : BOOLEAN, time : BOOLEAN,
                          times : SUBSET Ciphers, nils : SUBSET Ciphers, result : BOOLEAN],
               cursor' \in Ciphers,
               at' \in {"idle", "time", "entries", "result", "answered"}
        PROVE  TypeOK'
    BY <1>range, <1>same, <1>typed DEF TypeOK, figures, dummy, ends, Expected
  <1>. USE DEF figures, dummy, ends
  <1>1. CASE Ask
    <2>. USE <1>1 DEF Ask, NothingSeen
    <2>1. TypeOK'
      <3>1. resultReady \in BOOLEAN
        BY <1>typed, Typing
      <3>. QED
        BY <1>range, <1>known, <3>1
    <2>2. Shown'
      BY <1>same DEF IInv, Shown, Placed
    <2>. QED
      BY <1>kept, <2>1, <2>2 DEF IInv
  <1>2. CASE ReadTime
    <2>. USE <1>2 DEF ReadTime
    <2>1. TypeOK'
      <3>1. decryptionTime \in BOOLEAN /\ totalTime \in BOOLEAN
        BY <1>typed, Typing
      <3>. QED
        BY <1>range, <1>known, <3>1
    <2>2. Shown'
      BY <1>same, <1>known DEF IInv, Shown, Written
    <2>. QED
      BY <1>kept, <2>1, <2>2 DEF IInv
  <1>3. CASE ReadEntry
    <2>. USE <1>3 DEF ReadEntry
    <2>1. TypeOK'
      <3>1. cursor' \in Ciphers
        BY <1>known, NextEntryInRange
      <3>2. seen' \in [finished : BOOLEAN, total : BOOLEAN, time : BOOLEAN,
                       times : SUBSET Ciphers, nils : SUBSET Ciphers, result : BOOLEAN]
        BY <1>known
      <3>. QED
        BY <1>range, <3>1, <3>2
    <2>2. Shown'
      <3>1. cursor \notin received \ partial
        BY <1>known
      <3>2. /\ seen'.nils = seen.nils /\ seen'.finished = seen.finished
            /\ seen'.time = seen.time /\ seen'.total = seen.total /\ seen'.result = seen.result
        BY <1>known, <3>1
      <3>. QED
        BY <1>same, <3>2 DEF IInv, Shown
    <2>. QED
      BY <1>kept, <2>1, <2>2 DEF IInv
  <1>4. CASE ReadResult
    <2>. USE <1>4 DEF ReadResult
    <2>1. TypeOK'
      <3>1. result \in BOOLEAN
        BY <1>typed, Typing
      <3>. QED
        BY <1>range, <1>known, <3>1
    <2>2. Shown'
      BY <1>same, <1>known DEF IInv, Shown
    <2>. QED
      BY <1>kept, <2>1, <2>2 DEF IInv
  <1>. QED
    BY <1>1, <1>2, <1>3, <1>4 DEF GetTaskDetails

\* NewFEDecryptor establishes the invariant.
LEMMA InitIInv == Init => IInv
  <1>. SUFFICES ASSUME Init PROVE IInv
    OBVIOUS
  <1>1. Expected \subseteq Ciphers /\ 0 \in Ciphers /\ 0 \in Expected
    BY ConstantsAssumption DEF Expected, Ciphers
  <1>. USE <1>1 DEF Init
  <1>2. TypeOK
    BY DEF TypeOK, NothingSeen
  <1>3. Counted
    BY DEF Counted
  <1>4. Placed
    BY DEF Placed
  <1>5. Written
    BY DEF Written
  <1>6. Ended
    BY DEF Ended, CrashNeedsOverlap
  <1>7. Added
    BY DEF Added
  <1>8. Shown
    BY DEF Shown, NothingSeen
  <1>. QED
    BY <1>2, <1>3, <1>4, <1>5, <1>6, <1>7, <1>8 DEF IInv

\* No step of any goroutine breaks it.
LEMMA NextPreserves == IInv /\ [Next]_vars => IInv'
  <1>. SUFFICES ASSUME IInv, [Next]_vars PROVE IInv'
    OBVIOUS
  <1>1. CASE UNCHANGED vars
    <2>1. UNCHANGED <<schema, opened, pc, missing, last, figures, dummy, ends>>
          /\ UNCHANGED reader
      BY <1>1 DEF vars
    <2>2. TypeOK'
      BY <2>1 DEF IInv, TypeOK, figures, dummy, ends, reader, Expected
    <2>3. Shown'
      BY <2>1 DEF IInv, Shown, figures, ends, reader
    <2>. QED
      BY <2>1, <2>2, <2>3, ReadingLeavesAlone DEF IInv
  <1>2. CASE Alive(Open)
    BY <1>2, OpenPreserves
  <1>3. CASE Alive(GetTaskDetails)
    BY <1>3, GetTaskDetailsPreserves
  <1>4. ASSUME NEW c \in Ciphers, Alive(Arrive(c)) PROVE IInv'
    BY <1>4, ArrivePreserves
  <1>5. ASSUME NEW c \in Ciphers, Alive(AddCipher(c)) PROVE IInv'
    BY <1>5, CallPreserves, StoreTimePreserves, MarkPreserves, FinishPreserves,
       AddTimesPreserves, PublishPreserves, DummyLoadPreserves, DummyStorePreserves,
       DummyCountPreserves, ReportPreserves DEF AddCipher, Alive
  <1>. QED
    BY <1>1, <1>2, <1>3, <1>4, <1>5 DEF Next

\* The inductive invariant holds in every state.
LEMMA IInvAlways == Spec => []IInv
  BY InitIInv, NextPreserves, PTL DEF Spec

-----------------------------------------------------------------------------
(* Theorems. *)

\* All variables keep their types (server/fe.go, server/task.go).
THEOREM TypeCorrect == Spec => []TypeOK
  <1>1. IInv => TypeOK
    BY DEF IInv
  <1>. QED
    BY <1>1, IInvAlways, PTL

\* AddCipher: at most one goroutine goes on to the result, after the last cipher,
\* and nothing says that the task is finished before.
THEOREM OneGoroutineFinishes == Spec => []OneFinisher
  <1>1. IInv => OneFinisher
    BY DEF IInv, Counted, Written, Ended, OneFinisher
  <1>. QED
    BY <1>1, IInvAlways, PTL

\* GetStats and the handler of GET /task/:id read without a lock; what they
\* answer is consistent all the same.
THEOREM StatsAreConsistent == Spec => []StatsConsistent
  <1>1. IInv => StatsConsistent
    BY DEF IInv, Counted, Ended, Shown, StatsConsistent
  <1>. QED
    BY <1>1, IInvAlways, PTL

\* A panic in AddCipher needs a second call between its update and the flag or
\* the write that makes it visible.
THEOREM CrashesNeedOverlap == Spec => []CrashNeedsOverlap
  <1>1. IInv => CrashNeedsOverlap
    BY DEF IInv, Ended
  <1>. QED
    BY <1>1, IInvAlways, PTL

\* The dummy's unlocked sum lacks nothing unless two updates overlapped, and it
\* does not change once it is the result.
THEOREM SumIsExact == Spec => []SumExact
  <1>1. IInv => SumExact
    <2>. SUFFICES ASSUME IInv, schema = "dummy", result
                  PROVE  (~overlapped => sum = Expected) /\ Updating = {}
      BY DEF SumExact
    <2>1. missing = {} /\ sum \subseteq Expected
      BY Typing DEF IInv, Counted, Ended
    <2>2. ~overlapped => sum = Expected
      BY <2>1 DEF IInv, Added
    <2>3. Updating = {}
      BY <2>1 DEF IInv, Counted, Updating
    <2>. QED
      BY <2>2, <2>3
  <1>. QED
    BY <1>1, IInvAlways, PTL

-----------------------------------------------------------------------------
(* The goroutines implement the abstract collector. *)

\* A call into the library takes a missing cipher, or fails before any result.
LEMMA CallCollects ==
  ASSUME NEW c \in Ciphers, IInv, Alive(Call(c))
  PROVE  Collected!Next
  <1>1. c \in Expected /\ c \in missing /\ ~result /\ ~crashed
    BY DEF IInv, Counted, Ended, Alive, Call, Goto
  <1>2. CASE CountDown(c) /\ UNCHANGED gaveUp
    <2>1. missing' = missing \ {c} /\ UNCHANGED <<result, gaveUp, crashed>>
      BY <1>2 DEF CountDown, Call, Alive
    <2>2. Collected!Take(c)
      BY <1>1, <2>1 DEF Collected!Take
    <2>. QED
      BY <1>1, <2>2 DEF Collected!Next
  <1>3. CASE gaveUp' = TRUE /\ UNCHANGED <<missing, last>>
    <2>1. gaveUp' /\ UNCHANGED <<missing, result>>
      BY <1>3 DEF Call, Alive
    <2>2. Collected!Fail
      BY <1>1, <2>1 DEF Collected!Fail
    <2>. QED
      BY <2>2 DEF Collected!Next
  <1>. QED
    BY <1>2, <1>3 DEF Call, Alive

\* GetResult or the sum of the times fails before any result.
LEMMA FailingCollects ==
  ASSUME NEW c \in Ciphers, IInv, Alive(Finish(c)) \/ Alive(AddTimes(c)) \/ Alive(DummyLoad(c))
  PROVE  Collected!Next \/ UNCHANGED Collected!vars
  <1>1. UNCHANGED <<missing, result>>
    BY DEF Finish, AddTimes, DummyLoad, figures, ends, Alive
  <1>2. ~result
    BY DEF IInv, Counted, Placed, Ended, Alive, Finish, AddTimes, DummyLoad, Goto
  <1>3. CASE UNCHANGED <<gaveUp, crashed>>
    BY <1>1, <1>3 DEF Collected!vars
  <1>4. CASE gaveUp' \/ crashed'
    <2>1. Collected!Fail
      BY <1>1, <1>2, <1>4 DEF Collected!Fail
    <2>. QED
      BY <2>1 DEF Collected!Next
  <1>5. UNCHANGED <<gaveUp, crashed>> \/ gaveUp' \/ crashed'
    BY DEF Finish, AddTimes, DummyLoad, Alive
  <1>. QED
    BY <1>3, <1>4, <1>5

\* What reports does so with all ciphers taken and before any failure.
LEMMA ReportCollects ==
  ASSUME NEW c \in Ciphers, IInv, Alive(Report(c))
  PROVE  Collected!Next
  <1>1. c \in last /\ pc[c] = "report" /\ ~crashed
    BY DEF IInv, Counted, Alive, Report, Goto
  <1>2. missing = {}
    BY <1>1 DEF IInv, Counted
  <1>3. ~gaveUp
    BY <1>1, <1>2 DEF IInv, Ended
  <1>4. result' = TRUE /\ UNCHANGED <<missing, gaveUp, crashed>>
    BY DEF Report, Alive
  <1>5. Collected!Report
    BY <1>1, <1>2, <1>3, <1>4 DEF Collected!Report
  <1>. QED
    BY <1>5 DEF Collected!Next

\* The dummy takes a cipher when it counts it.
LEMMA DummyCountCollects ==
  ASSUME NEW c \in Ciphers, IInv, Alive(DummyCount(c))
  PROVE  Collected!Next
  <1>1. c \in Expected /\ c \in missing
    BY DEF IInv, Counted, Alive, DummyCount, Goto
  <1>2. missing' = missing \ {c} /\ UNCHANGED <<result, gaveUp, crashed>>
    BY DEF DummyCount, CountDown, ends, Alive
  <1>3. Collected!Take(c)
    BY <1>1, <1>2 DEF Collected!Take
  <1>. QED
    BY <1>1, <1>3 DEF Collected!Next

\* AddCipher in the three decryptors and Task.AddCipher: every step takes one
\* missing cipher, reports with none missing, fails before any result, or does
\* nothing a client of the collector sees.
THEOREM StepsImplementCollector ==
  Spec => Collected!Init /\ [][Collected!Next]_(Collected!vars)
  <1>1. Init => Collected!Init
    <2>1. Init => 0 \in Expected
      BY ConstantsAssumption DEF Init, Expected, Ciphers
    <2>. QED
      BY <2>1 DEF Init, Collected!Init
  <1>2. IInv /\ [Next]_vars => [Collected!Next]_(Collected!vars)
    <2>. SUFFICES ASSUME IInv, [Next]_vars PROVE Collected!Next \/ UNCHANGED Collected!vars
      OBVIOUS
    <2>1. CASE UNCHANGED <<missing, result, gaveUp, crashed>>
      BY <2>1 DEF Collected!vars
    <2>2. CASE UNCHANGED vars \/ Alive(Open) \/ Alive(GetTaskDetails)
      <3>1. UNCHANGED <<missing, result, gaveUp, crashed>>
        BY <2>2 DEF vars, ends, Open, GetTaskDetails, Alive
      <3>. QED
        BY <2>1, <3>1
    <2>3. ASSUME NEW c \in Ciphers, Alive(Arrive(c)) \/ Alive(AddCipher(c))
          PROVE  Collected!Next \/ UNCHANGED Collected!vars
      <3>1. CASE \/ Arrive(c) \/ StoreTime(c) \/ Mark(c) \/ Publish(c) \/ DummyStore(c)
        <4>1. UNCHANGED <<missing, result, gaveUp, crashed>>
          BY <3>1 DEF Arrive, StoreTime, Mark, Publish, DummyStore, figures, ends
        <4>. QED
          BY <2>1, <4>1
      <3>2. CASE Alive(Call(c))
        BY <3>2, CallCollects
      <3>3. CASE Alive(Finish(c)) \/ Alive(AddTimes(c)) \/ Alive(DummyLoad(c))
        BY <3>3, FailingCollects
      <3>4. CASE Alive(Report(c))
        BY <3>4, ReportCollects
      <3>5. CASE Alive(DummyCount(c))
        BY <3>5, DummyCountCollects
      <3>. QED
        BY <2>3, <3>1, <3>2, <3>3, <3>4, <3>5 DEF AddCipher, Alive
    <2>. QED
      BY <2>2, <2>3 DEF Next
  <1>. QED
    BY <1>1, <1>2, IInvAlways, PTL DEF Spec

-----------------------------------------------------------------------------
(* The result comes: what the fairness of Report rests on.                   *)

\* Once every cipher is taken and no library call has failed, there is a result, or
\* the goroutine that was told so is still on its way to it.
ResultOnItsWay ==
  missing = {} /\ ~gaveUp /\ ~result =>
    \E c \in last : pc[c] \in {"time", "mark", "finish", "add", "publish", "report"}

\* A step of the goroutine that is on its way brings it closer; a step of another
\* one, taken when no cipher is missing, does not touch it.
LEMMA ResultStaysOnItsWay ==
  ASSUME IInv, ResultOnItsWay, NEW c \in Ciphers, AddCipher(c)
  PROVE  ResultOnItsWay'
  <1>typed. TypeOK
    BY DEF IInv
  <1>. USE Typing, <1>typed DEF figures, dummy, ends, reader
  <1>. DEFINE OnItsWay == {"time", "mark", "finish", "add", "publish", "report"}
  <1>missing. pc[c] \in {"unsent", "waiting", "timeFailed", "store", "count"} /\ c \in Expected
                => c \in missing
    BY DEF IInv, Counted
  <1>known. pc[c] # "unsent" => c \in Expected
    BY DEF IInv, Counted
  \* Most steps move only c, and to a place on the way.
  <1>on. ASSUME NEW from, NEW to \in OnItsWay, Goto(c, from, to), from \in OnItsWay,
                UNCHANGED <<missing, last, result>>, gaveUp' = gaveUp
         PROVE  ResultOnItsWay'
    <2>1. /\ pc'[c] = to /\ \A d \in Ciphers : d # c => pc'[d] = pc[d]
      BY <1>on, Moves DEF Places
    <2>. QED
      BY <1>on, <2>1 DEF ResultOnItsWay
  \* A cipher that is missing keeps all others from being the last.
  <1>off. ASSUME c \in missing, UNCHANGED missing PROVE ResultOnItsWay'
    BY <1>off DEF ResultOnItsWay
  <1>1. CASE Call(c)
    <2>1. CASE Goto(c, "waiting", "time") /\ CountDown(c)
      <3>1. pc'[c] = "time" /\ (missing' = {} => c \in last')
        BY <2>1, Moves DEF Places, CountDown
      <3>. QED
        BY <3>1 DEF ResultOnItsWay
    <2>2. CASE gaveUp'
      BY <2>2 DEF ResultOnItsWay
    <2>. QED
      BY <1>1, <2>1, <2>2 DEF Call
  <1>2. CASE StoreTime(c)
    <2>1. CASE Goto(c, "time", IF schema = "single" THEN "publish" ELSE "mark")
      <3>1. UNCHANGED <<missing, last, result, gaveUp>>
        BY <1>2 DEF StoreTime
      <3>. QED
        BY <2>1, <3>1, <1>on
    <2>2. CASE Goto(c, "timeFailed", "returned")
      <3>1. UNCHANGED missing /\ pc[c] = "timeFailed"
        BY <1>2, <2>2 DEF StoreTime, Goto
      <3>. QED
        BY <3>1, <1>missing, <1>known, <1>off
    <2>. QED
      BY <1>2, <2>1, <2>2 DEF StoreTime
  <1>3. CASE Mark(c)
    <2>1. UNCHANGED <<missing, last, result, gaveUp>>
      BY <1>3 DEF Mark
    <2>2. CASE c \in last
      BY <1>3, <2>1, <2>2, <1>on DEF Mark, IsLast
    <2>3. CASE c \notin last
      <3>1. \A d \in Ciphers : d # c => pc'[d] = pc[d]
        BY <1>3, <2>3, Moves DEF Mark, IsLast, Places
      <3>. QED
        BY <2>1, <2>3, <3>1 DEF ResultOnItsWay
    <2>. QED
      BY <2>2, <2>3
  <1>4. CASE Finish(c)
    <2>1. UNCHANGED <<missing, last, result>>
      BY <1>4 DEF Finish
    <2>2. CASE Goto(c, "finish", AfterResult) /\ UNCHANGED gaveUp
      BY <2>1, <2>2, <1>on DEF AfterResult
    <2>3. CASE gaveUp'
      BY <2>3 DEF ResultOnItsWay
    <2>. QED
      BY <1>4, <2>2, <2>3 DEF Finish
  <1>5. CASE AddTimes(c)
    <2>1. UNCHANGED <<missing, last, result, gaveUp>>
      BY <1>5 DEF AddTimes
    <2>2. CASE Goto(c, "add", "publish")
      BY <2>1, <2>2, <1>on
    <2>3. CASE UNCHANGED pc
      BY <2>1, <2>3 DEF ResultOnItsWay
    <2>. QED
      BY <1>5, <2>2, <2>3 DEF AddTimes
  <1>6. CASE Publish(c)
    BY <1>6, <1>on DEF Publish
  <1>7. CASE Report(c)
    BY <1>7 DEF Report, ResultOnItsWay
  <1>8. CASE DummyLoad(c)
    <2>1. UNCHANGED missing /\ pc[c] = "waiting"
      BY <1>8 DEF DummyLoad, Goto
    <2>. QED
      BY <2>1, <1>missing, <1>known, <1>off
  <1>9. CASE DummyStore(c)
    <2>1. UNCHANGED missing /\ pc[c] = "store"
      BY <1>9 DEF DummyStore, Goto
    <2>. QED
      BY <2>1, <1>missing, <1>known, <1>off
  <1>10. CASE DummyCount(c)
    <2>1. CASE c \in last'
      <3>1. pc'[c] = "report"
        BY <1>10, <2>1, Moves DEF DummyCount, Places
      <3>. QED
        BY <2>1, <3>1 DEF ResultOnItsWay
    <2>2. CASE c \notin last'
      <3>1. missing' # {}
        BY <1>10, <2>2 DEF DummyCount, CountDown
      <3>. QED
        BY <3>1 DEF ResultOnItsWay
    <2>. QED
      BY <2>1, <2>2
  <1>. QED
    BY <1>1, <1>2, <1>3, <1>4, <1>5, <1>6, <1>7, <1>8, <1>9, <1>10 DEF AddCipher

\* Whichever goroutine takes the last cipher, in whatever order they go on: with
\* all ciphers taken and no failure the result is there or somebody is about to
\* bring it (AddCipher of the three decryptors).
THEOREM ResultComes == Spec => []ResultOnItsWay
  <1>1. Init => ResultOnItsWay
    BY ConstantsAssumption DEF Init, ResultOnItsWay, Expected, Ciphers
  <1>2. IInv /\ ResultOnItsWay /\ [Next]_vars => ResultOnItsWay'
    <2>. SUFFICES ASSUME IInv, ResultOnItsWay, [Next]_vars PROVE ResultOnItsWay'
      OBVIOUS
    <2>1. CASE UNCHANGED <<missing, gaveUp, result, last, pc>>
      BY <2>1 DEF ResultOnItsWay
    <2>2. CASE UNCHANGED vars \/ Open \/ GetTaskDetails
      BY <2>1, <2>2 DEF vars, Open, GetTaskDetails, ends
    <2>3. ASSUME NEW c \in Ciphers, Arrive(c) PROVE ResultOnItsWay'
      <3>1. UNCHANGED missing /\ c \in missing
        BY <2>3 DEF Arrive, Goto, IInv, Counted
      <3>. QED
        BY <3>1 DEF ResultOnItsWay
    <2>. QED
      BY <2>2, <2>3, ResultStaysOnItsWay DEF Next, Alive
  <1>. QED
    BY <1>1, <1>2, IInvAlways, PTL DEF Spec
=============================================================================
