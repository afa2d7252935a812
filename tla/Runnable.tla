------------------------------ MODULE Runnable ------------------------------
(***************************************************************************)
(* The lifecycle record every long-lived goroutine of the system carries   *)
(* (common/runnable.go): a state guarded by a mutex, and ExitChan, a       *)
(* channel with room for one message on which the goroutine is told to     *)
(* return.                                                                 *)
(*                                                                         *)
(* Each method runs wholly under the mutex, so each is one operator from   *)
(* the record before the call to the record after it.  A goroutine calls   *)
(* Start, Done and Fail on its own Runnable, its creator calls Stop.       *)
(*                                                                         *)
(*   state   the RunnableState                                             *)
(*   exit    number of messages waiting in ExitChan                        *)
(*   closed  whether ExitChan has been closed                              *)
(***************************************************************************)
EXTENDS Naturals, TLAPS

RunnableState == {"created", "running", "done", "stopped", "cancelled", "failed"}

\* Capacity of ExitChan: make(chan bool, 1).
ExitChanCap == 1

NewRunnable == [state |-> "created", exit |-> 0, closed |-> FALSE]

\* Leaving the running state: the new state, and one message on ExitChan.
Signal(r, state) == [state |-> state, exit |-> r.exit + 1, closed |-> r.closed]

\* Start reports through its result whether the Runnable was already
\* cancelled; no caller in the system looks at that result.
StartOf(r) == IF r.state = "created" THEN [r EXCEPT !.state = "running"] ELSE r

\* Plausible slips in Stop: forgetting the message, and marking whatever is
\* not running as cancelled.
StopOfSilent(r) ==
  CASE r.state = "running" -> [r EXCEPT !.state = "stopped"]
    [] r.state = "created" -> [r EXCEPT !.state = "cancelled"]
    [] OTHER               -> r
StopOfRestamps(r) ==
  IF r.state = "running" THEN Signal(r, "stopped") ELSE [r EXCEPT !.state = "cancelled"]

\* Stop tells a running goroutine to return; one that has not called Start
\* yet is only marked, without a message on ExitChan.
StopOf(r) ==
  CASE r.state = "running" -> Signal(r, "stopped")
    [] r.state = "created" -> [r EXCEPT !.state = "cancelled"]
    [] OTHER               -> r

\* A slip in Done: not looking at the state first.
DoneOfUnguarded(r) == Signal(r, "done")
DoneOf(r) == IF r.state = "running" THEN Signal(r, "done") ELSE r

FailOf(r) == IF r.state = "running" THEN Signal(r, "failed") ELSE r

\* The select case <-r.ExitChan: enabled, and what receiving leaves behind.
\* (SignalledByState is the slip of asking the state instead of the channel.)
SignalledByState(r) == r.state \notin {"created", "running"}
Signalled(r) == r.exit > 0
Received(r) == [r EXCEPT !.exit = @ - 1]

CloseOf(r) == [state |-> r.state, exit |-> r.exit, closed |-> TRUE]

-----------------------------------------------------------------------------
RunnableType == [state : RunnableState, exit : Nat, closed : BOOLEAN]

\* The states Signal leaves a Runnable in.
Ended == {"done", "stopped", "failed"}
-----------------------------------------------------------------------------
(* What the methods keep and establish, for the proofs about goroutines. *)

\* Every method keeps the type of the record.
LEMMA RunnableTyped ==
  ASSUME NEW r \in RunnableType
  PROVE  /\ StartOf(r) \in RunnableType
         /\ StopOf(r) \in RunnableType
         /\ DoneOf(r) \in RunnableType
         /\ CloseOf(r) \in RunnableType
         /\ Signalled(r) => Received(r) \in RunnableType
  <1>. USE DEF RunnableType, RunnableState
  <1>1. ASSUME NEW s \in RunnableState
        PROVE  Signal(r, s) \in RunnableType
    BY DEF Signal
  <1>2. StartOf(r) \in RunnableType
    BY DEF StartOf
  <1>3. StopOf(r) \in RunnableType
    BY <1>1 DEF StopOf
  <1>4. DoneOf(r) \in RunnableType
    BY <1>1 DEF DoneOf
  <1>5. CloseOf(r) \in RunnableType
    BY DEF CloseOf
  <1>6. Signalled(r) => Received(r) \in RunnableType
    BY DEF Signalled, Received
  <1>. QED
    BY <1>2, <1>3, <1>4, <1>5, <1>6

\* What each method leaves of the state: Stop and Done end a running one, and
\* reading or closing ExitChan does not touch it.
LEMMA RunnableStates ==
  ASSUME NEW r \in RunnableType
  PROVE  /\ StopOf(r).state \notin {"created", "running"}
         /\ DoneOf(r).state # "running"
         /\ Received(r).state = r.state
         /\ CloseOf(r).state = r.state
  BY DEF RunnableType, RunnableState, StopOf, DoneOf, CloseOf, Received, Signal
=============================================================================
