-------------------------- MODULE RunnableLifecycle --------------------------
(***************************************************************************)
(* Goroutines written by the template in the comment of                    *)
(* common/runnable.go: the goroutine calls Start, loops on a select, calls *)
(* Done (or Fail) when its work is over and returns when it receives from  *)
(* ExitChan; its creator may call Stop at any time, also before the        *)
(* goroutine has run its first instruction.                                *)
(***************************************************************************)
EXTENDS Runnable

CONSTANT Routines   \* the goroutines of one process

VARIABLES
  run,   \* run[g]: the Runnable of goroutine g
  pc     \* pc[g]: "spawned", "loop" or "returned"

vars == <<run, pc>>

Init ==
  /\ run = [g \in Routines |-> NewRunnable]
  /\ pc = [g \in Routines |-> "spawned"]

\* r.Start(): the template drops the result and enters its loop regardless.
Start(g) ==
  /\ pc[g] = "spawned"
  /\ run' = [run EXCEPT ![g] = StartOf(@)]
  /\ pc' = [pc EXCEPT ![g] = "loop"]

\* The work of the goroutine is over.
Done(g) ==
  /\ pc[g] = "loop"
  /\ run' = [run EXCEPT ![g] = DoneOf(@)]
  /\ UNCHANGED pc

Fail(g) ==
  /\ pc[g] = "loop"
  /\ run' = [run EXCEPT ![g] = FailOf(@)]
  /\ UNCHANGED pc

\* case <-r.ExitChan: r.Close(), then the goroutine returns.
Exit(g) ==
  /\ pc[g] = "loop"
  /\ Signalled(run[g])
  /\ run' = [run EXCEPT ![g] = CloseOf(Received(@))]
  /\ pc' = [pc EXCEPT ![g] = "returned"]

\* The creator's call, from a goroutine of its own.
Stop(g) ==
  /\ run' = [run EXCEPT ![g] = StopOf(@)]
  /\ UNCHANGED pc

Next == \E g \in Routines : Start(g) \/ Done(g) \/ Fail(g) \/ Exit(g) \/ Stop(g)

\* A spawned goroutine is scheduled, and a select with a ready case proceeds.
\* Nobody is obliged to stop it, and its work need not end.
Fairness == \A g \in Routines : WF_vars(Start(g)) /\ WF_vars(Exit(g))

Spec == Init /\ [][Next]_vars
FairSpec == Spec /\ Fairness

-----------------------------------------------------------------------------
(* Properties. *)

\* Every Runnable keeps its type (common/runnable.go, Runnable).
TypeOK ==
  /\ run \in [Routines -> RunnableType]
  /\ pc \in [Routines -> {"spawned", "loop", "returned"}]

\* ExitChan carries one message per Runnable, ever: Stop, Done and Fail, called
\* from two goroutines in any order, never block on a full channel while they
\* hold the mutex and never send on the closed one, and a Runnable that has
\* left the running state has its message waiting until the goroutine takes it.
ExitChanSafe ==
  \A g \in Routines :
    /\ run[g].exit <= ExitChanCap
    /\ run[g].closed <=> pc[g] = "returned"
    /\ run[g].exit = 1 <=> (run[g].state \in Ended /\ pc[g] # "returned")
    /\ run[g].closed => run[g].state \in Ended

\* Whichever of Stop, Done, Fail and Start comes first decides: a state other
\* than created and running is final.
FirstDecisionStands ==
  [][\A g \in Routines :
       run[g].state \notin {"created", "running"} => run'[g].state = run[g].state]_vars

\* A goroutine that was stopped, or is done, or failed while it ran returns.
EndedReturns ==
  \A g \in Routines : run[g].state \in Ended ~> pc[g] = "returned"

\* "Stop stops the execution of Runnable" (common/runnable.go): also one that
\* has not called Start yet.
CancelledReturns ==
  \A g \in Routines : run[g].state = "cancelled" ~> pc[g] = "returned"

-----------------------------------------------------------------------------
(* ExitChanSafe holds for any set of goroutines. *)

\* Start is the first thing a goroutine does, so one that has not done it is
\* created or cancelled, and one that has is no longer created.
InStep ==
  \A g \in Routines :
    /\ pc[g] = "spawned" => run[g].state \in {"created", "cancelled"}
    /\ pc[g] # "spawned" => run[g].state # "created"

IInv == TypeOK /\ InStep /\ ExitChanSafe

\* At first no goroutine has been told anything.
LEMMA InitIInv == Init => IInv
  BY DEF Init, IInv, TypeOK, InStep, ExitChanSafe, NewRunnable, RunnableType, RunnableState,
         Ended, ExitChanCap

\* What the invariant says of one goroutine, as a set of values: a step changes
\* one goroutine, so it is enough that the new values are in the set.
Consistent(r, at) ==
  /\ r \in RunnableType
  /\ at \in {"spawned", "loop", "returned"}
  /\ at = "spawned" => r.state \in {"created", "cancelled"}
  /\ at # "spawned" => r.state # "created"
  /\ r.exit <= ExitChanCap
  /\ r.closed <=> at = "returned"
  /\ r.exit = 1 <=> (r.state \in Ended /\ at # "returned")
  /\ r.closed => r.state \in Ended

\* A step of one goroutine concerns its own record only.
LEMMA StepOfOne ==
  ASSUME IInv, NEW g \in Routines, NEW r, NEW at, Consistent(r, at),
         run' = [run EXCEPT ![g] = r], pc' = [pc EXCEPT ![g] = at]
  PROVE  IInv'
  <1>1. TypeOK'
    BY DEF IInv, TypeOK, Consistent
  <1>2. ASSUME NEW h \in Routines PROVE Consistent(run'[h], pc'[h])
    <2>1. Consistent(run[h], pc[h])
      BY DEF IInv, TypeOK, InStep, ExitChanSafe, Consistent
    <2>. QED
      BY <2>1 DEF IInv, TypeOK
  <1>3. InStep' /\ ExitChanSafe'
    BY <1>2 DEF InStep, ExitChanSafe, Consistent
  <1>. QED
    BY <1>1, <1>3 DEF IInv

\* No method of any goroutine breaks the invariant.
LEMMA NextPreserves == IInv /\ [Next]_vars => IInv'
  <1>. SUFFICES ASSUME IInv, [Next]_vars PROVE IInv'
    OBVIOUS
  <1>1. CASE UNCHANGED vars
    BY <1>1 DEF vars, IInv, TypeOK, InStep, ExitChanSafe
  <1>2. ASSUME NEW g \in Routines, Start(g) \/ Done(g) \/ Fail(g) \/ Exit(g) \/ Stop(g)
        PROVE  IInv'
    <2>. DEFINE r == run[g]
    <2>c. Consistent(r, pc[g])
      BY DEF IInv, TypeOK, InStep, ExitChanSafe, Consistent
    <2>p. pc = [pc EXCEPT ![g] = pc[g]]
      BY DEF IInv, TypeOK
    <2>. USE DEF Consistent, RunnableType, RunnableState, Ended, ExitChanCap
    <2>1. CASE Start(g)
      <3>1. Consistent(StartOf(r), "loop")
        BY <2>c, <2>1 DEF Start, StartOf
      <3>. QED
        BY <2>1, <3>1, StepOfOne DEF Start
    <2>2. CASE Done(g)
      <3>1. Consistent(DoneOf(r), pc[g])
        BY <2>c, <2>2 DEF Done, DoneOf, Signal
      <3>. QED
        BY <2>2, <2>p, <3>1, StepOfOne DEF Done
    <2>3. CASE Fail(g)
      <3>1. Consistent(FailOf(r), pc[g])
        BY <2>c, <2>3 DEF Fail, FailOf, Signal
      <3>. QED
        BY <2>3, <2>p, <3>1, StepOfOne DEF Fail
    <2>4. CASE Exit(g)
      <3>1. Consistent(CloseOf(Received(r)), "returned")
        <4>1. r.exit = 1 /\ r.state \in Ended
          BY <2>c, <2>4 DEF Exit, Signalled
        <4>2. Received(r) = [state |-> r.state, exit |-> 0, closed |-> r.closed]
          BY <2>c, <4>1 DEF Received
        <4>3. CloseOf(Received(r)) = [state |-> r.state, exit |-> 0, closed |-> TRUE]
          BY <4>2 DEF CloseOf
        <4>4. r.state \in RunnableState
          BY <2>c
        <4>. QED
          BY <4>1, <4>3, <4>4
      <3>. QED
        BY <2>4, <3>1, StepOfOne DEF Exit
    <2>5. CASE Stop(g)
      <3>1. Consistent(StopOf(r), pc[g])
        BY <2>c, <2>5 DEF StopOf, Signal
      <3>. QED
        BY <2>5, <2>p, <3>1, StepOfOne DEF Stop
    <2>. QED
      BY <1>2, <2>1, <2>2, <2>3, <2>4, <2>5
  <1>. QED
    BY <1>1, <1>2 DEF Next

\* A Runnable is in one of its six states and its goroutine where the template
\* of common/runnable.go has it.
THEOREM TypeCorrect == Spec => []TypeOK
  <1>1. IInv => TypeOK
    BY DEF IInv
  <1>. QED
    BY <1>1, InitIInv, NextPreserves, PTL DEF Spec

\* ExitChan never holds two messages and is never written after Close, for any
\* set of goroutines and any order of calls (common/runnable.go).
THEOREM ExitChanIsSafe == Spec => []ExitChanSafe
  <1>1. IInv => ExitChanSafe
    BY DEF IInv
  <1>. QED
    BY <1>1, InitIInv, NextPreserves, PTL DEF Spec

\* The first of Start, Stop, Done and Fail that leaves created and running
\* decides the state for good.
THEOREM DecisionsAreFinal == Spec => FirstDecisionStands
  <1>. DEFINE Stands == \A g \in Routines :
         run[g].state \notin {"created", "running"} => run'[g].state = run[g].state
  <1>1. IInv /\ [Next]_vars => [Stands]_vars
    <2>. SUFFICES ASSUME IInv, Next PROVE Stands
      OBVIOUS
    <2>. USE DEF IInv, TypeOK, RunnableType
    <2>1. PICK h \in Routines : Start(h) \/ Done(h) \/ Fail(h) \/ Exit(h) \/ Stop(h)
      BY DEF Next
    <2>2. ASSUME NEW g \in Routines, g # h PROVE run'[g] = run[g]
      BY <2>1, <2>2 DEF Start, Done, Fail, Exit, Stop
    <2>3. run[h].state \notin {"created", "running"} => run'[h].state = run[h].state
      BY <2>1 DEF Start, Done, Fail, Exit, Stop, StartOf, DoneOf, FailOf, StopOf,
                  CloseOf, Received
    <2>. QED
      BY <2>2, <2>3
  <1>. QED
    BY <1>1, InitIInv, NextPreserves, PTL DEF Spec, FirstDecisionStands
=============================================================================
