---------------------------- MODULE BatchPipeline ----------------------------
(***************************************************************************)
(* What the sensor promises about the batches of a task, without the       *)
(* goroutines, channels and tokens that bring it about: batches are        *)
(* completed in the order of their indices, at most MaxParallel of them    *)
(* are on their way to the server at once, each is posted at most once,    *)
(* and the server sees a batch only while it is being posted.              *)
(***************************************************************************)
EXTENDS Naturals, FiniteSets

CONSTANTS Batches, MaxParallel

VARIABLES
  stage,    \* stage[b]: "open", "sealed", "posting" or "closed"
  arrived   \* batches the server has received

vars == <<stage, arrived>>

InStage(s) == {b \in Batches : stage[b] = s}

Init ==
  /\ stage = [b \in Batches |-> "open"]
  /\ arrived = {}

Move(b, from, to) ==
  /\ stage[b] = from
  /\ stage' = [stage EXCEPT ![b] = to]

\* The last sample of b is in.
Seal(b) ==
  /\ \A c \in Batches : c < b => stage[c] # "open"
  /\ Move(b, "open", "sealed")
  /\ UNCHANGED arrived

StartPost(b) ==
  /\ Cardinality(InStage("posting")) < MaxParallel
  /\ Move(b, "sealed", "posting")
  /\ UNCHANGED arrived

EndPost(b) ==
  /\ Move(b, "posting", "closed")
  /\ arrived' \in {arrived, arrived \union {b}}

\* The submission is cancelled before it began.
Drop(b) ==
  /\ Move(b, "sealed", "closed")
  /\ UNCHANGED arrived

Next == \E b \in Batches : Seal(b) \/ StartPost(b) \/ EndPost(b) \/ Drop(b)

Spec == Init /\ [][Next]_vars
=============================================================================
