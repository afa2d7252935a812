-------------------------- MODULE SequenceGenerator --------------------------
(***************************************************************************)
(* The mock of a hardware sensor (common/repeated-seq-gen.go): a process   *)
(* has one growing sequence of random values, which every reader reads     *)
(* from the start with a cursor of its own.  The first reader installs the *)
(* generator with a compare-and-swap, later ones use the installed one     *)
(* (sensor/sampler.go, server/tariff.go).                                  *)
(*                                                                         *)
(* A generator is named by the reader that has allocated it.  A cursor is  *)
(* the number of values its reader has drawn.                              *)
(***************************************************************************)
EXTENDS Integers, Sequences

CONSTANTS
  Readers,
  Bounds,     \* values of MaxSampleValue a request may name
  None

ASSUME BoundsAssumption == Bounds \subseteq Nat /\ None \notin Readers

VARIABLES
  maxValue,   \* maxValue[r]: MaxSampleValue of reader r
  shared,     \* the atomic pointer: hardwareSensor, or ratesGenerator
  generator,  \* generator[r]: the generator r reads from
  sequence,   \* sequence[g]: SampledSequence of generator g
  drawn,      \* drawn[r]: the values r has got
  crashed     \* a goroutine panicked and took the process with it

generating == <<shared, generator, sequence, drawn, crashed>>

\* The pointer starts as nil.
GeneratorInit ==
  /\ maxValue = [r \in Readers |-> None]
  /\ shared = None
  /\ generator = [r \in Readers |-> None]
  /\ sequence = [r \in Readers |-> <<>>]
  /\ drawn = [r \in Readers |-> <<>>]
  /\ crashed = FALSE

\* The generator r works with.  The slip forgets to load the installed one.
Own(r) == r
Installed(r) == IF shared = None THEN r ELSE shared

\* NewRepeatedSequenceGenerator, CompareAndSwap, Load and Reset; the pointer
\* does not change again, so that it does not matter when it is loaded.
Attach(r) ==
  /\ generator[r] = None
  /\ generator' = [generator EXCEPT ![r] = Installed(r)]
  /\ shared' = IF shared = None THEN r ELSE shared
  /\ UNCHANGED <<sequence, drawn, crashed>>

Position(r) == Len(drawn[r]) + 1
AtEnd(r) == Position(r) = Len(sequence[generator[r]]) + 1
Draw(r, v) == drawn' = [drawn EXCEPT ![r] = Append(@, v)]

\* ReadSample, under the mutex of the generator: at the end of the sequence a
\* value of rand.Intn, which panics for a bound of 0; before it, whatever some
\* reader has drawn at that position.
ReadSample(r) ==
  /\ generator[r] # None
  /\ \/ /\ AtEnd(r)
        /\ \E v \in 0..(maxValue[r] - 1) :
             /\ sequence' = [sequence EXCEPT ![generator[r]] = Append(@, v)]
             /\ Draw(r, v)
        /\ UNCHANGED crashed
     \/ /\ ~AtEnd(r)
        /\ Draw(r, sequence[generator[r]][Position(r)])
        /\ UNCHANGED <<sequence, crashed>>
     \/ /\ AtEnd(r) /\ maxValue[r] = 0
        /\ crashed' = TRUE
        /\ UNCHANGED <<sequence, drawn>>
  /\ UNCHANGED <<shared, generator>>
=============================================================================
