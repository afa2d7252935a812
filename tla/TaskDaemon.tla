----------------------------- MODULE TaskDaemon -----------------------------
(***************************************************************************)
(* The task daemon of a host (common/task-daemon.go, common/host.go): HTTP *)
(* handlers put tasks into a bounded channel, a goroutine takes them out   *)
(* and starts a worker for each.  All three programs have one.             *)
(*                                                                         *)
(* The daemon is a Runnable whose stop function the host keeps.  Nothing   *)
(* closes the channel in this version, so the branch for a closed channel  *)
(* cannot be taken and is left out.                                        *)
(***************************************************************************)
EXTENDS Runnable, Sequences

CONSTANTS
  ChanSize,   \* ServerTaskDaemonChanSize, SensorTaskChanSize
  Stoppable   \* whether the host may call taskDaemonStopFn

ASSUME DaemonAssumption ==
  /\ ChanSize \in Nat \ {0}
  /\ Stoppable \in BOOLEAN

VARIABLES
  taskChan,   \* tasks waiting
  daemon,     \* where the daemon's goroutine is
  handle,     \* its Runnable
  started     \* tasks whose worker was started, in that order

daemonVars == <<taskChan, daemon, handle, started>>

\* InitHost and StartTaskDaemon.
DaemonInit ==
  /\ taskChan = <<>>
  /\ daemon = "spawned"
  /\ handle = NewRunnable
  /\ started = <<>>

DaemonStart ==
  /\ daemon = "spawned"
  /\ daemon' = "loop"
  /\ handle' = StartOf(handle)
  /\ UNCHANGED <<taskChan, started>>

\* A slip: leaving the task in the channel.
RestOf(chan) == chan
TakenFrom(chan) == Tail(chan)

\* A task is received and its worker started.
DaemonTake ==
  /\ daemon = "loop" /\ taskChan # <<>>
  /\ started' = Append(started, Head(taskChan))
  /\ taskChan' = TakenFrom(taskChan)
  /\ UNCHANGED <<daemon, handle>>

\* With a task and a message waiting the select takes either.
DaemonExit ==
  /\ daemon = "loop" /\ Signalled(handle)
  /\ daemon' = "returned"
  /\ handle' = CloseOf(Received(handle))
  /\ UNCHANGED <<taskChan, started>>

DaemonStop ==
  /\ Stoppable
  /\ handle' = StopOf(handle)
  /\ UNCHANGED <<taskChan, daemon, started>>

Daemon == DaemonStart \/ DaemonTake \/ DaemonExit

\* SendTaskToDaemon blocks the handler that calls it while the channel is full.
HasRoomUnchecked == TRUE
HasRoom == Len(taskChan) < ChanSize

SendTaskToDaemon(task) ==
  /\ HasRoom
  /\ taskChan' = Append(taskChan, task)
  /\ UNCHANGED <<daemon, handle, started>>
=============================================================================
