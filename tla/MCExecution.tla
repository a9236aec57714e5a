----------------------------- MODULE MCExecution ----------------------------
(***************************************************************************)
(* The two ways in which the coordinator waits for results, for TLC: the   *)
(* logical scheduler of a replay and the worker processes of a live run.   *)
(* A run uses one of them, the subject of a behaviour; the other stands    *)
(* still.                                                                  *)
(***************************************************************************)
EXTENDS LogicalScheduler, ProcessWorkers

VARIABLE subject

ExecutionInit == subject \in {"scheduler", "workers"} /\ Init /\ WorkersInit

ExecutionNext ==
  \/ subject = "scheduler" /\ Next /\ UNCHANGED <<subject, workerVars>>
  \/ subject = "workers" /\ WorkersNext /\ UNCHANGED <<subject, vars>>

\* The fairness is that of ProcessWorkers; the scheduler promises no progress.
ExecutionSpec ==
  ExecutionInit /\ [][ExecutionNext]_<<subject, vars, workerVars>> /\ Fairness
=============================================================================
