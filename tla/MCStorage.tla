----------------------------- MODULE MCStorage -----------------------------
(***************************************************************************)
(* Three ways in which processes share files, for TLC: the run lock, the   *)
(* writers of one artifact id and the rebuild of the SQLite index.  They   *)
(* share no file, so a behaviour is about one of them, its subject, and    *)
(* the other two stand still.                                              *)
(***************************************************************************)
EXTENDS RunLock, ArtifactStore, MaterializedIndex

CONSTANTS p1, p2, p3

\* Two of the tables of the index, in their order.
MCTables == <<"ledger_events", "contributions">>

VARIABLE subject

\* What ArtifactStore takes for granted of its constants.
ASSUME StoreAssumption

\* No process wants the run directory.
LockIdle ==
  /\ lock = None /\ raced = FALSE
  /\ pc = [p \in Processes |-> "done"]
  /\ seen = [p \in Processes |-> None]

StorageInit ==
  /\ subject \in {"lock", "artifacts", "index"}
  /\ IF subject = "lock" THEN Init ELSE LockIdle
  /\ StoreInit /\ IndexInit

StorageNext ==
  \/ subject = "lock" /\ Next /\ UNCHANGED <<subject, storeVars, indexVars>>
  \/ subject = "artifacts" /\ StoreNext /\ UNCHANGED <<subject, vars, indexVars>>
  \/ subject = "index" /\ IndexNext /\ UNCHANGED <<subject, vars, storeVars>>

StorageVars == <<subject, vars, storeVars, indexVars>>

\* The fairness is that of RunLock; the others promise no progress.
StorageSpec ==
  /\ StorageInit /\ [][StorageNext]_StorageVars
  /\ \A p \in Processes : WF_vars(Enter(p) \/ Reclaim(p) \/ Exit(p))
=============================================================================
