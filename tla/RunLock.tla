------------------------------ MODULE RunLock ------------------------------
(***************************************************************************)
(* _RunLock of src/src/tokenshare/experiments/cli.py: the lock file that   *)
(* keeps two processes out of one run directory.  It is created with "x"   *)
(* (O_EXCL) and names the pid and a token of its owner; a process that     *)
(* finds the lock of a dead owner removes it and tries again.              *)
(*                                                                         *)
(* A process stands for one run of the command, with a pid and a token of  *)
(* its own; pids are not used twice.  Every file operation is a step, for  *)
(* another process may act between any two of them.                        *)
(***************************************************************************)
EXTENDS Naturals

CONSTANTS Processes, None

\* The content of the file.
Files == [owner : Processes, written : BOOLEAN]

ASSUME LockAssumption == None \notin Processes /\ None \notin Files

VARIABLES
  lock,    \* None, or the file: its owner and whether the JSON is written
  pc,      \* where a process is in __enter__ and __exit__
  seen,    \* the owner whose token a process read
  raced    \* has a process removed a lock other than the one it had read?

vars == <<lock, pc, seen, raced>>

Places == {"enter",      \* before open("x")
           "created",    \* the file is there, its JSON is not
           "held",       \* __enter__ has returned
           "exists",     \* open raised FileExistsError
           "stale",      \* _read_owner gave an owner that is not running
           "remove",     \* the second read agreed: before unlink
           "release",    \* __exit__ has read its own token: before unlink
           "done", "refused", "dead"}

Ended == {"done", "refused", "dead"}

\* _pid_is_running.
IsRunning(p) == pc[p] \notin Ended

\* A process that may be working in the run directory.
Holds(p) == pc[p] \in {"held", "release"}

\* _read_owner: nothing if the file is gone or not JSON yet.
Owner == IF lock # None /\ lock.written THEN lock.owner ELSE None

Init ==
  /\ lock = None
  /\ pc = [p \in Processes |-> "enter"]
  /\ seen = [p \in Processes |-> None]
  /\ raced = FALSE

Goto(p, place) == pc' = [pc EXCEPT ![p] = place]

\* Mutant: the file is opened whether or not it exists.
CreateAnyway(p) ==
  /\ pc[p] = "enter"
  /\ lock' = [owner |-> p, written |-> FALSE]
  /\ Goto(p, "created")
  /\ UNCHANGED <<seen, raced>>

\* open("x").
Create(p) ==
  /\ pc[p] = "enter"
  /\ lock = None
  /\ lock' = [owner |-> p, written |-> FALSE]
  /\ Goto(p, "created")
  /\ UNCHANGED <<seen, raced>>

\* json.dump and flush, into the file that was opened: if it was unlinked
\* meanwhile nobody sees it.
Write(p) ==
  /\ pc[p] = "created"
  /\ lock' = IF lock # None /\ lock.owner = p THEN [lock EXCEPT !.written = TRUE] ELSE lock
  /\ Goto(p, "held")
  /\ UNCHANGED <<seen, raced>>

FindExisting(p) ==
  /\ pc[p] = "enter"
  /\ lock # None
  /\ Goto(p, "exists")
  /\ UNCHANGED <<lock, seen, raced>>

\* Mutant: an unreadable lock is tried again, not refused.
ReadOwnerRetry(p) ==
  /\ pc[p] = "exists"
  /\ CASE Owner = None -> Goto(p, "enter") /\ UNCHANGED seen
       [] Owner # None /\ IsRunning(Owner) -> Goto(p, "refused") /\ UNCHANGED seen
       [] OTHER -> Goto(p, "stale") /\ seen' = [seen EXCEPT ![p] = Owner]
  /\ UNCHANGED <<lock, raced>>

\* An unreadable lock and one of a running owner refuse the run.
ReadOwner(p) ==
  /\ pc[p] = "exists"
  /\ IF Owner = None \/ IsRunning(Owner)
     THEN Goto(p, "refused") /\ UNCHANGED seen
     ELSE Goto(p, "stale") /\ seen' = [seen EXCEPT ![p] = Owner]
  /\ UNCHANGED <<lock, raced>>

\* _remove_stale_owner reads the token a second time ...
ReadAgain(p) ==
  /\ pc[p] = "stale"
  /\ Goto(p, IF Owner = seen[p] /\ ~IsRunning(seen[p]) THEN "remove" ELSE "enter")
  /\ UNCHANGED <<lock, seen, raced>>

\* ... and unlinks the path, whatever file it names by then.
Remove(p) ==
  /\ pc[p] = "remove"
  /\ lock' = None
  /\ raced' = (raced \/ (lock # None /\ lock.owner # seen[p]))
  /\ Goto(p, "enter")
  /\ UNCHANGED seen

\* __exit__ removes the file only if it reads its own token ...
ReadOwn(p) ==
  /\ pc[p] = "held"
  /\ Goto(p, IF Owner = p THEN "release" ELSE "done")
  /\ UNCHANGED <<lock, seen, raced>>

\* ... here too the path, not the file that was read.
Release(p) ==
  /\ pc[p] = "release"
  /\ lock' = None
  /\ Goto(p, "done")
  /\ UNCHANGED <<seen, raced>>

Crash(p) ==
  /\ IsRunning(p)
  /\ Goto(p, "dead")
  /\ UNCHANGED <<lock, seen, raced>>

Enter(p)   == Create(p) \/ Write(p) \/ FindExisting(p) \/ ReadOwner(p)
Reclaim(p) == ReadAgain(p) \/ Remove(p)
Exit(p)    == ReadOwn(p) \/ Release(p)

Next == \E p \in Processes : Enter(p) \/ Reclaim(p) \/ Exit(p) \/ Crash(p)

\* A process that runs goes on: no step waits for another process.
Spec == Init /\ [][Next]_vars /\ \A p \in Processes : WF_vars(Enter(p) \/ Reclaim(p) \/ Exit(p))

-----------------------------------------------------------------------------

\* The state is well typed, and a process removes a lock only after it has
\* read whose it is.
TypeOK ==
  /\ lock \in Files \cup {None}
  /\ pc \in [Processes -> Places]
  /\ seen \in [Processes -> Processes \cup {None}]
  /\ raced \in BOOLEAN
  /\ \A p \in Processes : pc[p] \in {"stale", "remove"} => seen[p] # None

\* Two processes are never in one run directory: "the minimal mutual exclusion
\* lock" (cli.py:499), and its stale removal re-reads the token "to avoid deleting
\* a live lock that replaced it" (cli.py:553).
MutualExclusion == \A p, q \in Processes : Holds(p) /\ Holds(q) => p = q

\* The one way to let two processes into a run directory is that a process
\* removes a lock that replaced the stale one it had read; without that race
\* there is one holder, and the file names it.
ExclusiveUnlessRaced ==
  ~raced => /\ MutualExclusion
            /\ \A p \in Processes : Holds(p) => Owner = p

\* Every process gets in and out, is refused or dies: the retry loop of
\* __enter__ ends, for a lock it removes is followed by a new owner or none.
Concludes == <>(\A p \in Processes : ~IsRunning(p))
=============================================================================
