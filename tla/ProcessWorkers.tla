--------------------------- MODULE ProcessWorkers ---------------------------
(***************************************************************************)
(* ProcessWorkerBackend of src/src/tokenshare/local_runtime/workers.py and *)
(* the child of process_worker_child.py: one process per request, spoken   *)
(* to through the files ready, start and result.                           *)
(*                                                                         *)
(* The parent starts every child of a batch, up to three times each,       *)
(* signals them all, and finishes them in order.  A child may die at any   *)
(* point, and every wait of either side has a timeout, which the model     *)
(* lets pass at any moment.  The termination policy kills the processes of *)
(* its target units once enough units are complete.                        *)
(*                                                                         *)
(* An exception the parent does not handle (Interrupt) ends the batch and, *)
(* as the coordinator lets it pass, the use of the backend.                *)
(***************************************************************************)
EXTENDS Integers, Sequences, FiniteSets

CONSTANTS
  Capacity,     \* requests of a batch
  Units,        \* planned AI units of the requests
  Targets,      \* the units of the termination policy
  Limit,        \* kills it asks for
  Needed,       \* completed units from which it is armed: total * ratio
  MaxBatches,   \* bound of the batches
  None

Bootstraps == 3
Slots      == 1..Capacity
Alive      == {"booting", "waiting", "running", "written"}
Results    == {"succeeded", "failed", "error", "malformed"}
Reports    == {"submission", "worker_terminated", "executor_error"}

ASSUME WorkersAssumption ==
  /\ Capacity \in Nat \ {0} /\ MaxBatches \in Nat /\ Needed \in Nat
  /\ Targets \subseteq Units /\ IsFiniteSet(Targets)
  /\ Limit \in Nat /\ Limit >= Cardinality(Targets)
  /\ None \notin Results \cup Reports

VARIABLES
  phase,       \* of execute_batch
  batch,       \* the units of its requests
  at,          \* the slot the parent is busy with
  tries,       \* bootstrap attempts of that slot
  doomed,      \* its result was missing at the timeout: the kill is next
  child,       \* slot -> the state of its process
  ready, start, result,   \* slot -> its file
  target,      \* slot -> matches_termination_target
  outcome,     \* slot -> what the batch reports
  ingested,    \* slot -> calls of _ingest_process_result
  killed,      \* the units terminated, in order
  completed,   \* _completed_planned_ai_unit_ids
  batches

slotVars == <<child, ready, start, result, target, outcome, ingested>>
policy   == <<killed, completed>>

workerVars == <<phase, batch, at, tries, doomed, slotVars, policy, batches>>

Used == DOMAIN batch

Clear(v) == [s \in Slots |-> v]

WorkersInit ==
  /\ phase = "idle" /\ batch = << >> /\ at = 1 /\ tries = 0 /\ doomed = FALSE
  /\ child = Clear("none") /\ result = Clear(None) /\ outcome = Clear(None)
  /\ ready = Clear(FALSE) /\ start = Clear(FALSE) /\ target = Clear(FALSE)
  /\ ingested = Clear(0)
  /\ killed = << >> /\ completed = {} /\ batches = 0

\* A batch holds a unit at most once.
Begin(b) ==
  /\ phase = "idle" /\ batches < MaxBatches
  /\ phase' = "starting" /\ batch' = b /\ at' = 1 /\ tries' = 0 /\ doomed' = FALSE
  /\ child' = Clear("none") /\ result' = Clear(None) /\ outcome' = Clear(None)
  /\ ready' = Clear(FALSE) /\ start' = Clear(FALSE) /\ target' = Clear(FALSE)
  /\ ingested' = Clear(0)
  /\ batches' = batches + 1
  /\ UNCHANGED policy

-----------------------------------------------------------------------------
(* _start_process_handle.                                                  *)

\* Mutant: one attempt too many.
OpenOnceMore ==
  /\ phase = "starting" /\ child[at] = "none"
  /\ IF tries > Bootstraps
       THEN phase' = "closing" /\ UNCHANGED <<child, tries>>
       ELSE /\ tries' = tries + 1
            /\ child' \in {child, [child EXCEPT ![at] = "booting"]}
            /\ UNCHANGED phase
  /\ UNCHANGED <<batch, at, doomed, ready, start, result, target, outcome, ingested, policy, batches>>

\* Mutant: a bootstrap is tried until it succeeds.
OpenUntilItWorks ==
  /\ phase = "starting" /\ child[at] = "none"
  /\ child' \in {child, [child EXCEPT ![at] = "booting"]}
  /\ UNCHANGED <<phase, batch, at, tries, doomed, ready, start, result, target, outcome, ingested, policy, batches>>

\* Popen may fail; after the last attempt the batch raises.
Open ==
  /\ phase = "starting" /\ child[at] = "none"
  /\ IF tries = Bootstraps
       THEN phase' = "closing" /\ UNCHANGED <<child, tries>>
       ELSE /\ tries' = tries + 1
            /\ child' \in {child, [child EXCEPT ![at] = "booting"]}
            /\ UNCHANGED phase
  /\ UNCHANGED <<batch, at, doomed, ready, start, result, target, outcome, ingested, policy, batches>>

\* Mutant: each child is signalled as soon as it is ready.
SeeReadyAndSignal ==
  /\ phase = "starting" /\ ready[at]
  /\ start' = [start EXCEPT ![at] = TRUE]
  /\ target' = [target EXCEPT ![at] = Len(killed) < Limit /\ batch[at] \in Targets]
  /\ tries' = 0
  /\ IF at = Len(batch) THEN phase' = "signalling" /\ at' = 1
                        ELSE at' = at + 1 /\ UNCHANGED phase
  /\ UNCHANGED <<batch, doomed, child, ready, result, outcome, ingested, policy, batches>>

SeeReady ==
  /\ phase = "starting" /\ ready[at]
  /\ target' = [target EXCEPT ![at] = Len(killed) < Limit /\ batch[at] \in Targets]
  /\ tries' = 0
  /\ IF at = Len(batch) THEN phase' = "signalling" /\ at' = 1
                        ELSE at' = at + 1 /\ UNCHANGED phase
  /\ UNCHANGED <<batch, doomed, child, ready, start, result, outcome, ingested, policy, batches>>

\* The child is gone, or the deadline passed (perhaps just after it became
\* ready): it is killed, and the next attempt has files of its own.
BootFails ==
  /\ phase = "starting" /\ child[at] # "none"
  /\ child' = [child EXCEPT ![at] = "none"]
  /\ ready' = [ready EXCEPT ![at] = FALSE]
  /\ UNCHANGED <<phase, batch, at, tries, doomed, start, result, target, outcome, ingested, policy, batches>>

Signal ==
  /\ phase = "signalling"
  /\ start' = [start EXCEPT ![at] = TRUE]
  /\ IF at = Len(batch) THEN phase' = "finishing" /\ at' = 1
                        ELSE at' = at + 1 /\ UNCHANGED phase
  /\ UNCHANGED <<batch, tries, doomed, child, ready, result, target, outcome, ingested, policy, batches>>

-----------------------------------------------------------------------------
(* _finish_process_handle.                                                 *)

Finished(o) ==
  /\ outcome' = [outcome EXCEPT ![at] = o]
  /\ child' = [child EXCEPT ![at] = "gone"]
  /\ doomed' = FALSE
  /\ IF at = Len(batch) THEN phase' = "idle" /\ UNCHANGED at
                        ELSE at' = at + 1 /\ UNCHANGED phase

\* The wait ends (timeout, or the child is gone) and there is no result.
GiveUp ==
  /\ phase = "finishing" /\ ~doomed /\ result[at] = None
  /\ doomed' = TRUE
  /\ UNCHANGED <<phase, batch, at, tries, slotVars, policy, batches>>

\* A result written meanwhile is not looked at.
KillDoomed ==
  /\ phase = "finishing" /\ doomed
  /\ Finished("executor_error")
  /\ UNCHANGED <<batch, tries, ready, start, result, target, ingested, policy, batches>>

Terminated == {killed[i] : i \in DOMAIN killed}

\* _termination_progress_observation counts the unit itself.
Armed(u) == Cardinality(completed \cup {u}) >= Needed

\* _termination_target_is_available: every target once before any twice.
Available(u) == u \notin Terminated \/ Targets \subseteq Terminated

\* Mutant: the number of kills is looked at when the child starts only.
ShouldTerminateUncounted(s) ==
  target[s] /\ Armed(batch[s]) /\ Available(batch[s])

ShouldTerminate(s) ==
  /\ target[s] /\ Len(killed) < Limit
  /\ Armed(batch[s]) /\ Available(batch[s])

Ingest == ingested' = [ingested EXCEPT ![at] = @ + 1]

\* Mutant: what a terminated process has done is thrown away with it.
TerminateForgets ==
  /\ phase = "finishing" /\ ~doomed
  /\ result[at] \in {"succeeded", "failed"} /\ ShouldTerminate(at)
  /\ killed' = Append(killed, batch[at])
  /\ Finished("worker_terminated")
  /\ UNCHANGED <<batch, tries, ready, start, result, target, ingested, completed, batches>>

\* The process is killed before its submission counts, its result is kept.
Terminate ==
  /\ phase = "finishing" /\ ~doomed
  /\ result[at] \in {"succeeded", "failed"} /\ ShouldTerminate(at)
  /\ killed' = Append(killed, batch[at])
  /\ Ingest
  /\ Finished("worker_terminated")
  /\ UNCHANGED <<batch, tries, ready, start, result, target, completed, batches>>

Deliver ==
  /\ phase = "finishing" /\ ~doomed
  /\ result[at] \in {"succeeded", "failed"} /\ ~ShouldTerminate(at)
  /\ Ingest
  /\ completed' = IF result[at] = "succeeded" THEN completed \cup {batch[at]} ELSE completed
  /\ Finished("submission")
  /\ UNCHANGED <<batch, tries, ready, start, result, target, killed, batches>>

ReportError ==
  /\ phase = "finishing" /\ ~doomed /\ result[at] = "error"
  /\ Finished("executor_error")
  /\ UNCHANGED <<batch, tries, ready, start, result, target, ingested, policy, batches>>

\* No pickle, or no submission in it: the batch raises.
RefuseResult ==
  /\ phase = "finishing" /\ ~doomed /\ result[at] = "malformed"
  /\ phase' = "closing"
  /\ UNCHANGED <<batch, at, tries, doomed, slotVars, policy, batches>>

\* An exception from anywhere else in the parent.
Interrupt ==
  /\ phase \in {"starting", "signalling", "finishing"}
  /\ phase' = IF phase = "starting" THEN "abandoning" ELSE "closing"
  /\ UNCHANGED <<batch, at, tries, doomed, slotVars, policy, batches>>

\* Mutant: only the child whose turn it is is killed.
CloseCurrentOnly ==
  /\ phase \in {"closing", "abandoning"}
  /\ phase' = "raised"
  /\ child' = [child EXCEPT ![at] = IF phase = "closing" THEN "gone" ELSE @]
  /\ UNCHANGED <<batch, at, tries, doomed, ready, start, result, target, outcome, ingested, policy, batches>>

\* The finally of execute_batch kills the handles it has; the child whose
\* start was interrupted is not among them.
Close ==
  /\ phase \in {"closing", "abandoning"}
  /\ phase' = "raised"
  /\ child' = [s \in Slots |->
       IF child[s] \in Alive /\ (phase = "abandoning" => s < at) THEN "gone" ELSE child[s]]
  /\ UNCHANGED <<batch, at, tries, doomed, ready, start, result, target, outcome, ingested, policy, batches>>

-----------------------------------------------------------------------------
(* The child.                                                              *)

Becomes(s, c) == child' = [child EXCEPT ![s] = c]

ChildReady(s) ==
  /\ child[s] = "booting"
  /\ Becomes(s, "waiting")
  /\ ready' = [ready EXCEPT ![s] = TRUE]
  /\ UNCHANGED <<phase, batch, at, tries, doomed, start, result, target, outcome, ingested, policy, batches>>

ChildStarts(s) ==
  /\ child[s] = "waiting" /\ start[s]
  /\ Becomes(s, "running")
  /\ UNCHANGED <<phase, batch, at, tries, doomed, ready, start, result, target, outcome, ingested, policy, batches>>

\* The result is renamed into place whole.
ChildWrites(s, r) ==
  /\ child[s] = "running"
  /\ Becomes(s, "written")
  /\ result' = [result EXCEPT ![s] = r]
  /\ UNCHANGED <<phase, batch, at, tries, doomed, ready, start, target, outcome, ingested, policy, batches>>

\* Unsigned for 60 seconds, or done and unreleased for 30.
ChildExits(s) ==
  /\ child[s] \in {"waiting", "written"} /\ (child[s] = "waiting" => ~start[s])
  /\ Becomes(s, "gone")
  /\ UNCHANGED <<phase, batch, at, tries, doomed, ready, start, result, target, outcome, ingested, policy, batches>>

\* At any point: a payload that does not load, a result that cannot be
\* written, or the process dies.
ChildDies(s) ==
  /\ child[s] \in Alive
  /\ Becomes(s, "gone")
  /\ UNCHANGED <<phase, batch, at, tries, doomed, ready, start, result, target, outcome, ingested, policy, batches>>

BatchesOf == {b \in UNION {[1..n -> Units] : n \in Slots} :
                \A i, j \in DOMAIN b : b[i] = b[j] => i = j}

\* The parent inside execute_batch.
Parent ==
  \/ Open \/ SeeReady \/ BootFails \/ Signal
  \/ GiveUp \/ KillDoomed \/ Terminate \/ Deliver \/ ReportError \/ RefuseResult
  \/ Close

Child(s) ==
  \/ ChildReady(s) \/ ChildStarts(s) \/ ChildExits(s) \/ ChildDies(s)
  \/ \E r \in Results : ChildWrites(s, r)

WorkersNext ==
  \/ \E b \in BatchesOf : Begin(b)
  \/ Parent \/ Interrupt
  \/ \E s \in Slots : Child(s)

\* The parent goes on, and a child reaches its ready signal and sees its
\* timeouts pass.
Fairness ==
  /\ WF_workerVars(Parent)
  /\ \A s \in Slots : WF_workerVars(ChildReady(s)) /\ WF_workerVars(ChildExits(s))

WorkersSpec == WorkersInit /\ [][WorkersNext]_workerVars /\ Fairness

-----------------------------------------------------------------------------

\* The variables hold what the code can put there.
WorkersTypeOK ==
  /\ phase \in {"idle", "starting", "signalling", "finishing", "closing", "abandoning", "raised"}
  /\ batch \in BatchesOf \cup {<< >>} /\ at \in Slots /\ tries \in 0..Bootstraps
  /\ doomed \in BOOLEAN
  /\ child \in [Slots -> Alive \cup {"none", "gone"}]
  /\ ready \in [Slots -> BOOLEAN] /\ start \in [Slots -> BOOLEAN]
  /\ target \in [Slots -> BOOLEAN] /\ result \in [Slots -> Results \cup {None}]
  /\ outcome \in [Slots -> Reports \cup {None}]
  /\ ingested \in [Slots -> {0, 1}]
  /\ killed \in Seq(Targets) /\ completed \subseteq Units /\ batches \in 0..MaxBatches

\* No executor runs before every process of the batch has come up
\* (workers.py:412): a bootstrap that fails in the end has cost no execution.
AllOrNoneRun ==
  \A s \in Slots :
    child[s] \in {"running", "written"} \/ result[s] # None => \A r \in Used : ready[r]

\* What an execution recorded reaches the parent exactly when the batch says
\* the process got to a submission, killed or not, and never for an
\* executor_error, not even when the result came after the timeout
\* (workers.py:531).
IngestedAsReported ==
  \A s \in Used :
    /\ outcome[s] \in {"submission", "worker_terminated"} =>
         ingested[s] = 1 /\ result[s] \in {"succeeded", "failed"}
    /\ outcome[s] = "executor_error" => ingested[s] = 0

\* The kills keep to the plan: no more than asked for, and no unit a second
\* time before every target had its first (workers.py:799), although the
\* children of one batch were matched before any of them was killed.
KillsKeepToThePlan ==
  /\ Len(killed) <= Limit
  /\ \A j \in DOMAIN killed :
       (\E i \in 1..(j - 1) : killed[i] = killed[j]) =>
         Targets \subseteq {killed[i] : i \in 1..(j - 1)}

\* When the batch is over, by whichever way, no process is left that runs or
\* may still run an executor (workers.py:412, the finally).
NothingRunsOn ==
  phase \in {"idle", "raised"} =>
    \A s \in Slots : child[s] \in Alive => ~start[s] /\ result[s] = None

\* An executor runs in its batch or not at all, also when the parent is torn out
\* of the batch (workers.py:391), and what it recorded is taken as reported.
RunsInItsBatch == WorkersTypeOK /\ AllOrNoneRun /\ NothingRunsOn /\ IngestedAsReported

\* A batch comes to its end however its children behave: no wait is endless.
BatchEnds == phase = "starting" ~> phase \in {"idle", "raised"}
=============================================================================
