# TokenShare in TLA+

TokenShare (`src/src/tokenshare/`) splits one root task into units, has AI or
deterministic workers attempt them, verifies what comes back, merges verified
results into the root's answer and settles the contributions. A *protocol
engine* records every decision in an append-only, hash-chained *event ledger*;
a *run coordinator* is the loop that asks the engine for decisions and the
workers for results; experiments batch such runs, replay recorded answers under
faults and ablations, and project each root to a typed result.

This directory holds TLA+ modules translated from that code, TLC
configurations that check them on small instances, and TLAPS proofs for every
value of the constants. `PROJECT.json` maps every definition to the lines it
models, and lists runs, mutants (a plausible bug for each property, which the
property's run must catch), hazards, findings and theorems.

To check a module: `tlc -config Engine.cfg MCEngine`, `tlapm TaskGraphProofs.tla`.

## 1. Inventory

Paths are relative to `src/src/tokenshare/`.

| part | state it keeps | operations | interacts with |
|---|---|---|---|
| Protocol engine, unit lifecycle: `protocol_engine.py`, `core/{scheduling,leases,recovery,state_machines}.py` | none of its own: everything is recomputed from the ledger, or passed in by the caller as a snapshot | `schedule_ready_unit`, `record_lease_heartbeat`, `record_execution_submission`, `record_verification`, `bind_canonical_outputs`, `record_complete_decision`, `record_lease_expiry`, `record_recovery_decision` | appends to the ledger; called by the coordinator |
| Protocol engine, graph: `protocol_engine.py`, `core/{expansion,task_graph,merge,merge_coordinator,contribution}.py` | the task graph as events | expansion, dependency readiness, merge creation and result, parent completion and failure, pruning, contributions, settlement | plugins decide, engine records |
| Event ledger: `storage/events.py` | the JSONL file; in memory the events, an index by idempotency key, the last hash | `append`, `append_batch`, opening, `verify_hash_chain`, `read_verified_snapshot` | file system |
| Artifact store: `storage/artifacts.py` | data files, commit markers, manifests | `save_bytes`, `load_artifact_ref`, `verify`, clean-up of temporary files | file system; several writers |
| SQLite index: `storage/sqlite_index.py` | tables derived from the ledger | `rebuild_from_events` | the list of events it is given |
| Run coordinator: `local_runtime/coordinator.py` | graph, retry counts, `pending_executions`, the terminal child failure, prune candidates | `_run_root`, `_recover`, `checkpoint_root`, hooks | engine, scheduler, worker backend, plugins |
| Logical scheduler: `local_runtime/logical_scheduler.py` | clock, pending events, used keys, history | `schedule_delivery`, `schedule_event`, `pop_next`, `checkpoint`, `from_checkpoint` | coordinator |
| Worker backends: `local_runtime/workers.py`, `process_worker_child.py` | child processes, ready/start/result files, kills so far | `execute_batch` | executors |
| Factorization plugin: `plugins/factorization` | none | split into ranges, parse and verify answers, merge readiness, merge | called by the coordinator |
| Lean plugin: `plugins/lean_proof`, `experiments/execution.py` | proofs accepted so far, in memory | fixed plan, requests with dependencies, check, merge and root check | coordinator; the Lean checker |
| Provider calls: `experiments/provider.py` | intent, response and terminal files of a call, spend | `call_provider_once`, `recover_interrupted_call` | HTTP API |
| Run lock: `experiments/cli.py` | the `O_EXCL` lock file | acquire, reclaim a stale lock, release | other processes |
| Run directory: `experiments/{cli,storage,runtime,execution}.py` | write-once files: run.json, a ledger and protocol.json per root, traces, results; in memory the blocked conditions | `run_experiment` fresh or with `--resume`, execute or resume a root, coverage tail, commit | lock, coordinator, provider calls |
| Replay experiments: `experiments/{scenarios,execution,profiles}.py` | fault and challenge records, route records | plan of a root, hooks on answers, submissions, requeues and merges | coordinator, plugins |
| Projection: `experiments/{runtime,projector}.py`, `local_runtime/projection.py` | none | the typed result of a root from its ledger and its records | files of the run |
| Reducers, tables, GUI: `experiments/{reducer,gui,...}.py` | finished runs | count, aggregate, draw | files |
| Registries, executors, models: `executors/*`, `plugins/registry.py`, `core/{registration,models,verification}.py` | records | validate, look up, HTTP bodies | all |

What is hard here:

* **Stale snapshots.** Engine calls trust the `TaskUnit` or `Attempt` the
  caller passes and validate the rest against the ledger; what the engine
  guarantees by itself differs from what it guarantees to a careful caller.
* **Several appends in one call.** Submission, verification and canonical binding
  append twice without a batch; contributions are appended one by one; a crash may
  fall in between and the call may be repeated on the reopened ledger.
* **Torn writes.** A batch is several writes; a line is a JSON write and, when
  the text buffer overflows, a separate newline. I/O errors leave an object
  alive whose memory and file differ. An artifact is two renames and two markers.
* **Deferred control.** In logical runs a recovery is an event, its requeue
  another one, an early stop a third; other results are applied in between.
* **Boundary instants.** A submission is accepted at the very deadline at which
  the lease may already be expired; heartbeats are not.
* **Memory beside the ledger.** The Lean adapter remembers a proof while its
  attempt executes, before the engine decides; merges read that memory.
* **Files as a protocol.** Parent and child speak through ready, start and result
  files, each with timeouts, kills and processes that die.
* **Many processes, one directory.** A run is resumed from files alone: what a
  dead process had begun is judged by which files it left, paid calls must not be
  repeated, and what was only in memory is forgotten.
* **Derived data.** Index, projection and results are functions of a ledger that
  may be cut, late or unusual; one they do not know makes them raise.
* **Ending.** `while True` with four kinds of pending events, a retry budget per
  unit, scopes, hooks that stop, and children that may fail before or after a
  sibling has found a witness.

What makes each part correct is stated by the properties of section 3; the
hazards in `PROJECT.json` give the line at which each one bites. One has no
property and says why.

## 2. Modules

### ProtocolEngine, Recovery, UnitContract

`ProtocolEngine` models the unit lifecycle. A variable holds what the latest
events say of an object; `unitLog` and `attemptLog` hold every snapshot ever
recorded, from which a caller may draw a stale one. Who calls is `usage`, fixed by
the initial state: `fresh` callers pass the latest snapshots, others any recorded
one; with `ownLeases` a caller may pass `active_leases_by_unit_id`, whose entry for a
unit replaces what the ledger says of it (`LeaseEntries`, `ShowsLease`); `shadow` is
`allow_shadow_execution`, which switches the guard on leases off. The local
coordinator is fresh and uses neither.

| code | definition |
|---|---|
| `schedule_ready_unit` (one batch: lease, attempt, unit) | `ScheduleReadyUnit` |
| `record_lease_heartbeat` | `RecordLeaseHeartbeat` |
| `record_execution_submission` | `RecordExecutionSubmission`, then `AppendAttemptState` |
| `record_verification` | `RecordVerification`, then `AppendAttemptState` |
| `bind_canonical_outputs` | `BindCanonicalOutputs`, then `AppendAttemptState` |
| `record_complete_decision` (one batch) | `RecordCompleteDecision` |
| `record_lease_expiry`, `record_recovery_decision` (one batch) | `RecordRecoveryDecision` |
| the process dies between two appends | `Crash` |

`Recovery` holds the tables of `core/recovery.py` and `core/state_machines.py`
that engine and coordinator share. `UnitContract` is what a unit promises with
leases and ledger left out: at most `max_retries + 1` tries, one canonical
bundle, nothing after Completed or Failed. `KeepsContract` is the refinement, for fresh callers.

A batch is atomic here; what a batch cut by a crash does to later calls is in
`TaskGraph`, and what it does to the file in `EventLedger`.

Three details a reader of the code may trip over. `record_verification` never looks
up the submission that a report names: what it checks is the attempt's snapshot and
the outputs it carries (`delivered`), so a report may name a submission that was rejected
or never recorded, and `CanonicalBacked` speaks of the outputs. The lease of a completed
attempt stays Active in the ledger for good, so `CanonicalFromNewestAttempt` can
demand it. And a call repeated after a crash between the canonical binding and
the attempt's Canonical event returns the existing binding without appending
that event: the attempt stays Verified for good, which is why that property
admits both states.

### TaskGraph, RootAccount

`TaskGraph` models the graph operations over one expanded root. Each validates
what the ledger holds and appends one batch, which a crash may cut: `batch` says
of each kind whether it is absent, cut or whole. The proposal (dependencies and
merge slots) is a variable fixed by the initial state, so that a run covers all
of them.

| code | definition |
|---|---|
| `record_expand_decision` | `RecordExpandDecision`, `ExpansionBatch`, `Expandable`, `WithinLimits`, `Acyclic` |
| `record_dependency_ready` | `RecordDependencyReady` |
| `create_ready_merge_tasks` | `CreateReadyMergeTasks`, `Bindable`, `StageBundle`, `LinkBatch` |
| `record_merge_resolution` | `RecordMergeResolution`, `Resolvable`, `ResolutionBatch` |
| `record_canonical_contributions` (single appends) | `RecordCanonicalContributions`, `FirstState`, `Earned` |
| `record_parent_completion` | `RecordParentCompletion`, `Awaited`, `CompletionBatch` |
| `record_parent_failure` | `RecordParentFailure` |
| `record_subtree_pruning` | `RecordSubtreePruning`, `Cancellable`, `PruningBatch` |
| `record_root_settlement` | `RecordRootSettlement`, `Payable`, `Shares`, `SettlementBatch` |
| dispatch, binding, completion, recovery of a unit | the reduced operations of `ProtocolEngine` |

The local coordinator passes the latest snapshot and calls in its order; a
*stray* call (`Trust`, bounded by `MaxStrays`) passes an older snapshot or comes
out of that order, as other callers of the engine may. That the coordinator's changes of a
unit keep that order is `UnitsMoveLegally` of `RunCoordinator`.

`RootAccount` is what the operations promise: one order of stages, each once, and
the budget divided without loss, no two shares more than one apart.
`KeepsAccount` is the refinement, under `Stage` as mapping.

Behaviour that the model keeps and a reader may not expect: the root can complete
on its own, before anything is expanded; a crash inside the completion batch leaves
the root Completed and the contribution of its expansion Pending, and the
settlement pays without it (the exception in `PaysWhatCounted`); an artifact is
saved before the batch with `created_at` of the call, so the retry after a crash
between the two, at a later instant, is refused for good; cancelled units
keep their leases; the limit on the number of units is asked of the root and the children
and leaves no room for the merge unit, so that a caller's graph may exceed it once the merge
unit is there (`core/task_graph.py:77`; `experiments/runtime.py:1097` makes the room).

### EventLedger, KeyedLog

`EventLedger` models one ledger object, its file and what a crash or an error
leaves there. A call is an append of its lines to `writing`; `WriteLine` puts
them in the file one by one; `Acknowledge` is the return after flush and fsync.
`Crash` loses the object and cuts the write, `IOError` cuts the write and keeps
the object, `Open` is `__init__`. `faults`, chosen at the start from `FaultSets`,
says where a write can be cut. A
hash is taken as the history it commits to (no collisions). Calls that raise a
conflict change nothing and are left out.

`KeyedLog` is what callers rely on: a log that only grows, with one entry per
idempotency key, in which whatever a caller was told stays. `KeepsLog` is the
refinement; the log is the file up to a line cut short.

### LogicalScheduler

The scheduler of logical runs: events ordered by time, priority of their kind,
unit and ordinal (`Before`), `schedule_*` refusing used keys and the past,
`pop_next`, and checkpoints that can be restored at any later moment, more than
once. A checkpoint forgets the history of pops but not the used keys.
Unit ids are ranks in string order. The wall clock that annotates events and
the JSON forms are left out.

### RunCoordinator

`_run_root`. One action is one branch of one iteration of the loop. Work is
concurrent only through its results: outcome and latency of an attempt are
chosen when it is dispatched and applied when it arrives.

| code | definition |
|---|---|
| head of the loop: scopes, readiness, slots | `Scoped`, `Activatable`, `ReadyUnits`, `Readiness`, `Slots`, `ShouldDispatch` |
| `record_dependency_ready` | `Activate` |
| dispatch of a batch and scheduling of completions | `Dispatch`, `Execution`, `Delay`, `CompletionKind` |
| `_execute_unit` on success | `CompleteChild`, `CompleteRoot`, `ExpandRoot`, `CompleteMerge` |
| `_execute_unit` on failure; deferral of recovery | `Trigger`, `Reached`, `DeferRecovery`, `Follow`, `InfrastructureFailure` |
| `_recover`, requeue and hooks | `RecoverNow`, `Retry`, `Requeue`, `Refuse`, `Fail` |
| `_replace_graph_unit`, `_recovery_result` | `Record`, `RecordOne`; `Follow` and `Requeue` |
| early stop and pruning | `Unscheduled`, `EarlyStop` |
| nothing pending | `EndPartial`, `CreateMerge`, `PrematureMerge`, `FailParent`, `Stall` |

It EXTENDS `Recovery` and INSTANCEs `LogicalScheduler`, whose queue, clock and
used keys are variables of the run: `IsNext` and `Pop` are the scheduler's own
operators. What differs between runs (logical or online, the split, the plugin's
merge rule, the hooks, the outcomes) is a record, the `scenario` of a behaviour,
chosen from the constant `Scenarios`.

A unit's state is kept twice: `state` is what the engine recorded last, `graph` what
the loop sees, which readiness, dispatch and pruning look at. They differ for one reason. A requeue
event carries the graph that its own retry event made (`_AppliedRecovery.graph`), and the
loop goes on with that graph (`coordinator.py:897`), so whatever the retries of siblings at
the same instant recorded in between is undone in the graph, not in the ledger.

Behaviour of the code that the model keeps and a reader may not expect: the
expanded root stays Processing until the merge resolves its outputs, and so
does the merge unit after its success; an online run never prunes descendants;
without `continue_after_terminal_child_failure` a child that fails for good
fails the root even if a sibling's witness made the merge ready; a fatal
failure matters only once the budget is spent.

### ProcessWorkers

`execute_batch` of the process backend and the child's `main`. The parent's
actions follow its phases: `Begin`, `Open` (start one child), `SeeReady`,
`BootFails`, `Signal`, then per request `Terminate`, `Deliver`, `RefuseResult`,
`ReportError`, `GiveUp`, at the end `KillDoomed` and `Close`; `Interrupt` is an
exception execute_batch does not handle. The child's are `ChildReady`,
`ChildStarts`, `ChildWrites`, `ChildExits`, `ChildDies`. Every timeout is a choice:
it may pass at any moment of its wait.

Behaviour the model keeps: a slow start of one child may let another's wait for
its start signal (60 s) pass, which is then reported as an `executor_error` though
nothing ran; results may be ingested in a batch that later raises; an interrupt
during a start leaves one child without a handle, which leaves by its own timeout
without having run anything.

### Factorization, LeanProofs

`Factorization` is one root of the factorization plugin from `CandidateRanges` to
`Merge`, with real arithmetic over a set of targets. Answers are everything the
parser lets through (a factor divides the target and lies in the range the
answer names); verification, slot binding and merge gate may be switched off by
`policy`.

`LeanProofs` is one root of the Lean plugin under the experiments' bridge, over
every graph of dependencies: the certificate of the fixed plan, requests that
carry the proofs of dependencies, execution that writes the memory, the engine's
independent decision (`Bind`, `Recover`), readiness, the order of assembly and the
checks. The depth of a graph and the two orders are recursive functions. A proof is its node and attempt; the checker is external, its verdict a
choice among those it can give. With verification off the bridge never checks, so the
memory stays empty and every root ends in a dead end, as `runtime.py:313` expects.
With slot integrity off each slot gets the proof of the next (`Slotted`, `Assembled`), the
inputs are not validated any more (`merge_policy.py:218`), and all that is left is the
check of the assembled source, which may accept: a proof general enough closes the slot of
another node.
Attempts of one node never overlap. The bridge used outside of experiments is left out, and
after a failed node the root fails at once.

### ScenarioRoot

One root of Exp2, Exp3 or Exp4 from its plan to its row. `plan` is what
`build_scenario` fixed (faults, challenges, mechanisms off); an attempt is its
source answer and, as a function of plan, ordinal and answer (`EndOf`), its end;
the hooks' records (`ChallengeRecord`, `FaultRecord`, `RequeueRoute`,
`MergeRecord`) are functions of the same. The second half is the
projector: `Projected`, `FailureOrigin`, `RouteStatus` read only the evidence.
At the end, what the reducer makes of the root: the candidates known to be wrong, and
the `Numerator` and `Denominator` it adds to the rates of Exp4.
The merge unit is left to the two modules above. Two children, as many as a challenge
and its sibling need.

What the results mean, as the code has it and the model keeps it: a `false_*` fault is
recorded as injected only with a candidate to change, although `transform_attempt` labels every
attempt it applies to "fault_injected"; a delayed Lean target that was never dispatched
leaves the route "missing"; a recovery merge that raises is recorded as not reached,
although the plugin was called; the check of a factorization is by product, so with
verification off a false certificate of a prime counts as a correct final; a failed root
collects causes from all its children, so that a recovered sibling can make its origin
"mixed"; a late answer that did not parse counts as a transport failure; a root counts as
stuck by a lost answer when any replacement of it is refused, that of the sibling, too.

### ArtifactStore

`save_bytes` at the level of its file operations, with any number of writers of one
artifact id: `Check`, `Look`, `WriteTemp`, `Rename`, `Mark`, `MarkRename`,
`Clean`, first for the data, then for the manifest. A writer may crash at any of
them. `overlapped` records that two saves overlapped, `clashed` that they carried
different data: the store has no lock, and both are what its promises depend on.

### MaterializedIndex

`rebuild_from_events` over the ledger of one root with up to two children. The
first part appends the batches of the engine (`Shapes`, `Due`), whole or cut; the
second judges them (`AcceptsBatch` and the `Validate*` operators); the third
drops, creates and fills tables statement by statement, since `executescript`
commits each; the fourth is the rows (`TaskUnits` to `ExpectedOutputs`). A row is the
object and the type of its last event. The ledger's batches are at most one of each
kind, child 2 is never scheduled, and the merge unit is dispatched once. Every cut batch makes each
later rebuild refuse for good, while the engine goes on; a refusal after a crash
leaves the tables missing.

### RunLock

`_RunLock` at the level of its file operations: create exclusively, write the
owner, find the file existing, read its owner, judge the pid, read the owner
again, unlink, and the same on release. A process may crash at any of them. A pid
is not used twice. `raced` records that a process has unlinked a file other than
the one it had read last.

### ExperimentRun

One run directory over any number of processes, one at a time. What is on disk
and what is in memory are separate tuples (`files`, `memory`); `End` loses the
second.

| code | definition |
|---|---|
| `run_experiment`, `_run_experiment_locked` | `StartFresh`, `WriteRunConfig`, `Resume`, `Finish`; its loop `NextRoot` |
| which entry the roots are given | `Dead`, `TailPending`, `TailRequiresProvider`, `NeedsProvider`, `Entry` |
| committed, blocked and dead roots | `SkipCommitted`, `CommitBlocked`, `CommitDead` |
| `execute_root_context`, `run_root_slice` | `ExecuteRoot`, `EndProtocol`, `RaiseCompleted`, `WriteSnapshotTrace`, `AfterSnapshot`, `Commit` |
| `resume_exp1_root_context` | `ResumeRoot`, then the same |
| `call_provider_once` | `WriteIntent`, `Unconfigured`, `Send`, `WriteResponse`, `WriteTerminal`, `WriteFails` |
| `recover_interrupted_call` | `Recover` |
| `run_coverage_tail` | `TailCall`, `Consume`, `Raise`, `EndTail` |

What the protocol does between its calls is `RunCoordinator`'s subject; here a
root makes calls, several at once, and ends clean, with a condition error or with
an infrastructure failure. Whether an answer is accepted is decided by its
content, so a stored answer is judged alike by every process (the Lean checker is
external and taken to be deterministic). A write is atomic, as the temporary file
and the rename of `_atomic_text` make it. A failed write within a tail ends the
process and is a `Crash`.

### MC modules and proof modules

An MC module EXTENDS or INSTANCEs what it checks and holds the values the
configurations use. Four of them put independent subjects into one run:
`MCEngine` (units, graph), `MCExecution` (scheduler, worker processes),
`MCStorage` (lock, artifacts, index) and `MCRoots` (factorization, Lean, replay).
A behaviour chooses one `subject` at the start and the variables of
the others stand still, so the states add up and nothing interacts that does not
in the code; a property of one subject is checked in its behaviours and holds
trivially in the others, where its variables keep their initial values.
`MCCoordinator` puts six configurations of the same module into one run in the
same way (`Scenarios`), `MCLedger` two sets of faults (`FaultSets`).

| proofs | about |
|---|---|
| `ProtocolEngineProofs` | the engine with any caller and any lease map, and with callers that pass the latest snapshots |
| `TaskGraphProofs` | the graph operations |
| `EventLedgerProofs` | the ledger under every fault, and with crashes between or inside lines |
| `RunCoordinatorProofs` | the coordinator's loop and how a run ends |
| `ExperimentRunProofs` | the run directory over any number of processes |
| `ExecutionProofs` | the scheduler and the worker processes |
| `StorageProofs` | the lock, the store, the rebuilds of the index |
| `RootProofs` | a factorization root with the arithmetic it rests on; the replayed roots of Exp2 to Exp4; a Lean root |

`TaskGraph`, `ProcessWorkers`, `ArtifactStore`, `MaterializedIndex`, `ScenarioRoot` and `LeanProofs` have initial
predicates, next-state relations and invariants with names of their own (`GraphSpec`, `WorkersSpec`, `StoreSpec`,
`IndexSpec`, `ReplaySpec`, `LeanSpec`), because MC modules
extend them next to another specification. Definitions commented as mutants are
planted bugs that no specification uses.

## 3. Runs

| run | instance | properties | shows |
|---|---|---|---|
| `engine` | units: 1 unit, 1 retry, lease of 1, time to 2; under the coordinator 3 attempts and 3 named submission ids, under each of the seven other usages 2 attempts and 1 id; graph: 2 children, every proposal over them, room for 4 units, budget 5, 1 crash, 1 stray call | `LeasesAgree`, `ExpiredNeverCanonical`, `CanonicalFromNewestAttempt`, `KeepsContract`; `ParentRestsOnMerge`, `PaysWhatCounted`, `TerminalIsFinal`, `KeepsAccount` | leases and units agree whoever calls, as long as the ledger's leases decide or snapshots are the latest; expired work never becomes canonical, a binding is the newest attempt's, `UnitContract` is implemented through crashes between appends; a root completes only on whole batches, is paid for exactly what counted, once, in order and without loss, and final states are final |
| `ledger` | 3 keys, 2 bodies, two overlapping batches of 2, 4 lines; clean cuts, and every fault | `CrashesLeaveOrder`, `VerifiedLosesNothing`, `KeepsLog` | `KeyedLog` is implemented under clean cuts; a file that still verifies has lost and duplicated nothing under any fault |
| `ledger_newline` (violation) | 3 lines, newline cuts | `ToldStays` | a reopened ledger spoils an event it has returned |
| `execution` | scheduler: 2 units, 2 kinds, times 0 and 1, 4 events, 1 checkpoint; workers: capacity 2, 3 units, 2 of them targets, 2 kills from 2 completions on, 3 batches | `ReplaysExactly`; `RunsInItsBatch`, `KillsKeepToThePlan`, `BatchEnds` | no event twice, every checkpoint passes its own validation; no executor runs before all processes are up or after its batch, what was ingested is reported, every batch ends |
| `coordinator` | logical factorization with 2 ranges, silent and rejected work, a merge gate that may be bypassed; logical Lean with 3 children, a dependency and late work; online with 4 children of which 3 are selected, two hooks, all outcomes; online with a merge that takes one child of 3, and with a selected child that needs one outside the scope; a third logical run with 3 children on 2 slots, whose recoveries fall on one instant; capacity 2, lease 2, 1 retry | `ListsAgree`, `AttemptsAreDue`, `EndingsAreEarned`, `StepsAreOrderly`, `Terminates` | the places that say what is under way never drift apart, but for the graph by what a requeue undoes; attempts match recoveries and nothing runs beside the merge; every run ends, in the way that became of its units, and raises in two ways only; whatever it records of a unit is what the engine takes |
| `storage` | lock: 3 processes, crashes at any file operation; artifacts: 2 writers, 2 contents, 2 instants, 3 saves; index: 1 cut batch, 2 rebuilds | `ExclusiveUnlessRaced`, `Concludes`; `SavedStays`, `ManifestComesLast`, `FailsOnlyOnConflict`; `AcceptsExactlyWhole`, `RebuildsOrKeeps`, `TablesAgree` | one holder unless a live lock was unlinked, and nobody waits for ever; a returned reference stays, a crash never stands in the way of the same save; a rebuild accepts exactly ledgers of whole batches, replaces all tables or keeps them, and its tables tell one story |
| `index_units` (violation) | one rebuild, no cut | `CreatedUnitsShown` | the unit of a merge that was created and not yet scheduled has no row |
| `lock_race` (violation) | 3 processes | `MutualExclusion` | two hold the run directory |
| `run_directory` | 2 roots of one condition with 1 and 2 units, both with tails, 2 ordinals, 1 fault; answers accepted, wrong model, no body | `JournalKept`, `FailuresStand`, `TailAccounted`, `CompletesOrWedged` | no call paid twice, no stored answer lost, a cut protocol stays cut, no call for a failed condition in its process, traces account for every call, the run ends unless a tail met a condition error |
| `run_completes` (violation) | 1 unit, 1 crash, no wrong model | `Completes` | a tail goes on without its secret, and its error repeats at each resume |
| `roots` | factorization: 14 numbers (primes, prime powers, products of two and three primes, within and beyond the budget), 1 to 3 children, every policy; Lean: every graph over 3 nodes, at most one mechanism off; replay: 2 children, every fault, challenge, case and Exp4 mode, 1 retry, late answers that did not parse | `ResolvedIsRight`, `VerdictIsDetermined`; `ProofsHold`, `AssemblyInOrder`; `OnlyLateFailuresAreRefused`, `OriginIsTheChilds`, `WrongNeedsAblation`, `RoutesExplained` | a resolved factorization is right and does not depend on the order of answers; a Lean root stands on checked, canonical proofs assembled in order, each in its own slot unless slot integrity is off; a replayed root ends in a row that says what ended it, only an ablation lets a wrong result through, and what it adds to a numerator it adds to the denominator |
| `scenario_rows` (violation) | Exp2 to Exp4, no ablation but the requeue's, late answers that did not parse | `EveryRootProjects` | a root whose last attempt failed late has no row |

Why the bounds are enough. *Engine*: three attempts are the whole budget of one
retry plus one that must never be used; two submission ids of an attempt are the least for a
competing submission, a third named one (`MaxNamed`) belongs to the next attempt; with a lease of 1 and a clock to 2 an instant before, at
and after the deadline is reached. Units share no guard (every condition is about
one unit and its own attempts), so one unit is checked and the proofs cover all;
`SYMMETRY` permutes attempt ids, which no guard compares, and children, over which the initial
states hold every proposal; the run has no liveness property. The other seven usages multiply the snapshots a
call may be given, so they have two attempts (`OtherAttempts`), enough for an old Ready
snapshot that meets an active lease, and one submission id (`OtherNamed`);
`WithinBounds` of `MCEngine` holds these bounds. The theorems have none of them.
*Graph*: two children give a dependency, a slot that is not required, a failed child
beside a successful one and a witness that makes the other prunable; budget 5 leaves a
remainder for two, three and four payees; one crash cuts any one batch, and cuts of two batches
meet only through a batch whose predecessor is whole; one stray call gives an older snapshot or
a call out of order. The theorems cover any numbers.
*Ledger*: overlapping batches of two and four lines let a
batch be torn, reopened, retried whole or in part, and followed by another
append. *Scheduler*: ties of time, kind and unit, with a restore between any
two pops. *Workers*: two slots give one process that waits for the other; three units and two
targets give a batch with a target and a bystander, three batches a kill after the plan was armed
and one more. *Coordinator*: two latencies around the lease give early, equal and late
arrivals; one retry gives every order of success, failure,
deferral and witness; three children on two slots are the least for two recoveries at one
instant after a third child has failed for good; the online scenario has a child that must wait, one out of scope
and two side by side. Clocks of runs are bounded by the retry budget itself, no bound
stops a case. *Lock*: a dead owner and two that reclaim it are three processes.
*Artifacts*: two writers overlap, the third save comes after a crash or a
refusal. *Index*: two tables tell a partial reset from a whole one; two rebuilds put one
after a crash; two children give an output that is resolved and one that is pruned.
*Run directories*: two ordinals give a
first attempt and a later one (the code has three); two units give a cut between
traces, calls in flight together and a resumed tail that has its secret; one
crash comes before, between or after any two writes; roots meet only through the
entry and the blocked conditions, for which two suffice. A rejected answer, which
the directory treats as it does an unknown outcome with a stored body, is in the
violation run only. *Roots*: a budget of two divisors leaves 37 and 49 undecided and 5, 7
decided; three ranges give a remainder in the partition; three Lean nodes give chains, forks
and joins, and slots that are moved round. *Replay*: one retry, as Exp4 has; two children give a
challenge and its sibling at the same instant.

`CHECK_DEADLOCK FALSE` is used where the instance runs out of attempt ids, time, saves
or rebuilds, where a file that cannot be opened any more stops a ledger for good,
or where a process, a root or a run has come to its end; the coordinator is checked
for deadlock.

Fairness. `RunCoordinator` (`Terminates`) assumes
`WF_vars(Next)`: the loop is one thread that never waits except for a worker
batch, and that ends: `BatchEnds` is its own property. `ProcessWorkers` assumes that the
parent goes on (`WF(Parent)`: every wait has a timeout,
`workers.py:487`, `:531`, `process_worker_child.py:116`) and that a child that lives
becomes ready or leaves; nothing about whether its executor answers. `RunLock` (`Concludes`) assumes that a process that
does not crash takes its next file operation. `ExperimentRun` assumes
`WF_vars(Step)`: a process goes on, a call ends by its timeout
(`provider.py:263`), and an operator resumes a run that lacks results; crashes and
failed writes are bounded by `MaxFaults` and never required. The other modules promise
no progress.

## 4. Findings

1. *An acknowledged event can be destroyed* (`ledger_newline`;
   `storage/events.py:230`). A last line without its newline is accepted on
   opening and the next append continues that line. Both events become one
   invalid line, and every later opening raises.
2. *Two processes can hold one run* (`lock_race`; `experiments/cli.py:561`). The
   token is read again and then the path is unlinked, whatever file it names by
   then.
3. *One crash in a tail can stop a run for good* (`run_completes`;
   `experiments/cli.py:799`). The question whether a secret is needed is asked of
   ordinal 0, and the tail may be at ordinal 1. The call ends as
   `provider_configuration_invalid`, nobody catches the error
   (`experiments/runtime.py:894`), and the journal repeats it at each resume. A
   wrong model in a tail answer has the same end without any crash, which is why
   `CompletesOrWedged` excepts condition errors in tails.
4. *A created merge unit is missing from the index* (`index_units`;
   `storage/sqlite_index.py:642`). Every creation that names an expansion decision is taken for
   a child of the expansion (`:2530`) and hidden unless its batch is an expansion;
   a merge unit names one, too. Until it is scheduled, `merge_task_links` names a unit
   that `task_units` does not have.
5. *A root that fails late has no row* (`scenario_rows`;
   `experiments/projector.py:782`). A failed submission that arrives after its lease is
   recorded as rejected; the projector takes a late submission only if it
   reported a success, raises, and the root leaves no result row, although
   `Doc/Experiments/metrics.md:3` promises that failures stay in the denominator.
   A lease lasts 300 s, a provider's answer up to 1200 s.

Met while modelling, without a run of their own:

* A condition error need not fail its root. Calls run at once; one may
  return a wrong model while another finds the factor, the root completes and
  `experiments/runtime.py:175` raises "provider condition failure requires a failed
  protocol root" out of the run; the next process writes the root off as dead.
  `experiments/execution.py:39` promises a fail-stop per condition. `ExperimentRun` has the step
  (`RaiseCompleted`).
* A batch is not atomic, although the engine's docstrings say decisions are recorded
  "atomically" (`protocol_engine.py:726`); after a crash inside a batch the retried call
  raises "partial existing batch", for good, and so does every rebuild of the index.
* A requeue brings back an old graph (`local_runtime/coordinator.py:897`, `:1866`, `:2064`).
  Two children of a logical run are recovered at one instant, the first may be tried again,
  the second has spent its budget; the first one's requeue shows the second as Processing
  again. The comment on going on after a failed child says that the failure fact is already in
  the ledger ("失败事实已由 engine 原子落账", `:918`), but the merge readiness is
  asked of the graph: the run stalls with nothing pending (the second cause in
  `StallIsExplained`), or raises because the child it wants to fail the root with has not
  failed there (the second case of `RaisesOnlyWhenStopped`). If both may be tried again, the second
  requeue mends the graph. The ledger is never wrong, and no unit is tried
  too often (`AttemptsAreDue`).
* `record_verification` takes a report that names a submission which was rejected or never
  recorded (`protocol_engine.py:440`); what is bound are the accepted outputs all the
  same (`CanonicalBacked`).
* A parser gate that stops makes the run raise (`local_runtime/coordinator.py:1573`: it
  asks for Running -> Rejected, which the transition table does not have; the
  other case of `RaisesOnlyWhenStopped`).
* A resumed process has forgotten which conditions failed
  (`experiments/cli.py:1348`) and calls again for their later roots.
* A crash before run.json is written leaves a directory that neither a fresh run nor
  `--resume` accepts (`experiments/cli.py:1195`, `:975`).
* `record_dependency_ready` compares an event's `object_id` with a unit id of another
  kind, so its causation is always empty (`protocol_engine.py:1354`).
* A selected scope in which a witness is found early creates a merge unit that is in no
  scope and stalls; so does one that selects a child without what it needs
  (`StallIsExplained` lists the causes of a stall; the mode is described as "for diagnostic
  observation only", `local_runtime/contracts.py:943`). In a scope that goes on after
  failures that merge unit is Ready, nobody dispatches it, and a later failure of a
  selected child fails the root and throws the witness away: `FailureIsJustified` excludes
  it for whole roots, which is what the experiments run
  (`experiments/runtime.py:158`).
* With verification off, a false certificate of a prime is projected as a correct final:
  the projector checks the product and not the primality of the factors.

## 5. Proofs

All theorems hold for every value of the constants, under the named assumptions
of the modules (`RecoveryAssumption`, `EngineAssumption`, `LedgerAssumption`,
`GraphAssumption`, `StoreAssumption`, `CoordinatorAssumption`, `RunAssumption`,
`WorkersAssumption`, `SchedulerAssumption`, `LockAssumption`, `IndexAssumption`, `FactorizationAssumption`,
`ReplayAssumption`, `LeanAssumption`), which TLC evaluates in
the runs. They give the constants their types (numbers, finite sets, a `None` that is no
value) and what the code validates before it starts; none restricts what may happen.

**Engine, any caller** (`ProtocolEngineProofs`: any snapshots, any lease maps, with and
without shadow execution). `AnyInv` strengthens
`LeasesAgree`, `ExpiredNeverCanonical` and `CanonicalBacked`. `LeasesAgree` has the one
hypothesis it needs, that a caller which may be stale leaves the ledger's leases in force; the others
have none. None of them is inductive: that an expired attempt never becomes canonical needs that its
*log* never held Submitted or Verified (`ExpiredUnsubmitted`), since a stale
caller may present any logged state; that needs that a running attempt's log is
just Running (`IssuedTogether`); and a call in flight must be known to work on a
lease that did not expire (`PendingLive`), for its second append is
unconditional. That bound outputs were accepted cannot be read off the report: an attempt is
Submitted only with the outputs of an accepted submission of its own, and these stay
(`DeliveredAccepted`). `EngineCanonicalIsFinal` is the action property.

**Engine, latest snapshots** (same module, for behaviours with `usage.fresh`, whatever lease
maps they pass). `FreshInv` adds how ordinals and recoveries move together (`OrdinalsCount`,
`BudgetCount`), that whoever still works holds its lease (`HoldersLeased`), and
where a call stands between its appends (`PendingStage`).
`EngineRetryBudget` and `EngineCanonicalFromNewest` follow, and
`EngineKeepsContract` shows step by step that the engine implements
`UnitContract`.

**Graph** (`TaskGraphProofs`: any finite set of children, any proposal, any
budget, any number of crashes and stray calls). `ParentRestsOnMerge` speaks of a
completed root and says nothing of how it got there; `Ordered` (every batch builds
on a whole one), `Unborn` (nothing happens to a unit before its batch is whole) and
`Backed` (work that ended has canonical outputs, and so has what a bundle binds)
carry it along. `PaysWhatCounted` needs that the root completes once and before
anything is pruned (`Counted`), that only contributions that were in time are
settled (`Earnest`), that only the expansion ever waits, and not for longer than the
completion (`Waiting`), and that without stray calls everybody in time has a
contribution (`Timely`). Each has a lemma with one step per operation.
`TerminalIsFinal` is an action property from the same invariant.

`GraphKeepsAccount` is the refinement of `RootAccount`. `AccountStep` looks only at the
operations that touch what `Stage` reads: a cut batch is no step because a whole one
is asked for, and the two ways to complete the root exclude each other, since one needs the
decision to be open and the other the expansion to be recorded (`Counted`, `Ordered`). For
the payment, `SharesAreWhole`: an account counts what is handed out as pairs of payee
and number (`HandedOut`), which for a settlement are the pairs of the payees with
1..base and one more pair for each of the first `rest` payees; two disjoint finite sets
whose sizes are known from the theorems on products and unions, so that no induction over
the payees is needed. `SharesAreFair` bounds every share by the budget.

**Ledger, every fault** (`EventLedgerProofs`). `VerifiedLosesNothing` speaks of
files that verify. The argument: a spoiled or misplaced line stays so, hence the
numbering can only be lost; while it stands, memory is a prefix of the file and a
running append either continues right behind memory (`InStep`) or cannot write
one line without breaking the numbering (`Astray`).

**Ledger, clean cuts** (same module, for behaviours with `CleanFaults`: no newline
cut, no I/O error). `CleanInv` says that a readable file is in order and ended, a
running object is in step with it, and an unreadable file is in order up to its
last line. `LedgerToldStays` and the refinement `LedgerKeepsLog` follow. The two
excluded cuts are those of finding 1 and of the second set of `FaultSets`.

**Ledger, order** (same module and faults). `CrashesLeaveOrder` says that a readable file
has a hash chain that verifies and that a batch which was returned stands in it whole.
`OrderInv` adds to `CleanInv`: every good line names the hash of the one before it
(`Linked`) and a running object knows the last one (`TipKnown`), also while a line is being
written (`WritingLinked`); a part of a batch has the parts before it right behind
it (`Gapless`), and no part comes twice (`PartsOnce`), though a batch that was torn is
written again from its first missing line. From these, a file with the last part of a batch
has them all (`StandsWhole`), which is what a retry and a returned call rely on. The line
that a write adds is one more good line or the end of the file's good part, and both cases
are stated for the file's length as a number of its own, since batches may have any length.

**Coordinator** (`RunCoordinatorProofs`: any finite set of children, any order of them,
any acyclic needs, capacity, lease, retry budget, latencies and configurations). None of the
four properties is inductive. `LoopInv` says first what the lists are (`Lists`): an attempt
has one completion, which its deferred recovery and then its requeue replace, so no
key of the scheduler comes twice and no unit has two entries; an entry belongs to the
attempt that was assigned (`Assigned`, `AttemptsMatchRecoveries`) and its unit's state
tells how far it is (`AtWorkIsPending`, `Budget`). Then it says in which order the
loop gets on: the root has nothing under way beside its descendants
(`Order`), nothing is under way beside the merge (`MergeIsAlone`), the early stop comes
last (`StopOnce`), and a child that failed for good is remembered (`Remembered`). What an
entry becomes when it is taken comes at the same instant or at a later one, with
a larger sequence key (`FollowStep`, `DeferStep`), which is why the clock never passes a
pending entry. Up to here nothing depends on the graph (`Base`). What the graph lacks of the ledger is
`Mirrored`: it `Shows` every unit as recorded, but for children it still shows at work, and it
`CatchesUp`: a unit that may be tried again and is not shown so (`Behind`) has a requeue of its
own to come, and the graph that a requeue brings along lacks later units only. That is so
because at one instant all retries come before all requeues, both in the order of
units, and nothing is begun before (`Timed`, `NextFacts`): `RetryMirrored` and
`RequeueMirrored` are the two steps with an argument. When no requeue is pending, every unit but the
children that failed for good is shown as recorded (`AllShown`), so that what is
pruned or merged is what the ledger has.
`ListsAgree` and `AttemptsAreDue` follow from the state alone; `StepsAreOrderly`
needs that the only engine call that refuses is the stopped gate's
(`RefusedIsStopped`), and that every change of a unit is one that the engine takes
(`UnitsMoveLegally`): `WorkOf` knows where a unit is whose entry is taken, `QuietFacts` where
the root is when nothing is under way. How a run ends rests on `EndInv`: which units the ledger has and since
when (`Grown`), that the root and the merge are never left Processing with nothing
pending (`Awaited`), and that a witness is bound and the failed child failed (`Founded`).
`StallIsExplained` is where the assumption that needs have no cycle is used: when nothing is
pending and nothing is Ready, take a waiting child none of whose needs waits; one of
them failed or is out of scope. The code refuses cyclic plans
(`core/expansion.py:783`, `core/task_graph.py:113`).

**Artifact store** (`StorageProofs`: any writers, any contents). `Layered` is
the order of commits whoever writes: markers follow files, the manifest follows
the data. `Agreed` says that without a clash there is one content from the check of
the first save on, `Alone` that without an overlap nobody touches what a writer has
seen. `StoreManifestComesLast` follows from the first two, `StoreSavedStays` and
`StoreFailsOnlyOnConflict` from all three.

**Lock** (`StorageProofs`). The invariant says where each process stands with the
file it created: a holder's file is there and names it unless `raced`, and a
process about to unlink has read an owner that is dead.

**Index** (`StorageProofs`: any tables created once each, any number of cut batches, of
rebuilds and of rebuilds that died). That the tables fit the stage of a rebuild (`TablesFit`)
is inductive but for one step: `InsertRows` raises when a row that may be inserted once
comes twice. So the invariant says of the ledger, which cut batches are part of, why that is
not so (`LedgerInOrder`): a kind of batch comes once, and a row of its own is a matter of one
kind (`HomesKept`, `RowsOnce`), but for decisions, which an expansion has and a completion;
those two kinds speak of one unit only when it is the root, and once a whole
batch has completed the root without an expansion, nothing changes its state and no
expansion follows (`DecidedOnce`, `RootClosed`). If the completion was cut, its batch is why the
ledger is refused (`AcceptedOnce`). That every batch is what this needs is shown kind by
kind (`EveryShape`).
That a rebuild accepts exactly the ledgers of whole batches
(`IndexAcceptsExactlyWhole`) takes a second invariant, `BatchesInOrder`. One direction is
about batches: each stands in the ledger without a gap, as the first events of a shape the
validation knows (`BatchesPlaced`), so it passes when it has all of them
(`CompleteAccepted`) and the size in its envelope gives it away when it has not
(`AcceptedWhole`). The other is
about contributions, which come as single events and can make a rebuild refuse, too: each
change of one must start from the state the last left. For that the invariant knows which batches wait
for which (`Chain`, `ChildDecided`), where each change comes from (`Earning`) and that a
settlement is the last (`SettledLast`).
That the tables tell one story (`IndexTablesAgree`) takes a third, `IndexTold`. It does not
speak of tables: as long as a ledger is whole, what its events say of attempts, leases,
results, units, the graph and its end agrees (`StoryTold`). A step that keeps the ledger
whole adds one whole batch, or the events of one piece of work (`Added`), which is what the
engine would plan in that state (`Planned`), and each part of the story goes on under such an
addition. A table has a row for each object of its events (`RowsDomain`) with the type of the
last event of that object, so that the story carries over
to the tables of a rebuild that committed, which accepted its ledger (`BuiltAccepted`) and
therefore, by the theorem before, read a whole one.

**Run directory** (`ExperimentRunProofs`: any roots, units, conditions, number of attempts
and faults). `JournalInv` relates the three places that know of a call: the process's
memory, the files, and what was really sent. It says where a process is in its root
(`Placed`, `Begun`), that nothing is known of a call without an intent (`Intended`),
what the stage of a call in flight has already put on disk (`InHand`), and that a call was
sent once and its terminal says what was stored (`Reported`). Nothing about a call survives
a crash but the files, so every conjunct must follow from them alone once the memory is
gone; `JournalKept` and `FailuresStand` follow.
`TailInv` is about what a tail finds: before `protocol.json` the calls of a unit begin with
ordinal 0 and nothing is traced (`Unprotocolled`), after it each call was made
because the one before it was spent, and a trace holds all of them
(`Protocolled`); a process has consumed a first part of its unit's ordinals
(`Consumed`), and a committed root has nothing uncovered (`Covered`). That a tail takes up
a unit of its root is that a set of numbers has a least one (`LeastOf`), which is
well-foundedness of the naturals.

**Worker processes** (`ExecutionProofs`: batches of any size, any targets and plan).
`SlotKept` says of one slot what its files and its report exclude: a start file
means that every child of the batch is ready, no start file that nothing runs, a
report that the child is gone and the result ingested or an error. `PhaseKept` is what
each phase of the parent has behind it. `RunsInItsBatch` follows from both.
`KillsKeepToThePlan` needs from them only that a target is a unit of the batch.

**Factorization** (`RootProofs`: any numbers above 1, any requested and greatest
count of children, any budget). The invariant is small: the ranges are the plan's, and
what is bound has passed. What the two properties rest on is arithmetic, in four parts.
*Division*: what divides is a multiple, and divides differences and multiples. *The root*:
one of two factors is at most the integer root, so a number without a divisor up to it is a
prime (`TrialDivision`), which is why the search and the bounded test of primes may stop there
(`PrimeVerdictIsTrue`: a verdict that is not "unknown" is true). *The plan*: the ranges are a
partition of 2..root with no range empty, whatever remainder is left (`RangesPartition`).
*Two primes*: Euclid's lemma, by the least number that would contradict it (`Euclid`), so a
product of two primes is one in one way (`TwoPrimes`). With these, a certificate is right
because an answer that no factor exists was checked for its own range and the ranges leave
nothing out (`CertificateIsRight`), and two factors are right because the verdict on each is
(`FactorResultIsRight`): `FactorizationResolvedIsRight`, for whatever the executors
answer, and whatever the merge checks (`MergeIsRight`). A merge of what is ready is
never refused (`VerifiedMerge`); if a product of two primes stays unresolved, the factor that
was merged is one of the two, so the budget left one of them open (`FactorIsTheRoots`); and
what is merged before the gate opens has no witness and lacks a child
(`EarlyIsIncomplete`): `FactorizationVerdictIsDetermined`.

**Replay** (`RootProofs`: any number of retries but none, any sets of mechanisms
that Exp4 may switch off, any choice of answers that may be late). `ReplayInv` says of every
attempt that it ended as its answer has it under the plan (`Fits`, `Fate`), how often a child
is tried (`BudgetFits`), and of the records what the projector takes for granted: a
requeue route other than "not reached" is the last one and ended the run (`RoutesFit`),
a premature merge that was attempted, too (`MergesFit`), a refused replacement waits for
a merge that is ready where the gate is off, and a run that verifies has none of
the ends that faults lead to (`EndingsFit`). That last part is where the steps need an argument: what is bound
is a right candidate that nobody touched (`BoundIsRight`), such children never merge
into something wrong (`VerifiedMerges`), what the gate lets through is enough
(`ReadyMergesRight`), and with nothing to be dispatched the gate is open (`NoStall`).
`OnlyLateFailuresAreRefused` is the positive side of the run `scenario_rows`: the evidence of a challenge
always fits together (`EvidenceFits`), and an answer can be lost only on a first attempt
(`LostIsFirst`), so with at least one retry the failing attempt that nothing explains came late. That a root
counts as stuck only if a challenge was injected needs that the first child is tried first.

**Lean** (`RootProofs`: any nodes and any graph over them that its plan certifies, any
number of retries, any mechanisms off; the nodes are numbered from 1). That the memory of a bound
node is its canonical proof (`MemoryIsCanonical`) is not inductive: `LeanInv` adds that
nothing is under way for a bound node (`FlightsFit`), so no later answer can overwrite its
memory; that an accepted answer is the one remembered until it is bound, although recoveries
may come in between; and that requests already sent carry canonical proofs (`MemoryFits`).
Without verification the memory stays empty, so a merge finds nothing (`LeanMerges`) and no
root completes. A slot always gets the proof of some node (`SlottedNode`), hence what a completed
root was assembled from are canonical proofs, its own ones with slot integrity (`LeanSlots`);
whether moved proofs close the root is Lean's verdict and not claimed.

**Scheduler** (`ExecutionProofs`). What is proved of the current state
must also hold of every checkpoint saved, since any of them may become the
current state: the invariant carries `DeliveredOnce` and `ClockDivides` into
`saved`. From the two follows that a checkpoint is valid, so `ReplaysExactly`.

Proved without being a property of a run: the type invariants of engine, graph, ledger,
scheduler, lock and store, those of the coordinator and the run directory within `LoopIsSound`
and `JournalIsKept`; the plan of a factorization root (`FactorizationInvariance`) and the invariant of a
replayed one (`ReplayInvariance`); `RetryBudget`, `CanonicalBacked`, `CanonicalIsFinal`,
`CrashKeepsTold`, `ClockDivides`.

Only model-checked:

* liveness (`Terminates`, `BatchEnds`, `Concludes`, `CompletesOrWedged`), which the prover
  has no rules for;
* `AssemblyInOrder`: that the order computed by recursion over the graph puts every node
  after its dependencies needs induction over the graph.

## 6. Not modelled

* Coordinator: `checkpoint_root` and resumption (in-memory copies of the loop's
  variables; the set of recovery observations already made starts empty again), and
  mechanism policies that only observe.
* Graph: outputs resolved by a child or by the root itself (`child_output`,
  `direct_parent_output`), which nothing ever records; more than one level of expansion, which
  no plugin asks for.
* Workers: the sequential and the thread backend, except by what they return; requests without a
  planned unit, which no plan matches; the progress-driven deaths of Exp3
  (`experiments/scenarios.py:111`).
* Index: tables for task specs, artifacts, clients, registry snapshots and slot bindings;
  more than one rebuilder; columns other than object and last event.
* Plugins: prompts, fixtures, JSON forms, the Lean checker itself, the bridge used outside of
  experiments.
* Replay: manifests and their hashes, resumption of a root, several missing observations of
  one attempt, prices; a challenge whose target is never dispatched.
* `ExperimentRun`: the fixed source experiments and references, Lean
  environment checks, disk margins, a failed write of an intent, files that do
  not parse or belong to another request, the historic pre-Flash resume.
* Registration appends three events and creates the unit with which
  `ProtocolEngine` starts; the shape checks of records (`core/models.py`,
  `local_runtime/contracts.py`, `executors/*`, `plugins/registry.py`) have no state.
* The reducer apart from the counts named above, tables, statistics, the GUI, HTTP
  transport: pure I/O or sequential data processing over finished runs.

## 7. Next

1. `RunCoordinator` composed with `TaskGraph`. That each unit moves as the engine allows is
   proved (`UnitsMoveLegally`); the batches, contributions and resolutions that go with the
   moves are `TaskGraph`'s alone so far.
2. `checkpoint_root` and the resumption of a run from it, over the scheduler's own
   checkpoints.
3. The reducer's cells and pairs: every planned root counted once, whatever became of it,
   against the rows of `ScenarioRoot` and `ExperimentRun`.
