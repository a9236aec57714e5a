--------------------------- MODULE RunCoordinator ---------------------------
(***************************************************************************)
(* ProtocolRunCoordinator._run_root of                                     *)
(* src/src/tokenshare/local_runtime/coordinator.py: the loop that drives   *)
(* one root task through expansion, its children, recoveries and the merge *)
(* to settlement or failure.                                               *)
(*                                                                         *)
(* One action is one branch of one iteration; an iteration that dispatches *)
(* and then takes a completion is two actions, for the dispatch leaves no  *)
(* other branch open before the completion.  The loop is one thread.  What *)
(* is concurrent is the work: each attempt's outcome and latency is chosen *)
(* when it is dispatched, and its result is applied when it arrives.       *)
(*                                                                         *)
(* Logical runs take results in the order of LogicalScheduler and defer    *)
(* every recovery and requeue to an event of its own.  Online runs execute *)
(* a batch and apply its results one by one; the batch order is arbitrary  *)
(* here, so pending is a set in both.                                      *)
(*                                                                         *)
(* A unit is its TaskUnit state: in state as the engine last recorded it in *)
(* the ledger, in graph as the loop sees it.  The loop takes what it        *)
(* records into its graph, but a requeue brings back the graph of its own   *)
(* retry, and undoes what was recorded since.  Only the root expands, as in *)
(* both plugins.  Canonical binding and completion of a child happen in one *)
(* branch, so a Completed child is a canonical one.                         *)
(***************************************************************************)
EXTENDS Integers, FiniteSets, FiniteSetsExt, Recovery

CONSTANTS
  Root, Merge, Children,   \* the units: the root, the merge unit, the children
  Rank,                    \* unit -> rank of its id in string order
  Needs,                   \* child -> the children whose outputs it needs
  Capacity,                \* worker_backend.capacity
  LeaseMs,                 \* lease duration
  Scenarios,               \* the configurations a run may have, see Scenario
  None

Units == Children \cup {Root, Merge}

\* Outcome of one dispatched attempt.
Successes == {"passed", "found"}
Silent    == {"terminated", "no_return"}
AllOutcomes == Successes \cup Silent \cup
  {"late", "unstarted", "failed", "fatal", "rejected", "unverified",
   "infrastructure", "parser_stop"}

\* What is fixed when a run begins: the plugin's split and merge policy, the
\* run options, and what the workers and the hooks of this run may do.
Scenario ==
  [split : SUBSET Children,          \* the children the root expands to
   required : SUBSET Children,       \* those that fill a required merge slot
   selected : SUBSET Children,       \* selected_ai_unit_ids, {} for whole_root
   logical : BOOLEAN,                \* is there a logical scheduler?
   witnessPolicy : BOOLEAN,          \* factorization merge policy, else all required
   continueAfterFailure : BOOLEAN,   \* continue_after_terminal_child_failure
   replacementAllowed : BOOLEAN,     \* replacement_attempts_allowed
   stops : SUBSET {"requeue", "recovery_merge", "bypass_merge"},  \* hooks that may stop
   outcomes : SUBSET AllOutcomes,    \* what a worker and the checks may return
   latencies : SUBSET Nat]           \* source latencies of completions

ASSUME CoordinatorAssumption ==
  /\ Root # Merge /\ Root \notin Children /\ Merge \notin Children
  /\ IsFiniteSet(Children)
  /\ Rank \in [Units -> Nat]
  /\ \A u, v \in Units : Rank[u] = Rank[v] => u = v
  /\ Needs \in [Children -> SUBSET Children]
  \* expansion.py:783 refuses a proposal with a cycle
  /\ \A S \in (SUBSET Children) \ {{}} : \E c \in S : Needs[c] \cap S = {}
  /\ Capacity \in Nat \ {0}
  /\ LeaseMs \in Nat
  /\ None \notin Units
  /\ \A s \in Scenarios :
       /\ s \in Scenario
       /\ s.split # {} /\ s.required \cup s.selected \subseteq s.split
       /\ \A c \in s.split : Needs[c] \subseteq s.split

VARIABLES
  scenario,     \* the configuration of this run
  state,        \* unit -> TaskUnit state last recorded, "Absent" before creation
  graph,        \* unit -> TaskUnit state in the graph of the loop
  witness,      \* children whose canonical result is a witness
  attempts,     \* unit -> attempts scheduled
  retries,      \* retry_counts
  pending,      \* pending_executions
  failedChild,  \* terminal_child_failure
  candidates,   \* units captured for pruning by the early stop
  ending,       \* "running", or how the run ended
  clock, queue, used   \* the logical scheduler

graphVars == <<state, graph, witness, attempts>>
schedVars == <<clock, queue, used>>
vars == <<scenario, graphVars, retries, pending, failedChild, candidates, ending, schedVars>>

Logical              == scenario.logical
ContinueAfterFailure == scenario.continueAfterFailure
Required             == scenario.required
Selected             == scenario.selected
Witnessed            == scenario.witnessPolicy /\ witness # {}

Sched == INSTANCE LogicalScheduler WITH
  UnitRanks <- {Rank[u] : u \in Units}, Ordinals <- 0..MaxRetries,
  Kinds <- {"worker_completion", "lease_deadline", "worker_death",
            "early_stop", "retry", "requeue"},
  MaxTime <- 0, MaxEvents <- 0, MaxSaved <- 0,
  history <- used \ queue, delivered <- used \ queue, saved <- {}

(***************************************************************************)
(* What an outcome leads to.                                               *)
(***************************************************************************)

\* _execute_unit: the recovery trigger of an outcome ...
Trigger(outcome) ==
  CASE outcome \in Silent \cup {"late"}             -> "lease_expired"
    [] outcome \in {"unstarted", "failed", "fatal"} -> "executor_error"
    [] outcome = "parser_stop"                      -> "parser_failure"
    [] OTHER                                        -> "verification_rejected"

\* ... and the state its attempt has reached by then.
Reached(outcome) ==
  CASE outcome \in {"failed", "fatal", "unverified"} -> "Submitted"
    [] outcome = "rejected"                          -> "Rejected"
    [] OTHER                                         -> "Running"

\* Mutant: a silent worker is given up at its latency.
DelayAtLatency(outcome, latency) == latency

\* _lifecycle_delay_ms.
Delay(outcome, latency) ==
  CASE outcome = "no_return"  -> LeaseMs
    [] outcome = "late"       -> Max({latency, LeaseMs + 1})
    [] outcome = "terminated" -> Max({latency, LeaseMs})
    [] OTHER                  -> latency

\* _completion_event_kind.
CompletionKind(outcome) ==
  CASE outcome = "terminated"            -> "worker_death"
    [] outcome \in {"no_return", "late"} -> "lease_deadline"
    [] OTHER                             -> "worker_completion"

Event(time, kind, u, n) ==
  IF Logical THEN [time |-> time, priority |-> Sched!Priority[kind],
                   unit |-> Rank[u], ordinal |-> n]
             ELSE None

\* A pending_executions entry for the current attempt of u.
Execution(u, work) ==
  [kind |-> "execution", unit |-> u, ordinal |-> attempts[u], outcome |-> work.outcome,
   graph |-> None, deadline |-> clock + LeaseMs,
   event |-> Event(clock + Delay(work.outcome, work.latency),
                   CompletionKind(work.outcome), u, attempts[u])]

\* The outcome as the loop sees it: in a logical run a submission that
\* arrives after the lease deadline is not accepted.
Seen(i) ==
  IF /\ Logical /\ i.event.time > i.deadline
     /\ i.outcome \notin Silent \cup {"unstarted", "parser_stop"}
  THEN "late" ELSE i.outcome

\* Will the engine take the recovery of this item?  A lease must have expired
\* when it is recovered as expired.
Recoverable(i) ==
  /\ MayConclude(Reached(i.outcome), Trigger(i.outcome))
  /\ Logical /\ i.outcome \in Silent => i.event.time >= i.deadline

(***************************************************************************)
(* The conditions at the head of the loop.                                 *)
(***************************************************************************)

\* expand_result and merge_creation are set as the units are recorded.
Expanded  == \E c \in Children : state[c] # "Absent"
MergeMade == state[Merge] # "Absent"
WholeRoot == Selected = {}

Executions == {i \in pending : i.kind = "execution"}
PendingControl == pending # Executions

\* Mutant: the scope applies before the expansion too.
ScopedAlways(S) == IF WholeRoot THEN S ELSE S \cap Selected

\* _scoped_unit_ids.  Only children are planned AI units, so the merge unit
\* is in no scope.
Scoped(S) == IF WholeRoot \/ ~Expanded THEN S ELSE S \cap Selected

Activatable ==
  IF (Logical /\ ~PendingControl) \/ pending = {}
  THEN Scoped({c \in Children : /\ ~MergeMade
                                /\ graph[c] = "Blocked"
                                /\ \A s \in Needs[c] : graph[s] = "Completed"})
  ELSE {}

\* Mutant: the merge unit does not hold the other units back.
ReadyUnitsAlways == Scoped({u \in Units : graph[u] = "Ready"})

ReadyUnits ==
  Scoped({u \in Units : graph[u] = "Ready" /\ (MergeMade => u = Merge)})

\* Mutant: a failed child outweighs a witness.
ReadinessFailedFirst ==
  IF \E c \in Required : graph[c] = "Failed" THEN "failed"
  ELSE IF \/ \A c \in Required : graph[c] = "Completed"
          \/ Witnessed
  THEN "ready" ELSE "wait"

\* evaluate_merge_readiness of the two plugins, over the current graph.
Readiness ==
  IF \/ \A c \in Required : graph[c] = "Completed"
     \/ Witnessed
  THEN "ready"
  ELSE IF \E c \in Required : graph[c] = "Failed" THEN "failed" ELSE "wait"

\* The plugins own merge readiness, so a ready merge stops new dispatches.
MergeReadyBeforeDispatch ==
  /\ Expanded /\ ~MergeMade
  /\ Logical \/ pending = {}
  /\ ~PendingControl
  /\ Readiness = "ready"

Slots == IF Logical THEN Capacity - Cardinality(Executions)
         ELSE IF pending = {} THEN Capacity ELSE 0

ShouldDispatch ==
  /\ Slots > 0
  /\ ReadyUnits # {}
  /\ ~MergeReadyBeforeDispatch
  /\ ~PendingControl

Running == ending = "running"

Init ==
  /\ scenario \in Scenarios
  /\ state = [u \in Units |-> IF u = Root THEN "Ready" ELSE "Absent"]
  /\ graph = state
  /\ witness = {}
  /\ attempts = [u \in Units |-> 0]
  /\ retries = [u \in Units |-> 0]
  /\ pending = {}
  /\ failedChild = None
  /\ candidates = {}
  /\ ending = "running"
  /\ clock = 0
  /\ queue = {}
  /\ used = {}

(***************************************************************************)
(* Branches.                                                               *)
(***************************************************************************)

\* The engine records new states of units, and _replace_graph_unit takes them
\* into the graph.
Record(new) ==
  LET In(units) == [u \in Units |-> IF u \in DOMAIN new THEN new[u] ELSE units[u]]
  IN  state' = In(state) /\ graph' = In(graph)

RecordOne(u, new) ==
  state' = [state EXCEPT ![u] = new] /\ graph' = [graph EXCEPT ![u] = new]

\* record_dependency_ready for one Blocked unit.
Activate(u) ==
  /\ Running
  /\ u \in Activatable
  /\ RecordOne(u, "Ready")
  /\ UNCHANGED <<scenario, witness, attempts, retries, pending, failedChild, candidates, ending, schedVars>>

\* The scheduler refuses an event before its clock or with a used key.
Refused(events, time) == Logical /\ \E e \in events : e \in used \/ e.time < time

\* A batch is leased and started, and in a logical run each completion is
\* scheduled.
Begin(batch, work) ==
  LET items  == {Execution(u, work[u]) : u \in batch}
      events == {i.event : i \in items}
  IN  /\ \A u \in batch \ Children : work[u].outcome # "found"
      /\ Record([u \in batch |-> "Processing"])
      /\ attempts' = [u \in Units |-> IF u \in batch THEN attempts[u] + 1 ELSE attempts[u]]
      /\ pending' = pending \cup items
      /\ queue' = IF Logical THEN queue \cup events ELSE queue
      /\ used'  = IF Logical THEN used \cup events ELSE used
      /\ ending' = IF Refused(events, clock) THEN "raised" ELSE "running"

\* As many Ready units as there are slots are put to work.
Dispatch ==
  /\ Running /\ Activatable = {}
  /\ ShouldDispatch
  /\ \E batch \in kSubset(Min({Slots, Cardinality(ReadyUnits)}), ReadyUnits) :
       \E work \in [batch -> [outcome : scenario.outcomes, latency : scenario.latencies]] :
         Begin(batch, work)
  /\ UNCHANGED <<scenario, witness, retries, failedChild, candidates, clock>>

\* The next result: the scheduler's first event, or any of an online batch.
Taken(i) ==
  /\ Running /\ Activatable = {} /\ ~ShouldDispatch
  /\ Logical => Sched!IsNext(i.event)

\* i is taken and nothing follows it.
Consume(i) ==
  /\ pending' = pending \ {i}
  /\ IF Logical THEN Sched!Pop(i.event) ELSE UNCHANGED <<queue, clock>>
  /\ UNCHANGED used

\* Mutant: the control event is scheduled and not kept.
FollowUnkept(i, kind, u, n) ==
  LET e == Event(i.event.time, kind, u, n)
  IN  /\ pending' = pending \ {i}
      /\ clock' = i.event.time
      /\ queue' = (queue \ {i.event}) \cup {e}
      /\ used' = used \cup {e}
      /\ UNCHANGED ending

\* Mutant: the execution stays in the list beside its control event.
FollowBeside(i, kind, u, n) ==
  LET e == Event(i.event.time, kind, u, n)
      next == [i EXCEPT !.kind = kind, !.unit = u, !.ordinal = n, !.event = e]
  IN  /\ pending' = pending \cup {next}
      /\ clock' = i.event.time
      /\ queue' = (queue \ {i.event}) \cup {e}
      /\ used' = used \cup {e}
      /\ UNCHANGED ending

\* Mutant: the requeue keeps the graph from before its recovery.
FollowWithOldGraph(i, kind, u, n) ==
  LET e == Event(i.event.time, kind, u, n)
      next == [i EXCEPT !.kind = kind, !.unit = u, !.ordinal = n,
                        !.outcome = Seen(i), !.event = e,
                        !.graph = IF kind = "requeue" THEN graph ELSE None]
  IN  /\ pending' = (pending \ {i}) \cup {next}
      /\ clock' = i.event.time
      /\ queue' = (queue \ {i.event}) \cup {e}
      /\ used' = used \cup {e}
      /\ ending' = IF Refused({e}, i.event.time) THEN "raised" ELSE "running"

\* i is taken and a control event follows at the same instant.  A requeue keeps
\* the graph of its recovery.
Follow(i, kind, u, n) ==
  LET e == Event(i.event.time, kind, u, n)
      next == [i EXCEPT !.kind = kind, !.unit = u, !.ordinal = n,
                        !.outcome = Seen(i), !.event = e,
                        !.graph = IF kind = "requeue" THEN graph' ELSE None]
  IN  /\ pending' = (pending \ {i}) \cup {next}
      /\ clock' = i.event.time
      /\ queue' = (queue \ {i.event}) \cup {e}
      /\ used' = used \cup {e}
      /\ ending' = IF Refused({e}, i.event.time) THEN "raised" ELSE "running"

\* A child's output is bound and its CompleteAction recorded.
CompleteChild(i) ==
  /\ Taken(i) /\ i.kind = "execution" /\ Seen(i) \in Successes
  /\ i.unit \in Children
  /\ RecordOne(i.unit, "Completed")
  /\ witness' = IF i.outcome = "found" THEN witness \cup {i.unit} ELSE witness
  /\ Consume(i)
  /\ UNCHANGED <<scenario, attempts, retries, failedChild, candidates, ending>>

\* The root answers by itself: completed and settled.
CompleteRoot(i) ==
  /\ Taken(i) /\ i.kind = "execution" /\ Seen(i) \in Successes
  /\ i.unit = Root
  /\ RecordOne(Root, "Completed")
  /\ ending' = "settled"
  /\ Consume(i)
  /\ UNCHANGED <<scenario, witness, attempts, retries, failedChild, candidates>>

\* The root expands; it stays Processing until its outputs resolve.
ExpandRoot(i) ==
  /\ Taken(i) /\ i.kind = "execution" /\ Seen(i) \in Successes
  /\ i.unit = Root
  /\ Record([u \in scenario.split |-> IF Needs[u] = {} THEN "Ready" ELSE "Blocked"])
  /\ Consume(i)
  /\ UNCHANGED <<scenario, witness, attempts, retries, failedChild, candidates, ending>>

\* _unscheduled_descendants, before i is taken.
Unscheduled(i) ==
  {u \in Units \ {Root} : /\ graph[u] \in {"Ready", "Blocked"}
                          /\ \A j \in Executions \ {i} : j.unit # u}

\* Mutant: a logical run settles at once too.
CompleteMergeUnpruned(i) ==
  /\ Taken(i) /\ i.kind = "execution" /\ Seen(i) \in Successes
  /\ i.unit = Merge
  /\ RecordOne(Root, "Completed")
  /\ Consume(i)
  /\ ending' = "settled"
  /\ UNCHANGED <<scenario, witness, attempts, retries, failedChild, candidates>>

\* The merge resolves the root's outputs, the root is Completed and, unless
\* descendants are left to prune in a logical run, settled.
CompleteMerge(i) ==
  /\ Taken(i) /\ i.kind = "execution" /\ Seen(i) \in Successes
  /\ i.unit = Merge
  /\ RecordOne(Root, "Completed")
  /\ IF Logical /\ Unscheduled(i) # {}
     THEN /\ candidates' = Unscheduled(i)
          /\ Follow(i, "early_stop", Root, 0)
     ELSE /\ Consume(i)
          /\ ending' = "settled"
          /\ UNCHANGED candidates
  /\ UNCHANGED <<scenario, witness, attempts, retries, failedChild>>

\* The checker could not run: the run ends, whatever is pending.
InfrastructureFailure(i) ==
  /\ Taken(i) /\ i.kind = "execution" /\ Seen(i) = "infrastructure"
  /\ ending' = "infrastructure"
  /\ Consume(i)
  /\ UNCHANGED <<scenario, graphVars, retries, failedChild, candidates>>

Fails(i) == Taken(i) /\ i.kind = "execution" /\ Seen(i) \notin Successes \cup {"infrastructure"}

\* Logical runs: the recovery becomes an event of its own.
DeferRecovery(i) ==
  /\ Logical
  /\ Fails(i)
  /\ Follow(i, "retry", i.unit, i.ordinal)
  /\ UNCHANGED <<scenario, graphVars, retries, failedChild, candidates>>

\* evaluate_retry for the next recovery of u.
Verdict(u) == RetryState(retries[u] + 1)

\* Mutant: the run goes on after any failed child.
FailOnly(i) ==
  /\ failedChild' = i.unit
  /\ RecordOne(i.unit, "Failed")
  /\ ending' = IF i.unit = Root THEN "root_failed" ELSE ending

\* The retry budget is spent.  The root's own failure ends the run; a
\* descendant's fails the root with it, unless the run is to go on.
Fail(i) ==
  IF i.unit = Root
  THEN /\ RecordOne(Root, "Failed")
       /\ ending' = "root_failed"
       /\ UNCHANGED failedChild
  ELSE /\ failedChild' = i.unit
       /\ IF ContinueAfterFailure /\ i.outcome # "fatal"
          THEN /\ RecordOne(i.unit, "Failed")
               /\ UNCHANGED ending
          ELSE /\ Record([u \in {i.unit, Root} |-> "Failed"])
               /\ ending' = "parent_failed"

\* Does before_recovery_merge, or before_requeue with the policy, stop the
\* unit from being tried again?
MergeStops    == IF "recovery_merge" \in scenario.stops /\ Expanded THEN BOOLEAN ELSE {FALSE}
RequeueBlocks == IF ~scenario.replacementAllowed THEN {TRUE}
                 ELSE IF "requeue" \in scenario.stops THEN BOOLEAN ELSE {FALSE}

\* An item that is recovered in this iteration.
Recovered(i) == \/ ~Logical /\ Fails(i)
                \/ Taken(i) /\ i.kind = "retry"

\* The engine refuses the recovery, and the run raises.
Refuse(i) ==
  /\ Recovered(i) /\ ~Recoverable(i)
  /\ ending' = "raised"
  /\ Consume(i)
  /\ UNCHANGED <<scenario, graphVars, retries, failedChild, candidates>>

\* Online runs: recovery, both hooks and the requeue at once.
RecoverNow(i) ==
  /\ ~Logical
  /\ Recovered(i) /\ Recoverable(i)
  /\ retries' = [retries EXCEPT ![i.unit] = @ + 1]
  /\ \/ /\ Verdict(i.unit) = "Ready"
        /\ RecordOne(i.unit, "Ready")
        /\ \E stop \in MergeStops, blocked \in RequeueBlocks :
             ending' = IF stop \/ blocked THEN "requeue_blocked" ELSE ending
        /\ UNCHANGED failedChild
     \/ Verdict(i.unit) # "Ready" /\ Fail(i)
  /\ Consume(i)
  /\ UNCHANGED <<scenario, witness, attempts, candidates>>

\* Logical runs: the retry event is the recovery; a unit that may be tried
\* again gets a requeue event.
Retry(i) ==
  /\ Logical
  /\ Recovered(i) /\ Recoverable(i)
  /\ retries' = [retries EXCEPT ![i.unit] = @ + 1]
  /\ \/ /\ Verdict(i.unit) = "Ready"
        /\ RecordOne(i.unit, "Ready")
        /\ \E stop \in MergeStops :
             IF stop THEN ending' = "requeue_blocked" /\ Consume(i)
             ELSE Follow(i, "requeue", i.unit, i.ordinal)
        /\ UNCHANGED failedChild
     \/ Verdict(i.unit) # "Ready" /\ Fail(i) /\ Consume(i)
  /\ UNCHANGED <<scenario, witness, attempts, candidates>>

\* The unit may be tried again.  The loop goes on with the graph of the unit's
\* own recovery (_recovery_result), which does not know what others recorded
\* between that retry and this requeue.
Requeue(i) ==
  /\ Taken(i) /\ i.kind = "requeue"
  /\ \E blocked \in RequeueBlocks :
       ending' = IF blocked THEN "requeue_blocked" ELSE ending
  /\ graph' = i.graph
  /\ Consume(i)
  /\ UNCHANGED <<scenario, state, witness, attempts, retries, failedChild, candidates>>

\* record_subtree_pruning of the captured descendants, then settlement.
EarlyStop(i) ==
  /\ Taken(i) /\ i.kind = "early_stop"
  /\ Record([u \in candidates |-> "Cancelled"])
  /\ ending' = "settled"
  /\ Consume(i)
  /\ UNCHANGED <<scenario, witness, attempts, retries, failedChild, candidates>>

(***************************************************************************)
(* Nothing is pending and nothing can be dispatched.                       *)
(***************************************************************************)

Quiet == /\ Running /\ Activatable = {} /\ ~ShouldDispatch
         /\ pending = {}

\* _selected_scope_finished.
ScopeFinished ==
  /\ Expanded /\ ~WholeRoot
  /\ \A c \in Selected : graph[c] \in {"Completed", "Failed"}

EndPartial ==
  /\ Quiet /\ ScopeFinished
  /\ ending' = "partial"
  /\ UNCHANGED <<scenario, graphVars, retries, pending, failedChild, candidates, schedVars>>

\* Mutant: the merge unit does not enter the graph.
CreateMergeUnadded ==
  /\ Quiet /\ ~ScopeFinished
  /\ Expanded /\ ~MergeMade
  /\ Readiness = "ready"
  /\ UNCHANGED vars

CreateMerge ==
  /\ Quiet /\ ~ScopeFinished
  /\ Expanded /\ ~MergeMade
  /\ Readiness = "ready"
  /\ RecordOne(Merge, "Ready")
  /\ UNCHANGED <<scenario, witness, attempts, retries, pending, failedChild, candidates, ending, schedVars>>

\* before_merge bypasses a closed gate: the attempt is recorded and the run
\* ends.
PrematureMerge ==
  /\ Quiet /\ ~ScopeFinished
  /\ Expanded /\ ~MergeMade
  /\ Readiness # "ready" /\ "bypass_merge" \in scenario.stops
  /\ ending' = "premature_merge"
  /\ UNCHANGED <<scenario, graphVars, retries, pending, failedChild, candidates, schedVars>>

\* A required child failed, or the merge unit did: the root fails with the
\* child that failed last, if the graph still shows that it did.
FailParent ==
  /\ Quiet /\ ~ScopeFinished
  /\ \/ Expanded /\ ~MergeMade /\ Readiness = "failed"
     \/ MergeMade /\ failedChild # None
  /\ IF failedChild # None /\ graph[failedChild] = "Failed"
     THEN ending' = "parent_failed" /\ RecordOne(Root, "Failed")
     ELSE ending' = "raised" /\ UNCHANGED <<state, graph>>
  /\ UNCHANGED <<scenario, witness, attempts, retries, pending, failedChild, candidates, schedVars>>

\* "protocol run stalled before the root reached a terminal state".
Stall ==
  /\ Quiet /\ ~ScopeFinished
  /\ ~(Expanded /\ ~MergeMade /\ Readiness # "wait")
  /\ ~(MergeMade /\ failedChild # None)
  /\ ending' = "stalled"
  /\ UNCHANGED <<scenario, graphVars, retries, pending, failedChild, candidates, schedVars>>

\* The run has returned or raised.
Returned == ~Running /\ UNCHANGED vars

Complete == \E i \in pending : CompleteChild(i) \/ CompleteRoot(i) \/ ExpandRoot(i) \/ CompleteMerge(i)
Trouble  == \E i \in pending : InfrastructureFailure(i) \/ DeferRecovery(i) \/ RecoverNow(i) \/ Refuse(i)
Control  == \E i \in pending : Retry(i) \/ Requeue(i) \/ EarlyStop(i)
Idle     == EndPartial \/ CreateMerge \/ PrematureMerge \/ FailParent \/ Stall

Next == \/ \E u \in Units : Activate(u)
        \/ Dispatch \/ Complete \/ Trouble \/ Control \/ Idle
        \/ Returned

\* The loop is one thread and every worker call returns: backends bound a
\* worker's life, and a batch is complete before the loop goes on.
Spec == Init /\ [][Next]_vars /\ WF_vars(Next)

-----------------------------------------------------------------------------

Endings == {"running", "settled", "root_failed", "parent_failed", "requeue_blocked",
            "infrastructure", "premature_merge", "partial", "stalled", "raised"}

TaskStates == {"Absent", "Blocked", "Ready", "Processing", "Completed", "Failed", "Cancelled"}

\* The state is well typed.
TypeOK ==
  /\ scenario \in Scenarios
  /\ state \in [Units -> TaskStates]
  /\ graph \in [Units -> TaskStates]
  /\ witness \subseteq Children
  /\ attempts \in [Units -> 0..(MaxRetries + 1)]
  /\ retries \in [Units -> 0..(MaxRetries + 1)]
  /\ \A i \in pending : /\ i.unit \in Units
                         /\ i.kind \in {"execution", "retry", "requeue", "early_stop"}
                         /\ i.outcome \in AllOutcomes
  /\ failedChild \in Units \cup {None}
  /\ candidates \subseteq Units
  /\ ending \in Endings
  /\ clock \in Nat

\* The run raises in two cases only.  A parser gate that stops recovers an
\* attempt that is still Running as parser_failure, which transition_attempt
\* refuses.  And a requeue has undone in the graph the failure that the root is
\* to fail with.  Every other recovery the coordinator asks for is one the
\* engine takes, no event has a used key or lies in the past, and no root fails
\* without a failed child.
RaisesOnlyWhenStopped ==
  [][Running /\ ending' = "raised" =>
       \/ \E i \in pending : Taken(i) /\ i.outcome = "parser_stop"
       \/ failedChild # None /\ state[failedChild] = "Failed" /\ graph[failedChild] # "Failed"]_vars

\* The scheduler's queue and the coordinator's pending list hold the same
\* events, one entry for each: no popped event is unknown or ambiguous.
QueueIsPending ==
  /\ queue = IF Logical THEN {i.event : i \in pending} ELSE {}
  /\ \A i, j \in pending : Logical /\ i.event = j.event => i = j

\* At most one attempt of a unit is under way, at most Capacity attempts in
\* all, and while the run goes on a child is recorded as Processing exactly when
\* a result or a recovery of it is pending.
OneAttemptEach ==
  /\ Cardinality(Executions) <= Capacity
  /\ \A i, j \in pending : i.unit = j.unit /\ i.kind # "early_stop" => i = j
  /\ \A c \in Children : Running =>
       (state[c] = "Processing" <=> \E i \in pending : i.unit = c /\ i.kind \in {"execution", "retry"})

\* The loop's graph is the one recorded, but for children whose recovery a
\* sibling's requeue has undone: they are Processing in the graph, although they
\* have failed for good or, until a requeue of their own, may be tried again.
GraphFollowsLedger ==
  \A u \in Units :
    \/ graph[u] = state[u]
    \/ /\ Logical /\ u \in Children /\ graph[u] = "Processing"
       /\ \/ state[u] = "Failed" /\ ContinueAfterFailure
          \/ state[u] = "Ready" /\ (Running => \E i \in pending : i.kind = "requeue" /\ i.unit = u)

\* The places that say what is under way agree after any number of deferrals,
\* retries and hooks: the scheduler's queue, the pending list, the slots, the
\* ledger and, up to what a requeue undoes, the graph (coordinator.py:505, :726,
\* :897).
ListsAgree == TypeOK /\ QueueIsPending /\ OneAttemptEach /\ GraphFollowsLedger

\* Attempts and recoveries match: a unit fails only with its whole budget
\* used, and it is never tried more often than its recoveries account for.
AttemptsMatchRecoveries ==
  \A u \in Units :
    /\ state[u] = "Ready" \/ (state[u] = "Failed" /\ retries[u] > MaxRetries)
         => attempts[u] = retries[u]
    /\ state[u] \in {"Processing", "Completed"} => attempts[u] = retries[u] + 1
    /\ state[u] = "Failed" /\ u # Root => retries[u] = MaxRetries + 1

\* Once the merge unit exists the root's result depends on it alone: no other
\* attempt is under way and none is ever begun.
MergeIsAlone ==
  MergeMade => \A i \in pending : i.unit \in {Merge, Root}

\* An attempt is made only where one is due (coordinator.py:1822, :471).
AttemptsAreDue == AttemptsMatchRecoveries /\ MergeIsAlone

\* A settled run leaves nothing behind: nothing pending, no child under way,
\* and in a logical run no descendant that could still be scheduled.
SettledIsClean ==
  ending = "settled" =>
    /\ state[Root] = "Completed"
    /\ pending = {}
    /\ \A c \in Children : state[c] # "Processing"
    /\ Logical => \A u \in Units \ {Root} : state[u] \notin {"Ready", "Blocked"}

\* A root that fails has a reason that cannot be undone: its own budget, or a
\* failed descendant.  When a whole root goes on after failed children, and none
\* was fatal, a verified witness is not thrown away: the root fails only if the
\* merge itself does.
FailureIsJustified ==
  state[Root] = "Failed" =>
    /\ retries[Root] = MaxRetries + 1 \/ \E u \in Units \ {Root} : state[u] = "Failed"
    /\ WholeRoot /\ ContinueAfterFailure /\ "fatal" \notin scenario.outcomes /\ Witnessed
         => state[Merge] = "Failed"

\* A run stalls only when the merge became ready before a selected scope was
\* finished, for the merge unit is in no scope and is never begun; or when a
\* child waits for one that is out of the scope, or that failed and fills no
\* required slot; or when a sibling's requeue has undone the failure of a child
\* in the graph of a logical run.
StallIsExplained ==
  ending = "stalled" =>
    \/ ~WholeRoot /\ state[Merge] = "Ready"
    \/ /\ Logical /\ ContinueAfterFailure
       /\ \E c \in Children : graph[c] = "Processing" /\ state[c] = "Failed"
    \/ \E c \in Children : /\ state[c] = "Blocked"
                          /\ \E n \in Needs[c] : \/ ~WholeRoot /\ n \notin Selected
                                                 \/ state[n] = "Failed" /\ n \notin Required

\* However results, failures and deferred events interleave, the way a run ends
\* is what became of its units (coordinator.py:905, :1028, :1365).
EndingsAreEarned == SettledIsClean /\ FailureIsJustified /\ StallIsExplained

\* Without continue_after_terminal_child_failure no attempt is begun once a
\* descendant has failed for good, and no result is bound any more.
NoWorkAfterFailure ==
  [][failedChild # None /\ ~ContinueAfterFailure
       => UNCHANGED <<attempts, witness>>
          /\ \A u \in Units : state'[u] = "Completed" => state[u] = "Completed"]_vars

\* A unit enters the graph: a child of the root's split, once, or the merge
\* unit, when nothing is under way and the plugin calls the merge ready.
Added(u) ==
  /\ state[u] = "Absent" /\ state[Root] = "Processing"
  /\ \/ /\ u \in scenario.split /\ \A v \in Units \ {Root} : state[v] = "Absent"
        /\ state'[u] = IF Needs[u] = {} THEN "Ready" ELSE "Blocked"
     \/ /\ u = Merge /\ state'[u] = "Ready"
        /\ Expanded /\ Readiness = "ready" /\ pending = {}

Unblocked(u) ==
  /\ u \in Children /\ state[u] = "Blocked" /\ state'[u] = "Ready"
  /\ ~MergeMade /\ \A n \in Needs[u] : state[n] = "Completed"

\* The root is at work as long as anything below it is.
Begun(u) ==
  /\ state[u] = "Ready" /\ state'[u] = "Processing"
  /\ state[Root] = IF u = Root THEN "Ready" ELSE "Processing"
  /\ MergeMade => u = Merge
  /\ attempts'[u] = attempts[u] + 1

GivenBack(u) ==
  /\ state[u] = "Processing" /\ state'[u] = "Ready"
  /\ retries'[u] = retries[u] + 1 /\ retries'[u] <= MaxRetries

\* The root completes on its own, with no unit below it, or by the merge.
Concluded(u) ==
  /\ state[u] = "Processing" /\ state'[u] = "Completed"
  /\ IF u = Root
     THEN state[Merge] = "Processing" \/ \A v \in Units \ {Root} : state[v] = "Absent"
     ELSE state[Root] = "Processing"

\* A unit fails for its spent budget, the root for a failed descendant too.
Abandoned(u) ==
  /\ state[u] = "Processing" /\ state'[u] = "Failed"
  /\ \/ retries[u] = MaxRetries /\ retries'[u] = MaxRetries + 1
     \/ u = Root /\ \E v \in Units \ {Root} : state'[v] = "Failed"

Pruned(u) ==
  /\ u # Root /\ state[Root] = "Completed"
  /\ state[u] \in {"Ready", "Blocked"} /\ state'[u] = "Cancelled"

\* Whatever the loop has recorded of a unit is what the engine takes from a
\* caller that passes the latest snapshots in order: nothing is begun, bound,
\* failed or pruned twice or too early, and a final state is never left.  A unit
\* that a requeue has put back in the graph is not recorded again before the
\* graph shows its recorded state (protocol_engine.py:1238, :1323, :1555).
UnitsMoveLegally ==
  [][\A u \in Units :
       \/ state'[u] = state[u]
       \/ /\ graph[u] = state[u] /\ graph'[u] = state'[u]
          /\ \/ Added(u) \/ Unblocked(u) \/ Begun(u) \/ GivenBack(u)
             \/ Concluded(u) \/ Abandoned(u) \/ Pruned(u)]_vars

\* A failure is the end of its branch and never of the loop, whichever of the
\* results, recoveries and hooks comes first, and no step asks the engine for
\* a change that it refuses (coordinator.py:905, :2155).
StepsAreOrderly == RaisesOnlyWhenStopped /\ NoWorkAfterFailure /\ UnitsMoveLegally

\* Every run ends.
Terminates == <>(~Running)
=============================================================================
