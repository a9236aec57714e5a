----------------------------- MODULE TaskGraph -----------------------------
(***************************************************************************)
(* The graph operations of src/src/tokenshare/protocol_engine.py and       *)
(* core/: the expansion of a root into children, the merge task, the       *)
(* resolution of the root's outputs, its completion or failure, the        *)
(* pruning of what is left and the settlement of the root budget.          *)
(*                                                                         *)
(* Each operation validates what the ledger holds, then appends one batch. *)
(* The process may die inside the batch (it is then "Cut": a proper prefix *)
(* stays in the ledger and every later call about it raises), and for two  *)
(* operations also after the artifact they save first.  A batch that is    *)
(* there already is returned unchanged, so only first calls are actions.   *)
(*                                                                         *)
(* Snapshots of units come from the caller.  The local coordinator passes  *)
(* the latest one and calls in a certain order; a stray call passes an     *)
(* older snapshot or comes out of that order.  The work on one unit        *)
(* (ProtocolEngine) is reduced to dispatch, binding, completion and        *)
(* recovery, and the model starts when the root's own work is canonical.   *)
(***************************************************************************)
EXTENDS Integers, FiniteSets, FiniteSetsExt, Functions

CONSTANTS
  Children,       \* logical keys a proposal declares
  MaxTotalUnits,  \* ProtocolConfig.max_total_units
  RootBudget,     \* units of reward the root pays
  MaxCrashes,     \* bound of the crashes
  MaxStrays       \* bound of the stray calls

GraphAssumption ==
  /\ IsFiniteSet(Children)
  /\ "root" \notin Children /\ "merge" \notin Children
  /\ MaxTotalUnits \in Nat /\ RootBudget \in Nat
  /\ MaxCrashes \in Nat /\ MaxStrays \in Nat

Nodes    == Children \cup {"root", "merge"}
States   == {"Absent", "Blocked", "Ready", "Processing", "Completed", "Failed", "Cancelled"}
Terminal == {"Completed", "Failed", "Cancelled"}
Batches  == {"expansion", "link", "resolution", "completion", "pruning", "settlement"}

\* What a decomposition proposal says of the children: those each one depends
\* on, and those its merge plan requires.  A proposal declares a merge slot.
Dependencies == [Children -> SUBSET Children]
MergeSlots   == (SUBSET Children) \ {{}}
Proposals    == [needs : Dependencies, slots : MergeSlots]

VARIABLES
  proposal,      \* the proposal of the split strategy
  crashes,       \* crashes so far
  strays,        \* stray calls so far
  node,          \* unit -> state of its latest snapshot
  nodeLog,       \* unit -> states of all its snapshots
  live,          \* units with an attempt that may still submit
  bound,     \* units with CANONICAL_OUTPUTS_BOUND
  decided,       \* unit -> action of its EXPANSION_DECISION_RECORDED
  batch,         \* batch -> "None", "Cut" or "Done"
  selected,      \* what the merge input bundle, once saved, binds
  entries,       \* have the settlement entries been saved?
  terminal,      \* units whose work has its terminal event
  inTime,        \* terminal when the root's Completed event was recorded
  contribution,  \* unit -> state of its contribution
  paid           \* unit -> reward of the settlement record

graphVars == <<node, nodeLog>>
payVars   == <<contribution, paid, entries>>
rootVars == <<proposal, crashes, strays, graphVars, live, bound, decided, batch,
          selected, terminal, inTime, payVars>>

(***************************************************************************)
(* What the operations share.                                              *)
(***************************************************************************)

\* A call in the order of the local coordinator, or a stray one.
Trust(regular) ==
  \/ regular /\ UNCHANGED strays
  \/ ~regular /\ strays < MaxStrays /\ strays' = strays + 1

\* The caller passes a snapshot of unit u in this state.
Passes(u, state) == state \in nodeLog[u] /\ Trust(node[u] = state)

\* A new snapshot of each unit in the domain of new.
RecordUnits(new) ==
  /\ node' = [u \in Nodes |-> IF u \in DOMAIN new THEN new[u] ELSE node[u]]
  /\ nodeLog' = [u \in Nodes |-> IF u \in DOMAIN new THEN nodeLog[u] \cup {new[u]} ELSE nodeLog[u]]

Whole(b) == batch' = [batch EXCEPT ![b] = "Done"] /\ UNCHANGED crashes

Cut(b) ==
  /\ crashes < MaxCrashes
  /\ crashes' = crashes + 1
  /\ batch' = [batch EXCEPT ![b] = "Cut"]

\* The depth first search of _validate_acyclic: a key met again while it is
\* being visited closes a cycle.
Acyclic ==
  LET meets[visiting \in SUBSET Children, key \in Children] ==
        \/ key \in visiting
        \/ \E next \in proposal.needs[key] : meets[visiting \cup {key}, next]
  IN \A key \in Children : ~meets[{}, key]

\* validate_decomposition_proposal_limits: the root and the children, and no
\* room for the merge unit.
WithinLimits == 1 + Cardinality(Children) <= MaxTotalUnits

\* derive_child_initial_state.
InitialState(c) == IF proposal.needs[c] = {} THEN "Ready" ELSE "Blocked"

\* _dependencies_are_satisfied.
DependenciesSatisfied(c) == proposal.needs[c] \subseteq bound

\* The root has a Completed snapshot: its own work at least was in time.
RootCompleted == inTime # {}

GraphInit ==
  /\ proposal \in Proposals
  /\ crashes = 0 /\ strays = 0
  /\ node = [u \in Nodes |-> IF u = "root" THEN "Processing" ELSE "Absent"]
  /\ nodeLog = [u \in Nodes |-> IF u = "root" THEN {"Processing"} ELSE {}]
  /\ live = {} /\ bound = {"root"}
  /\ terminal = {} /\ inTime = {}
  /\ decided = [u \in Nodes |-> "none"]
  /\ batch = [b \in Batches |-> "None"]
  /\ selected = {} /\ entries = FALSE
  /\ contribution = [u \in Nodes |-> "None"]
  /\ paid = [u \in Nodes |-> 0]

(***************************************************************************)
(* The work on one unit.                                                   *)
(***************************************************************************)

\* schedule_ready_unit: a unit with an active lease is passed over.
StartWork(u) ==
  /\ Passes(u, "Ready")
  /\ u \notin live
  /\ live' = live \cup {u}
  /\ RecordUnits([v \in {u} |-> "Processing"])
  /\ UNCHANGED <<proposal, crashes, bound, decided, batch, selected,
                 terminal, inTime, payVars>>

\* bind_canonical_outputs looks at submissions and reports, not at the state of the
\* unit: a late result of a cancelled unit is bound too.
BindWork(u) ==
  /\ u \in live
  /\ u \notin bound
  /\ live' = live \ {u}
  /\ bound' = bound \cup {u}
  /\ UNCHANGED <<strays, proposal, crashes, graphVars, decided, batch, selected,
                 terminal, inTime, payVars>>

\* record_recovery_decision: another one, or none.
RecoverWork(u) ==
  /\ u \in live
  /\ node[u] = "Processing"
  /\ live' = live \ {u}
  /\ \E state \in {"Ready", "Failed"} : RecordUnits([v \in {u} |-> state])
  /\ UNCHANGED <<strays, proposal, crashes, bound, decided, batch, selected,
                 terminal, inTime, payVars>>

\* record_complete_decision: decision and Completed snapshot in one batch; a
\* cut leaves the decision.
CompleteWork(u) ==
  /\ u # "merge"
  /\ Passes(u, "Processing")
  /\ u \in bound
  /\ decided[u] = "none"
  /\ decided' = [decided EXCEPT ![u] = "complete"]
  /\ \/ /\ RecordUnits([v \in {u} |-> "Completed"])
        /\ terminal' = terminal \cup {u}
        /\ inTime' = IF u = "root" THEN terminal' ELSE inTime
        /\ UNCHANGED crashes
     \/ /\ crashes < MaxCrashes
        /\ crashes' = crashes + 1
        /\ UNCHANGED <<graphVars, terminal, inTime>>
  /\ UNCHANGED <<proposal, live, bound, batch, selected, payVars>>

(***************************************************************************)
(* Expansion, dependencies and failure.                                    *)
(***************************************************************************)

\* The root's work is canonical and no other decision stands.
Undecided == "root" \in bound /\ decided["root"] = "none"

\* The documents agree with each other and with the limits.
Expandable == batch["expansion"] = "None" /\ Acyclic /\ WithinLimits

\* One batch: proposal, decision, merge plan, children, relations and
\* TASK_EXPANDED.  The units of a cut batch are in no graph a caller has.
ExpansionBatch ==
  \/ /\ Whole("expansion")
     /\ decided' = [decided EXCEPT !["root"] = "expand"]
     /\ terminal' = terminal \cup {"root"}
     /\ RecordUnits([c \in Children |-> InitialState(c)])
  \/ /\ Cut("expansion")
     /\ \E reached \in {"none", "expand"} : decided' = [decided EXCEPT !["root"] = reached]
     /\ UNCHANGED <<graphVars, terminal>>

RecordExpandDecision ==
  /\ Passes("root", "Processing")
  /\ Undecided /\ Expandable
  /\ ExpansionBatch
  /\ UNCHANGED <<proposal, live, bound, selected, inTime, payVars>>

RecordDependencyReady(c) ==
  /\ Passes(c, "Blocked")
  /\ DependenciesSatisfied(c)
  /\ RecordUnits([v \in {c} |-> "Ready"])
  /\ UNCHANGED <<proposal, crashes, live, bound, decided, batch, selected,
                 terminal, inTime, payVars>>

\* Mutant: a failed child fails the root whatever state the root is in.
RecordParentFailureAnyState ==
  /\ \E c \in Nodes \ {"root"} : node[c] = "Failed"
  /\ RecordUnits([v \in {"root"} |-> "Failed"])
  /\ UNCHANGED <<strays, proposal, crashes, live, bound, decided, batch, selected,
                 terminal, inTime, payVars>>

\* The merge unit is a child of the root, too.
RecordParentFailure ==
  /\ "Processing" \in nodeLog["root"]
  /\ \E c \in Nodes \ {"root"} :
       "Failed" \in nodeLog[c] /\ Trust(node["root"] = "Processing" /\ node[c] = "Failed")
  /\ RecordUnits([v \in {"root"} |-> "Failed"])
  /\ UNCHANGED <<proposal, crashes, live, bound, decided, batch, selected,
                 terminal, inTime, payVars>>

(***************************************************************************)
(* The merge task and what it resolves.                                    *)
(***************************************************************************)

\* The children a merge may bind: all the slots ask for, or those a readiness
\* decision selects among them.
Bindable == {choice \in SUBSET proposal.slots : choice # {} /\ choice \subseteq bound}

\* The bundle is saved first: a second bundle of the plan must have the same
\* children and the same created_at.
StageBundle(choice) == selected \subseteq {choice} /\ selected' = {choice}

\* One batch: merge unit and link.  The crash may come before it.
LinkBatch ==
  \/ Whole("link") /\ RecordUnits([v \in {"merge"} |-> "Ready"])
  \/ Cut("link") /\ UNCHANGED graphVars
  \/ /\ crashes < MaxCrashes
     /\ crashes' = crashes + 1
     /\ UNCHANGED <<graphVars, batch>>

CreateReadyMergeTasks ==
  /\ batch["expansion"] = "Done" /\ batch["link"] = "None"
  /\ \E choice \in Bindable : StageBundle(choice)
  /\ LinkBatch
  /\ UNCHANGED <<strays, proposal, live, bound, decided, terminal, inTime, payVars>>

\* The merge record names a whole link and the canonical merge unit.
Resolvable == batch["link"] = "Done" /\ "merge" \in bound

\* MERGE_RECORDED, the terminal event of the merge, and one
\* EXPECTED_OUTPUT_RESOLVED for each merge_plan_output.
ResolutionBatch ==
  \/ Whole("resolution") /\ terminal' = terminal \cup {"merge"}
  \/ Cut("resolution") /\ UNCHANGED terminal

RecordMergeResolution ==
  /\ batch["resolution"] = "None"
  /\ Resolvable
  /\ ResolutionBatch
  /\ UNCHANGED <<strays, proposal, graphVars, live, bound, decided, selected, inTime, payVars>>

\* Mutant: any recorded resolution counts, also one of an incomplete batch.
ResolvedAny == batch["resolution"] # "None"

\* _recorded_expected_output_resolutions: only complete batches count.
Resolved == batch["resolution"] = "Done"

\* Mutant: all contributions of an expanded task wait for the completion.
FirstStateAllPending(u) == IF decided["root"] = "expand" THEN "Pending" ELSE "Eligible"

\* The expanded root waits for its completion.
FirstState(u) == IF u = "root" /\ decided["root"] = "expand" THEN "Pending" ELSE "Eligible"

\* What a complete batch with a terminal event earns its unit.
Earned == {u \in terminal : contribution[u] = "None"}

\* record_canonical_contributions: an append for each complete batch given,
\* and a crash between two of them.  The local coordinator gives all it has,
\* once the root is resolved or has completed on its own.
RecordCanonicalContributions ==
  \E given \in SUBSET Earned :
    /\ given # {}
    /\ \/ Trust(given = Earned /\ (Resolved \/ RootCompleted)) /\ UNCHANGED crashes
       \/ Resolved /\ crashes < MaxCrashes /\ crashes' = crashes + 1 /\ UNCHANGED strays
    /\ contribution' = [u \in Nodes |-> IF u \in given THEN FirstState(u) ELSE contribution[u]]
    /\ UNCHANGED <<proposal, graphVars, live, bound, decided, batch, selected,
                   terminal, inTime, entries, paid>>

\* The expansion's contribution is there and waits.
Awaited == contribution["root"] = "Pending"

\* Completed snapshot and Eligible contribution; a cut leaves the former.
CompletionBatch ==
  /\ RecordUnits([v \in {"root"} |-> "Completed"])
  /\ \/ /\ Whole("completion")
        /\ contribution' = [contribution EXCEPT !["root"] = "Eligible"]
     \/ Cut("completion") /\ UNCHANGED contribution

\* The refs come from the caller: the local coordinator passes all of the
\* expansion, another one may leave out what no merge resolves.  It records the
\* contributions first.
RecordParentCompletion ==
  /\ batch["completion"] = "None"
  /\ Resolved /\ Awaited
  /\ "Processing" \in nodeLog["root"]
  /\ Trust(node["root"] = "Processing" /\ \A u \in terminal : contribution[u] # "None")
  /\ CompletionBatch
  /\ inTime' = terminal
  /\ UNCHANGED <<proposal, live, bound, decided, selected, terminal, entries, paid>>

(***************************************************************************)
(* Pruning and settlement.                                                 *)
(***************************************************************************)

CancellableStates == {"Ready", "Processing", "Blocked"}

\* _subtree_pruning_candidates.
Cancellable ==
  {u \in Nodes \ {"root"} :
     /\ CancellableStates \cap nodeLog[u] # {}
     /\ u \notin bound
     /\ contribution[u] # "Settled"}

\* A pruning that is there already is returned, or refused if it is cut.
Unpruned == batch["pruning"] = "None"

\* Cancelled snapshots, then SUBTREE_PRUNED; a cut leaves some of the former.
PruningBatch(gone) ==
  /\ RecordUnits([v \in gone |-> "Cancelled"])
  /\ Whole("pruning") \/ Cut("pruning")

RecordSubtreePruning ==
  /\ RootCompleted /\ Unpruned
  /\ \E gone \in SUBSET Cancellable :
       /\ gone # {}
       /\ Trust(\A u \in gone : node[u] \in CancellableStates)
       /\ PruningBatch(gone)
  /\ UNCHANGED <<proposal, live, bound, decided, selected, terminal, inTime, payVars>>

\* Mutant: work that ended after the root completed is paid as well.
PayableLate == {u \in Nodes : contribution[u] = "Eligible"}

\* _eligible_contributions_from_ledger: Eligible, and the work ended before
\* the root completed.
Payable == {u \in Nodes : contribution[u] = "Eligible" /\ u \in inTime}

\* Mutant: the remainder is rounded up for one contribution too many.
SharesRoundedUp(payees) ==
  LET base == RootBudget \div Cardinality(payees)
  IN {[u \in Nodes |-> IF u \in payees THEN base + (IF u \in first THEN 1 ELSE 0) ELSE 0] :
        first \in {f \in SUBSET payees : Cardinality(f) = (RootBudget % Cardinality(payees)) + 1}}

\* build_sandbox_equal_weight_settlement_entries: equal weights, and one more
\* for the first of the list until the remainder is used up.  The order is
\* that of the contribution ids.
Shares(payees) ==
  LET base == RootBudget \div Cardinality(payees)
  IN {[u \in Nodes |-> IF u \in payees THEN base + (IF u \in first THEN 1 ELSE 0) ELSE 0] :
        first \in {f \in SUBSET payees : Cardinality(f) = RootBudget % Cardinality(payees)}}

\* A settlement that is there already is returned, or refused if it is cut.
Unsettled == batch["settlement"] = "None"

Settle(payees) == [u \in Nodes |-> IF u \in payees THEN "Settled" ELSE contribution[u]]

\* One batch: Settled contributions, SETTLEMENT_RECORDED.  A cut leaves some of
\* the former; the crash may also come before the batch.
SettlementBatch ==
  \/ /\ Whole("settlement")
     /\ contribution' = Settle(Payable)
     /\ paid' \in Shares(Payable)
  \/ /\ Cut("settlement")
     /\ \E reached \in (SUBSET Payable) \ {{}} : contribution' = Settle(reached)
     /\ UNCHANGED paid
  \/ /\ crashes < MaxCrashes
     /\ crashes' = crashes + 1
     /\ UNCHANGED <<batch, contribution, paid>>

\* The entries are saved first, and saved again only with the same created_at.
RecordRootSettlement ==
  /\ RootCompleted /\ Unsettled
  /\ Payable # {}
  /\ entries' = TRUE
  /\ SettlementBatch
  /\ UNCHANGED <<strays, proposal, graphVars, live, bound, decided, selected, terminal, inTime>>

GraphNext ==
  \/ \E u \in Nodes : StartWork(u)
  \/ \E u \in Nodes : BindWork(u)
  \/ \E u \in Nodes : RecoverWork(u)
  \/ \E u \in Nodes : CompleteWork(u)
  \/ RecordExpandDecision
  \/ \E c \in Children : RecordDependencyReady(c)
  \/ RecordParentFailure
  \/ CreateReadyMergeTasks
  \/ RecordMergeResolution
  \/ RecordCanonicalContributions
  \/ RecordParentCompletion
  \/ RecordSubtreePruning
  \/ RecordRootSettlement

GraphSpec == GraphInit /\ [][GraphNext]_rootVars

-----------------------------------------------------------------------------

\* What the ledger says of the graph is well typed; a stray or crash bound is
\* never passed.
GraphTypes ==
  /\ proposal \in Proposals
  /\ crashes \in 0..MaxCrashes /\ strays \in 0..MaxStrays
  /\ node \in [Nodes -> States] /\ nodeLog \in [Nodes -> SUBSET States]
  /\ live \subseteq Nodes /\ bound \subseteq Nodes
  /\ decided \in [Nodes -> {"none", "complete", "expand"}]
  /\ batch \in [Batches -> {"None", "Cut", "Done"}]
  /\ selected \subseteq SUBSET Children
  /\ entries \in BOOLEAN
  /\ inTime \subseteq Nodes /\ terminal \subseteq Nodes
  /\ contribution \in [Nodes -> {"None", "Pending", "Eligible", "Settled"}]
  /\ paid \in [Nodes -> Nat]

\* A root completed by its merge (protocol_engine.py:1170), whatever its
\* callers passed: every step up to it is recorded whole, no cut batch stands
\* for one, the merge unit and all the children its link binds have canonical
\* outputs, and the link binds only children of merge slots.
ParentRestsOnMerge ==
  batch["completion"] # "None" =>
    /\ \A b \in {"expansion", "link", "resolution"} : batch[b] = "Done"
    /\ "merge" \in bound
    /\ \E choice \in selected :
         choice # {} /\ choice \subseteq bound \cap proposal.slots

\* Work of a unit that was pruned is never paid, though its result may still
\* arrive, be bound (the binding ignores the state of the unit) and even be
\* completed by a stray caller: a pruned unit had no canonical output when the
\* root completed (protocol_engine.py:4410 against :3895).
CancelledNeverPaid ==
  \A u \in Nodes : "Cancelled" \in nodeLog[u] => contribution[u] # "Settled" /\ paid[u] = 0

\* Without stray calls all work that ended before the root completed is paid
\* by a whole settlement, also after crashes between the appends of the
\* contributions.  The expansion itself is the exception when the crash cut
\* the completion of the root: its contribution then stays Pending.
EveryoneInTimeIsPaid ==
  strays = 0 /\ batch["settlement"] = "Done" =>
    \A u \in inTime :
      \/ contribution[u] = "Settled"
      \/ u = "root" /\ batch["completion"] = "Cut"

\* Work is paid for exactly when it counted for the root.
PaysWhatCounted == CancelledNeverPaid /\ EveryoneInTimeIsPaid

\* With the callers of the local coordinator a final unit state is final: no
\* operation revives a cancelled unit, completes a failed root or fails a
\* completed one, in whatever order failures, late results, pruning and
\* completion come.
TerminalIsFinal ==
  [][strays' = 0 => \A u \in Nodes : node[u] \in Terminal => node'[u] = node[u]]_rootVars

\* The operations implement RootAccount, for all callers: a cut batch is no
\* step, but for the Completed snapshot of the root.
Stage ==
  CASE batch["settlement"] = "Done" -> "settled"
    [] RootCompleted /\ batch["settlement"] # "Done" -> "completed"
    [] ~RootCompleted /\ batch["resolution"] = "Done" -> "resolved"
    [] ~RootCompleted /\ batch["resolution"] # "Done" /\ batch["expansion"] = "Done" -> "expanded"
    [] OTHER -> "open"

Account == INSTANCE RootAccount WITH Units <- Nodes, stage <- Stage, paid <- paid

\* See RootAccount: order of the stages, one payment, a fair division of the
\* whole budget (core/contribution.py:381).
KeepsAccount == Account!Spec
=============================================================================
