-------------------------- MODULE TaskGraphProofs --------------------------
(***************************************************************************)
(* The graph operations keep their order, a root completed by its merge    *)
(* rests on whole batches, what was pruned is never paid and what was in   *)
(* time always is, a final state is final, and the operations implement    *)
(* the account of the root: for any set of children, any budgets and any   *)
(* number of crashes and stray calls.                                      *)
(***************************************************************************)
EXTENDS TaskGraph, TLAPS, FiniteSetTheorems

\* Every batch builds on a whole one, and an expanded root is decided.
Ordered ==
  /\ batch["expansion"] = "Done" => decided["root"] = "expand"
  /\ batch["link"] # "None" => batch["expansion"] = "Done"
  /\ batch["resolution"] # "None" => batch["link"] = "Done"
  /\ batch["completion"] # "None" => batch["resolution"] = "Done"

\* Nothing happens to a unit before its batch is whole.
Unborn ==
  /\ batch["expansion"] # "Done" => \A c \in Children : node[c] = "Absent" /\ nodeLog[c] = {}
  /\ batch["link"] # "Done" => node["merge"] = "Absent" /\ nodeLog["merge"] = {}

\* Work that ended has canonical outputs, and so has what a bundle binds.
Backed ==
  /\ "root" \in bound
  /\ inTime \subseteq terminal /\ terminal \subseteq bound
  /\ terminal # {} => batch["expansion"] = "Done" \/ terminal = {"root"}
  /\ batch["resolution"] # "None" => "merge" \in bound
  /\ batch["resolution"] = "Done" => "merge" \in terminal
  /\ \A choice \in selected : choice # {} /\ choice \subseteq bound \cap proposal.slots
  /\ batch["link"] # "None" => selected # {}

\* The root completes once, on one of two ways, before anything is pruned.
Counted ==
  /\ inTime # {} => decided["root"] = "complete" \/ batch["completion"] # "None"
  /\ decided["root"] = "complete" => inTime \subseteq {"root"}
  /\ \A u \in Nodes : "Cancelled" \in nodeLog[u] => inTime # {} /\ u \notin inTime

\* Only contributions that were in time are settled, and only those are paid.
Earnest ==
  /\ \A u \in Nodes : contribution[u] = "Settled" => u \in inTime
  /\ \A u \in Nodes : paid[u] # 0 => contribution[u] = "Settled"

\* Only the expansion waits, and not for longer than the completion.
Waiting ==
  /\ \A u \in Nodes : contribution[u] = "Pending" => u = "root" /\ decided["root"] = "expand"
  /\ batch["completion"] # "None" => contribution["root"] # "None"
  /\ batch["completion"] = "Done" => contribution["root"] \in {"Eligible", "Settled"}

\* Without stray calls everyone in time has a contribution, once the root has
\* completed by its merge, and is paid by the settlement.
Timely ==
  /\ strays = 0 /\ inTime # {} =>
       decided["root"] = "complete" \/ \A u \in inTime : contribution[u] # "None"
  /\ batch["settlement"] = "Done" => inTime # {}
  /\ EveryoneInTimeIsPaid

GraphInv == GraphTypes /\ Ordered /\ Unborn /\ Backed /\ Counted /\ Earnest /\ Waiting /\ Timely

-----------------------------------------------------------------------------

\* The shares of the settlement are natural numbers, and nothing for a unit that
\* is not paid.
LEMMA SharesAreRewards ==
  ASSUME GraphAssumption, NEW payees \in SUBSET Nodes, payees # {},
         NEW pay \in Shares(payees)
  PROVE  pay \in [Nodes -> Nat] /\ \A u \in Nodes \ payees : pay[u] = 0
<1>1. IsFiniteSet(Nodes)
  <2>1. IsFiniteSet((Children \cup {"root"}) \cup {"merge"})
    BY FS_AddElement DEF GraphAssumption
  <2> QED BY <2>1 DEF Nodes
<1>2. IsFiniteSet(payees)
  BY <1>1, FS_Subset
<1>3. Cardinality(payees) \in Nat \ {0}
  BY <1>2, FS_CardinalityType, FS_EmptySet
<1>4. RootBudget \div Cardinality(payees) \in Nat
  BY <1>3 DEF GraphAssumption
<1> QED BY <1>4 DEF Shares

\* Every operation keeps the types.
LEMMA GraphTypeStep ==
  ASSUME GraphAssumption, GraphTypes, [GraphNext]_rootVars
  PROVE  GraphTypes'
<1> USE DEF rootVars, graphVars, payVars, GraphTypes, Nodes, States, Batches, GraphAssumption
<1>1. ASSUME NEW u \in Nodes, StartWork(u) PROVE GraphTypes'
  BY <1>1 DEF StartWork, Passes, Trust, RecordUnits
<1>2. ASSUME NEW u \in Nodes, BindWork(u) PROVE GraphTypes'
  BY <1>2 DEF BindWork
<1>3. ASSUME NEW u \in Nodes, RecoverWork(u) PROVE GraphTypes'
  BY <1>3 DEF RecoverWork, RecordUnits
<1>4. ASSUME NEW u \in Nodes, CompleteWork(u) PROVE GraphTypes'
  BY <1>4 DEF CompleteWork, Passes, Trust, RecordUnits
<1>5. CASE RecordExpandDecision
  <2>1. node' \in [Nodes -> States] /\ nodeLog' \in [Nodes -> SUBSET States]
    BY <1>5 DEF RecordExpandDecision, ExpansionBatch, InitialState, Whole, Cut,
       RecordUnits
  <2>2. decided' \in [Nodes -> {"none", "complete", "expand"}]
    <3>1. \E reached \in {"none", "expand"} : decided' = [decided EXCEPT !["root"] = reached]
      BY <1>5 DEF RecordExpandDecision, ExpansionBatch
    <3> QED BY <3>1
  <2>3. batch' \in [Batches -> {"None", "Cut", "Done"}] /\ crashes' \in 0..MaxCrashes
    BY <1>5 DEF RecordExpandDecision, ExpansionBatch, Whole, Cut
  <2>4. strays' \in 0..MaxStrays /\ terminal' \subseteq Nodes
    BY <1>5 DEF RecordExpandDecision, ExpansionBatch, Passes, Trust
  <2> QED BY <1>5, <2>1, <2>2, <2>3, <2>4 DEF RecordExpandDecision
<1>6. ASSUME NEW c \in Children, RecordDependencyReady(c) PROVE GraphTypes'
  BY <1>6 DEF RecordDependencyReady, Passes, Trust, RecordUnits
<1>7. CASE RecordParentFailure
  BY <1>7 DEF RecordParentFailure, Trust, RecordUnits
<1>8. CASE CreateReadyMergeTasks
  <2>1. proposal.slots \subseteq Children
    BY DEF Proposals, MergeSlots
  <2>2. selected' \subseteq SUBSET Children
    BY <1>8, <2>1 DEF CreateReadyMergeTasks, Bindable, StageBundle
  <2>3. node' \in [Nodes -> States] /\ nodeLog' \in [Nodes -> SUBSET States]
    BY <1>8 DEF CreateReadyMergeTasks, LinkBatch, RecordUnits
  <2>4. batch' \in [Batches -> {"None", "Cut", "Done"}] /\ crashes' \in 0..MaxCrashes
    BY <1>8 DEF CreateReadyMergeTasks, LinkBatch, Whole, Cut
  <2> QED BY <1>8, <2>2, <2>3, <2>4 DEF CreateReadyMergeTasks
<1>9. CASE RecordMergeResolution
  BY <1>9 DEF RecordMergeResolution, Resolvable, ResolutionBatch, Whole, Cut
<1>10. CASE RecordCanonicalContributions
  BY <1>10 DEF RecordCanonicalContributions, Earned, FirstState, Trust
<1>11. CASE RecordParentCompletion
  BY <1>11 DEF RecordParentCompletion, CompletionBatch, Awaited, Resolved, Trust,
     Whole, Cut, RecordUnits
<1>12. CASE RecordSubtreePruning
  BY <1>12 DEF RecordSubtreePruning, RootCompleted, Unpruned, Cancellable,
     CancellableStates, PruningBatch, Trust, Whole, Cut, RecordUnits
<1>13. CASE RecordRootSettlement
  <2>1. paid' \in [Nodes -> Nat]
    <3>1. Payable \in SUBSET Nodes
      BY DEF Payable
    <3> QED BY <1>13, <3>1, SharesAreRewards DEF RecordRootSettlement, SettlementBatch, Whole, Cut
  <2> QED BY <1>13, <2>1 DEF RecordRootSettlement, SettlementBatch, Settle, Whole, Cut
<1>14. CASE UNCHANGED rootVars
  BY <1>14
<1> QED
  BY <1>1, <1>2, <1>3, <1>4, <1>5, <1>6, <1>7, <1>8, <1>9, <1>10, <1>11, <1>12, <1>13,
     <1>14 DEF GraphNext

\* The order of the batches.
LEMMA OrderedStep ==
  ASSUME GraphAssumption, GraphTypes, Ordered, Backed, [GraphNext]_rootVars
  PROVE  Ordered'
<1> USE DEF rootVars, graphVars, payVars, GraphTypes, Nodes, Batches, Ordered, Backed
<1>1. ASSUME NEW u \in Nodes, StartWork(u) PROVE Ordered'
  BY <1>1 DEF StartWork, Passes, Trust, RecordUnits
<1>2. ASSUME NEW u \in Nodes, BindWork(u) PROVE Ordered'
  BY <1>2 DEF BindWork
<1>3. ASSUME NEW u \in Nodes, RecoverWork(u) PROVE Ordered'
  BY <1>3 DEF RecoverWork, RecordUnits
<1>4. ASSUME NEW u \in Nodes, CompleteWork(u) PROVE Ordered'
  BY <1>4 DEF CompleteWork, Passes, Trust, RecordUnits
<1>5. CASE RecordExpandDecision
  BY <1>5 DEF RecordExpandDecision, Passes, Trust, Undecided, Expandable,
     ExpansionBatch, InitialState, Whole, Cut, RecordUnits
<1>6. ASSUME NEW c \in Children, RecordDependencyReady(c) PROVE Ordered'
  BY <1>6 DEF RecordDependencyReady, Passes, Trust, RecordUnits
<1>7. CASE RecordParentFailure
  BY <1>7 DEF RecordParentFailure, Trust, RecordUnits
<1>8. CASE CreateReadyMergeTasks
  BY <1>8 DEF CreateReadyMergeTasks, Bindable, StageBundle, LinkBatch, Whole, Cut,
     RecordUnits
<1>9. CASE RecordMergeResolution
  BY <1>9 DEF RecordMergeResolution, Resolvable, ResolutionBatch, Whole, Cut
<1>10. CASE RecordCanonicalContributions
  BY <1>10 DEF RecordCanonicalContributions, Earned, FirstState, Trust
<1>11. CASE RecordParentCompletion
  BY <1>11 DEF RecordParentCompletion, CompletionBatch, Awaited, Resolved, Trust,
     Whole, Cut, RecordUnits
<1>12. CASE RecordSubtreePruning
  BY <1>12 DEF RecordSubtreePruning, RootCompleted, Unpruned, Cancellable,
     CancellableStates, PruningBatch, Trust, Whole, Cut, RecordUnits
<1>13. CASE RecordRootSettlement
  BY <1>13 DEF RecordRootSettlement, RootCompleted, Unsettled, SettlementBatch,
     Payable, Settle, Whole, Cut
<1>14. CASE UNCHANGED rootVars
  BY <1>14
<1> QED
  BY <1>1, <1>2, <1>3, <1>4, <1>5, <1>6, <1>7, <1>8, <1>9, <1>10, <1>11, <1>12, <1>13,
     <1>14 DEF GraphNext

\* A unit without its batch is passed to no operation.
LEMMA UnbornStep ==
  ASSUME GraphAssumption, GraphTypes, Ordered, Unborn, Backed, [GraphNext]_rootVars
  PROVE  Unborn'
<1> USE DEF rootVars, graphVars, payVars, GraphAssumption, GraphTypes, Nodes, Batches, States,
   Unborn, Ordered
<1>1. ASSUME NEW u \in Nodes, StartWork(u) PROVE Unborn'
  BY <1>1 DEF StartWork, Passes, Trust, RecordUnits
<1>2. ASSUME NEW u \in Nodes, BindWork(u) PROVE Unborn'
  BY <1>2 DEF BindWork
<1>3. ASSUME NEW u \in Nodes, RecoverWork(u) PROVE Unborn'
  BY <1>3 DEF RecoverWork, RecordUnits
<1>4. ASSUME NEW u \in Nodes, CompleteWork(u) PROVE Unborn'
  BY <1>4 DEF CompleteWork, Passes, Trust, RecordUnits
<1>5. CASE RecordExpandDecision
  BY <1>5 DEF RecordExpandDecision, Passes, Trust, Undecided, Expandable,
     ExpansionBatch, InitialState, Whole, Cut, RecordUnits
<1>6. ASSUME NEW c \in Children, RecordDependencyReady(c) PROVE Unborn'
  BY <1>6 DEF RecordDependencyReady, Passes, Trust, RecordUnits
<1>7. CASE RecordParentFailure
  BY <1>7 DEF RecordParentFailure, Trust, RecordUnits
<1>8. CASE CreateReadyMergeTasks
  BY <1>8 DEF CreateReadyMergeTasks, Bindable, StageBundle, LinkBatch, Whole, Cut,
     RecordUnits
<1>9. CASE RecordMergeResolution
  BY <1>9 DEF RecordMergeResolution, Resolvable, ResolutionBatch, Whole, Cut
<1>10. CASE RecordCanonicalContributions
  BY <1>10 DEF RecordCanonicalContributions, Earned, FirstState, Trust
<1>11. CASE RecordParentCompletion
  BY <1>11 DEF RecordParentCompletion, CompletionBatch, Awaited, Resolved, Trust,
     Whole, Cut, RecordUnits
<1>12. CASE RecordSubtreePruning
  BY <1>12 DEF RecordSubtreePruning, RootCompleted, Unpruned, Cancellable,
     CancellableStates, PruningBatch, Trust, Whole, Cut, RecordUnits
<1>13. CASE RecordRootSettlement
  BY <1>13 DEF RecordRootSettlement, RootCompleted, Unsettled, SettlementBatch,
     Payable, Settle, Whole, Cut
<1>14. CASE UNCHANGED rootVars
  BY <1>14
<1> QED
  BY <1>1, <1>2, <1>3, <1>4, <1>5, <1>6, <1>7, <1>8, <1>9, <1>10, <1>11, <1>12, <1>13,
     <1>14 DEF GraphNext

\* Canonical outputs stay, and bundles bind nothing else.
LEMMA BackedStep ==
  ASSUME GraphAssumption, GraphTypes, Ordered, Unborn, Backed, [GraphNext]_rootVars
  PROVE  Backed'
<1> USE DEF rootVars, graphVars, payVars, GraphAssumption, GraphTypes, Nodes, Batches, Backed,
   Unborn, Ordered
<1>1. ASSUME NEW u \in Nodes, StartWork(u) PROVE Backed'
  BY <1>1 DEF StartWork, Passes, Trust, RecordUnits
<1>2. ASSUME NEW u \in Nodes, BindWork(u) PROVE Backed'
  BY <1>2 DEF BindWork
<1>3. ASSUME NEW u \in Nodes, RecoverWork(u) PROVE Backed'
  BY <1>3 DEF RecoverWork, RecordUnits
<1>4. ASSUME NEW u \in Nodes, CompleteWork(u) PROVE Backed'
  BY <1>4 DEF CompleteWork, Passes, Trust, RecordUnits
<1>5. CASE RecordExpandDecision
  BY <1>5 DEF RecordExpandDecision, Passes, Trust, Undecided, Expandable,
     ExpansionBatch, InitialState, Whole, Cut, RecordUnits
<1>6. ASSUME NEW c \in Children, RecordDependencyReady(c) PROVE Backed'
  BY <1>6 DEF RecordDependencyReady, Passes, Trust, RecordUnits
<1>7. CASE RecordParentFailure
  BY <1>7 DEF RecordParentFailure, Trust, RecordUnits
<1>8. CASE CreateReadyMergeTasks
  BY <1>8 DEF CreateReadyMergeTasks, Bindable, StageBundle, LinkBatch, Whole, Cut,
     RecordUnits
<1>9. CASE RecordMergeResolution
  BY <1>9 DEF RecordMergeResolution, Resolvable, ResolutionBatch, Whole, Cut
<1>10. CASE RecordCanonicalContributions
  BY <1>10 DEF RecordCanonicalContributions, Earned, FirstState, Trust
<1>11. CASE RecordParentCompletion
  BY <1>11 DEF RecordParentCompletion, CompletionBatch, Awaited, Resolved, Trust,
     Whole, Cut, RecordUnits
<1>12. CASE RecordSubtreePruning
  BY <1>12 DEF RecordSubtreePruning, RootCompleted, Unpruned, Cancellable,
     CancellableStates, PruningBatch, Trust, Whole, Cut, RecordUnits
<1>13. CASE RecordRootSettlement
  BY <1>13 DEF RecordRootSettlement, RootCompleted, Unsettled, SettlementBatch,
     Payable, Settle, Whole, Cut
<1>14. CASE UNCHANGED rootVars
  BY <1>14
<1> QED
  BY <1>1, <1>2, <1>3, <1>4, <1>5, <1>6, <1>7, <1>8, <1>9, <1>10, <1>11, <1>12, <1>13,
     <1>14 DEF GraphNext

\* The second completion and a late pruning are refused.
LEMMA CountedStep ==
  ASSUME GraphAssumption, GraphTypes, Ordered, Unborn, Backed, Counted, [GraphNext]_rootVars
  PROVE  Counted'
<1> USE DEF rootVars, graphVars, payVars, GraphAssumption, GraphTypes, Nodes, Batches, States,
   Ordered, Backed, Counted
<1>1. ASSUME NEW u \in Nodes, StartWork(u) PROVE Counted'
  BY <1>1 DEF StartWork, Passes, Trust, RecordUnits
<1>2. ASSUME NEW u \in Nodes, BindWork(u) PROVE Counted'
  BY <1>2 DEF BindWork
<1>3. ASSUME NEW u \in Nodes, RecoverWork(u) PROVE Counted'
  BY <1>3 DEF RecoverWork, RecordUnits
<1>4. ASSUME NEW u \in Nodes, CompleteWork(u) PROVE Counted'
  BY <1>4 DEF CompleteWork, Passes, Trust, RecordUnits
<1>5. CASE RecordExpandDecision
  BY <1>5 DEF RecordExpandDecision, Passes, Trust, Undecided, Expandable,
     ExpansionBatch, InitialState, Whole, Cut, RecordUnits
<1>6. ASSUME NEW c \in Children, RecordDependencyReady(c) PROVE Counted'
  BY <1>6 DEF RecordDependencyReady, Passes, Trust, RecordUnits
<1>7. CASE RecordParentFailure
  BY <1>7 DEF RecordParentFailure, Trust, RecordUnits
<1>8. CASE CreateReadyMergeTasks
  BY <1>8 DEF CreateReadyMergeTasks, Bindable, StageBundle, LinkBatch, Whole, Cut,
     RecordUnits
<1>9. CASE RecordMergeResolution
  BY <1>9 DEF RecordMergeResolution, Resolvable, ResolutionBatch, Whole, Cut
<1>10. CASE RecordCanonicalContributions
  BY <1>10 DEF RecordCanonicalContributions, Earned, FirstState, Trust
<1>11. CASE RecordParentCompletion
  BY <1>11 DEF RecordParentCompletion, CompletionBatch, Awaited, Resolved, Trust,
     Whole, Cut, RecordUnits
<1>12. CASE RecordSubtreePruning
  BY <1>12 DEF RecordSubtreePruning, RootCompleted, Unpruned, Cancellable,
     CancellableStates, PruningBatch, Trust, Whole, Cut, RecordUnits
<1>13. CASE RecordRootSettlement
  BY <1>13 DEF RecordRootSettlement, RootCompleted, Unsettled, SettlementBatch,
     Payable, Settle, Whole, Cut
<1>14. CASE UNCHANGED rootVars
  BY <1>14
<1> QED
  BY <1>1, <1>2, <1>3, <1>4, <1>5, <1>6, <1>7, <1>8, <1>9, <1>10, <1>11, <1>12, <1>13,
     <1>14 DEF GraphNext

\* What is settled was in time; a settlement pays only what it settles.
LEMMA EarnestStep ==
  ASSUME GraphAssumption, GraphTypes, Ordered, Unborn, Backed, Counted, Earnest, [GraphNext]_rootVars
  PROVE  Earnest'
<1> USE DEF rootVars, graphVars, payVars, GraphTypes, Nodes, Batches, Ordered, Backed,
   Counted, Earnest
<1>1. ASSUME NEW u \in Nodes, StartWork(u) PROVE Earnest'
  BY <1>1 DEF StartWork, Passes, Trust, RecordUnits
<1>2. ASSUME NEW u \in Nodes, BindWork(u) PROVE Earnest'
  BY <1>2 DEF BindWork
<1>3. ASSUME NEW u \in Nodes, RecoverWork(u) PROVE Earnest'
  BY <1>3 DEF RecoverWork, RecordUnits
<1>4. ASSUME NEW u \in Nodes, CompleteWork(u) PROVE Earnest'
  BY <1>4 DEF CompleteWork, Passes, Trust, RecordUnits
<1>5. CASE RecordExpandDecision
  BY <1>5 DEF RecordExpandDecision, Passes, Trust, Undecided, Expandable,
     ExpansionBatch, InitialState, Whole, Cut, RecordUnits
<1>6. ASSUME NEW c \in Children, RecordDependencyReady(c) PROVE Earnest'
  BY <1>6 DEF RecordDependencyReady, Passes, Trust, RecordUnits
<1>7. CASE RecordParentFailure
  BY <1>7 DEF RecordParentFailure, Trust, RecordUnits
<1>8. CASE CreateReadyMergeTasks
  BY <1>8 DEF CreateReadyMergeTasks, Bindable, StageBundle, LinkBatch, Whole, Cut,
     RecordUnits
<1>9. CASE RecordMergeResolution
  BY <1>9 DEF RecordMergeResolution, Resolvable, ResolutionBatch, Whole, Cut
<1>10. CASE RecordCanonicalContributions
  BY <1>10 DEF RecordCanonicalContributions, Earned, FirstState, Trust
<1>11. CASE RecordParentCompletion
  BY <1>11 DEF RecordParentCompletion, CompletionBatch, Awaited, Resolved, Trust,
     Whole, Cut, RecordUnits
<1>12. CASE RecordSubtreePruning
  BY <1>12 DEF RecordSubtreePruning, RootCompleted, Unpruned, Cancellable,
     CancellableStates, PruningBatch, Trust, Whole, Cut, RecordUnits
<1>13. CASE RecordRootSettlement
  <2>1. CASE UNCHANGED paid
    BY <1>13, <2>1 DEF RecordRootSettlement, SettlementBatch, Payable, Settle, Whole,
       Cut
  <2>2. CASE paid' \in Shares(Payable) /\ contribution' = Settle(Payable)
    <3>1. Payable \in SUBSET Nodes /\ Payable # {}
      BY <1>13 DEF RecordRootSettlement, Payable
    <3>2. paid' \in [Nodes -> Nat] /\ \A u \in Nodes \ Payable : paid'[u] = 0
      BY <2>2, <3>1, SharesAreRewards
    <3> QED BY <1>13, <2>2, <3>1, <3>2 DEF RecordRootSettlement, Payable, Settle
  <2> QED BY <1>13, <2>1, <2>2 DEF RecordRootSettlement, SettlementBatch, Whole, Cut
<1>14. CASE UNCHANGED rootVars
  BY <1>14
<1> QED
  BY <1>1, <1>2, <1>3, <1>4, <1>5, <1>6, <1>7, <1>8, <1>9, <1>10, <1>11, <1>12, <1>13,
     <1>14 DEF GraphNext

\* The completion makes the contribution of the expansion eligible.
LEMMA WaitingStep ==
  ASSUME GraphAssumption, GraphTypes, Ordered, Unborn, Backed, Counted, Waiting, [GraphNext]_rootVars
  PROVE  Waiting'
<1> USE DEF rootVars, graphVars, payVars, GraphTypes, Nodes, Batches, Ordered, Backed,
   Counted, Waiting
<1>1. ASSUME NEW u \in Nodes, StartWork(u) PROVE Waiting'
  BY <1>1 DEF StartWork, Passes, Trust, RecordUnits
<1>2. ASSUME NEW u \in Nodes, BindWork(u) PROVE Waiting'
  BY <1>2 DEF BindWork
<1>3. ASSUME NEW u \in Nodes, RecoverWork(u) PROVE Waiting'
  BY <1>3 DEF RecoverWork, RecordUnits
<1>4. ASSUME NEW u \in Nodes, CompleteWork(u) PROVE Waiting'
  BY <1>4 DEF CompleteWork, Passes, Trust, RecordUnits
<1>5. CASE RecordExpandDecision
  BY <1>5 DEF RecordExpandDecision, Passes, Trust, Undecided, Expandable,
     ExpansionBatch, InitialState, Whole, Cut, RecordUnits
<1>6. ASSUME NEW c \in Children, RecordDependencyReady(c) PROVE Waiting'
  BY <1>6 DEF RecordDependencyReady, Passes, Trust, RecordUnits
<1>7. CASE RecordParentFailure
  BY <1>7 DEF RecordParentFailure, Trust, RecordUnits
<1>8. CASE CreateReadyMergeTasks
  BY <1>8 DEF CreateReadyMergeTasks, Bindable, StageBundle, LinkBatch, Whole, Cut,
     RecordUnits
<1>9. CASE RecordMergeResolution
  BY <1>9 DEF RecordMergeResolution, Resolvable, ResolutionBatch, Whole, Cut
<1>10. CASE RecordCanonicalContributions
  BY <1>10 DEF RecordCanonicalContributions, Earned, FirstState, Trust
<1>11. CASE RecordParentCompletion
  BY <1>11 DEF RecordParentCompletion, CompletionBatch, Awaited, Resolved, Trust,
     Whole, Cut, RecordUnits
<1>12. CASE RecordSubtreePruning
  BY <1>12 DEF RecordSubtreePruning, RootCompleted, Unpruned, Cancellable,
     CancellableStates, PruningBatch, Trust, Whole, Cut, RecordUnits
<1>13. CASE RecordRootSettlement
  BY <1>13 DEF RecordRootSettlement, RootCompleted, Unsettled, SettlementBatch,
     Payable, Settle, Whole, Cut
<1>14. CASE UNCHANGED rootVars
  BY <1>14
<1> QED
  BY <1>1, <1>2, <1>3, <1>4, <1>5, <1>6, <1>7, <1>8, <1>9, <1>10, <1>11, <1>12, <1>13,
     <1>14 DEF GraphNext

\* What is in time is recorded before, and settled together.
LEMMA TimelyStep ==
  ASSUME GraphAssumption, GraphTypes, Ordered, Unborn, Backed, Counted, Waiting, Timely, [GraphNext]_rootVars
  PROVE  Timely'
<1> USE DEF rootVars, graphVars, payVars, GraphAssumption, GraphTypes, Nodes, Batches,
   Ordered, Backed, Counted, Waiting, Timely, EveryoneInTimeIsPaid
<1>1. ASSUME NEW u \in Nodes, StartWork(u) PROVE Timely'
  BY <1>1 DEF StartWork, Passes, Trust, RecordUnits
<1>2. ASSUME NEW u \in Nodes, BindWork(u) PROVE Timely'
  BY <1>2 DEF BindWork
<1>3. ASSUME NEW u \in Nodes, RecoverWork(u) PROVE Timely'
  BY <1>3 DEF RecoverWork, RecordUnits
<1>4. ASSUME NEW u \in Nodes, CompleteWork(u) PROVE Timely'
  BY <1>4 DEF CompleteWork, Passes, Trust, RecordUnits
<1>5. CASE RecordExpandDecision
  BY <1>5 DEF RecordExpandDecision, Passes, Trust, Undecided, Expandable,
     ExpansionBatch, InitialState, Whole, Cut, RecordUnits
<1>6. ASSUME NEW c \in Children, RecordDependencyReady(c) PROVE Timely'
  BY <1>6 DEF RecordDependencyReady, Passes, Trust, RecordUnits
<1>7. CASE RecordParentFailure
  BY <1>7 DEF RecordParentFailure, Trust, RecordUnits
<1>8. CASE CreateReadyMergeTasks
  BY <1>8 DEF CreateReadyMergeTasks, Bindable, StageBundle, LinkBatch, Whole, Cut,
     RecordUnits
<1>9. CASE RecordMergeResolution
  BY <1>9 DEF RecordMergeResolution, Resolvable, ResolutionBatch, Whole, Cut
<1>10. CASE RecordCanonicalContributions
  BY <1>10 DEF RecordCanonicalContributions, Earned, FirstState, Trust
<1>11. CASE RecordParentCompletion
  BY <1>11 DEF RecordParentCompletion, CompletionBatch, Awaited, Resolved, Trust,
     Whole, Cut, RecordUnits
<1>12. CASE RecordSubtreePruning
  BY <1>12 DEF RecordSubtreePruning, RootCompleted, Unpruned, Cancellable,
     CancellableStates, PruningBatch, Trust, Whole, Cut, RecordUnits
<1>13. CASE RecordRootSettlement
  BY <1>13 DEF RecordRootSettlement, RootCompleted, Unsettled, SettlementBatch,
     Payable, Settle, Whole, Cut
<1>14. CASE UNCHANGED rootVars
  BY <1>14
<1> QED
  BY <1>1, <1>2, <1>3, <1>4, <1>5, <1>6, <1>7, <1>8, <1>9, <1>10, <1>11, <1>12, <1>13,
     <1>14 DEF GraphNext

\* A regular call passes a snapshot that is not final, or a unit not yet born.
LEMMA FinalStep ==
  ASSUME GraphAssumption, GraphTypes, Ordered, Unborn, Backed, Counted, [GraphNext]_rootVars,
         strays' = 0, NEW w \in Nodes, node[w] \in Terminal
  PROVE  node'[w] = node[w]
<1> USE DEF rootVars, graphVars, payVars, GraphAssumption, GraphTypes, Nodes, Batches, States,
   Terminal, Ordered, Unborn, Backed, Counted
<1>1. ASSUME NEW u \in Nodes, StartWork(u) PROVE node'[w] = node[w]
  BY <1>1 DEF StartWork, Passes, Trust, RecordUnits
<1>2. ASSUME NEW u \in Nodes, BindWork(u) PROVE node'[w] = node[w]
  BY <1>2 DEF BindWork
<1>3. ASSUME NEW u \in Nodes, RecoverWork(u) PROVE node'[w] = node[w]
  BY <1>3 DEF RecoverWork, RecordUnits
<1>4. ASSUME NEW u \in Nodes, CompleteWork(u) PROVE node'[w] = node[w]
  BY <1>4 DEF CompleteWork, Passes, Trust, RecordUnits
<1>5. CASE RecordExpandDecision
  BY <1>5 DEF RecordExpandDecision, Passes, Trust, Undecided, Expandable,
     ExpansionBatch, InitialState, Whole, Cut, RecordUnits
<1>6. ASSUME NEW c \in Children, RecordDependencyReady(c) PROVE node'[w] = node[w]
  BY <1>6 DEF RecordDependencyReady, Passes, Trust, RecordUnits
<1>7. CASE RecordParentFailure
  BY <1>7 DEF RecordParentFailure, Trust, RecordUnits
<1>8. CASE CreateReadyMergeTasks
  BY <1>8 DEF CreateReadyMergeTasks, Bindable, StageBundle, LinkBatch, Whole, Cut,
     RecordUnits
<1>9. CASE RecordMergeResolution
  BY <1>9 DEF RecordMergeResolution, Resolvable, ResolutionBatch, Whole, Cut
<1>10. CASE RecordCanonicalContributions
  BY <1>10 DEF RecordCanonicalContributions, Earned, FirstState, Trust
<1>11. CASE RecordParentCompletion
  BY <1>11 DEF RecordParentCompletion, CompletionBatch, Awaited, Resolved, Trust,
     Whole, Cut, RecordUnits
<1>12. CASE RecordSubtreePruning
  BY <1>12 DEF RecordSubtreePruning, RootCompleted, Unpruned, Cancellable,
     CancellableStates, PruningBatch, Trust, Whole, Cut, RecordUnits
<1>13. CASE RecordRootSettlement
  BY <1>13 DEF RecordRootSettlement, RootCompleted, Unsettled, SettlementBatch,
     Payable, Settle, Whole, Cut
<1>14. CASE UNCHANGED rootVars
  BY <1>14
<1> QED
  BY <1>1, <1>2, <1>3, <1>4, <1>5, <1>6, <1>7, <1>8, <1>9, <1>10, <1>11, <1>12, <1>13,
     <1>14 DEF GraphNext

\* The root's work is canonical and nothing else has happened.
LEMMA GraphInvInit == ASSUME GraphAssumption, GraphInit PROVE GraphInv
<1> USE DEF GraphInit, Nodes, Batches, GraphAssumption
<1>1. GraphTypes
  <2>1. node \in [Nodes -> States] /\ nodeLog \in [Nodes -> SUBSET States]
    BY DEF States
  <2>2. /\ decided \in [Nodes -> {"none", "complete", "expand"}]
        /\ batch \in [Batches -> {"None", "Cut", "Done"}]
        /\ contribution \in [Nodes -> {"None", "Pending", "Eligible", "Settled"}]
        /\ paid \in [Nodes -> Nat]
    OBVIOUS
  <2>3. crashes \in 0..MaxCrashes /\ strays \in 0..MaxStrays
    OBVIOUS
  <2> QED BY <2>1, <2>2, <2>3 DEF GraphTypes
<1>2. Ordered /\ Unborn /\ Backed
  BY DEF Ordered, Unborn, Backed
<1>3. Counted /\ Earnest /\ Waiting /\ Timely
  BY DEF Counted, Earnest, Waiting, Timely, EveryoneInTimeIsPaid
<1> QED BY <1>1, <1>2, <1>3 DEF GraphInv

\* Every step keeps the invariant.
LEMMA GraphInvStep == ASSUME GraphAssumption, GraphInv, [GraphNext]_rootVars PROVE GraphInv'
BY GraphTypeStep, OrderedStep, UnbornStep, BackedStep, CountedStep, EarnestStep,
   WaitingStep,
   TimelyStep DEF GraphInv

\* The invariant of the graph operations.
THEOREM GraphInvariant == ASSUME GraphAssumption PROVE GraphSpec => []GraphInv
<1>1. GraphInit => GraphInv
  BY GraphInvInit
<1>2. GraphInv /\ [GraphNext]_rootVars => GraphInv'
  BY GraphInvStep
<1> QED BY <1>1, <1>2, PTL DEF GraphSpec

\* What the ledger says of the graph is well typed.
THEOREM GraphTypeOK == ASSUME GraphAssumption PROVE GraphSpec => []GraphTypes
<1>1. GraphInv => GraphTypes
  BY DEF GraphInv
<1> QED BY <1>1, GraphInvariant, PTL

\* A root completed by its merge rests on whole batches and on canonical
\* outputs of slots, whatever its callers pass and wherever they die.
THEOREM GraphParentRestsOnMerge == ASSUME GraphAssumption PROVE GraphSpec => []ParentRestsOnMerge
<1>1. GraphInv => ParentRestsOnMerge
  BY DEF GraphInv, Ordered, Backed, ParentRestsOnMerge
<1> QED BY <1>1, GraphInvariant, PTL

\* Pruned work is never paid, and without stray calls all work that was in
\* time is, once the settlement is whole.
THEOREM GraphPaysWhatCounted == ASSUME GraphAssumption PROVE GraphSpec => []PaysWhatCounted
<1>1. GraphInv => CancelledNeverPaid
  BY DEF GraphInv, Counted, Earnest, CancelledNeverPaid
<1>2. GraphInv => EveryoneInTimeIsPaid
  BY DEF GraphInv, Timely
<1>3. GraphInv => PaysWhatCounted
  BY <1>1, <1>2 DEF PaysWhatCounted
<1> QED BY <1>3, GraphInvariant, PTL

\* With the calls of the local coordinator a final state is final.
THEOREM GraphTerminalIsFinal == ASSUME GraphAssumption PROVE GraphSpec => TerminalIsFinal
<1>1. GraphInv /\ [GraphNext]_rootVars =>
        [strays' = 0 => \A u \in Nodes : node[u] \in Terminal => node'[u] = node[u]]_rootVars
  BY FinalStep DEF GraphInv
<1> QED BY <1>1, GraphInvariant, PTL DEF GraphSpec, TerminalIsFinal

-----------------------------------------------------------------------------

\* The division of the budget loses nothing: the shares hand out base units to
\* every payee and one more to the first of them.
LEMMA SharesAreWhole ==
  ASSUME GraphAssumption, NEW payees \in SUBSET Nodes, payees # {},
         NEW pay \in Shares(payees)
  PROVE  Account!Total(pay) = RootBudget
<1> DEFINE n    == Cardinality(payees)
           base == RootBudget \div n
           rest == RootBudget % n
<1>1. IsFiniteSet(Nodes)
  <2>1. IsFiniteSet((Children \cup {"root"}) \cup {"merge"})
    BY FS_AddElement DEF GraphAssumption
  <2> QED BY <2>1 DEF Nodes
<1>2. IsFiniteSet(payees)
  BY <1>1, FS_Subset
<1>3. n \in Nat \ {0}
  BY <1>2, FS_CardinalityType, FS_EmptySet
<1>4. RootBudget \in Nat
  BY DEF GraphAssumption
<1>5. base \in Nat /\ rest \in Nat /\ RootBudget = n * base + rest
  <2> HIDE DEF n
  <2> QED BY <1>3, <1>4
<1>6. PICK first \in SUBSET payees :
        /\ Cardinality(first) = rest
        /\ pay = [u \in Nodes |-> IF u \in payees THEN base + (IF u \in first THEN 1 ELSE 0) ELSE 0]
  BY DEF Shares
<1> HIDE DEF n, base, rest
<1>7. IsFiniteSet(first)
  BY <1>2, FS_Subset
<1>8. Account!HandedOut(pay) = (payees \X (1..base)) \cup (first \X {base + 1})
  <2>1. ASSUME NEW x, x \in Account!HandedOut(pay)
        PROVE  x \in (payees \X (1..base)) \cup (first \X {base + 1})
    <3>1. PICK u \in Nodes : x \in {u} \X (1..pay[u])
      BY <2>1 DEF Account!HandedOut
    <3>2. PICK k \in 1..pay[u] : x = <<u, k>>
      BY <3>1
    <3>3. u \in payees /\ k \in 1..(base + (IF u \in first THEN 1 ELSE 0))
      BY <3>2, <1>5, <1>6
    <3>4. k \in 1..base \/ (u \in first /\ k = base + 1)
      BY <3>3, <1>5
    <3> QED BY <3>2, <3>3, <3>4
  <2>2. ASSUME NEW x \in (payees \X (1..base)) \cup (first \X {base + 1})
        PROVE  x \in Account!HandedOut(pay)
    <3>1. PICK u \in payees, k \in 1..(base + 1) : x = <<u, k>> /\ (k \in 1..base \/ u \in first)
      BY <1>5
    <3>2. k \in 1..pay[u]
      BY <3>1, <1>5, <1>6
    <3>3. u \in Nodes /\ x \in {u} \X (1..pay[u])
      BY <3>1, <3>2
    <3> QED BY <3>3 DEF Account!HandedOut
  <2> QED BY <2>1, <2>2
<1>9. /\ IsFiniteSet(1..base) /\ Cardinality(1..base) = base
      /\ IsFiniteSet({base + 1}) /\ Cardinality({base + 1}) = 1
  <2>1. IsFiniteSet(1..base) /\ Cardinality(1..base) = IF 1 > base THEN 0 ELSE base - 1 + 1
    BY <1>5, FS_Interval
  <2>2. IsFiniteSet({base + 1}) /\ Cardinality({base + 1}) = 1
    BY FS_Singleton
  <2> QED BY <1>5, <2>1, <2>2
<1>10. /\ IsFiniteSet(payees \X (1..base))
       /\ Cardinality(payees \X (1..base)) = n * base
  BY <1>2, <1>9, FS_Product DEF n
<1>11. /\ IsFiniteSet(first \X {base + 1})
       /\ Cardinality(first \X {base + 1}) = rest * 1
  BY <1>6, <1>7, <1>9, FS_Product
<1>12. (payees \X (1..base)) \cap (first \X {base + 1}) = {}
  <2>1. base + 1 \notin 1..base
    BY <1>5
  <2> QED BY <2>1
<1>13. Cardinality((payees \X (1..base)) \cup (first \X {base + 1})) = n * base + rest * 1 - 0
  BY <1>10, <1>11, <1>12, FS_Union, FS_EmptySet
<1>14. n * base \in Int
  BY <1>3, <1>5
<1>15. n * base + rest * 1 - 0 = n * base + rest
  BY <1>5, <1>14
<1>16. Account!Total(pay) = Cardinality((payees \X (1..base)) \cup (first \X {base + 1}))
  BY <1>8 DEF Account!Total, Account!Cardinality, Cardinality
<1> QED BY <1>5, <1>13, <1>15, <1>16

\* No share exceeds the budget, and no two are more than one unit apart.
LEMMA SharesAreFair ==
  ASSUME GraphAssumption, NEW payees \in SUBSET Nodes, payees # {},
         NEW pay \in Shares(payees)
  PROVE  pay \in [Nodes -> 0..RootBudget] /\ Account!Fair(pay, payees)
<1> DEFINE n    == Cardinality(payees)
           base == RootBudget \div n
           rest == RootBudget % n
<1>1. IsFiniteSet(Nodes)
  <2>1. IsFiniteSet((Children \cup {"root"}) \cup {"merge"})
    BY FS_AddElement DEF GraphAssumption
  <2> QED BY <2>1 DEF Nodes
<1>2. IsFiniteSet(payees)
  BY <1>1, FS_Subset
<1>3. n \in Nat \ {0}
  BY <1>2, FS_CardinalityType, FS_EmptySet
<1>4. RootBudget \in Nat
  BY DEF GraphAssumption
<1>5. base \in Nat /\ rest \in Nat /\ RootBudget = n * base + rest
  <2> HIDE DEF n
  <2> QED BY <1>3, <1>4
<1>6. PICK first \in SUBSET payees :
        /\ Cardinality(first) = rest
        /\ pay = [u \in Nodes |-> IF u \in payees THEN base + (IF u \in first THEN 1 ELSE 0) ELSE 0]
  BY DEF Shares
<1> HIDE DEF n, base, rest
<1>7. base + rest <= RootBudget
  <2>1. n * base >= base
    BY <1>3, <1>5
  <2> QED BY <1>3, <1>4, <1>5, <2>1
<1>8. ASSUME NEW u \in payees PROVE pay[u] \in 0..RootBudget
  <2>1. CASE u \in first
    <3>1. rest # 0
      BY <1>2, <1>6, <2>1, FS_Subset, FS_EmptySet
    <3> QED BY <1>4, <1>5, <1>6, <1>7, <2>1, <3>1
  <2> QED BY <1>4, <1>5, <1>6, <1>7, <2>1
<1>9. pay \in [Nodes -> 0..RootBudget] /\ \A u \in Nodes \ payees : pay[u] = 0
  BY <1>4, <1>6, <1>8
<1>10. \A u, v \in payees : pay[u] - pay[v] <= 1
  BY <1>5, <1>6
<1> QED BY <1>9, <1>10, SharesAreWhole DEF Account!Fair

\* An operation is a step of the account of the root, or none.
LEMMA AccountStep ==
  ASSUME GraphAssumption, GraphInv, GraphInv', [GraphNext]_rootVars
  PROVE  [Account!Expand \/ Account!Resolve \/ Account!Complete \/ Account!Settle]_<<Stage, paid>>
<1> USE DEF rootVars, graphVars, payVars, Nodes, Batches
<1> DEFINE A == [Account!Expand \/ Account!Resolve \/ Account!Complete \/ Account!Settle]_<<Stage, paid>>
<1>0. batch \in [Batches -> {"None", "Cut", "Done"}]
  BY DEF GraphInv, GraphTypes
<1>1. SUFFICES ASSUME ~ /\ inTime' = inTime
                        /\ batch'["settlement"] = batch["settlement"]
                        /\ batch'["resolution"] = batch["resolution"]
                        /\ batch'["expansion"] = batch["expansion"]
                        /\ paid' = paid
               PROVE  A
  BY DEF Stage, RootCompleted
<1>2. ASSUME NEW u \in Nodes, CompleteWork(u) PROVE A
  <2>1. u = "root" /\ inTime' = terminal' /\ terminal' = terminal \cup {"root"}
    BY <1>1, <1>2 DEF CompleteWork
  <2>2. inTime = {} /\ batch["settlement"] # "Done" /\ batch["expansion"] # "Done" /\ batch["resolution"] # "Done"
    BY <1>0, <1>2, <2>1 DEF CompleteWork, GraphInv, Ordered, Counted, Timely
  <2>3. UNCHANGED <<batch, paid>>
    BY <1>2 DEF CompleteWork
  <2>4. Stage = "open"
    BY <2>2 DEF Stage, RootCompleted
  <2>5. Stage' = "completed"
    BY <2>1, <2>2, <2>3 DEF Stage, RootCompleted
  <2> QED BY <2>3, <2>4, <2>5 DEF Account!Complete
<1>3. CASE RecordExpandDecision
  <2>1. CASE Whole("expansion")
    <3>1. batch["expansion"] = "None" /\ decided["root"] = "none"
      BY <1>3 DEF RecordExpandDecision, Undecided, Expandable
    <3>2. batch["resolution"] = "None" /\ inTime = {} /\ batch["settlement"] # "Done"
      BY <1>0, <3>1 DEF GraphInv, Ordered, Counted, Timely
    <3>3. batch' = [batch EXCEPT !["expansion"] = "Done"]
      BY <2>1 DEF Whole
    <3>4. UNCHANGED <<inTime, paid>>
      BY <1>3 DEF RecordExpandDecision
    <3>5. Stage = "open"
      BY <3>1, <3>2 DEF Stage, RootCompleted
    <3>6. Stage' = "expanded"
      BY <1>0, <3>2, <3>3, <3>4 DEF Stage, RootCompleted
    <3> QED BY <3>4, <3>5, <3>6 DEF Account!Expand
  <2>2. CASE Cut("expansion")
    <3>1. batch["expansion"] = "None" /\ batch' = [batch EXCEPT !["expansion"] = "Cut"]
      BY <1>3, <2>2 DEF RecordExpandDecision, Expandable, Cut
    <3>2. UNCHANGED <<inTime, paid>>
      BY <1>3 DEF RecordExpandDecision
    <3>3. Stage' = Stage
      BY <1>0, <3>1, <3>2 DEF Stage, RootCompleted
    <3> QED BY <3>2, <3>3
  <2> QED BY <1>3, <2>1, <2>2 DEF RecordExpandDecision, ExpansionBatch
<1>4. CASE RecordMergeResolution
  <2>1. batch["resolution"] = "None" /\ batch["expansion"] = "Done"
    BY <1>4 DEF RecordMergeResolution, Resolvable, GraphInv, Ordered
  <2>2. inTime = {} /\ batch["settlement"] # "Done"
    BY <1>0, <2>1 DEF GraphInv, Ordered, Counted, Timely
  <2>3. UNCHANGED <<inTime, paid>>
    BY <1>4 DEF RecordMergeResolution
  <2>4. Stage = "expanded"
    BY <2>1, <2>2 DEF Stage, RootCompleted
  <2>5. CASE Whole("resolution")
    <3>1. batch' = [batch EXCEPT !["resolution"] = "Done"]
      BY <2>5 DEF Whole
    <3>2. Stage' = "resolved"
      BY <1>0, <2>2, <2>3, <3>1 DEF Stage, RootCompleted
    <3> QED BY <2>3, <2>4, <3>2 DEF Account!Resolve
  <2>6. CASE Cut("resolution")
    <3>1. batch' = [batch EXCEPT !["resolution"] = "Cut"]
      BY <2>6 DEF Cut
    <3>2. Stage' = Stage
      BY <1>0, <2>1, <2>3, <3>1 DEF Stage, RootCompleted
    <3> QED BY <2>3, <3>2
  <2> QED BY <1>4, <2>5, <2>6 DEF RecordMergeResolution, ResolutionBatch
<1>5. CASE RecordParentCompletion
  <2>1. batch["completion"] = "None" /\ batch["resolution"] = "Done" /\ inTime' = terminal
    BY <1>5 DEF RecordParentCompletion, Resolved
  <2>2. inTime = {} /\ batch["settlement"] # "Done" /\ terminal # {}
    BY <1>0, <2>1 DEF GraphInv, Ordered, Backed, Counted, Timely
  <2>3. paid' = paid /\ batch'["settlement"] = batch["settlement"]
    BY <1>0, <1>5 DEF RecordParentCompletion, CompletionBatch, Whole, Cut
  <2>4. Stage = "resolved"
    BY <2>1, <2>2 DEF Stage, RootCompleted
  <2>5. Stage' = "completed"
    BY <2>1, <2>2, <2>3 DEF Stage, RootCompleted
  <2> QED BY <2>3, <2>4, <2>5 DEF Account!Complete
<1>6. CASE RecordRootSettlement
  <2>1. inTime # {} /\ batch["settlement"] = "None" /\ Payable # {} /\ inTime' = inTime
    BY <1>6 DEF RecordRootSettlement, RootCompleted, Unsettled
  <2>2. Stage = "completed"
    BY <2>1 DEF Stage, RootCompleted
  <2>3. CASE Whole("settlement") /\ paid' \in Shares(Payable)
    <3>1. batch' = [batch EXCEPT !["settlement"] = "Done"]
      BY <2>3 DEF Whole
    <3>2. Stage' = "settled"
      BY <1>0, <2>1, <3>1 DEF Stage, RootCompleted
    <3>3. Payable \in SUBSET Nodes
      BY DEF Payable
    <3>4. paid' \in [Nodes -> 0..RootBudget] /\ Account!Fair(paid', Payable)
      BY <2>1, <2>3, <3>3, SharesAreFair
    <3>5. Account!Settle
      <4>1. \E payees \in (SUBSET Nodes) \ {{}} : Account!Fair(paid', payees)
        BY <2>1, <3>3, <3>4
      <4> QED BY <2>2, <3>2, <3>4, <4>1 DEF Account!Settle
    <3> QED BY <3>5
  <2>4. CASE UNCHANGED paid /\ (Cut("settlement") \/ UNCHANGED batch)
    <3>1. batch'["settlement"] # "Done" /\ Stage' = Stage
      BY <1>0, <2>1, <2>2, <2>4 DEF Cut, Stage, RootCompleted
    <3> QED BY <2>4, <3>1
  <2> QED BY <1>6, <2>3, <2>4 DEF RecordRootSettlement, SettlementBatch
<1>7. ASSUME NEW u \in Nodes, StartWork(u) PROVE FALSE
  BY <1>1, <1>7 DEF StartWork
<1>8. ASSUME NEW u \in Nodes, BindWork(u) PROVE FALSE
  BY <1>1, <1>8 DEF BindWork
<1>9. ASSUME NEW u \in Nodes, RecoverWork(u) PROVE FALSE
  BY <1>1, <1>9 DEF RecoverWork
<1>10. ASSUME NEW c \in Children, RecordDependencyReady(c) PROVE FALSE
  BY <1>1, <1>10 DEF RecordDependencyReady
<1>11. ~RecordParentFailure /\ ~RecordCanonicalContributions /\ ~UNCHANGED rootVars
  BY <1>1 DEF RecordParentFailure, RecordCanonicalContributions
<1>12. ~CreateReadyMergeTasks
  BY <1>0, <1>1 DEF CreateReadyMergeTasks, LinkBatch, Whole, Cut
<1>13. ~RecordSubtreePruning
  BY <1>0, <1>1 DEF RecordSubtreePruning, PruningBatch, Whole, Cut
<1> QED
  BY <1>2, <1>3, <1>4, <1>5, <1>6, <1>7, <1>8, <1>9, <1>10, <1>11, <1>12, <1>13 DEF GraphNext

\* The operations implement the account of the root, for all callers and
\* wherever they die: each stage once and in order, and one payment that
\* divides the whole budget fairly (core/contribution.py:381).
THEOREM GraphKeepsAccount == ASSUME GraphAssumption PROVE GraphSpec => KeepsAccount
<1>1. GraphInit => Account!Open
  BY DEF GraphInit, Account!Open, Stage, RootCompleted, Batches
<1>2. GraphInv /\ GraphInv' /\ [GraphNext]_rootVars =>
        [Account!Expand \/ Account!Resolve \/ Account!Complete \/ Account!Settle]_<<Stage, paid>>
  BY AccountStep
<1> QED BY <1>1, <1>2, GraphInvariant, PTL DEF GraphSpec, KeepsAccount, Account!Spec
=============================================================================
