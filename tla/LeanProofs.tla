----------------------------- MODULE LeanProofs -----------------------------
(***************************************************************************)
(* The Lean plugin of src/src/tokenshare/plugins/lean_proof/ under the     *)
(* execution bridge of the experiments: one root theorem from its fixed    *)
(* plan, over the proofs of its nodes, to the merge and its check.         *)
(*                                                                         *)
(* The adapter keeps the accepted proofs in its own memory, written while  *)
(* an attempt executes.  The engine decides later, and independently,      *)
(* which attempt is canonical: an accepted answer may be late, or be       *)
(* verified under another request id.  Requests and the merge read the     *)
(* memory, the engine's records name the canonical selection.              *)
(*                                                                         *)
(* A proof is the node it was written for and the number of the attempt;   *)
(* Lean itself is a verdict chosen among those it can give.                *)
(***************************************************************************)
EXTENDS Integers, FiniteSets, FiniteSetsExt, Sequences, SequencesExt

CONSTANTS
  Nodes,        \* the nodes, 1..n in the order of the plan
  Modes,        \* the sets of mechanisms that may be switched off
  NodeRetries,  \* max_retries
  MaxGraphChildren,  \* of the decomposition policy
  MaxDepth      \* of the decomposition policy

ASSUME LeanAssumption ==
  IsFiniteSet(Nodes) /\ Nodes # {} /\ Nodes = 1..Cardinality(Nodes)

VARIABLES
  deps,       \* node -> the nodes it depends on
  root,       \* root_node_id
  shape,      \* proof_assembly_shape, or "simple" for a split without a graph
  off,        \* the mechanisms switched off
  retries,    \* node -> recoveries so far
  flight,     \* node -> what is under way: "none", "sent", or how it executed
  carried,    \* node -> dependency -> attempt whose proof the request carries
  memory,     \* node -> attempt whose proof the adapter remembers, 0: none
  canonical,  \* node -> attempt the engine has bound, 0: none
  stopped,    \* nodes that failed or are not put back
  early,      \* what merges before the gate have come to
  outcome     \* how the root ended

leanVars == <<deps, root, shape, off, retries, flight, carried, memory, canonical, stopped, early, outcome>>
leanPlan == <<deps, root, shape, off>>

Shapes  == {"simple", "bodies", "structural"}
Active(mechanism) == mechanism \notin off
AttemptOf(n) == retries[n] + 1

(***************************************************************************)
(* The plan.                                                               *)
(***************************************************************************)

\* _topological_order of the plan: the first node whose dependencies are
\* placed, again and again.
PlanOrder[k \in Nat] ==
  IF k = 0 THEN <<>>
  ELSE LET placed == PlanOrder[k - 1]
           ready  == {n \in Nodes \ ToSet(placed) : deps[n] \subseteq ToSet(placed)}
       IN IF ready = {} THEN placed ELSE Append(placed, Min(ready))

Depth[n \in Nodes] == IF deps[n] = {} THEN 1 ELSE 1 + Max({Depth[d] : d \in deps[n]})

Sinks == {n \in Nodes : \A m \in Nodes : n \notin deps[m]}

\* The limits of the plan and the decomposition policy of the parent.
WithinLimits == \A n \in Nodes : Depth[n] <= MaxDepth /\ Cardinality(deps[n]) <= MaxGraphChildren

\* _validate_graph: acyclic, with the root as its only sink.
ValidGraph ==
  /\ \A n \in Nodes : n \notin deps[n]
  /\ Len(PlanOrder[Cardinality(Nodes)]) = Cardinality(Nodes)
  /\ Sinks = {root}

\* A split by the helper: the children are independent.
ValidSimple == (\A n \in Nodes : deps[n] = {}) /\ Cardinality(Nodes) <= MaxGraphChildren

\* Whether there is a certificate to build a split plan from.
Certified == IF shape = "simple" THEN ValidSimple ELSE ValidGraph /\ WithinLimits

\* The proposal makes every node a child that waits for those it depends on,
\* and the merge plan gives every node a slot that is required.
Awaits(n) == deps[n]
Required  == Nodes

(***************************************************************************)
(* The assembly.                                                           *)
(***************************************************************************)

\* Mutant: nodes in the order of the plan's list.
LemmaGraphOrderListed == [i \in Nodes |-> i]

\* _lemma_graph_topological_order: depth first from the root, then the rest,
\* dependencies in the order of the list.
Visit[v \in Seq(Nodes) \X Nodes] ==
  LET ordered == v[1]
      n       == v[2]
  IN IF n \in ToSet(ordered) THEN ordered
     ELSE Append(FoldLeft(LAMBDA placed, d : Visit[<<placed, d>>], ordered, SetToSortSeq(deps[n], <)), n)

LemmaGraphOrder == FoldLeft(LAMBDA placed, n : Visit[<<placed, n>>], <<>>, <<root>> \o [i \in Nodes |-> i])

\* The nodes whose own proof is a line of the assembly.
Bodies == IF shape = "structural" THEN {n \in Nodes : deps[n] = {}} ELSE Nodes

\* Mutant: the slots are moved on with slot integrity, too.
SlottedNext(n) == 1 + (n % Cardinality(Nodes))

\* Without slot integrity every slot gets the proof of the next one.
Slotted(n) == IF Active("slot_integrity") THEN n ELSE 1 + (n % Cardinality(Nodes))

\* The proof in the slot of a node: whose it is, and of which attempt.
Assembled(n) == [node |-> Slotted(n), attempt |-> memory[Slotted(n)]]

\* merge_lean_child_proofs: the helper's rule puts the proofs of the children
\* together, and the check tells whether that closes the root.  Nothing else
\* looks at moved slots: a proof general enough closes the slot of another.
ChildVerdicts == {"accepted", "rejected"}

\* merge_lean_lemma_graph_proofs: a body checked for its own slot closes it,
\* where the assembly has nothing but checked bodies; else Lean decides, also
\* over bodies that were checked for another slot.
GraphVerdicts ==
  IF shape = "bodies" /\ (\A n \in Nodes : Slotted(n) = n) THEN {"accepted"}
  ELSE {"accepted", "rejected"}

\* The check of the assembled source may also fail to run.
RootVerdicts == {"broken"} \cup (IF shape = "simple" THEN ChildVerdicts ELSE GraphVerdicts)

(***************************************************************************)
(* The merge.                                                              *)
(***************************************************************************)

Done == {n \in Nodes : canonical[n] # 0}
Remembered == {n \in Nodes : memory[n] # 0}

\* Mutant: what is remembered is enough.
BuildLeanMergeRemembered(children) ==
  IF Remembered # Required THEN {"incomplete"} ELSE RootVerdicts

\* build_merge: every child canonical, and a proof remembered for each.
BuildLeanMerge(children) ==
  IF children # Required \/ Remembered # Required THEN {"incomplete"} ELSE RootVerdicts

\* A rejected check is repeated as often as the merge unit, with the same
\* report.
Ends(verdict) ==
  CASE verdict = "accepted"   -> "completed"
    [] verdict = "rejected"   -> "failed"
    [] verdict = "broken"     -> "infrastructure"
    [] verdict = "incomplete" -> "incomplete"

(***************************************************************************)
(* The actions.                                                            *)
(***************************************************************************)

LeanInit ==
  /\ deps \in [Nodes -> SUBSET Nodes] /\ root \in Nodes
  /\ shape \in Shapes /\ off \in Modes
  /\ retries = [n \in Nodes |-> 0]
  /\ flight = [n \in Nodes |-> "none"]
  /\ carried = [n \in Nodes |-> <<>>]
  /\ memory = [n \in Nodes |-> 0] /\ canonical = [n \in Nodes |-> 0]
  /\ stopped = {} /\ early = {} /\ outcome = "planned"

\* _build_split_plan: a certificate, or the split is blocked.
SplitPlan ==
  /\ outcome = "planned"
  /\ outcome' = IF Certified THEN "running" ELSE "blocked"
  /\ UNCHANGED <<leanPlan, retries, flight, carried, memory, canonical, stopped, early>>

\* The proofs a request takes along, from the memory.
DependencySources(n) == [d \in Awaits(n) |-> memory[d]]

\* build_execution_request for a node whose dependencies are completed.
Prepare(n) ==
  /\ outcome = "running"
  /\ n \notin Done \cup stopped /\ flight[n] = "none" /\ Awaits(n) \subseteq Done
  /\ IF Awaits(n) \subseteq Remembered
       THEN /\ flight' = [flight EXCEPT ![n] = "sent"]
            /\ carried' = [carried EXCEPT ![n] = DependencySources(n)]
            /\ UNCHANGED outcome
       ELSE outcome' = "dependency" /\ UNCHANGED <<flight, carried>>
  /\ UNCHANGED <<leanPlan, retries, memory, canonical, stopped, early>>

\* What the checker says of one proof; Lean may run out of time or not run.
CheckerVerdicts == {"accepted", "rejected", "broken"}

\* The bridge of the experiments: no candidate comes back, or it is checked;
\* without verification it is passed on unchecked.
BridgeResults == {"nothing"} \cup (IF Active("verification") THEN CheckerVerdicts ELSE {"unchecked"})

\* Mutant: the first accepted proof stays.
ExecuteKeepsFirst(n) ==
  /\ outcome = "running" /\ flight[n] = "sent"
  /\ \E result \in BridgeResults :
       /\ flight' = [flight EXCEPT ![n] = result]
       /\ memory' = IF result = "accepted" /\ memory[n] = 0
                      THEN [memory EXCEPT ![n] = AttemptOf(n)] ELSE memory
  /\ UNCHANGED <<leanPlan, retries, carried, canonical, stopped, early, outcome>>

\* normalize_proof_submission remembers a proof that is accepted.
Execute(n) ==
  /\ outcome = "running" /\ flight[n] = "sent"
  /\ \E result \in BridgeResults :
       /\ flight' = [flight EXCEPT ![n] = result]
       /\ memory' = IF result = "accepted" THEN [memory EXCEPT ![n] = AttemptOf(n)] ELSE memory
  /\ UNCHANGED <<leanPlan, retries, carried, canonical, stopped, early, outcome>>

\* verify_submission passes the report of an accepted proof; the unchecked
\* candidate passes with a synthetic report.
Verified(n) == flight[n] \in {"accepted", "unchecked"}

\* A verified answer is bound, and the node completed with it.
Bind(n) ==
  /\ outcome = "running" /\ Verified(n)
  /\ canonical' = [canonical EXCEPT ![n] = AttemptOf(n)]
  /\ flight' = [flight EXCEPT ![n] = "none"]
  /\ UNCHANGED <<leanPlan, retries, carried, memory, stopped, early, outcome>>

\* The checker did not run: the whole run ends.
Break(n) ==
  /\ outcome = "running" /\ flight[n] = "broken"
  /\ outcome' = "infrastructure"
  /\ UNCHANGED <<leanPlan, retries, flight, carried, memory, canonical, stopped, early>>

\* Anything may be lost: it is late, or is verified under a request id without
\* a report.  Without the gate the plugin is asked to merge what there is and
\* the node is not put back; without requeue it is not put back either.
Recover(n) ==
  /\ outcome = "running" /\ flight[n] \notin {"none", "sent", "broken"}
  /\ flight' = [flight EXCEPT ![n] = "none"]
  /\ retries' = [retries EXCEPT ![n] = @ + 1]
  /\ LET again == retries[n] < NodeRetries
     IN /\ IF again /\ ~Active("merge_gate")
             THEN \E verdict \in BuildLeanMerge(Done) : early' = early \cup {verdict}
             ELSE UNCHANGED early
        /\ stopped' = IF again /\ Active("merge_gate") /\ Active("requeue") THEN stopped ELSE stopped \cup {n}
        /\ outcome' = IF again THEN outcome ELSE "failed"
  /\ UNCHANGED <<leanPlan, carried, memory, canonical>>

\* evaluate_merge_readiness.
ProofsReady == Required \subseteq Done

MergeProofs ==
  /\ outcome = "running" /\ ProofsReady
  /\ \E verdict \in BuildLeanMerge(Done) : outcome' = Ends(verdict)
  /\ UNCHANGED <<leanPlan, retries, flight, carried, memory, canonical, stopped, early>>

LeanNext ==
  \/ SplitPlan
  \/ \E n \in Nodes : Prepare(n) \/ Execute(n) \/ Bind(n) \/ Break(n) \/ Recover(n)
  \/ MergeProofs

LeanSpec == LeanInit /\ [][LeanNext]_leanVars

-----------------------------------------------------------------------------

\* Although the memory is written before the engine decides, and also by
\* attempts the engine never takes, what dependents and the merge read from it
\* is exactly the canonical proof of every completed node
\* (plugins/lean_proof/runtime_adapter.py:533).
MemoryIsCanonical ==
  Active("verification") =>
    \A n \in Done :
      /\ memory[n] = canonical[n]
      /\ \A d \in deps[n] : carried[n][d] = canonical[d]

\* A root completes only over the canonical proofs of all its nodes, each
\* checked while it was executed, and each in its own slot unless the slot
\* integrity is off, when the check of the whole is all that is left
\* (plugins/lean_proof/merge_policy.py:218); never without verification, and
\* never from a merge before its time (merge_policy.py:251).  A dead end - a
\* dependency without a proof, a merge without its inputs - needs the
\* verification to be off (experiments/runtime.py:313).
CompletedIsChecked ==
  /\ outcome = "completed" =>
       /\ Active("verification") /\ Done = Nodes
       /\ \A n \in Bodies :
            LET proof == Assembled(n)
            IN  /\ proof.attempt = canonical[proof.node]
                /\ Active("slot_integrity") => proof.node = n
  /\ outcome \in {"dependency", "incomplete"} => ~Active("verification")
  /\ early \subseteq {"incomplete"}

\* The assembly of a valid graph has every node once and after everything it
\* names, and the root at the end (plugins/lean_proof/merge_policy.py:735).
AssemblyInOrder ==
  shape # "simple" /\ outcome \notin {"planned", "blocked"} =>
    LET order == LemmaGraphOrder
    IN /\ Len(order) = Cardinality(Nodes) /\ ToSet(order) = Nodes
       /\ Last(order) = root
       /\ \A i \in DOMAIN order : deps[order[i]] \subseteq ToSet(SubSeq(order, 1, i - 1))

\* What a Lean root stands on is proved: what is read is what was accepted, and
\* what completes was checked.
ProofsHold == MemoryIsCanonical /\ CompletedIsChecked
=============================================================================
