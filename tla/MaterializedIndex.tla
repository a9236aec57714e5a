------------------------- MODULE MaterializedIndex -------------------------
(***************************************************************************)
(* The SQLite index of src/src/tokenshare/storage/sqlite_index.py over a   *)
(* ledger that grows by the batches of the protocol engine, some of them   *)
(* cut short by a crash of the writer.                                     *)
(*                                                                         *)
(* A rebuild first groups the events by batch and judges every batch by    *)
(* its envelope and, for the kinds it knows, by the types of its events;   *)
(* a batch it does not accept makes it raise.  It then drops and creates   *)
(* the tables, statement by statement, for executescript commits each, and *)
(* inserts all rows in one transaction.                                    *)
(*                                                                         *)
(* One process rebuilds at a time, from the list of events it was given.   *)
(* It may die at any step and be started again.  What a table shows is a   *)
(* function of the events it was built from, so only their number is kept. *)
(*                                                                         *)
(* The ledger is that of one root, unit 0: it may be expanded into one or  *)
(* two children, units 1 and 2, whose merge is unit 3.  The plan has as    *)
(* many expected outputs as children.                                      *)
(***************************************************************************)
EXTENDS Integers, Sequences, FiniteSetsExt, Functions

CONSTANTS
  Tables,      \* the tables in the order of _reset_schema
  MaxCuts,     \* bound of the batches cut short
  MaxRebuilds  \* bound of the rebuilds

\* A table is created once.
ASSUME IndexAssumption ==
  /\ Tables \in Seq(Range(Tables)) /\ Tables # <<>>
  /\ \A i, j \in DOMAIN Tables : Tables[i] = Tables[j] => i = j

VARIABLES
  ledger,   \* the events
  cuts,     \* batches cut short so far
  tables,   \* table -> Missing, Empty or the number of events it was built from
  stage,    \* "idle", "drop", "create" or "insert"
  next,     \* the table the reset is at
  outcome,  \* of the last rebuild: "none", "built", "refused", "error" or "crashed"
  built,    \* the number of events of the last rebuild that committed
  crashed,  \* has one died?
  rebuilds  \* rebuilds begun

ledgerVars  == <<ledger, cuts>>
rebuildVars == <<tables, stage, next, outcome, built, crashed, rebuilds>>
indexVars == <<ledgerVars, rebuildVars>>

Missing == -1
Empty   == 0

(***************************************************************************)
(* What the engine knows from its events.                                  *)
(***************************************************************************)

Changes == {"unit", "ready", "processing", "failed", "completed", "cancelled"}
Credits == {"pending", "earned", "eligible", "settled"}

Kinds == {"schedule", "recovery", "reschedule", "expansion", "completion", "link",
          "dispatch", "resolution", "parent", "settlement", "pruning"}

Positions(events, kind) == {i \in DOMAIN events : events[i].batch = kind}

\* The events of these types, and of one object.
Written(events, types)      == {i \in DOMAIN events : events[i].type \in types}
About(events, types, obj)   == {i \in Written(events, types) : events[i].obj = obj}
Objects(events, types)      == {events[i].obj : i \in Written(events, types)}

Started(kind) == Positions(ledger, kind) # {}

Complete(kind) == \E i \in Positions(ledger, kind) : Cardinality(Positions(ledger, kind)) = ledger[i].size

\* The state of a unit after its last change.
State(u) ==
  LET at == About(ledger, Changes, u)
  IN IF at = {} THEN "none" ELSE LET t == ledger[Max(at)].type IN IF t = "unit" THEN "ready" ELSE t

\* The merge unit when it is at work, else a child when there is one, and the
\* root before.
Worked ==
  IF State(3) = "processing" THEN 3 ELSE IF Complete("expansion") THEN 1 ELSE 0

ChildrenOf(events) == {events[i].obj : i \in {j \in Positions(events, "expansion") : events[j].type = "unit"}}

\* Leases and attempts are numbered; the current one.
Attempt == Cardinality(Objects(ledger, {"leased"}))

\* The unit has canonical outputs; the strategy has been asked about them.
Bound(u)   == About(ledger, {"bound"}, u) # {}
Invoked(u) == About(ledger, {"invoked"}, u) # {}

\* The current attempt has a report, which ends it unless it passes; it has
\* been asked and has not answered.
Reported == About(ledger, {"report"}, Attempt) # {}
Silent   == About(ledger, {"request"}, Attempt) # {} /\ About(ledger, {"submission"}, Attempt) = {}

Resolved == Objects(ledger, {"resolved"})

\* The contributions a settlement pays.
Owed ==
  {c \in Objects(ledger, Credits) : ledger[Max(About(ledger, Credits, c))].type \in {"eligible", "earned"}}

\* Descendants without output that are not at their end.
Cancellable == {u \in ChildrenOf(ledger) : State(u) \in {"ready", "processing"}}

(***************************************************************************)
(* The batches of the engine, as the types and objects of their events.    *)
(***************************************************************************)

Draft(type, obj)  == [type |-> type, obj |-> obj]
Numbered(type, n) == [i \in 1..n |-> Draft(type, i)]

\* One event for each object, in their order.
Drafts(type, objs) ==
  {[i \in DOMAIN order |-> Draft(type, order[i])] :
     order \in {o \in [1..Cardinality(objs) -> objs] : \A i, j \in DOMAIN o : i < j => o[i] < o[j]}}

Claim(u, n) == <<Draft("leased", n), Draft("created", n), Draft("running", n), Draft("processing", u)>>

\* An attempt with a report has ended already.
Releasing(u, n, state) ==
  IF Reported THEN <<Draft("released", n), Draft("recovery", n), Draft(state, u)>>
  ELSE <<Draft("released", n), Draft("ended", n), Draft("recovery", n), Draft(state, u)>>

Expansion(n, m) ==
  <<Draft("proposal", 0), Draft("decision", 0), Draft("plan", 0)>>
    \o Numbered("unit", n) \o Numbered("relation", m) \o <<Draft("expanded", 0)>>

Shapes(kind) ==
  CASE kind = "schedule"   -> {Claim(0, 1)}
    [] kind = "reschedule" -> {Claim(Worked, Attempt + 1)}
    [] kind = "recovery"   -> {Releasing(Worked, Attempt, state) : state \in {"ready", "failed"}}
    [] kind = "expansion"  -> {Expansion(1, 0), Expansion(2, 0), Expansion(2, 1)}
    [] kind = "completion" -> {<<Draft("decision", Worked), Draft("completed", Worked)>>}
    [] kind = "link"       -> {<<Draft("unit", 3), Draft("link", 3)>>}
    [] kind = "dispatch"   -> {Claim(3, Attempt + 1)}
    [] kind = "resolution" -> {<<Draft("merge", 3)>> \o Numbered("resolved", n) : n \in ChildrenOf(ledger)}
    [] kind = "parent"     -> {<<Draft("completed", 0), Draft("eligible", 0)>>}
    [] kind = "settlement" -> {Append(settled, Draft("settlement", 0)) : settled \in Drafts("settled", Owed)}
    [] kind = "pruning"    -> {Append(cancelled, Draft("pruned", 0)) : cancelled \in Drafts("cancelled", Cancellable)}

\* When the engine records them.
Due(kind) ==
  CASE kind = "schedule"   -> State(0) = "ready"
    [] kind = "reschedule" -> Complete("schedule") /\ State(Worked) = "ready"
    [] kind = "recovery"   -> Worked # 3 /\ State(Worked) = "processing" /\ (Reported \/ Silent) /\ ~Bound(Worked)
    [] kind = "expansion"  -> State(0) = "processing" /\ Invoked(0)
    [] kind = "completion" -> Worked # 3 /\ State(Worked) = "processing" /\ Invoked(Worked)
    [] kind = "link"       -> Complete("expansion") /\ State(1) = "completed"
    [] kind = "dispatch"   -> Complete("link") /\ State(3) = "ready"
    [] kind = "resolution" -> Complete("dispatch") /\ Bound(3)
    [] kind = "parent"     -> Complete("resolution") /\ Resolved = ChildrenOf(ledger)
                                /\ Written(ledger, {"pending"}) # {}
    [] kind = "settlement" -> State(0) = "completed" /\ Owed # {}
    [] kind = "pruning"    -> State(0) = "completed" /\ Complete("expansion") /\ Cancellable # {}

\* Events come between rebuilds; bound: none after the last rebuild.
MayGrow == stage = "idle" /\ rebuilds < MaxRebuilds

\* One batch of a kind, whole or cut: a cut leaves a proper prefix.
AppendBatch(kind) ==
  /\ MayGrow /\ ~Started(kind) /\ Due(kind)
  /\ \E shape \in Shapes(kind) : \E written \in DOMAIN shape :
       /\ written < Len(shape) => cuts < MaxCuts
       /\ cuts' = IF written < Len(shape) THEN cuts + 1 ELSE cuts
       /\ ledger' = ledger \o [i \in 1..written |->
            [type |-> shape[i].type, obj |-> shape[i].obj, batch |-> kind, index |-> i, size |-> Len(shape)]]
  /\ UNCHANGED rebuildVars

Single(type, obj) == [type |-> type, obj |-> obj, batch |-> "none", index |-> 0, size |-> 0]

\* One event for each step of an attempt, in the order of the engine's checks,
\* and for what the split strategy says of the result.
AppendWork ==
  /\ MayGrow
  /\ State(Worked) = "processing"
  /\ \E event \in
       {e \in {Single(type, Attempt) : type \in {"request", "submission", "report"}}
               \cup {Single(type, Worked) : type \in {"bound", "invoked"}} :
          /\ e.type = "submission" => About(ledger, {"request"}, Attempt) # {}
          /\ e.type = "report"     => About(ledger, {"submission"}, Attempt) # {}
          /\ e.type = "bound"      => About(ledger, {"report"}, Attempt) # {}
          /\ e.type = "invoked"    => Bound(Worked) /\ Worked # 3
          /\ About(ledger, {e.type}, e.obj) = {}} :
       ledger' = Append(ledger, event)
  /\ UNCHANGED <<cuts, rebuildVars>>

\* record_canonical_contributions appends single events: the expansion's
\* contribution waits, that of a completed unit does not.  The coordinator
\* calls it when the root is resolved, or has completed on its own.
AppendContribution ==
  /\ MayGrow
  /\ Complete("completion") \/ Complete("resolution")
  /\ Complete("expansion") => Complete("resolution")
  /\ \E type \in IF Complete("expansion") THEN {"pending", "earned"} ELSE {"earned"} :
       /\ Written(ledger, {type}) = {}
       /\ ledger' = Append(ledger, Single(type, IF type = "earned" /\ Complete("expansion") THEN 1 ELSE 0))
  /\ UNCHANGED <<cuts, rebuildVars>>

(***************************************************************************)
(* What a rebuild accepts.                                                 *)
(***************************************************************************)

\* The types of a batch, ordered by index.
Types(events, kind) ==
  LET at == Positions(events, kind)
  IN [k \in 1..Cardinality(at) |-> events[CHOOSE i \in at : events[i].index = k].type]

AllOf(types, first, last, type) == \A i \in first..last : types[i] = type

\* Mutant: the indexes are looked at and the size is not.
OrderedBatchEventsAnySize(events, kind) ==
  LET at == Positions(events, kind)
  IN \A i, j \in at : i - j = events[i].index - events[j].index

\* _ordered_batch_events: one size, all the indexes, and no gap between the
\* events.
OrderedBatchEvents(events, kind) ==
  LET at == Positions(events, kind)
  IN /\ \A i \in at : events[i].size = Cardinality(at)
     /\ {events[i].index : i \in at} = 1..Cardinality(at)
     /\ \A i, j \in at : i - j = events[i].index - events[j].index

ValidateCompletionBatch(types) == types = <<"decision", "completed">>

\* Units before relations, the marker at the end.
ValidateExpansionBatch(types) ==
  /\ Len(types) >= 4
  /\ SubSeq(types, 1, 3) = <<"proposal", "decision", "plan">>
  /\ types[Len(types)] = "expanded"
  /\ \E n \in 3..(Len(types) - 1) :
       AllOf(types, 4, n, "unit") /\ AllOf(types, n + 1, Len(types) - 1, "relation")

ValidateMergeTaskCreationBatch(types) ==
  types \in {<<"unit", "link">>, <<"unit", "relation", "link">>}

ValidateMergeResolutionBatch(types) ==
  Len(types) >= 2 /\ Head(types) = "merge" /\ AllOf(types, 2, Len(types), "resolved")

\* The state change alone is accepted too.
ValidateParentCompletionBatch(types) ==
  Head(types) = "completed" /\ AllOf(types, 2, Len(types), "eligible")

ValidateSettlementBatch(types) ==
  Len(types) >= 2 /\ types[Len(types)] = "settlement" /\ AllOf(types, 1, Len(types) - 1, "settled")

ValidateSubtreePruningBatch(types) ==
  Len(types) >= 2 /\ types[Len(types)] = "pruned" /\ AllOf(types, 1, Len(types) - 1, "cancelled")

\* Schedules and recoveries are judged by their envelope alone.
ValidateBatch(kind, types) ==
  CASE kind = "completion" -> ValidateCompletionBatch(types)
    [] kind = "expansion"  -> ValidateExpansionBatch(types)
    [] kind = "link"       -> ValidateMergeTaskCreationBatch(types)
    [] kind = "resolution" -> ValidateMergeResolutionBatch(types)
    [] kind = "parent"     -> ValidateParentCompletionBatch(types)
    [] kind = "settlement" -> ValidateSettlementBatch(types)
    [] kind = "pruning"    -> ValidateSubtreePruningBatch(types)
    [] OTHER               -> TRUE

\* The two projection contexts.
AcceptsBatch(events, kind) ==
  OrderedBatchEvents(events, kind) /\ ValidateBatch(kind, Types(events, kind))

\* _contribution_projections: every change starts from the latest state; a
\* contribution may begin as settled.
ContributionsFollow(events) ==
  \A i \in Written(events, Credits) :
    LET before == {j \in About(events, Credits, events[i].obj) : j < i}
    IN IF before = {} THEN events[i].type # "eligible"
       ELSE LET latest == events[Max(before)].type
            IN \/ events[i].type = "eligible" /\ latest = "pending"
               \/ events[i].type = "settled" /\ latest \in {"eligible", "earned"}

Accepts(events) ==
  /\ \A kind \in Kinds : Positions(events, kind) # {} => AcceptsBatch(events, kind)
  /\ ContributionsFollow(events)

(***************************************************************************)
(* What the tables show of a list of events that was accepted.             *)
(***************************************************************************)

\* Mutant: insert or ignore.
RowsFirst(events, at) ==
  [o \in {events[i].obj : i \in at} |-> events[Min({i \in at : events[i].obj = o})].type]

\* insert or replace: the row of an object is that of its last event.
Rows(events, at) ==
  [o \in {events[i].obj : i \in at} |-> events[Max({i \in at : events[i].obj = o})].type]

Replacing(events, types) == Rows(events, Written(events, types))

\* _is_phase4_expansion_child_event: a creation that names an expansion
\* decision is shown if its batch is an expansion.
Hidden(e) == e.type \in {"unit", "relation"} /\ e.batch \notin {"none", "expansion"}

Visible(events, types) == {i \in Written(events, types) : ~Hidden(events[i])}

TaskUnits(events)     == Rows(events, Visible(events, Changes))
TaskRelations(events) == Rows(events, Visible(events, {"relation"}))
Leases(events)        == Replacing(events, {"leased", "released"})
AttemptRows(events)   == Replacing(events, {"created", "running", "ended"})
Recoveries(events)    == Replacing(events, {"recovery"})
Requests(events)      == Replacing(events, {"request"})
Submissions(events)   == Replacing(events, {"submission"})
Reports(events)       == Replacing(events, {"report"})
Invocations(events)   == Replacing(events, {"invoked"})
CanonicalOutputs(events) ==
  Replacing(events, {"bound"})
Proposals(events)     == Replacing(events, {"proposal"})
Decisions(events)     == Replacing(events, {"decision"})
MergePlans(events)    == Replacing(events, {"plan"})
MergeLinks(events)    == Replacing(events, {"link"})
MergeRecords(events)  == Replacing(events, {"merge"})
Resolutions(events)   == Replacing(events, {"resolved"})
Contributions(events) == Replacing(events, Credits)
Settlements(events)   == Replacing(events, {"settlement"})

\* The entries of the settlement's artifact and the count of the pruning's
\* record are those of their batch.
Entries(events) == {events[i].obj : i \in Positions(events, "settlement")} \cap Objects(events, {"settled"})
Pruned(events)  == [o \in Objects(events, {"pruned"}) |-> Cardinality(Positions(events, "pruning")) - 1]

\* _expected_output_refs_from_batch: the outputs the expansion promises.
PromisedOutputs(events) == [o \in ChildrenOf(events) |-> "pending"]

\* Mutant: an output stays as the expansion has made it.
ExpectedOutputsPending(events) == PromisedOutputs(events)

\* _phase5_expected_output_refs: those the merge has resolved say so.
ExpectedOutputs(events) ==
  [o \in DOMAIN PromisedOutputs(events) |->
     IF o \in DOMAIN Resolutions(events) THEN "resolved" ELSE PromisedOutputs(events)[o]]

\* A row that may be inserted once is inserted once, or the rebuild raises.
InsertedOnce(events) ==
  \A type \in {"bound", "decision", "link", "merge", "resolved", "settlement", "pruned"} :
    \A o \in Objects(events, {type}) : Cardinality(About(events, {type}, o)) = 1

(***************************************************************************)
(* The rebuild.                                                            *)
(***************************************************************************)

IndexInit ==
  /\ ledger = <<Single("unit", 0)>> /\ cuts = 0
  /\ tables = [t \in Range(Tables) |-> Missing]
  /\ stage = "idle" /\ next = 1 /\ outcome = "none"
  /\ built = Empty /\ crashed = FALSE /\ rebuilds = 0

\* Mutant: the tables are reset before the batches are judged.
RebuildResetFirst ==
  /\ stage = "idle" /\ rebuilds < MaxRebuilds
  /\ rebuilds' = rebuilds + 1
  /\ next' = 1
  /\ IF Accepts(ledger) THEN stage' = "drop" /\ UNCHANGED <<outcome, tables>>
                        ELSE outcome' = "refused" /\ tables' = [t \in Range(Tables) |-> Empty] /\ UNCHANGED stage
  /\ UNCHANGED <<ledgerVars, built, crashed>>

\* rebuild_from_events: the contexts first.
Rebuild ==
  /\ stage = "idle" /\ rebuilds < MaxRebuilds
  /\ rebuilds' = rebuilds + 1
  /\ next' = 1
  /\ IF Accepts(ledger) THEN stage' = "drop" /\ UNCHANGED outcome
                        ELSE outcome' = "refused" /\ UNCHANGED stage
  /\ UNCHANGED <<ledgerVars, tables, built, crashed>>

GotoNext(following) ==
  IF next = Len(Tables) THEN next' = 1 /\ stage' = following
                        ELSE next' = next + 1 /\ UNCHANGED stage

\* Mutant: the first table is not dropped.
DropAllButFirst ==
  /\ stage = "drop"
  /\ tables' = IF next = 1 THEN tables ELSE [tables EXCEPT ![Tables[next]] = Missing]
  /\ GotoNext("create")
  /\ UNCHANGED <<ledgerVars, outcome, built, crashed, rebuilds>>

\* drop table if exists.
DropTable ==
  /\ stage = "drop"
  /\ tables' = [tables EXCEPT ![Tables[next]] = Missing]
  /\ GotoNext("create")
  /\ UNCHANGED <<ledgerVars, outcome, built, crashed, rebuilds>>

\* create table, which raises when the table is there.
CreateTable ==
  /\ stage = "create"
  /\ IF tables[Tables[next]] = Missing
       THEN tables' = [tables EXCEPT ![Tables[next]] = Empty] /\ GotoNext("insert") /\ UNCHANGED outcome
       ELSE stage' = "idle" /\ outcome' = "error" /\ UNCHANGED <<tables, next>>
  /\ UNCHANGED <<ledgerVars, built, crashed, rebuilds>>

\* All rows and the commit; event_seq is a primary key.
InsertRows ==
  /\ stage = "insert"
  /\ stage' = "idle"
  /\ IF tables[Head(Tables)] = Empty /\ InsertedOnce(ledger)
       THEN /\ tables' = [t \in DOMAIN tables |-> Len(ledger)]
            /\ built' = Len(ledger) /\ outcome' = "built"
       ELSE outcome' = "error" /\ UNCHANGED <<tables, built>>
  /\ UNCHANGED <<ledgerVars, next, crashed, rebuilds>>

\* What has not been committed is rolled back.
CrashRebuild ==
  /\ stage # "idle"
  /\ crashed' = TRUE
  /\ stage' = "idle" /\ outcome' = "crashed"
  /\ UNCHANGED <<ledgerVars, tables, next, built, rebuilds>>

IndexNext ==
  \/ \E kind \in Kinds : AppendBatch(kind)
  \/ AppendWork
  \/ AppendContribution
  \/ Rebuild \/ DropTable \/ CreateTable \/ InsertRows \/ CrashRebuild

IndexSpec == IndexInit /\ [][IndexNext]_indexVars

-----------------------------------------------------------------------------

\* The index and the engine agree on what is an operation: every ledger of
\* whole batches is accepted, and one cut batch of any kind, cut at any
\* event, makes every later rebuild refuse, also those that type for type look
\* whole (storage/sqlite_index.py:2238).  A ledger does not depend on the
\* rebuilds: all of them are met before the first one.
AcceptsExactlyWhole ==
  rebuilds = 0 => (Accepts(ledger) <=> \A kind \in Kinds : Started(kind) => Complete(kind))

\* A rebuild fails only by refusing its list, whatever earlier ones that died
\* have left of the tables, and one that refuses has changed nothing: what was
\* shown stays until a rebuild commits or dies (storage/sqlite_index.py:47).
RebuildsOrKeeps ==
  /\ outcome # "error"
  /\ stage = "idle" /\ (outcome = "built" \/ ~crashed) =>
       \A t \in DOMAIN tables : tables[t] = IF built = Empty THEN Missing ELSE built

\* The events the tables show, once a rebuild has committed.
Shown == SubSeq(ledger, 1, built)

\* When a rebuild has committed, whatever the ledger holds, the tables a query
\* joins tell one story: what a row names is there, and a unit with a canonical
\* output is at work or done; an output is resolved exactly
\* when the merge has resolved it, and a root that was expanded is completed
\* only when all are; a contribution is settled exactly when the settlement has
\* an entry for it, and one that waits for the root is paid only after it; the
\* cancelled units are those the prunings count, and none of them has earned
\* anything; a lease has ended exactly when there is a recovery for it.
TablesAgree ==
  LET units   == TaskUnits(Shown)
      outputs == ExpectedOutputs(Shown)
      credits == Contributions(Shown)
      ended   == {n \in DOMAIN Leases(Shown) : Leases(Shown)[n] = "released"}
      results == DOMAIN CanonicalOutputs(Shown)
  IN outcome = "built" /\ built = Len(ledger) =>
     /\ DOMAIN credits \subseteq DOMAIN units
     /\ DOMAIN Decisions(Shown) \subseteq results \cap DOMAIN Invocations(Shown)
     /\ DOMAIN MergeRecords(Shown) \subseteq results
     /\ DOMAIN Reports(Shown) \subseteq DOMAIN Submissions(Shown) \cap DOMAIN AttemptRows(Shown)
     /\ DOMAIN Submissions(Shown) \subseteq DOMAIN Requests(Shown) \cap DOMAIN Leases(Shown)
     /\ \A u \in results : units[u] \notin {"ready", "failed", "cancelled"}
     /\ DOMAIN TaskRelations(Shown) # {} => {1, 2} \subseteq DOMAIN units
     /\ DOMAIN MergePlans(Shown) = DOMAIN Proposals(Shown)
     /\ DOMAIN MergeRecords(Shown) \subseteq DOMAIN MergeLinks(Shown)
     /\ {o \in DOMAIN outputs : outputs[o] = "resolved"} = DOMAIN Resolutions(Shown)
     /\ DOMAIN Resolutions(Shown) # {} => DOMAIN MergeRecords(Shown) # {}
     /\ DOMAIN MergePlans(Shown) # {} /\ units[0] = "completed" => \A o \in DOMAIN outputs : outputs[o] = "resolved"
     /\ {c \in DOMAIN credits : credits[c] = "settled"} = Entries(Shown)
     /\ Entries(Shown) # {} => units[0] = "completed" /\ DOMAIN Settlements(Shown) = {0}
     /\ \A c \in DOMAIN credits : credits[c] = "eligible" => units[0] = "completed"
     /\ \A u \in DOMAIN units : units[u] = "cancelled" => u \notin DOMAIN credits
     /\ {u \in DOMAIN units : units[u] = "cancelled"} # {} =>
          Pruned(Shown)[0] = Cardinality({u \in DOMAIN units : units[u] = "cancelled"})
     /\ ended = DOMAIN Recoveries(Shown)
     /\ \A n \in DOMAIN AttemptRows(Shown) : AttemptRows(Shown)[n] = "ended" => n \in ended

\* A rebuild reconstructs every table from the events (storage/sqlite_index.py:35):
\* a unit that was created has its row.
CreatedUnitsShown == Objects(Shown, {"unit"}) \subseteq DOMAIN TaskUnits(Shown)
=============================================================================
