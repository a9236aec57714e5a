------------------------ MODULE RunCoordinatorProofs ------------------------
(***************************************************************************)
(* The coordinator's loop for any units, dependencies, capacity, lease,    *)
(* retry budget and configurations: the lists that say what is under way   *)
(* agree, attempts are made only where they are due, and a failure ends    *)
(* its branch and never the loop.                                          *)
(***************************************************************************)
EXTENDS RunCoordinator, FiniteSetTheorems, TLAPS

\* The graphs of the loop, the ordering keys of the scheduler, and the entries of
\* pending_executions.
Graphs == [Units -> TaskStates]
Keys  == [time : Nat, priority : Nat, unit : Nat, ordinal : Nat]
Items == [kind : {"execution", "retry", "requeue", "early_stop"}, unit : Units,
          ordinal : Nat, outcome : AllOutcomes, graph : Graphs \cup {None},
          deadline : Nat, event : Keys \cup {None}]

\* At work, or about to be recovered.
AtWork(i) == i.kind \in {"execution", "retry"}

\* The lists are well formed, and an event is about its entry's attempt.
Entries ==
  /\ IsFiniteSet(pending) /\ pending \subseteq Items
  /\ \A i \in pending : i.kind = "requeue" => i.graph \in Graphs
  /\ used \subseteq Keys /\ queue \subseteq used
  /\ Logical => \A i \in pending : /\ i.event \in Keys
                                   /\ i.event.unit = Rank[i.unit]
                                   /\ i.event.ordinal = i.ordinal
  /\ ~Logical => \A i \in pending : i.kind = "execution"

\* No key comes twice: an attempt has one completion, then at most one retry,
\* then at most one requeue ...
KeysOnce ==
  /\ \A e \in used, u \in Units : e.unit = Rank[u] => e.ordinal < attempts[u]
  /\ \A i \in pending, e \in used :
       e.unit = Rank[i.unit] /\ e.ordinal = i.ordinal =>
         /\ i.kind = "execution" => e.priority < 40
         /\ i.kind = "retry" => e.priority # 60

\* ... and there is one early stop.
StopOnce == \A e \in used : e.priority = 40 => state[Root] = "Completed"

\* An entry is about an attempt that was made, it is retried because it failed,
\* and a silent worker is given up at its lease deadline at the earliest.
Current ==
  \A i \in pending :
    /\ i.ordinal < attempts[i.unit]
    /\ i.kind = "retry" => i.outcome \notin Successes \cup {"infrastructure"}
    /\ Logical /\ AtWork(i) /\ i.outcome \in Silent => i.event.time >= i.deadline

\* A recovery and its requeue are due at once: the retries of one instant come in
\* the order of their units, then their requeues, and nothing is begun before.
Timed ==
  Logical =>
    /\ \A i \in pending :
         /\ i.event.time >= clock
         /\ i.kind = "execution" => i.event.priority < 40
         /\ i.kind = "retry" => i.event.time = clock /\ i.event.priority = 50
         /\ i.kind = "requeue" => i.event.time = clock /\ i.event.priority = 60
    /\ \A i, j \in pending : i.kind = "requeue" =>
         /\ j.kind = "execution" => j.event.time > clock
         /\ j.kind = "retry" => Rank[i.unit] < Rank[j.unit]

OnePerUnit ==
  \A i, j \in pending : i.unit = j.unit /\ i.kind # "early_stop" => i = j

\* What does not depend on the units' states.
Lists ==
  /\ Entries /\ QueueIsPending /\ KeysOnce /\ Current /\ Timed /\ OnePerUnit
  /\ Cardinality(Executions) <= Capacity

\* What an entry says of its unit.
Assigned ==
  Running => \A i \in pending : /\ AtWork(i) => state[i.unit] = "Processing"
                                /\ i.kind = "requeue" => state[i.unit] = "Ready"

AtWorkIsPending ==
  \A c \in Children : Running =>
    (state[c] = "Processing" <=> \E i \in pending : i.unit = c /\ AtWork(i))

\* The budget of a unit at each of its states.
Budget ==
  \A u \in Units :
    /\ state[u] \in {"Absent", "Blocked"} => attempts[u] = 0 /\ retries[u] = 0
    /\ state[u] \in {"Ready", "Processing", "Completed"} => retries[u] <= MaxRetries

\* First the root, then its children and the merge, then the early stop.
Order ==
  /\ Running => \/ state[Root] \in {"Ready", "Processing"}
                \/ \E i \in pending : i.kind = "early_stop"
  /\ state[Root] = "Ready" \/ (\E i \in pending : i.unit = Root /\ i.kind # "early_stop")
       => \A u \in Units \ {Root} : state[u] = "Absent"
  /\ \A i \in pending : i.kind = "early_stop" =>
       /\ pending = {i} /\ i.unit = Root /\ state[Root] = "Completed"
       /\ candidates = {u \in Units \ {Root} : state[u] \in {"Ready", "Blocked"}}

\* A failed unit below the root is remembered, and ends the run unless it is to
\* go on.
Remembered ==
  /\ \A u \in Units \ {Root} : state[u] = "Failed" => failedChild # None
  /\ failedChild # None /\ ~ContinueAfterFailure => ~Running

\* What does not depend on the graph of the loop.
Base ==
  /\ TypeOK /\ Lists
  /\ Assigned /\ AtWorkIsPending /\ StopOnce
  /\ Budget /\ AttemptsMatchRecoveries
  /\ Order /\ MergeIsAlone
  /\ Remembered

\* A graph shows every unit as it is recorded, but for children it still shows at
\* work although they failed or may be tried again.
Shows(g) ==
  \A u \in Units :
    \/ g[u] = state[u]
    \/ /\ Logical /\ u \in Children /\ g[u] = "Processing"
       /\ state[u] = "Ready" \/ (state[u] = "Failed" /\ ContinueAfterFailure)

\* The units that may be tried again, which g does not show.
Behind(g) == {u \in Units : state[u] = "Ready" /\ g[u] # "Ready"}

Requeued(u) == \E i \in pending : i.kind = "requeue" /\ i.unit = u

\* The graph catches up: what it does not show has a requeue of its own to come,
\* and a requeue brings back a graph that lacks later ones only.
CatchesUp ==
  /\ \A c \in Behind(graph) : Requeued(c)
  /\ Behind(graph) # {} => \A i \in pending : i.kind # "retry"
  /\ \A i \in pending : i.kind = "requeue" =>
       /\ Shows(i.graph)
       /\ \A c \in Behind(i.graph) : Requeued(c) /\ Rank[i.unit] < Rank[c]

Mirrored == Shows(graph) /\ (Running => CatchesUp)

LoopInv == Base /\ Mirrored

\* What the graph is made of, in the order in which it is made.
Grown ==
  /\ \A c \in Children : state[c] # "Absent" => c \in scenario.split
  /\ Expanded => \A c \in scenario.split : state[c] # "Absent"
  /\ MergeMade => Expanded
  /\ state[Merge] \notin {"Blocked", "Completed"}
  /\ Running => \A u \in Units : state[u] # "Cancelled"

\* The root and the merge unit are not left Processing with nothing pending.
Awaited ==
  Running =>
    /\ state[Merge] = "Processing" =>
         \E i \in pending : i.unit = Merge \/ i.kind = "early_stop"
    /\ state[Root] = "Processing" /\ ~Expanded => \E i \in pending : i.unit = Root

\* A witness is a bound result, and the failed child is one that failed.
Founded ==
  /\ witness \subseteq {c \in Children : state[c] = "Completed"}
  /\ failedChild # None => failedChild \in Units \ {Root} /\ state[failedChild] = "Failed"
  /\ "fatal" \notin scenario.outcomes => \A i \in pending : i.outcome # "fatal"

EndInv == Grown /\ Awaited /\ Founded /\ EndingsAreEarned

-----------------------------------------------------------------------------

USE CoordinatorAssumption, RecoveryAssumption DEF TaskStates, Graphs

\* The units are a finite set, of which the rank is an order.
LEMMA UnitFacts ==
  /\ Root \in Units /\ Merge \in Units /\ Children \subseteq Units
  /\ Root # Merge /\ Root \notin Children /\ Merge \notin Children
  /\ IsFiniteSet(Units)
  /\ \A u \in Units : Rank[u] \in Nat
  /\ \A u, v \in Units : Rank[u] = Rank[v] => u = v
<1>1. IsFiniteSet((Children \cup {Root}) \cup {Merge})
  BY FS_AddElement DEF CoordinatorAssumption
<1>2. Units = (Children \cup {Root}) \cup {Merge}
  BY DEF Units
<1> QED BY <1>1, <1>2 DEF Units, CoordinatorAssumption

\* Only the root is Ready, and nothing is under way.
LEMMA InitInv == Init => LoopInv
<1> SUFFICES ASSUME Init PROVE LoopInv
  OBVIOUS
<1> USE UnitFacts
<1>1. TypeOK
  BY DEF Init, TypeOK, RecoveryAssumption, Endings
<1>2. Entries
  BY FS_EmptySet DEF Init, Entries
<1>3. QueueIsPending
  BY DEF Init, QueueIsPending
<1>4. Cardinality(Executions) <= Capacity
  <2>1. Executions = {}
    BY DEF Init, Executions
  <2>2. Cardinality(Executions) <= Capacity
    BY <2>1, FS_EmptySet DEF CoordinatorAssumption
  <2> QED BY <2>2
<1>5. /\ KeysOnce /\ StopOnce /\ Current /\ Timed /\ OnePerUnit /\ Assigned /\ AtWorkIsPending
      /\ Budget /\ AttemptsMatchRecoveries
  BY DEF Init, KeysOnce, StopOnce, Current, Timed, OnePerUnit, Assigned, AtWorkIsPending, Budget, AttemptsMatchRecoveries, RecoveryAssumption
<1>6. Order /\ MergeIsAlone /\ Remembered
  BY DEF Init, Order, MergeIsAlone, Remembered
<1>7. Mirrored
  BY DEF Init, Mirrored, Shows, CatchesUp, Behind
<1> QED BY <1>1, <1>2, <1>3, <1>4, <1>5, <1>6, <1>7 DEF LoopInv, Base, Lists

\* What is known of an entry that is taken.
LEMMA TakenFacts ==
  ASSUME LoopInv, NEW i \in pending, Taken(i)
  PROVE  /\ Running /\ i \in Items /\ i.unit \in Units
         /\ ending = "running"
         /\ scenario \in Scenario
         /\ i.kind # "execution" => Logical
         /\ Logical => i.event \in Keys /\ i.event \in queue
BY DEF LoopInv, Base, Lists, Taken, TypeOK, Entries, Items, Running, QueueIsPending, CoordinatorAssumption,
       Logical, Scenario

\* What is taken of a logical run comes before what is left: while a retry or a
\* requeue is due the clock stands, and no requeue is due when a result is taken.
LEMMA NextFacts ==
  ASSUME LoopInv, NEW i \in pending, Taken(i), Logical
  PROVE  /\ clock \in Nat /\ i.event.time \in Nat /\ i.event.time >= clock
         /\ \A j \in pending \ {i} :
              /\ j.event.time \in Nat /\ j.event.priority \in Nat
              /\ j.event.time >= i.event.time
              /\ j.event.time = i.event.time => j.event.priority >= i.event.priority
              /\ j.event.time = i.event.time /\ j.event.priority = i.event.priority
                   => Rank[i.unit] <= Rank[j.unit]
              /\ j.kind \in {"retry", "requeue"} => i.event.time = clock
         /\ i.kind = "execution" => \A j \in pending : j.kind # "requeue"
<1> USE UnitFacts
<1>1. /\ clock \in Nat /\ \A j \in pending : /\ j.event \in Keys /\ j.event.unit = Rank[j.unit]
                                           /\ j.unit \in Units /\ j.event.time >= clock
  BY DEF LoopInv, Base, TypeOK, Lists, Entries, Timed, Items
<1>2. \A j \in pending \ {i} : Sched!Before(i.event, j.event)
  <2>1. queue = {j.event : j \in pending} /\ \A j \in pending : j.event = i.event => j = i
    BY DEF LoopInv, Base, Lists, QueueIsPending
  <2>2. \A e \in queue \ {i.event} : Sched!Before(i.event, e)
    BY DEF Taken, Sched!IsNext
  <2> QED BY <2>1, <2>2
<1>3. \A j \in pending \ {i} :
        /\ j.event.time \in Nat /\ j.event.priority \in Nat
        /\ j.event.time >= i.event.time
        /\ j.event.time = i.event.time => j.event.priority >= i.event.priority
        /\ j.event.time = i.event.time /\ j.event.priority = i.event.priority
             => Rank[i.unit] <= Rank[j.unit]
  BY <1>1, <1>2 DEF Keys, Sched!Before
<1>4. i.event.time \in Nat /\ i.event.time >= clock
  BY <1>1 DEF Keys
<1>5. \A j \in pending \ {i} : j.kind \in {"retry", "requeue"} => i.event.time = clock
  <2>1. \A j \in pending : j.kind \in {"retry", "requeue"} => j.event.time = clock
    BY DEF LoopInv, Base, Lists, Timed
  <2> QED BY <2>1, <1>1, <1>3, <1>4
<1>6. i.kind = "execution" => \A j \in pending : j.kind # "requeue"
  <2> SUFFICES ASSUME i.kind = "execution", NEW j \in pending, j.kind = "requeue" PROVE FALSE
    OBVIOUS
  <2>1. i.event.time > clock /\ i # j
    BY DEF LoopInv, Base, Lists, Timed
  <2> QED BY <2>1, <1>1, <1>4, <1>5
<1> QED BY <1>1, <1>3, <1>4, <1>5, <1>6

\* Taking an entry leaves the others as they are.
LEMMA ConsumeStep ==
  ASSUME LoopInv, NEW i \in pending, Taken(i), Consume(i),
         scenario' = scenario, attempts' = attempts
  PROVE  /\ pending' = pending \ {i} /\ used' = used /\ clock' \in Nat
         /\ Lists'
<1>1. pending' = pending \ {i} /\ used' = used
  BY DEF Consume
<1>2. Logical' = Logical
  BY DEF Logical
<1>3. clock' \in Nat
  <2>1. CASE Logical
    BY <2>1, TakenFacts DEF Consume, Sched!Pop, Keys
  <2>2. CASE ~Logical
    BY <2>2 DEF Consume, LoopInv, Base, TypeOK
  <2> QED BY <2>1, <2>2
<1>4. QueueIsPending'
  <2>1. CASE Logical
    <3>1. queue' = queue \ {i.event}
      BY <2>1 DEF Consume, Sched!Pop
    <3>2. queue = {j.event : j \in pending} /\ \A j, k \in pending : j.event = k.event => j = k
      BY <2>1 DEF LoopInv, Base, Lists, QueueIsPending
    <3>3. queue' = {j.event : j \in pending'}
      BY <3>1, <3>2, <1>1
    <3> QED BY <1>1, <1>2, <2>1, <3>2, <3>3 DEF QueueIsPending
  <2>2. CASE ~Logical
    BY <1>1, <1>2, <2>2 DEF Consume, LoopInv, Base, Lists, QueueIsPending
  <2> QED BY <2>1, <2>2
<1>5. IsFiniteSet(pending') /\ pending' \subseteq Items
  BY <1>1, FS_Subset DEF LoopInv, Base, Lists, Entries
<1>6. Cardinality(Executions') <= Capacity
  <2>1. IsFiniteSet(Executions) /\ Executions' \subseteq Executions
    BY <1>1, FS_Subset DEF LoopInv, Base, Lists, Entries, Executions
  <2>2. Cardinality(Executions') <= Cardinality(Executions)
    BY <2>1, FS_Subset
  <2>3. Cardinality(Executions) \in Nat /\ Cardinality(Executions') \in Nat /\ Capacity \in Nat
    BY <2>1, FS_Subset, FS_CardinalityType DEF CoordinatorAssumption
  <2> QED BY <2>2, <2>3 DEF LoopInv, Base, Lists
<1>7. Entries'
  <2>1. queue' \subseteq used'
    BY <1>1 DEF Consume, Sched!Pop, LoopInv, Base, Lists, Entries
  <2> QED BY <1>1, <1>2, <1>5, <2>1 DEF LoopInv, Base, Lists, Entries
<1>8. KeysOnce' /\ Current' /\ OnePerUnit'
  BY <1>1, <1>2 DEF LoopInv, Base, Lists, KeysOnce, Current, OnePerUnit
<1>9. Timed'
  <2> SUFFICES ASSUME Logical PROVE Timed'
    BY <1>2 DEF Timed
  <2>1. clock' = i.event.time
    BY DEF Consume, Sched!Pop
  <2>2. \A j \in pending' : j.kind \in {"retry", "requeue"} => clock' = clock
    BY <2>1, <1>1, NextFacts
  <2>3. \A j \in pending' : j.event.time >= clock'
    BY <2>1, <1>1, NextFacts
  <2> QED BY <2>2, <2>3, <1>1 DEF LoopInv, Base, Lists, Timed
<1> QED BY <1>1, <1>3, <1>4, <1>6, <1>7, <1>8, <1>9 DEF Lists

\* Replacing an entry by a control event of its own time.
LEMMA FollowStep ==
  ASSUME LoopInv, NEW i \in pending, Taken(i), Logical, scenario' = scenario,
         NEW kind \in {"retry", "requeue", "early_stop"}, NEW u \in Units, NEW n \in Nat,
         graph' \in Graphs,
         \A e \in used : ~(/\ e.priority = Sched!Priority[kind]
                           /\ e.unit = Rank[u] /\ e.ordinal = n),
         Follow(i, kind, u, n)
  PROVE  \E next \in Items :
           /\ next.kind = kind /\ next.unit = u /\ next.ordinal = n
           /\ next.outcome = Seen(i) /\ next.deadline = i.deadline
           /\ next.graph = IF kind = "requeue" THEN graph' ELSE None
           /\ next.event \in Keys /\ next.event \notin used
           /\ next.event.time = i.event.time /\ next.event.priority = Sched!Priority[kind]
           /\ next.event.unit = Rank[u] /\ next.event.ordinal = n
           /\ pending' = (pending \ {i}) \cup {next}
           /\ used' = used \cup {next.event} /\ queue' \subseteq used'
           /\ clock' = i.event.time /\ clock' \in Nat /\ ending' = "running"
           /\ QueueIsPending'
           /\ IsFiniteSet(pending') /\ pending' \subseteq Items
           /\ Cardinality(Executions') <= Capacity
<1> DEFINE e == Event(i.event.time, kind, u, n)
           g == IF kind = "requeue" THEN graph' ELSE None
           next == [i EXCEPT !.kind = kind, !.unit = u, !.ordinal = n,
                             !.outcome = Seen(i), !.event = e, !.graph = g]
<1>1. /\ i \in Items /\ i.event \in Keys /\ i.event \in queue /\ ending = "running"
  BY TakenFacts
<1>2. Sched!Priority[kind] \in Nat
  BY DEF Sched!Priority
<1>3. /\ e \in Keys /\ e.time = i.event.time /\ e.priority = Sched!Priority[kind]
      /\ e.unit = Rank[u] /\ e.ordinal = n
  BY <1>1, <1>2, UnitFacts DEF Event, Keys
<1>4. e \notin used
  BY <1>3
<1>5. Seen(i) \in AllOutcomes
  BY <1>1 DEF Seen, Items, AllOutcomes, Silent
<1>6. /\ next \in Items
      /\ next.kind = kind /\ next.unit = u /\ next.ordinal = n
      /\ next.outcome = Seen(i) /\ next.deadline = i.deadline /\ next.event = e
      /\ next.graph = g
  <2>1. g \in Graphs \cup {None}
    OBVIOUS
  <2> HIDE DEF e, g, Graphs
  <2> QED BY <2>1, <1>1, <1>3, <1>5 DEF Items
<1>7. /\ pending' = (pending \ {i}) \cup {next} /\ clock' = i.event.time
      /\ queue' = (queue \ {i.event}) \cup {e} /\ used' = used \cup {e}
  BY DEF Follow
<1>8. ending' = "running"
  <2>1. Refused({e}, i.event.time) = FALSE
    BY <1>1, <1>3, <1>4 DEF Refused, Keys
  <2> QED BY <2>1 DEF Follow
<1> HIDE DEF e, next
<1>9. queue \subseteq used /\ IsFiniteSet(pending) /\ pending \subseteq Items
  BY DEF LoopInv, Base, Lists, Entries
<1>10. QueueIsPending'
  <2>1. queue = {j.event : j \in pending} /\ \A j, k \in pending : j.event = k.event => j = k
    BY DEF LoopInv, Base, Lists, QueueIsPending
  <2>2. \A j \in pending : j.event # e
    BY <2>1, <1>4, <1>9
  <2>3. queue' = {j.event : j \in pending'}
    BY <2>1, <1>6, <1>7
  <2>4. \A j, k \in pending' : j.event = k.event => j = k
    BY <2>1, <2>2, <1>6, <1>7
  <2>5. Logical' = Logical
    BY DEF Logical
  <2> QED BY <2>3, <2>4, <2>5 DEF QueueIsPending
<1>11. IsFiniteSet(pending') /\ pending' \subseteq Items
  <2>1. IsFiniteSet(pending \ {i})
    BY <1>9, FS_RemoveElement
  <2> QED BY <2>1, <1>6, <1>7, <1>9, FS_AddElement
<1>12. Cardinality(Executions') <= Capacity
  <2>1. IsFiniteSet(Executions) /\ Executions' \subseteq Executions
    BY <1>6, <1>7, <1>9, FS_Subset DEF Executions
  <2>2. Cardinality(Executions') <= Cardinality(Executions)
    BY <2>1, FS_Subset
  <2>3. Cardinality(Executions) \in Nat /\ Cardinality(Executions') \in Nat /\ Capacity \in Nat
    BY <2>1, FS_Subset, FS_CardinalityType DEF CoordinatorAssumption
  <2> QED BY <2>2, <2>3 DEF LoopInv, Base, Lists
<1>13. clock' \in Nat /\ queue' \subseteq used'
  BY <1>1, <1>7, <1>9 DEF Keys
<1> QED BY <1>3, <1>4, <1>6, <1>7, <1>8, <1>10, <1>11, <1>12, <1>13

\* The deferred recovery of an attempt, and the requeue that follows it.
LEMMA DeferStep ==
  ASSUME LoopInv, NEW i \in pending, Taken(i), Logical,
         scenario' = scenario, attempts' = attempts,
         NEW kind \in {"retry", "requeue"},
         kind = "retry" => i.kind = "execution" /\ Seen(i) \notin Successes \cup {"infrastructure"},
         kind = "requeue" => i.kind = "retry",
         graph' \in Graphs,
         Follow(i, kind, i.unit, i.ordinal)
  PROVE  \E next \in Items :
           /\ next.kind = kind /\ next.unit = i.unit /\ next.outcome \in {i.outcome, "late"}
           /\ kind = "requeue" => next.graph = graph'
           /\ pending' = (pending \ {i}) \cup {next}
           /\ clock' \in Nat /\ ending' = "running"
           /\ Lists'
           /\ \A e \in used' \ used : e.priority # 40
<1>1. i \in Items /\ i.unit \in Units /\ i.ordinal \in Nat /\ i.event \in Keys
  BY TakenFacts DEF Items
<1>2. \A e \in used : e.unit = Rank[i.unit] /\ e.ordinal = i.ordinal =>
        e.priority # 60 /\ (i.kind = "execution" => e.priority < 40)
  <2> SUFFICES ASSUME NEW e \in used, e.unit = Rank[i.unit], e.ordinal = i.ordinal
               PROVE  e.priority # 60 /\ (i.kind = "execution" => e.priority < 40)
    OBVIOUS
  <2>1. e.priority \in Nat
    BY DEF LoopInv, Base, Lists, Entries, Keys
  <2> QED BY <2>1 DEF LoopInv, Base, Lists, KeysOnce
<1>3. \A e \in used : ~(/\ e.priority = Sched!Priority[kind]
                        /\ e.unit = Rank[i.unit] /\ e.ordinal = i.ordinal)
  BY <1>2 DEF Sched!Priority
<1>4. PICK next \in Items :
        /\ next.kind = kind /\ next.unit = i.unit /\ next.ordinal = i.ordinal
        /\ next.outcome = Seen(i) /\ next.deadline = i.deadline
        /\ next.graph = IF kind = "requeue" THEN graph' ELSE None
        /\ next.event \in Keys /\ next.event \notin used
        /\ next.event.time = i.event.time /\ next.event.priority = Sched!Priority[kind]
        /\ next.event.unit = Rank[i.unit] /\ next.event.ordinal = i.ordinal
        /\ pending' = (pending \ {i}) \cup {next}
        /\ used' = used \cup {next.event} /\ queue' \subseteq used'
        /\ clock' = i.event.time /\ clock' \in Nat /\ ending' = "running"
        /\ QueueIsPending'
        /\ IsFiniteSet(pending') /\ pending' \subseteq Items
        /\ Cardinality(Executions') <= Capacity
  BY <1>1, <1>3, FollowStep
<1>5. Logical' = Logical
  BY DEF Logical
<1>6. Entries'
  <2>1. used' \subseteq Keys
    BY <1>4 DEF LoopInv, Base, Lists, Entries
  <2> QED BY <1>4, <1>5, <2>1 DEF LoopInv, Base, Lists, Entries
<1>7. OnePerUnit'
  BY <1>4 DEF LoopInv, Base, Lists, OnePerUnit
<1>8. Current'
  <2>1. next.ordinal < attempts[next.unit]
    BY <1>4 DEF LoopInv, Base, Lists, Current
  <2>2. next.kind = "retry" => next.outcome \notin Successes \cup {"infrastructure"}
    BY <1>4
  <2>3. AtWork(next) /\ next.outcome \in Silent => next.event.time >= next.deadline
    BY <1>4 DEF LoopInv, Base, Lists, Current, AtWork, Seen, Silent
  <2> QED BY <2>1, <2>2, <2>3, <1>4, <1>5 DEF LoopInv, Base, Lists, Current
<1>9. KeysOnce'
  <2>1. \A e \in used', u \in Units : e.unit = Rank[u] => e.ordinal < attempts[u]
    <3> SUFFICES ASSUME NEW u \in Units, next.event.unit = Rank[u]
                 PROVE  next.event.ordinal < attempts[u]
      BY <1>4 DEF LoopInv, Base, Lists, KeysOnce
    <3>1. u = i.unit
      BY <1>1, <1>4, UnitFacts
    <3> QED BY <3>1, <1>4 DEF LoopInv, Base, Lists, Current
  <2> SUFFICES ASSUME NEW j \in pending', NEW e \in used',
                      e.unit = Rank[j.unit], e.ordinal = j.ordinal
               PROVE  /\ j.kind = "execution" => e.priority < 40
                      /\ j.kind = "retry" => e.priority # 60
    BY <2>1 DEF KeysOnce
  <2>2. CASE j = next
    BY <2>2, <1>2, <1>4 DEF Sched!Priority
  <2>3. CASE j # next /\ e \in used
    BY <2>3, <1>4 DEF LoopInv, Base, Lists, KeysOnce
  <2>4. CASE j # next /\ e = next.event
    <3>1. j \in pending /\ j # i /\ j.unit \in Units
      BY <2>4, <1>4 DEF LoopInv, Base, Lists, Entries, Items
    <3>2. j.unit = i.unit
      BY <2>4, <3>1, <1>1, <1>4, UnitFacts
    <3> QED BY <3>1, <3>2 DEF LoopInv, Base, Lists, OnePerUnit
  <2> QED BY <2>2, <2>3, <2>4, <1>4
<1>10. \A e \in used' \ used : e.priority # 40
  BY <1>4 DEF Sched!Priority
<1>11. Timed'
  <2>1. \A j \in pending \ {i} : j.kind \in {"retry", "requeue"} => clock' = clock
    BY <1>4, NextFacts
  <2>2. next.event.priority = (IF kind = "retry" THEN 50 ELSE 60) /\ next.event.time = clock'
    BY <1>4 DEF Sched!Priority
  <2>3. \A j \in pending' :
          /\ j.event.time >= clock'
          /\ j.kind = "execution" => j.event.priority < 40
          /\ j.kind = "retry" => j.event.time = clock' /\ j.event.priority = 50
          /\ j.kind = "requeue" => j.event.time = clock' /\ j.event.priority = 60
    <3>1. \A j \in pending \ {i} : j.event.time >= clock'
      BY <1>4, NextFacts
    <3> QED BY <3>1, <2>1, <2>2, <1>4 DEF LoopInv, Base, Lists, Timed
  <2>4. ASSUME NEW k \in pending', NEW j \in pending', k.kind = "requeue"
        PROVE  /\ j.kind = "execution" => j.event.time > clock'
               /\ j.kind = "retry" => Rank[k.unit] < Rank[j.unit]
    <3>1. i.kind = "retry"
      BY <2>4, <1>4, NextFacts
    <3>2. i.event.time = clock /\ i.event.priority = 50 /\ kind = "requeue"
      BY <3>1 DEF LoopInv, Base, Lists, Timed
    <3>3. CASE k = next
      <4> SUFFICES ASSUME j \in pending \ {i}, j.kind \in {"execution", "retry"}
                   PROVE  /\ j.kind = "execution" => j.event.time > clock'
                          /\ j.kind = "retry" => Rank[k.unit] < Rank[j.unit]
        BY <1>4, <3>2
      <4>1. /\ j.event.time \in Nat /\ clock' \in Nat /\ j.event.time >= clock'
            /\ j.event.time = clock' => j.event.priority >= 50
            /\ j.event.time = clock' /\ j.event.priority = 50 => Rank[i.unit] <= Rank[j.unit]
        BY <3>2, <1>4, NextFacts
      <4>2. CASE j.kind = "execution"
        <5>1. j.event.priority < 40 /\ j.event.priority \in Nat
          BY <4>2, NextFacts DEF LoopInv, Base, Lists, Timed
        <5> QED BY <4>1, <4>2, <5>1
      <4>3. CASE j.kind = "retry"
        <5>1. j.event.time = clock /\ j.event.priority = 50 /\ j.unit # i.unit /\ j.unit \in Units
          BY <4>3, <3>1 DEF LoopInv, Base, Lists, Timed, OnePerUnit, Entries, Items
        <5>2. Rank[i.unit] \in Nat /\ Rank[j.unit] \in Nat /\ Rank[i.unit] # Rank[j.unit]
          BY <5>1, <1>1, UnitFacts
        <5> QED BY <4>1, <4>3, <5>1, <5>2, <3>2, <1>4, <3>3
      <4> QED BY <4>2, <4>3
    <3>4. CASE k # next
      BY <3>2, <3>4, <2>4, <1>4 DEF LoopInv, Base, Lists, Timed
    <3> QED BY <3>3, <3>4
  <2> QED BY <2>3, <2>4, <1>5 DEF Timed
<1> QED BY <1>4, <1>6, <1>7, <1>8, <1>9, <1>10, <1>11 DEF Lists, Seen

\* The earlier of two instants ...
LEMMA SmallerOf ==
  ASSUME NEW a \in Int, NEW b \in Int
  PROVE  Min({a, b}) \in {a, b} /\ Min({a, b}) <= a /\ Min({a, b}) <= b
<1>1. \E x \in {a, b} : \A y \in {a, b} : x <= y
  OBVIOUS
<1> QED BY <1>1 DEF Min

\* ... and the later one.
LEMMA LargerOf ==
  ASSUME NEW a \in Int, NEW b \in Int
  PROVE  Max({a, b}) \in {a, b} /\ Max({a, b}) >= a /\ Max({a, b}) >= b
<1>1. \E x \in {a, b} : \A y \in {a, b} : x >= y
  OBVIOUS
<1> QED BY <1>1 DEF Max

\* A silent worker is given up at its lease deadline at the earliest.
LEMMA DelayFacts ==
  ASSUME NEW outcome \in AllOutcomes, NEW latency \in Nat
  PROVE  /\ Delay(outcome, latency) \in Nat
         /\ outcome \in Silent => Delay(outcome, latency) >= LeaseMs
<1>1. LeaseMs \in Nat /\ LeaseMs \in Int /\ LeaseMs + 1 \in Int /\ latency \in Int
  BY DEF CoordinatorAssumption
<1>2. Max({latency, LeaseMs + 1}) \in {latency, LeaseMs + 1}
  BY <1>1, LargerOf, Zenon
<1>3. Max({latency, LeaseMs}) \in {latency, LeaseMs} /\ Max({latency, LeaseMs}) >= LeaseMs
  BY <1>1, LargerOf, Zenon
<1> QED BY <1>1, <1>2, <1>3 DEF Delay, Silent

\* The entry of a unit that is dispatched.
LEMMA ExecutionFacts ==
  ASSUME LoopInv, NEW u \in Units,
         NEW work \in [outcome : scenario.outcomes, latency : scenario.latencies],
         NEW i, i = Execution(u, work)
  PROVE  /\ i \in Items /\ i.kind = "execution" /\ i.unit = u /\ i.ordinal = attempts[u]
         /\ Logical => /\ i.event \in Keys /\ i.event.time >= clock
                       /\ i.event.priority < 40
                       /\ i.event.unit = Rank[u] /\ i.event.ordinal = attempts[u]
                       /\ i.outcome \in Silent => i.event.time >= i.deadline
<1>1. scenario \in Scenario /\ clock \in Nat /\ attempts[u] \in Nat /\ LeaseMs \in Nat
  BY DEF LoopInv, Base, TypeOK, CoordinatorAssumption, RecoveryAssumption
<1>2. work.outcome \in AllOutcomes /\ work.latency \in Nat
  BY <1>1 DEF Scenario
<1>3. CompletionKind(work.outcome) \in {"worker_death", "lease_deadline", "worker_completion"}
  BY DEF CompletionKind
<1>4. Sched!Priority[CompletionKind(work.outcome)] \in {10, 20, 30}
  BY <1>3 DEF Sched!Priority
<1>5. Rank[u] \in Nat
  BY UnitFacts
<1>6. /\ Delay(work.outcome, work.latency) \in Nat
      /\ work.outcome \in Silent => Delay(work.outcome, work.latency) >= LeaseMs
  BY <1>2, DelayFacts
<1>7. /\ i.kind = "execution" /\ i.unit = u /\ i.ordinal = attempts[u]
      /\ i.outcome = work.outcome /\ i.deadline = clock + LeaseMs
  BY DEF Execution
<1>8. CASE Logical
  <2>1. i.event = [time |-> clock + Delay(work.outcome, work.latency),
                   priority |-> Sched!Priority[CompletionKind(work.outcome)],
                   unit |-> Rank[u], ordinal |-> attempts[u]]
    BY <1>8 DEF Execution, Event
  <2>2. i.event \in Keys
    BY <2>1, <1>1, <1>4, <1>5, <1>6 DEF Keys
  <2>3. i \in Items
    BY <2>2, <1>1, <1>2 DEF Items, Execution
  <2> QED BY <2>1, <2>2, <2>3, <1>1, <1>4, <1>6, <1>7
<1>9. CASE ~Logical
  <2>1. i.event = None
    BY <1>9 DEF Execution, Event
  <2>2. i \in Items
    BY <2>1, <1>1, <1>2 DEF Items, Execution
  <2> QED BY <2>2, <1>7, <1>9
<1> QED BY <1>8, <1>9

\* What the graph shows as Ready, Blocked, bound or failed is recorded so.
LEMMA ShownFacts ==
  ASSUME LoopInv, NEW u \in Units
  PROVE  /\ graph[u] = "Ready" => state[u] = "Ready"
         /\ graph[u] = "Failed" => state[u] = "Failed"
         /\ graph[u] = "Blocked" <=> state[u] = "Blocked"
         /\ graph[u] = "Completed" <=> state[u] = "Completed"
         /\ state[u] \notin {"Ready", "Failed"} => graph[u] = state[u]
         /\ u \notin Children => graph[u] = state[u]
BY DEF LoopInv, Mirrored, Shows

\* A batch of Ready units is put to work, in free slots.
LEMMA DispatchStep ==
  ASSUME LoopInv, Dispatch, graph' \in Graphs
  PROVE  /\ Base' /\ ending' = "running"
         /\ \A u \in Units : \/ state'[u] = state[u]
                             \/ /\ state[u] = "Ready" /\ state'[u] = "Processing"
                                /\ \E i \in pending' : i.unit = u
         /\ \A i \in pending' : i.kind = "execution"
         /\ pending \subseteq pending'
         /\ \A i \in pending' \ pending : i.outcome \in scenario.outcomes
<1> USE UnitFacts
<1> DEFINE Batches == kSubset(Min({Slots, Cardinality(ReadyUnits)}), ReadyUnits)
           Works(b) == [b -> [outcome : scenario.outcomes, latency : scenario.latencies]]
<1>1. PICK batch \in Batches : \E work \in Works(batch) : Begin(batch, work)
  BY DEF Dispatch
<1>2. PICK work \in Works(batch) : Begin(batch, work)
  BY <1>1
<1> DEFINE item(u) == Execution(u, work[u])
           items == {item(u) : u \in batch}
           events == {i.event : i \in items}
<1>3. /\ state' = [u \in Units |-> IF u \in batch THEN "Processing" ELSE state[u]]
      /\ attempts' = [u \in Units |-> IF u \in batch THEN attempts[u] + 1 ELSE attempts[u]]
      /\ pending' = pending \cup items
      /\ queue' = IF Logical THEN queue \cup events ELSE queue
      /\ used'  = IF Logical THEN used \cup events ELSE used
      /\ ending' = IF Refused(events, clock) THEN "raised" ELSE "running"
  BY <1>2 DEF Begin, Record
<1>4. /\ scenario' = scenario /\ witness' = witness /\ retries' = retries
      /\ failedChild' = failedChild /\ candidates' = candidates /\ clock' = clock
      /\ ending = "running" /\ Slots > 0 /\ ~PendingControl
  BY DEF Dispatch, ShouldDispatch, Running
<1>5. \A u \in batch : /\ u \in Units /\ state[u] = "Ready" /\ (MergeMade => u = Merge)
                       /\ attempts[u] = retries[u] /\ retries[u] <= MaxRetries
  <2>1. batch \subseteq ReadyUnits
    BY DEF kSubset
  <2>2. \A u \in ReadyUnits : u \in Units /\ state[u] = "Ready" /\ (MergeMade => u = Merge)
    BY ShownFacts DEF ReadyUnits, Scoped
  <2> QED BY <2>1, <2>2 DEF LoopInv, Base, Budget, AttemptsMatchRecoveries
<1>6. \A i \in pending : i.kind = "execution" /\ state[i.unit] = "Processing"
  <2>1. \A i \in pending : i.kind = "execution"
    BY <1>4 DEF PendingControl, Executions
  <2> QED BY <2>1, <1>4 DEF LoopInv, Base, Assigned, Running, AtWork
<1>7. \A u \in batch :
        /\ item(u) \in Items /\ item(u).kind = "execution" /\ item(u).unit = u
        /\ item(u).ordinal = attempts[u]
        /\ Logical => /\ item(u).event \in Keys /\ item(u).event.time >= clock
                      /\ item(u).event.priority < 40
                      /\ item(u).event.unit = Rank[u] /\ item(u).event.ordinal = attempts[u]
                      /\ item(u).outcome \in Silent => item(u).event.time >= item(u).deadline
  <2> SUFFICES ASSUME NEW u \in batch, NEW i, i = item(u)
               PROVE  /\ i \in Items /\ i.kind = "execution" /\ i.unit = u
                      /\ i.ordinal = attempts[u]
                      /\ Logical => /\ i.event \in Keys /\ i.event.time >= clock
                                    /\ i.event.priority < 40
                                    /\ i.event.unit = Rank[u] /\ i.event.ordinal = attempts[u]
                                    /\ i.outcome \in Silent => i.event.time >= i.deadline
    OBVIOUS
  <2>1. u \in Units /\ work[u] \in [outcome : scenario.outcomes, latency : scenario.latencies]
    BY <1>5
  <2> QED BY <2>1, ExecutionFacts
<1> HIDE DEF item
<1>8. \A u \in Units : attempts[u] \in Nat /\ retries[u] \in Nat
  BY DEF LoopInv, Base, TypeOK, RecoveryAssumption
<1>9. /\ pending \subseteq Items /\ IsFiniteSet(pending) /\ queue \subseteq used /\ used \subseteq Keys
      /\ Logical' = Logical /\ ContinueAfterFailure' = ContinueAfterFailure
  BY <1>4 DEF LoopInv, Base, Lists, Entries, Logical, ContinueAfterFailure
<1>10. \A u \in batch : Logical => item(u).event \notin used
  <2> SUFFICES ASSUME NEW u \in batch, Logical, item(u).event \in used PROVE FALSE
    OBVIOUS
  <2>1. item(u).event.ordinal < attempts[u]
    BY <1>5, <1>7 DEF LoopInv, Base, Lists, KeysOnce, StopOnce
  <2> QED BY <2>1, <1>5, <1>7, <1>8
<1>11. ending' = "running"
  <2>1. ~Refused(events, clock)
    <3> SUFFICES ASSUME Logical, NEW u \in batch PROVE ~(item(u).event.time < clock)
      BY <1>10 DEF Refused
    <3>1. item(u).event.time \in Nat /\ clock \in Nat
      BY <1>7 DEF Keys, LoopInv, Base, TypeOK
    <3> QED BY <3>1, <1>7
  <2> QED BY <2>1, <1>3
<1>12. IsFiniteSet(batch) /\ IsFiniteSet(items)
       /\ Cardinality(items) <= Cardinality(batch) /\ Cardinality(batch) <= Slots
  <2>1. batch \in SUBSET Units
    BY <1>5
  <2>2. IsFiniteSet(batch)
    BY <2>1, FS_Subset
  <2>3. [u \in batch |-> item(u)] \in Surjection(batch, items)
    BY DEF Surjection
  <2>4. IsFiniteSet(items) /\ Cardinality(items) <= Cardinality(batch)
    <3> HIDE DEF items
    <3> QED BY <2>2, <2>3, FS_Surjection
  <2>5. Cardinality(batch) = Min({Slots, Cardinality(ReadyUnits)})
    BY DEF kSubset
  <2>6. Slots \in Int /\ Cardinality(ReadyUnits) \in Int
    <3>1. ReadyUnits \in SUBSET Units /\ Executions \in SUBSET pending
      BY DEF ReadyUnits, Scoped, Executions
    <3>2. Cardinality(ReadyUnits) \in Nat /\ Cardinality(Executions) \in Nat
      BY <3>1, <1>9, FS_Subset, FS_CardinalityType
    <3> QED BY <3>2 DEF Slots, CoordinatorAssumption
  <2>7. Min({Slots, Cardinality(ReadyUnits)}) <= Slots
    BY <2>6, SmallerOf, Zenon
  <2> QED BY <2>2, <2>4, <2>5, <2>7
<1>13. Cardinality(Executions') <= Capacity
  <2>1. Executions' = Executions \cup items /\ Executions = pending
    BY <1>3, <1>6, <1>7 DEF Executions
  <2>2. Cardinality(pending \cup items) <= Cardinality(pending) + Cardinality(items)
    <3>1. Cardinality(pending \cap items) \in Nat
      BY <1>9, FS_Intersection, FS_CardinalityType
    <3>2. Cardinality(pending) \in Nat /\ Cardinality(items) \in Nat
      BY <1>9, <1>12, FS_CardinalityType
    <3>3. Cardinality(pending \cup items)
            = Cardinality(pending) + Cardinality(items) - Cardinality(pending \cap items)
      BY <1>9, <1>12, FS_Union
    <3> QED BY <3>1, <3>2, <3>3
  <2>3. Cardinality(pending) + Slots <= Capacity
    <3>1. Cardinality(pending) \in Nat
      BY <1>9, FS_CardinalityType
    <3>2. CASE Logical
      BY <3>1, <3>2, <2>1 DEF Slots, CoordinatorAssumption
    <3>3. CASE ~Logical
      <4>1. pending = {}
        BY <3>3, <1>4 DEF Slots
      <4> QED BY <3>3, <4>1, FS_EmptySet DEF Slots, CoordinatorAssumption
    <3> QED BY <3>2, <3>3
  <2>4. /\ Cardinality(pending \cup items) \in Nat /\ Cardinality(pending) \in Nat
        /\ Cardinality(items) \in Nat /\ Cardinality(batch) \in Nat /\ Capacity \in Nat
    BY <1>9, <1>12, FS_Union, FS_CardinalityType DEF CoordinatorAssumption
  <2>5. Slots \in Int
    <3>1. Cardinality(Executions) \in Nat
      BY <2>1, <2>4
    <3> QED BY <3>1, <2>4 DEF Slots
  <2> QED BY <2>1, <2>2, <2>3, <2>4, <2>5, <1>12
<1>14. TypeOK'
  <2>1. attempts' \in [Units -> 0..(MaxRetries + 1)]
    BY <1>3, <1>5, <1>8 DEF LoopInv, Base, TypeOK, RecoveryAssumption
  <2>2. state' \in [Units -> TaskStates]
    BY <1>3 DEF LoopInv, Base, TypeOK
  <2>3. \A i \in pending' : /\ i.unit \in Units
                            /\ i.kind \in {"execution", "retry", "requeue", "early_stop"}
                            /\ i.outcome \in AllOutcomes
    BY <1>3, <1>7, <1>9 DEF Items
  <2> QED BY <2>1, <2>2, <2>3, <1>4, <1>11 DEF LoopInv, Base, TypeOK, Endings
<1>15. Entries'
  <2>1. IsFiniteSet(pending') /\ pending' \subseteq Items
    <3>1. items \subseteq Items
      BY <1>7
    <3> HIDE DEF items
    <3> QED BY <3>1, <1>3, <1>9, <1>12, FS_Union
  <2>2. used' \subseteq Keys /\ queue' \subseteq used'
    BY <1>3, <1>7, <1>9
  <2>3. Logical => \A i \in pending' : /\ i.event \in Keys
                                       /\ i.event.unit = Rank[i.unit]
                                       /\ i.event.ordinal = i.ordinal
    BY <1>3, <1>7, <1>9 DEF LoopInv, Base, Lists, Entries
  <2>4. \A i \in pending' : i.kind = "execution"
    BY <1>3, <1>6, <1>7
  <2> QED BY <2>1, <2>2, <2>3, <2>4, <1>9 DEF Entries
<1>25. Timed'
  <2> SUFFICES ASSUME Logical PROVE Timed'
    BY <1>9 DEF Timed
  <2>1. \A i \in pending' : /\ i.kind = "execution" /\ i.event.time >= clock'
                            /\ i.event.priority < 40
    BY <1>3, <1>4, <1>6, <1>7 DEF LoopInv, Base, Lists, Timed
  <2> QED BY <2>1 DEF Timed
<1>16. QueueIsPending'
  <2>1. CASE Logical
    <3>1. queue = {i.event : i \in pending} /\ \A i, j \in pending : i.event = j.event => i = j
      BY <2>1 DEF LoopInv, Base, Lists, QueueIsPending
    <3>2. queue' = {i.event : i \in pending'}
      BY <3>1, <2>1, <1>3
    <3>3. \A u \in batch, j \in pending : item(u).event # j.event
      BY <3>1, <2>1, <1>9, <1>10
    <3>4. \A u, v \in batch : item(u).event = item(v).event => u = v
      BY <2>1, <1>5, <1>7
    <3>5. \A i, j \in pending' : i.event = j.event => i = j
      BY <3>1, <3>3, <3>4, <1>3
    <3> QED BY <2>1, <3>2, <3>5, <1>9 DEF QueueIsPending
  <2>2. CASE ~Logical
    BY <2>2, <1>3, <1>9 DEF LoopInv, Base, Lists, QueueIsPending
  <2> QED BY <2>1, <2>2
<1>17. OnePerUnit' /\ AtWorkIsPending'
  <2>1. \A i, j \in pending' : i.unit = j.unit /\ i.kind # "early_stop" => i = j
    BY <1>3, <1>5, <1>6, <1>7 DEF LoopInv, Base, Lists, OnePerUnit
  <2>2. \A c \in Children : state'[c] = "Processing" <=> \E i \in pending' : i.unit = c /\ AtWork(i)
    BY <1>3, <1>4, <1>5, <1>6, <1>7 DEF LoopInv, Base, AtWorkIsPending, Running, AtWork
  <2> QED BY <2>1, <2>2, <1>13 DEF OnePerUnit, AtWorkIsPending
<1>18. KeysOnce' /\ StopOnce'
  <2>1. \A e \in used', u \in Units : e.unit = Rank[u] => e.ordinal < attempts'[u]
    <3> SUFFICES ASSUME NEW e \in used', NEW u \in Units, e.unit = Rank[u]
                 PROVE  e.ordinal < attempts'[u]
      OBVIOUS
    <3>1. CASE e \in used
      <4>1. e.ordinal < attempts[u] /\ e.ordinal \in Nat
        BY <3>1, <1>9 DEF LoopInv, Base, Lists, KeysOnce, StopOnce, Keys
      <4> QED BY <4>1, <1>3, <1>8
    <3>2. CASE e \notin used
      <4>1. PICK v \in batch : Logical /\ e = item(v).event
        BY <3>2, <1>3
      <4>2. u = v /\ e.ordinal = attempts[u]
        BY <4>1, <1>5, <1>7
      <4> QED BY <4>1, <4>2, <1>3, <1>8
    <3> QED BY <3>1, <3>2
  <2>2. \A i \in pending', e \in used' :
          e.unit = Rank[i.unit] /\ e.ordinal = i.ordinal =>
            /\ i.kind = "execution" => e.priority < 40
            /\ i.kind = "retry" => e.priority # 60
    <3> SUFFICES ASSUME NEW i \in pending', NEW e \in used',
                        e.unit = Rank[i.unit], e.ordinal = i.ordinal
                 PROVE  i.kind = "execution" /\ e.priority < 40
      OBVIOUS
    <3>0. i.kind = "execution"
      BY <1>3, <1>6, <1>7
    <3>1. CASE e \in used /\ i \in pending
      BY <3>0, <3>1 DEF LoopInv, Base, Lists, KeysOnce, StopOnce
    <3>2. CASE e \in used /\ i \notin pending
      <4>1. PICK u \in batch : i = item(u)
        BY <3>2, <1>3
      <4>2. e.ordinal < attempts[u]
        BY <4>1, <3>2, <1>5, <1>7 DEF LoopInv, Base, Lists, KeysOnce, StopOnce
      <4> QED BY <4>1, <4>2, <1>5, <1>7, <1>8
    <3>3. CASE e \notin used
      <4>1. PICK v \in batch : Logical /\ e = item(v).event
        BY <3>3, <1>3
      <4> QED BY <4>1, <3>0, <1>7
    <3> QED BY <3>1, <3>2, <3>3
  <2>3. \A e \in used' : e.priority = 40 => state'[Root] = "Completed"
    <3>1. \A e \in used : e.priority = 40 => state[Root] = "Completed"
      BY DEF LoopInv, Base, Lists, KeysOnce, StopOnce
    <3>2. \A u \in batch : Logical => item(u).event.priority < 40 /\ item(u).event.priority \in Nat
      BY <1>7 DEF Keys
    <3> QED BY <3>1, <3>2, <1>3, <1>5
  <2> QED BY <2>1, <2>2, <2>3 DEF KeysOnce, StopOnce
<1>19. Current' /\ Assigned'
  <2>1. \A i \in pending' : i.ordinal < attempts'[i.unit]
    <3>1. \A i \in pending : i.ordinal < attempts[i.unit] /\ i.ordinal \in Nat /\ i.unit \in Units
      BY <1>9 DEF LoopInv, Base, Lists, Current, Items
    <3> QED BY <3>1, <1>3, <1>5, <1>7, <1>8
  <2>2. \A i \in pending' : /\ i.kind = "execution"
                            /\ Logical /\ i.outcome \in Silent => i.event.time >= i.deadline
    BY <1>3, <1>6, <1>7 DEF LoopInv, Base, Lists, Current, AtWork
  <2>3. \A i \in pending' : state'[i.unit] = "Processing"
    <3>1. \A i \in pending : i.unit \in Units
      BY <1>9 DEF Items
    <3> QED BY <3>1, <1>3, <1>5, <1>6, <1>7
  <2> QED BY <2>1, <2>2, <2>3, <1>9 DEF Current, Assigned
<1>20. Budget' /\ AttemptsMatchRecoveries'
  <2>1. Budget'
    BY <1>3, <1>4, <1>5 DEF LoopInv, Base, Budget
  <2>2. AttemptsMatchRecoveries'
    BY <1>3, <1>4, <1>5, <1>8 DEF LoopInv, Base, AttemptsMatchRecoveries
  <2> QED BY <2>1, <2>2
<1>21. Order'
  <2>1. state[Root] \in {"Ready", "Processing"}
    BY <1>4, <1>6 DEF LoopInv, Base, Order, Running
  <2>2. state'[Root] \in {"Ready", "Processing"}
    BY <2>1, <1>3
  <2>3. \A i \in pending' : i.kind # "early_stop"
    BY <1>3, <1>6, <1>7
  <2>4. state'[Root] = "Ready" \/ (\E i \in pending' : i.unit = Root)
          => \A u \in Units \ {Root} : state'[u] = "Absent"
    <3> SUFFICES ASSUME state'[Root] = "Ready" \/ \E i \in pending' : i.unit = Root
                 PROVE  \A u \in Units \ {Root} : state'[u] = "Absent"
      OBVIOUS
    <3>1. state[Root] = "Ready" \/ \E i \in pending : i.unit = Root
      BY <1>3, <1>5, <1>7
    <3>2. \A u \in Units \ {Root} : state[u] = "Absent"
      BY <3>1, <1>6 DEF LoopInv, Base, Order
    <3> QED BY <3>2, <1>3, <1>5
  <2> QED BY <2>2, <2>3, <2>4 DEF Order
<1>22. MergeIsAlone'
  <2>1. MergeMade' = MergeMade
    BY <1>3, <1>5 DEF MergeMade
  <2> QED BY <2>1, <1>3, <1>5, <1>7 DEF LoopInv, Base, MergeIsAlone
<1>23. Remembered'
  BY <1>3, <1>4, <1>9, <1>11 DEF LoopInv, Base, Remembered, Running
<1>24. /\ \A u \in Units : \/ state'[u] = state[u]
                           \/ /\ state[u] = "Ready" /\ state'[u] = "Processing"
                              /\ \E i \in pending' : i.unit = u
       /\ pending \subseteq pending'
       /\ \A i \in pending' \ pending : i.outcome \in scenario.outcomes
       /\ \A i \in pending' : i.kind = "execution"
  <2>1. \A u \in batch : item(u).outcome \in scenario.outcomes
    BY DEF item, Execution
  <2> QED BY <2>1, <1>3, <1>5, <1>6, <1>7
<1> QED BY <1>11, <1>24, <1>25, <1>13, <1>14, <1>15, <1>16, <1>17, <1>18, <1>19, <1>20, <1>21, <1>22, <1>23 DEF LoopInv, Base, Lists

\* What the units' states are when an attempt's result, recovery or requeue is
\* taken: nothing of the root is under way beside its descendants.
WorkOf(i) ==
  /\ AtWork(i) => state[i.unit] = "Processing" /\ attempts[i.unit] = retries[i.unit] + 1
  /\ ~AtWork(i) => state[i.unit] = "Ready"
  /\ retries[i.unit] <= MaxRetries
  /\ \A j \in pending : j.kind # "early_stop" /\ j.unit \in Units
  /\ \A j \in pending \ {i} : j.unit # i.unit
  /\ i.unit = Root => pending = {i} /\ \A u \in Units \ {Root} : state[u] = "Absent"
  /\ i.unit # Root => state[Root] = "Processing" /\ \A j \in pending : j.unit # Root
  /\ failedChild # None => ContinueAfterFailure
  /\ i.unit # Root => i.unit \in Children \cup {Merge}
  /\ MergeMade => i.unit # Root

\* That is so of whatever is taken but the early stop.
LEMMA WorkFacts ==
  ASSUME LoopInv, NEW i \in pending, Taken(i), i.kind # "early_stop"
  PROVE  WorkOf(i)
<1> USE UnitFacts
<1>1. Running /\ i.unit \in Units /\ i \in Items /\ pending \subseteq Items
  BY TakenFacts DEF LoopInv, Base, Lists, Entries
<1>2. \A j \in pending : j.kind # "early_stop" /\ j.unit \in Units
  BY <1>1 DEF LoopInv, Base, Order, Items
<1>3. \A j \in pending \ {i} : j.unit # i.unit
  BY DEF LoopInv, Base, Lists, OnePerUnit
<1>4. /\ AtWork(i) => state[i.unit] = "Processing"
      /\ ~AtWork(i) => state[i.unit] = "Ready"
  BY <1>1 DEF LoopInv, Base, Assigned, AtWork, Items
<1>5. retries[i.unit] <= MaxRetries /\ (AtWork(i) => attempts[i.unit] = retries[i.unit] + 1)
  BY <1>1, <1>4 DEF LoopInv, Base, Budget, AttemptsMatchRecoveries
<1>6. state[Root] \in {"Ready", "Processing"}
  BY <1>1, <1>2 DEF LoopInv, Base, Order
<1>7. \A j \in pending : j.unit = Root => \A u \in Units \ {Root} : state[u] = "Absent"
  BY <1>2 DEF LoopInv, Base, Order
<1>8. \A j \in pending : state[j.unit] \in {"Ready", "Processing"}
  BY <1>1, <1>2 DEF LoopInv, Base, Assigned, AtWork, Items
<1>9. CASE i.unit = Root
  <2>1. \A u \in Units \ {Root} : state[u] = "Absent"
    BY <1>7, <1>9
  <2>2. pending = {i}
    BY <2>1, <1>2, <1>3, <1>8, <1>9
  <2>3. ~MergeMade
    BY <2>1 DEF MergeMade
  <2> QED BY <2>1, <2>2, <2>3, <1>1, <1>2, <1>3, <1>4, <1>5, <1>9 DEF LoopInv, Base, Remembered, WorkOf
<1>10. CASE i.unit # Root
  <2>1. \A j \in pending : j.unit # Root
    BY <1>1, <1>7, <1>8, <1>10
  <2>2. state[Root] = "Processing"
    BY <1>1, <1>6, <1>8, <1>10 DEF LoopInv, Base, Order
  <2> QED BY <2>1, <2>2, <1>1, <1>2, <1>3, <1>4, <1>5, <1>10 DEF LoopInv, Base, Remembered, Units, WorkOf
<1> QED BY <1>9, <1>10

\* A child is bound (coordinator.py:1081).
LEMMA CompleteChildStep ==
  ASSUME LoopInv, NEW i \in pending, CompleteChild(i), graph' \in Graphs PROVE Base'
<1> USE UnitFacts
<1> DEFINE c == i.unit
<1>1. /\ Taken(i) /\ i.kind = "execution" /\ c \in Children /\ AtWork(i)
      /\ state' = [state EXCEPT ![c] = "Completed"]
      /\ witness' \subseteq witness \cup {c}
      /\ Consume(i)
      /\ scenario' = scenario /\ attempts' = attempts /\ retries' = retries
      /\ failedChild' = failedChild /\ candidates' = candidates /\ ending' = ending
  BY DEF CompleteChild, RecordOne, AtWork
<1>2. /\ pending' = pending \ {i} /\ used' = used /\ clock' \in Nat /\ Lists'
  BY <1>1, ConsumeStep
<1>3. /\ state[c] = "Processing" /\ attempts[c] = retries[c] + 1 /\ retries[c] <= MaxRetries
      /\ state[Root] = "Processing" /\ Running
      /\ \A j \in pending : j.kind # "early_stop" /\ j.unit \in Units /\ j.unit # Root
      /\ \A j \in pending \ {i} : j.unit # c
  BY <1>1, WorkFacts, TakenFacts DEF WorkOf
<1>4. state \in [Units -> TaskStates]
  BY DEF LoopInv, Base, TypeOK
<1> HIDE DEF c
<1>5. TypeOK'
  BY <1>1, <1>2, <1>4 DEF LoopInv, Base, Lists, TypeOK, Entries, Items
<1>6. Assigned' /\ AtWorkIsPending'
  BY <1>1, <1>2, <1>3, <1>4 DEF LoopInv, Base, Assigned, AtWorkIsPending, Running, c
<1>7. StopOnce' /\ Order'
  BY <1>1, <1>2, <1>3, <1>4 DEF LoopInv, Base, StopOnce, Order, Running
<1>8. Budget' /\ AttemptsMatchRecoveries'
  BY <1>1, <1>3, <1>4 DEF LoopInv, Base, Budget, AttemptsMatchRecoveries
<1>9. MergeIsAlone' /\ Remembered'
  BY <1>1, <1>2, <1>3, <1>4 DEF LoopInv, Base, MergeIsAlone, MergeMade, Remembered, Running, ContinueAfterFailure
<1> QED BY <1>2, <1>5, <1>6, <1>7, <1>8, <1>9 DEF LoopInv, Base

\* An unsplit root is bound, and the run settles (coordinator.py:1106).
LEMMA CompleteRootStep ==
  ASSUME LoopInv, NEW i \in pending, CompleteRoot(i), graph' \in Graphs PROVE Base'
<1> USE UnitFacts
<1>1. /\ Taken(i) /\ i.kind = "execution" /\ i.unit = Root /\ AtWork(i)
      /\ state' = [state EXCEPT ![Root] = "Completed"]
      /\ Consume(i)
      /\ scenario' = scenario /\ attempts' = attempts /\ retries' = retries /\ witness' = witness
      /\ failedChild' = failedChild /\ candidates' = candidates /\ ending' = "settled"
  BY DEF CompleteRoot, RecordOne, AtWork
<1>2. /\ pending' = pending \ {i} /\ used' = used /\ clock' \in Nat /\ Lists'
  BY <1>1, ConsumeStep
<1>3. /\ state[Root] = "Processing" /\ attempts[Root] = retries[Root] + 1
      /\ retries[Root] <= MaxRetries /\ pending = {i}
  BY <1>1, WorkFacts DEF WorkOf
<1>4. state \in [Units -> TaskStates]
  BY DEF LoopInv, Base, TypeOK
<1>5. TypeOK'
  BY <1>1, <1>2, <1>4 DEF LoopInv, Base, Lists, TypeOK, Entries, Items, Endings
<1>6. Assigned' /\ AtWorkIsPending' /\ StopOnce' /\ Order' /\ MergeIsAlone' /\ Remembered'
  BY <1>1, <1>2, <1>3, <1>4
     DEF LoopInv, Base, Assigned, AtWorkIsPending, StopOnce, Order, MergeIsAlone, Remembered, Running
<1>7. Budget' /\ AttemptsMatchRecoveries'
  BY <1>1, <1>3, <1>4 DEF LoopInv, Base, Budget, AttemptsMatchRecoveries
<1> QED BY <1>2, <1>5, <1>6, <1>7 DEF LoopInv, Base

\* The children come in, and nothing else is under way (coordinator.py:1128).
LEMMA ExpandRootStep ==
  ASSUME LoopInv, NEW i \in pending, ExpandRoot(i), graph' \in Graphs PROVE Base'
<1> USE UnitFacts
<1>1. /\ Taken(i) /\ i.kind = "execution" /\ i.unit = Root /\ AtWork(i)
      /\ state' = [u \in Units |-> IF u \notin scenario.split THEN state[u]
                                   ELSE IF Needs[u] = {} THEN "Ready" ELSE "Blocked"]
      /\ Consume(i)
      /\ scenario' = scenario /\ attempts' = attempts /\ retries' = retries /\ witness' = witness
      /\ failedChild' = failedChild /\ candidates' = candidates /\ ending' = ending
  <2>1. scenario.split \subseteq Units
    BY UnitFacts, TakenFacts DEF ExpandRoot, Scenario
  <2> QED BY <2>1 DEF ExpandRoot, Record, AtWork
<1>2. /\ pending' = pending \ {i} /\ used' = used /\ clock' \in Nat /\ Lists'
  BY <1>1, ConsumeStep
<1>3. /\ state[Root] = "Processing" /\ pending = {i} /\ Running
      /\ \A u \in Units \ {Root} : state[u] = "Absent"
  BY <1>1, WorkFacts, TakenFacts DEF WorkOf
<1>4. scenario.split \subseteq Children
  BY TakenFacts, <1>1 DEF Scenario
<1>5. /\ state'[Root] = "Processing" /\ state'[Merge] = "Absent"
      /\ \A u \in Units \ {Root} : state'[u] \in {"Absent", "Ready", "Blocked"}
      /\ state' \in [Units -> TaskStates]
  BY <1>1, <1>3, <1>4 DEF LoopInv, Base, TypeOK
<1>6. TypeOK'
  BY <1>1, <1>2, <1>5 DEF LoopInv, Base, Lists, TypeOK, Entries, Items, Endings
<1>7. Assigned' /\ AtWorkIsPending' /\ StopOnce' /\ Order' /\ MergeIsAlone' /\ Remembered'
  BY <1>1, <1>2, <1>3, <1>5
     DEF LoopInv, Base, Assigned, AtWorkIsPending, StopOnce, Order, MergeIsAlone, MergeMade, Remembered,
         Running, ContinueAfterFailure
<1>8. \A u \in Units \ {Root} : attempts[u] = 0 /\ retries[u] = 0
  BY <1>3 DEF LoopInv, Base, Budget
<1>9. Budget' /\ AttemptsMatchRecoveries'
  BY <1>1, <1>3, <1>5, <1>8 DEF LoopInv, Base, Budget, AttemptsMatchRecoveries
<1> QED BY <1>2, <1>6, <1>7, <1>9 DEF LoopInv, Base

\* The run ends where the units are.
LEMMA EndStep ==
  ASSUME LoopInv, NEW i \in pending, Taken(i), Consume(i),
         ending' \in Endings \ {"running"} \/ ending' = ending,
         UNCHANGED <<scenario, state, witness, attempts, retries, failedChild, candidates>>,
         ending' = ending => i.kind = "requeue",
         graph' \in Graphs
  PROVE  Base'
<1> USE UnitFacts
<1>1. /\ scenario' = scenario /\ attempts' = attempts /\ retries' = retries /\ witness' = witness
      /\ state' = state /\ failedChild' = failedChild /\ candidates' = candidates
      /\ MergeMade' = MergeMade /\ ContinueAfterFailure' = ContinueAfterFailure
  BY DEF MergeMade, ContinueAfterFailure
<1>2. /\ pending' = pending \ {i} /\ used' = used /\ clock' \in Nat /\ Lists'
  BY <1>1, ConsumeStep
<1>3. Running /\ (Running' => i.kind = "requeue")
  BY TakenFacts DEF Running
<1>4. TypeOK'
  BY <1>1, <1>2 DEF LoopInv, Base, Lists, TypeOK, Entries, Items, Endings
<1>5. Assigned' /\ AtWorkIsPending' /\ StopOnce'
  BY <1>1, <1>2, <1>3 DEF LoopInv, Base, Assigned, AtWorkIsPending, AtWork, StopOnce
<1>6. Order' /\ MergeIsAlone' /\ Remembered'
  <2>1. Order'
    <3>1. Running' => state[Root] \in {"Ready", "Processing"}
      <4>1. Running' => i.kind # "early_stop"
        BY <1>3
      <4> QED BY <4>1, <1>3, WorkFacts DEF LoopInv, Base, Order, WorkOf
    <3> QED BY <3>1, <1>1, <1>2 DEF LoopInv, Base, Order
  <2> QED BY <2>1, <1>1, <1>2, <1>3 DEF LoopInv, Base, MergeIsAlone, Remembered
<1>7. Budget' /\ AttemptsMatchRecoveries'
  BY <1>1 DEF LoopInv, Base, Budget, AttemptsMatchRecoveries
<1> QED BY <1>2, <1>4, <1>5, <1>6, <1>7 DEF LoopInv, Base

\* The early stop is the last of its branch (coordinator.py:857).
LEMMA EarlyStopStep ==
  ASSUME LoopInv, NEW i \in pending, EarlyStop(i), graph' \in Graphs PROVE Base'
<1> USE UnitFacts
<1>1. /\ Taken(i) /\ i.kind = "early_stop"
      /\ state' = [u \in Units |-> IF u \in candidates THEN "Cancelled" ELSE state[u]]
      /\ Consume(i)
      /\ scenario' = scenario /\ attempts' = attempts /\ retries' = retries /\ witness' = witness
      /\ failedChild' = failedChild /\ candidates' = candidates /\ ending' = "settled"
  <2>1. candidates \subseteq Units
    BY DEF LoopInv, Base, TypeOK
  <2> QED BY <2>1 DEF EarlyStop, Record
<1>2. /\ pending' = pending \ {i} /\ used' = used /\ clock' \in Nat /\ Lists'
  BY <1>1, ConsumeStep
<1>3. pending = {i} /\ state[Root] = "Completed"
  BY <1>1 DEF LoopInv, Base, Order
<1>4. pending' = {} /\ candidates = {u \in Units \ {Root} : state[u] \in {"Ready", "Blocked"}}
  BY <1>1, <1>2, <1>3 DEF LoopInv, Base, Order
<1>5. \A u \in Units : /\ state'[u] # "Cancelled" => state'[u] = state[u]
                       /\ state'[u] \in TaskStates
  BY <1>1 DEF LoopInv, Base, TypeOK
<1>6. state'[Root] = "Completed"
  BY <1>1, <1>3, <1>4
<1>7. TypeOK'
  BY <1>1, <1>2, <1>5 DEF LoopInv, Base, Lists, TypeOK, Entries, Items, Endings
<1>8. Assigned' /\ AtWorkIsPending' /\ StopOnce' /\ Order' /\ MergeIsAlone' /\ Remembered'
  BY <1>1, <1>2, <1>4, <1>5, <1>6
     DEF LoopInv, Base, Assigned, AtWorkIsPending, StopOnce, Order, MergeIsAlone, Remembered, Running
<1>9. Budget' /\ AttemptsMatchRecoveries'
  BY <1>1, <1>5 DEF LoopInv, Base, Budget, AttemptsMatchRecoveries
<1> QED BY <1>2, <1>7, <1>8, <1>9 DEF LoopInv, Base

\* A recovery that waits for its instant replaces its completion
\* (coordinator.py:1759).
LEMMA DeferRecoveryStep ==
  ASSUME LoopInv, NEW i \in pending, DeferRecovery(i), graph' \in Graphs
  PROVE  Base' /\ ending' = "running"
<1> USE UnitFacts
<1>1. /\ Taken(i) /\ Logical /\ i.kind = "execution" /\ AtWork(i)
      /\ Seen(i) \notin Successes \cup {"infrastructure"}
      /\ Follow(i, "retry", i.unit, i.ordinal)
      /\ scenario' = scenario /\ attempts' = attempts /\ retries' = retries /\ witness' = witness
      /\ state' = state /\ failedChild' = failedChild /\ candidates' = candidates
  BY DEF DeferRecovery, Fails, AtWork, graphVars
<1>2. PICK next \in Items :
        /\ next.kind = "retry" /\ next.unit = i.unit
        /\ pending' = (pending \ {i}) \cup {next}
        /\ clock' \in Nat /\ ending' = "running"
        /\ Lists'
        /\ \A e \in used' \ used : e.priority # 40
  BY <1>1, DeferStep
<1>3. Running /\ WorkOf(i)
  BY <1>1, WorkFacts, TakenFacts
<1>4. TypeOK'
  BY <1>1, <1>2 DEF LoopInv, Base, Lists, TypeOK, Entries, Items, Endings
<1>5. Assigned' /\ AtWorkIsPending' /\ StopOnce'
  BY <1>1, <1>2, <1>3 DEF LoopInv, Base, Assigned, AtWorkIsPending, AtWork, StopOnce, WorkOf
<1>6. Order' /\ MergeIsAlone' /\ Remembered'
  BY <1>1, <1>2, <1>3
     DEF LoopInv, Base, Order, MergeIsAlone, MergeMade, Remembered, Running, ContinueAfterFailure, WorkOf
<1>7. Budget' /\ AttemptsMatchRecoveries'
  BY <1>1 DEF LoopInv, Base, Budget, AttemptsMatchRecoveries
<1> QED BY <1>2, <1>4, <1>5, <1>6, <1>7 DEF LoopInv, Base

\* A recovered unit is Ready again, whether or not it is requeued.
LEMMA ReadyAgainStep ==
  ASSUME LoopInv, NEW i \in pending, Taken(i), AtWork(i),
         Verdict(i.unit) = "Ready",
         retries' = [retries EXCEPT ![i.unit] = @ + 1],
         state' = [state EXCEPT ![i.unit] = "Ready"],
         ending' \in {"requeue_blocked", ending},
         Lists', clock' \in Nat,
         \A j \in pending' : /\ j \in Items
                             /\ \/ j \in pending \ {i}
                                \/ j.kind = "requeue" /\ j.unit = i.unit,
         pending \ {i} \subseteq pending',
         \A e \in used' \ used : e.priority # 40,
         UNCHANGED <<scenario, witness, attempts, failedChild, candidates>>,
         graph' \in Graphs
  PROVE  Base'
<1> USE UnitFacts
<1>1. /\ scenario' = scenario /\ attempts' = attempts /\ witness' = witness
      /\ failedChild' = failedChild /\ candidates' = candidates
  OBVIOUS
<1>2. Running /\ ending = "running" /\ WorkOf(i) /\ i.unit \in Units /\ i \in Items
  BY WorkFacts, TakenFacts DEF AtWork
<1> DEFINE u == i.unit
<1> HIDE DEF u
<1>3. /\ state' = [state EXCEPT ![u] = "Ready"] /\ retries' = [retries EXCEPT ![u] = @ + 1]
      /\ u \in Units /\ state[u] = "Processing" /\ attempts[u] = retries[u] + 1
      /\ retries[u] <= MaxRetries
  BY <1>2 DEF u, WorkOf
<1>4. retries[u] + 1 <= MaxRetries
  BY DEF Verdict, RetryState, u
<1>5. /\ state \in [Units -> TaskStates]
      /\ retries \in [Units -> 0..(MaxRetries + 1)]
  BY DEF LoopInv, Base, TypeOK
<1>6. retries' \in [Units -> 0..(MaxRetries + 1)]
  BY <1>3, <1>4, <1>5 DEF RecoveryAssumption
<1>7. TypeOK'
  BY <1>1, <1>2, <1>3, <1>5, <1>6 DEF LoopInv, Base, TypeOK, Endings, Items
<1>8. Assigned' /\ AtWorkIsPending'
  BY <1>1, <1>2, <1>3, <1>5 DEF LoopInv, Base, Assigned, AtWorkIsPending, Running, AtWork, WorkOf, u
<1>9. StopOnce' /\ MergeIsAlone' /\ Remembered'
  BY <1>1, <1>2, <1>3, <1>5
     DEF LoopInv, Base, StopOnce, MergeIsAlone, MergeMade, Remembered, Running, ContinueAfterFailure,
         WorkOf, u
<1>10. Order'
  BY <1>2, <1>3, <1>5 DEF LoopInv, Base, Order, Running, WorkOf, u
<1>11. Budget'
  BY <1>1, <1>3, <1>4, <1>5 DEF LoopInv, Base, Budget
<1>12. AttemptsMatchRecoveries'
  <2>1. \A v \in Units : v # u => state'[v] = state[v] /\ retries'[v] = retries[v]
    BY <1>3, <1>5
  <2>2. state'[u] = "Ready" /\ retries'[u] = retries[u] + 1
    BY <1>3, <1>5
  <2> QED BY <2>1, <2>2, <1>1, <1>3 DEF LoopInv, Base, AttemptsMatchRecoveries
<1> QED BY <1>7, <1>8, <1>9, <1>10, <1>11, <1>12 DEF LoopInv, Base

\* The budget is spent.
LEMMA FailStep ==
  ASSUME LoopInv, NEW i \in pending, Taken(i), AtWork(i),
         Verdict(i.unit) # "Ready",
         retries' = [retries EXCEPT ![i.unit] = @ + 1],
         Fail(i), Consume(i),
         UNCHANGED <<scenario, witness, attempts, candidates>>,
         graph' \in Graphs
  PROVE  Base'
<1> USE UnitFacts
<1>1. /\ scenario' = scenario /\ attempts' = attempts /\ witness' = witness
      /\ candidates' = candidates /\ ContinueAfterFailure' = ContinueAfterFailure
  BY DEF ContinueAfterFailure
<1>2. Running /\ ending = "running" /\ WorkOf(i) /\ i.unit \in Units /\ i \in Items
  BY WorkFacts, TakenFacts DEF AtWork
<1>3. pending' = pending \ {i} /\ used' = used /\ clock' \in Nat /\ Lists'
  BY <1>1, ConsumeStep
<1> DEFINE u == i.unit
<1>4. /\ retries' = [retries EXCEPT ![u] = @ + 1]
      /\ u \in Units /\ state[u] = "Processing" /\ attempts[u] = retries[u] + 1
      /\ retries[u] = MaxRetries
  <2>1. retries[u] \in Nat /\ ~(retries[u] + 1 <= MaxRetries) /\ MaxRetries \in Nat
    BY <1>2 DEF Verdict, RetryState, LoopInv, Base, TypeOK, RecoveryAssumption
  <2> QED BY <2>1, <1>2 DEF WorkOf
<1>5. /\ state \in [Units -> TaskStates]
      /\ retries \in [Units -> 0..(MaxRetries + 1)]
  BY DEF LoopInv, Base, TypeOK
<1>6. retries' \in [Units -> 0..(MaxRetries + 1)]
  BY <1>4, <1>5 DEF RecoveryAssumption
<1>7. /\ state'[u] = "Failed"
      /\ \A v \in Units \ {Root} : v # u => state'[v] = state[v]
      /\ state' \in [Units -> TaskStates]
      /\ u = Root => failedChild' = failedChild /\ ending' = "root_failed"
      /\ u # Root => /\ failedChild' = u
                     /\ \/ ContinueAfterFailure /\ state'[Root] = state[Root] /\ ending' = ending
                        \/ state'[Root] = "Failed" /\ ending' = "parent_failed"
  BY <1>4, <1>5 DEF Fail, Record, RecordOne
<1> HIDE DEF u
<1>8. TypeOK'
  BY <1>1, <1>2, <1>3, <1>4, <1>6, <1>7 DEF LoopInv, Base, Lists, TypeOK, Entries, Items, Endings
<1>9. Assigned' /\ AtWorkIsPending'
  BY <1>1, <1>2, <1>3, <1>4, <1>7
     DEF LoopInv, Base, Assigned, AtWorkIsPending, Running, AtWork, WorkOf, u
<1>10. StopOnce' /\ Order'
  BY <1>1, <1>2, <1>3, <1>4, <1>7 DEF LoopInv, Base, StopOnce, Order, Running, WorkOf, u
<1>11. MergeIsAlone' /\ Remembered'
  BY <1>1, <1>2, <1>3, <1>4, <1>7, CoordinatorAssumption
     DEF LoopInv, Base, MergeIsAlone, MergeMade, Remembered, Running, WorkOf, u
<1>12. \A v \in Units : retries'[v] = IF v = u THEN retries[v] + 1 ELSE retries[v]
  BY <1>4, <1>5
<1>13. Budget' /\ AttemptsMatchRecoveries'
  <2>1. retries[Root] <= MaxRetries /\ state[Root] = "Processing"
    BY <1>2, <1>4 DEF WorkOf, u, LoopInv, Base, Budget
  <2>2. \A v \in Units \ {Root} : v # u => state'[v] = state[v] /\ retries'[v] = retries[v]
    BY <1>7, <1>12
  <2>3. u # Root => retries'[Root] = retries[Root] /\ state'[Root] \in {"Processing", "Failed"}
    BY <2>1, <1>7, <1>12
  <2>4. MaxRetries \in Nat /\ \A v \in Units : retries[v] \in Nat
    BY <1>5 DEF RecoveryAssumption
  <2>5. Budget'
    BY <2>1, <2>2, <2>3, <1>1, <1>7 DEF LoopInv, Base, Budget
  <2>6. AttemptsMatchRecoveries'
    BY <2>1, <2>2, <2>3, <2>4, <1>1, <1>4, <1>7, <1>12 DEF LoopInv, Base, AttemptsMatchRecoveries
  <2> QED BY <2>5, <2>6
<1> QED BY <1>3, <1>8, <1>9, <1>10, <1>11, <1>13 DEF LoopInv, Base

\* A recovery without delay (coordinator.py:1743).
LEMMA RecoverNowStep ==
  ASSUME LoopInv, NEW i \in pending, RecoverNow(i), graph' \in Graphs PROVE Base'
<1>1. /\ Taken(i) /\ AtWork(i) /\ Consume(i) /\ ending = "running"
      /\ retries' = [retries EXCEPT ![i.unit] = @ + 1]
      /\ UNCHANGED <<scenario, witness, attempts, candidates>>
  BY TakenFacts DEF RecoverNow, Recovered, Fails, AtWork
<1>2. CASE Verdict(i.unit) = "Ready"
  <2>1. /\ state' = [state EXCEPT ![i.unit] = "Ready"]
        /\ ending' \in {"requeue_blocked", ending} /\ failedChild' = failedChild
    BY <1>2 DEF RecoverNow, RecordOne
  <2>2. /\ pending' = pending \ {i} /\ used' = used /\ clock' \in Nat /\ Lists'
    BY <1>1, ConsumeStep
  <2>3. pending' \subseteq Items
    BY <2>2 DEF Lists, Entries
  <2> QED BY <1>1, <1>2, <2>1, <2>2, <2>3, ReadyAgainStep
<1>3. CASE Verdict(i.unit) # "Ready"
  BY <1>1, <1>3, FailStep DEF RecoverNow
<1> QED BY <1>2, <1>3

\* A deferred recovery is due (coordinator.py:797).
LEMMA RetryStep ==
  ASSUME LoopInv, NEW i \in pending, Retry(i), graph' \in Graphs
  PROVE  Base' /\ ending' # "raised"
<1>1. /\ Taken(i) /\ i.kind = "retry" /\ AtWork(i) /\ Logical /\ ending = "running"
      /\ retries' = [retries EXCEPT ![i.unit] = @ + 1]
      /\ UNCHANGED <<scenario, witness, attempts, candidates>>
  BY TakenFacts DEF Retry, Recovered, AtWork
<1>2. CASE Verdict(i.unit) = "Ready"
  <2>1. /\ state' = [state EXCEPT ![i.unit] = "Ready"] /\ failedChild' = failedChild
        /\ \/ ending' = "requeue_blocked" /\ Consume(i)
           \/ Follow(i, "requeue", i.unit, i.ordinal)
    BY <1>2 DEF Retry, RecordOne
  <2>2. CASE ending' = "requeue_blocked" /\ Consume(i)
    <3>1. /\ pending' = pending \ {i} /\ used' = used /\ clock' \in Nat /\ Lists'
      BY <1>1, <2>2, ConsumeStep
    <3>2. pending' \subseteq Items
      BY <3>1 DEF Lists, Entries
    <3> QED BY <1>1, <1>2, <2>1, <2>2, <3>1, <3>2, ReadyAgainStep
  <2>3. CASE Follow(i, "requeue", i.unit, i.ordinal)
    <3>1. PICK next \in Items :
            /\ next.kind = "requeue" /\ next.unit = i.unit
            /\ pending' = (pending \ {i}) \cup {next}
            /\ clock' \in Nat /\ ending' = "running"
            /\ Lists'
            /\ \A e \in used' \ used : e.priority # 40
      BY <1>1, <2>3, DeferStep
    <3>2. pending' \subseteq Items
      BY <3>1 DEF Lists, Entries
    <3> QED BY <1>1, <1>2, <2>1, <3>1, <3>2, ReadyAgainStep
  <2> QED BY <2>1, <2>2, <2>3
<1>3. CASE Verdict(i.unit) # "Ready"
  BY <1>1, <1>3, FailStep DEF Retry, Fail
<1> QED BY <1>2, <1>3

\* With no requeue to come the graph lacks lost failures only.
LEMMA AllShown ==
  ASSUME LoopInv, Running, \A i \in pending : i.kind # "requeue"
  PROVE  \A u \in Units :
           \/ graph[u] = state[u]
           \/ /\ Logical /\ u \in Children /\ ContinueAfterFailure
              /\ graph[u] = "Processing" /\ state[u] = "Failed"
BY DEF LoopInv, Mirrored, Shows, CatchesUp, Behind, Requeued

\* The merge is bound: what is unscheduled is pruned, and the root completes or
\* stops early (coordinator.py:968).
LEMMA CompleteMergeStep ==
  ASSUME LoopInv, NEW i \in pending, CompleteMerge(i), graph' \in Graphs
  PROVE  Base' /\ ending' # "raised" /\ \A j \in pending' : j.kind = "early_stop"
<1> USE UnitFacts
<1>1. /\ Taken(i) /\ i.kind = "execution" /\ AtWork(i) /\ i.unit = Merge
      /\ state' = [state EXCEPT ![Root] = "Completed"]
      /\ scenario' = scenario /\ attempts' = attempts /\ retries' = retries /\ witness' = witness
      /\ failedChild' = failedChild
  BY DEF CompleteMerge, RecordOne, AtWork
<1>2. Running /\ WorkOf(i) /\ i \in Items
  BY <1>1, WorkFacts, TakenFacts
<1>3. /\ state[Root] = "Processing" /\ state[Merge] = "Processing" /\ pending = {i}
  BY <1>1, <1>2 DEF WorkOf, LoopInv, Base, MergeIsAlone, MergeMade
<1>4. /\ state \in [Units -> TaskStates]
      /\ state'[Root] = "Completed" /\ \A u \in Units \ {Root} : state'[u] = state[u]
      /\ state' \in [Units -> TaskStates]
  BY <1>1 DEF LoopInv, Base, TypeOK
<1>5. /\ Lists' /\ clock' \in Nat /\ candidates' \subseteq Units /\ ending' \in Endings \ {"raised"}
      /\ \A j \in pending' : j.kind = "early_stop" /\ j.unit = Root /\ pending' = {j}
      /\ Running' => pending' # {}
      /\ pending' # {} =>
           candidates' = {u \in Units \ {Root} : state[u] \in {"Ready", "Blocked"}}
  <2>1. CASE ~(Logical /\ Unscheduled(i) # {})
    <3>1. Consume(i) /\ ending' = "settled" /\ candidates' = candidates
      BY <2>1 DEF CompleteMerge
    <3>2. /\ pending' = pending \ {i} /\ clock' \in Nat /\ Lists'
      BY <1>1, <3>1, ConsumeStep
    <3> QED BY <3>1, <3>2, <1>3 DEF Running, Endings, LoopInv, Base, TypeOK
  <2>2. CASE Logical /\ Unscheduled(i) # {}
    <3>1. candidates' = Unscheduled(i) /\ Follow(i, "early_stop", Root, 0)
      BY <2>2 DEF CompleteMerge
    <3>2. \A e \in used : e.priority # 40
      BY <1>3 DEF LoopInv, Base, StopOnce
    <3>3. PICK next \in Items :
            /\ next.kind = "early_stop" /\ next.unit = Root /\ next.ordinal = 0
            /\ next.event \in Keys /\ next.event \notin used
            /\ next.event.unit = Rank[Root] /\ next.event.ordinal = 0
            /\ next.event.time = i.event.time /\ clock' = i.event.time
            /\ pending' = (pending \ {i}) \cup {next}
            /\ used' = used \cup {next.event} /\ queue' \subseteq used'
            /\ clock' \in Nat /\ ending' = "running"
            /\ QueueIsPending'
            /\ IsFiniteSet(pending') /\ pending' \subseteq Items
            /\ Cardinality(Executions') <= Capacity
      <4>1. \A e \in used : ~(/\ e.priority = Sched!Priority["early_stop"]
                              /\ e.unit = Rank[Root] /\ e.ordinal = 0)
        BY <3>2 DEF Sched!Priority
      <4>2. "early_stop" \in {"retry", "requeue", "early_stop"} /\ 0 \in Nat /\ scenario' = scenario
        BY <1>1
      <4> HIDE DEF Graphs
      <4> QED BY <4>1, <4>2, <2>2, <3>1, <1>1, FollowStep
    <3>4. pending' = {next}
      BY <3>3, <1>3
    <3>5. Logical' = Logical
      BY <1>1 DEF Logical
    <3>6. Entries'
      <4>1. used' \subseteq Keys
        BY <3>3 DEF LoopInv, Base, Lists, Entries
      <4> QED BY <2>2, <3>3, <3>4, <3>5, <4>1 DEF Entries
    <3>7. attempts[Root] > 0
      <4>1. attempts[Root] = retries[Root] + 1 /\ retries[Root] \in Nat
        BY <1>3 DEF LoopInv, Base, AttemptsMatchRecoveries, TypeOK, RecoveryAssumption
      <4> QED BY <4>1
    <3>8. KeysOnce'
      BY <3>3, <3>4, <3>7, <1>1 DEF LoopInv, Base, Lists, KeysOnce
    <3>9. Current' /\ OnePerUnit'
      BY <3>3, <3>4, <3>7, <1>1 DEF Current, OnePerUnit, AtWork
    <3>11. Timed'
      BY <3>3, <3>4 DEF Timed
    <3>10. Unscheduled(i) = {u \in Units \ {Root} : state[u] \in {"Ready", "Blocked"}}
      <4>1. \A u \in Units : graph[u] \in {"Ready", "Blocked"} <=> state[u] \in {"Ready", "Blocked"}
        BY <1>1, <1>2, <1>3, AllShown
      <4>2. Executions \ {i} = {}
        BY <1>3 DEF Executions
      <4> QED BY <4>1, <4>2 DEF Unscheduled
    <3> QED BY <3>1, <3>3, <3>4, <3>6, <3>8, <3>9, <3>10, <3>11 DEF Lists, Endings
  <2> QED BY <2>1, <2>2
<1>6. TypeOK'
  BY <1>1, <1>4, <1>5 DEF LoopInv, Base, Lists, TypeOK, Entries, Items
<1>7. Assigned' /\ AtWorkIsPending' /\ StopOnce'
  BY <1>1, <1>2, <1>3, <1>4, <1>5 DEF LoopInv, Base, Assigned, AtWorkIsPending, AtWork, StopOnce
<1>8. Order' /\ MergeIsAlone' /\ Remembered'
  BY <1>1, <1>2, <1>3, <1>4, <1>5
     DEF LoopInv, Base, Order, MergeIsAlone, Remembered, Running, ContinueAfterFailure, WorkOf
<1>9. Budget' /\ AttemptsMatchRecoveries'
  BY <1>1, <1>3, <1>4 DEF LoopInv, Base, Budget, AttemptsMatchRecoveries
<1> QED BY <1>5, <1>6, <1>7, <1>8, <1>9 DEF LoopInv, Base

\* The steps that take no entry.
ListsKept == UNCHANGED <<scenario, attempts, pending, clock, queue, used>>

\* A step that touches no list leaves the lists as they are.
LEMMA KeptStep ==
  ASSUME LoopInv, ListsKept
  PROVE  Lists' /\ Logical' = Logical /\ ContinueAfterFailure' = ContinueAfterFailure
<1>1. /\ Logical' = Logical /\ ContinueAfterFailure' = ContinueAfterFailure
      /\ Executions' = Executions
  BY DEF ListsKept, Logical, ContinueAfterFailure, Executions
<1> QED
  BY <1>1
     DEF ListsKept, LoopInv, Base, Lists, Entries, QueueIsPending, KeysOnce, Current, Timed, OnePerUnit

\* A child whose needs are bound (coordinator.py:448).
LEMMA ActivateStep ==
  ASSUME LoopInv, NEW u \in Units, Activate(u), graph' \in Graphs PROVE Base'
<1> USE UnitFacts
<1>1. /\ Running /\ state' = [state EXCEPT ![u] = "Ready"]
      /\ ListsKept /\ witness' = witness /\ retries' = retries /\ failedChild' = failedChild
      /\ candidates' = candidates /\ ending' = ending /\ pending' = pending /\ used' = used
      /\ attempts' = attempts
  BY DEF Activate, RecordOne, ListsKept, schedVars
<1>2. u \in Children /\ state[u] = "Blocked" /\ ~PendingControl
  <2>1. u \in Activatable
    BY DEF Activate
  <2>2. (Logical /\ ~PendingControl) \/ pending = {}
    BY <2>1 DEF Activatable
  <2>3. u \in Scoped({c \in Children : /\ ~MergeMade /\ graph[c] = "Blocked"
                                       /\ \A s \in Needs[c] : graph[s] = "Completed"})
    BY <2>1, <2>2 DEF Activatable
  <2> QED BY <2>2, <2>3, ShownFacts DEF Scoped, PendingControl, Executions
<1>3. Lists' /\ ContinueAfterFailure' = ContinueAfterFailure
  BY <1>1, KeptStep
<1>4. state \in [Units -> TaskStates]
  BY DEF LoopInv, Base, TypeOK
<1>5. \A i \in pending : i.kind = "execution" /\ i.unit \in Units
  BY <1>2 DEF PendingControl, Executions, LoopInv, Base, Lists, Entries, Items
<1>6. TypeOK'
  BY <1>1, <1>4 DEF LoopInv, Base, TypeOK, ListsKept
<1>7. Assigned' /\ AtWorkIsPending' /\ StopOnce'
  BY <1>1, <1>2, <1>4, <1>5 DEF LoopInv, Base, Assigned, AtWorkIsPending, AtWork, StopOnce, Running
<1>8. Order' /\ MergeIsAlone' /\ Remembered'
  BY <1>1, <1>2, <1>3, <1>4, <1>5
     DEF LoopInv, Base, Order, MergeIsAlone, MergeMade, Remembered, Running
<1>9. Budget' /\ AttemptsMatchRecoveries'
  BY <1>1, <1>2, <1>4, RecoveryAssumption DEF LoopInv, Base, Budget, AttemptsMatchRecoveries
<1> QED BY <1>3, <1>6, <1>7, <1>8, <1>9 DEF LoopInv, Base

\* The root is whole and was expanded when a merge is made or it fails with a
\* descendant.
LEMMA IdleStep == ASSUME LoopInv, Idle, graph' \in Graphs PROVE Base'
<1> USE UnitFacts
<1>1. /\ Running /\ pending = {} /\ ListsKept /\ witness' = witness /\ retries' = retries
      /\ failedChild' = failedChild /\ candidates' = candidates
      /\ pending' = pending /\ used' = used /\ attempts' = attempts
  BY DEF Idle, EndPartial, CreateMerge, PrematureMerge, FailParent, Stall, Quiet, ListsKept,
         schedVars, graphVars
<1>2. \/ /\ Expanded /\ ~MergeMade /\ state' = [state EXCEPT ![Merge] = "Ready"]
         /\ ending' = ending
      \/ /\ state' = state \/ state' = [state EXCEPT ![Root] = "Failed"]
         /\ ending' \in Endings \ {"running"}
         /\ state' # state => failedChild # None
  BY DEF Idle, EndPartial, CreateMerge, PrematureMerge, FailParent, Stall, RecordOne, graphVars, Endings
<1>3. Lists' /\ ContinueAfterFailure' = ContinueAfterFailure
  BY <1>1, KeptStep
<1>4. state \in [Units -> TaskStates]
  BY DEF LoopInv, Base, TypeOK
<1>5. state[Root] \in {"Ready", "Processing"}
  BY <1>1 DEF LoopInv, Base, Order
<1>6. TypeOK'
  BY <1>1, <1>2, <1>4 DEF LoopInv, Base, TypeOK, ListsKept, Endings
<1>7. Assigned' /\ AtWorkIsPending' /\ StopOnce'
  <2>1. \A e \in used : e.priority # 40
    BY <1>5 DEF LoopInv, Base, StopOnce
  <2> QED BY <2>1, <1>1, <1>2, <1>4 DEF LoopInv, Base, Assigned, AtWorkIsPending, StopOnce, Running
<1>8. Order' /\ MergeIsAlone' /\ Remembered'
  <2>1. Expanded => state[Root] = "Processing"
    BY <1>5 DEF LoopInv, Base, Order, Expanded
  <2> QED BY <2>1, <1>1, <1>2, <1>3, <1>4, <1>5
          DEF LoopInv, Base, Order, MergeIsAlone, Remembered, Running, Endings
<1>9. Budget' /\ AttemptsMatchRecoveries'
  <2>1. ~MergeMade => attempts[Merge] = 0 /\ retries[Merge] = 0
    BY DEF LoopInv, Base, Budget, MergeMade
  <2>2. retries[Root] <= MaxRetries
    BY <1>5 DEF LoopInv, Base, Budget
  <2>3. MaxRetries \in Nat /\ retries[Root] \in Nat
    BY DEF LoopInv, Base, TypeOK, RecoveryAssumption
  <2> QED BY <2>1, <2>2, <2>3, <1>1, <1>2, <1>4 DEF LoopInv, Base, Budget, AttemptsMatchRecoveries
<1> QED BY <1>3, <1>6, <1>7, <1>8, <1>9 DEF LoopInv, Base

-----------------------------------------------------------------------------
\* The graph of the loop and what is recorded.

\* What a step records it takes into the graph.
Recorded ==
  \A u \in Units : \/ graph'[u] = state'[u]
                   \/ graph'[u] = graph[u] /\ state'[u] = state[u]

LEMMA RecordFacts ==
  ASSUME LoopInv, NEW new, DOMAIN new \subseteq Units, \A u \in DOMAIN new : new[u] \in TaskStates,
         Record(new)
  PROVE  graph' \in Graphs /\ Recorded
<1>1. graph \in Graphs
  BY DEF LoopInv, Base, TypeOK
<1>2. /\ state' = [u \in Units |-> IF u \in DOMAIN new THEN new[u] ELSE state[u]]
      /\ graph' = [u \in Units |-> IF u \in DOMAIN new THEN new[u] ELSE graph[u]]
  BY DEF Record
<1> HIDE DEF TaskStates
<1> QED BY <1>1, <1>2 DEF Recorded

LEMMA RecordOneFacts ==
  ASSUME LoopInv, NEW u \in Units, NEW new \in TaskStates, RecordOne(u, new)
  PROVE  graph' \in Graphs /\ Recorded
<1>1. graph \in Graphs /\ state \in Graphs
  BY DEF LoopInv, Base, TypeOK
<1>2. state' = [state EXCEPT ![u] = new] /\ graph' = [graph EXCEPT ![u] = new]
  BY DEF RecordOne
<1> HIDE DEF TaskStates
<1> QED BY <1>1, <1>2 DEF Recorded

LEMMA NothingRecorded ==
  ASSUME LoopInv, state' = state, graph' = graph
  PROVE  graph' \in Graphs /\ Recorded
BY DEF LoopInv, Base, TypeOK, Recorded

\* The budget is spent: one unit is recorded, or the root with it.
LEMMA FailRecorded ==
  ASSUME LoopInv, NEW i \in pending, i.unit \in Units, Fail(i)
  PROVE  graph' \in Graphs /\ Recorded
<1> USE UnitFacts
<1>1. CASE RecordOne(Root, "Failed") \/ RecordOne(i.unit, "Failed")
  BY <1>1, RecordOneFacts
<1>2. CASE Record([u \in {i.unit, Root} |-> "Failed"])
  <2> DEFINE new == [u \in {i.unit, Root} |-> "Failed"]
  <2>1. DOMAIN new \subseteq Units /\ \A u \in DOMAIN new : new[u] \in TaskStates
    OBVIOUS
  <2> HIDE DEF new
  <2>2. Record(new)
    BY <1>2 DEF new
  <2> QED BY <2>1, <2>2, RecordFacts
<1> QED BY <1>1, <1>2 DEF Fail

\* Every step but a requeue takes what it records into the graph.
LEMMA NextRecorded ==
  ASSUME LoopInv, [Next]_vars
  PROVE  graph' \in Graphs /\ (Recorded \/ \E i \in pending : Requeue(i))
<1> USE UnitFacts
<1> HIDE DEF Graphs
<1>1. CASE \E u \in Units : Activate(u)
  BY <1>1, RecordOneFacts DEF Activate
<1>2. CASE Dispatch
  <2> DEFINE Batches == kSubset(Min({Slots, Cardinality(ReadyUnits)}), ReadyUnits)
             Works(b) == [b -> [outcome : scenario.outcomes, latency : scenario.latencies]]
  <2>1. PICK batch \in Batches : \E work \in Works(batch) : Begin(batch, work)
    BY <1>2 DEF Dispatch
  <2> DEFINE new == [u \in batch |-> "Processing"]
  <2>2. batch \subseteq ReadyUnits
    BY DEF kSubset
  <2>3. DOMAIN new \subseteq Units /\ \A u \in DOMAIN new : new[u] \in TaskStates
    BY <2>2 DEF ReadyUnits, Scoped
  <2>4. Record(new)
    BY <2>1 DEF Begin
  <2> HIDE DEF new
  <2> QED BY <2>3, <2>4, RecordFacts
<1>3. CASE Complete
  <2>1. PICK i \in pending : CompleteChild(i) \/ CompleteRoot(i) \/ ExpandRoot(i) \/ CompleteMerge(i)
    BY <1>3 DEF Complete
  <2>2. CASE ExpandRoot(i)
    <3> DEFINE new == [u \in scenario.split |-> IF Needs[u] = {} THEN "Ready" ELSE "Blocked"]
    <3>1. scenario.split \subseteq Units
      BY <2>2, TakenFacts DEF ExpandRoot, Scenario
    <3>2. DOMAIN new \subseteq Units /\ \A u \in DOMAIN new : new[u] \in TaskStates
      BY <3>1
    <3>3. Record(new)
      BY <2>2 DEF ExpandRoot
    <3> HIDE DEF new
    <3> QED BY <3>2, <3>3, RecordFacts
  <2>3. CASE CompleteChild(i) \/ CompleteRoot(i) \/ CompleteMerge(i)
    BY <2>3, RecordOneFacts DEF CompleteChild, CompleteRoot, CompleteMerge
  <2> QED BY <2>1, <2>2, <2>3
<1>4. CASE Trouble
  <2> SUFFICES ASSUME NEW i \in pending,
                      InfrastructureFailure(i) \/ DeferRecovery(i) \/ RecoverNow(i) \/ Refuse(i)
               PROVE  graph' \in Graphs /\ Recorded
    BY <1>4 DEF Trouble
  <2>1. CASE RecoverNow(i)
    <3>1. i.unit \in Units
      BY <2>1, TakenFacts DEF RecoverNow, Recovered, Fails
    <3> QED BY <2>1, <3>1, RecordOneFacts, FailRecorded DEF RecoverNow
  <2> QED BY <2>1, NothingRecorded DEF InfrastructureFailure, DeferRecovery, Refuse, graphVars
<1>5. CASE Control
  <2> SUFFICES ASSUME NEW i \in pending, Retry(i) \/ Requeue(i) \/ EarlyStop(i)
               PROVE  graph' \in Graphs /\ (Recorded \/ Requeue(i))
    BY <1>5 DEF Control
  <2>1. CASE Retry(i)
    <3>1. i.unit \in Units
      BY <2>1, TakenFacts DEF Retry, Recovered, Fails
    <3> QED BY <2>1, <3>1, RecordOneFacts, FailRecorded DEF Retry
  <2>2. CASE Requeue(i)
    BY <2>2 DEF Requeue, LoopInv, Base, Lists, Entries
  <2>3. CASE EarlyStop(i)
    <3> DEFINE new == [u \in candidates |-> "Cancelled"]
    <3>1. DOMAIN new \subseteq Units /\ \A u \in DOMAIN new : new[u] \in TaskStates
      BY DEF LoopInv, Base, TypeOK
    <3>2. Record(new)
      BY <2>3 DEF EarlyStop
    <3> HIDE DEF new
    <3> QED BY <3>1, <3>2, RecordFacts
  <2> QED BY <2>1, <2>2, <2>3
<1>6. CASE Idle
  BY <1>6, RecordOneFacts, NothingRecorded
     DEF Idle, EndPartial, CreateMerge, PrematureMerge, FailParent, Stall, graphVars
<1>7. CASE UNCHANGED vars
  BY <1>7, NothingRecorded DEF vars, graphVars
<1> QED BY <1>1, <1>2, <1>3, <1>4, <1>5, <1>6, <1>7 DEF Next, Returned

\* A step that ends the run need not catch up.
LEMMA EndedMirrored ==
  ASSUME LoopInv, Recorded, scenario' = scenario, ~Running'
  PROVE  Mirrored'
BY DEF LoopInv, Mirrored, Shows, Recorded, Logical, ContinueAfterFailure

\* Without a requeue there is nothing to catch up with.
LEMMA PlainMirrored ==
  ASSUME LoopInv, Running, Recorded, scenario' = scenario,
         \A i \in pending \cup pending' : i.kind # "requeue"
  PROVE  Mirrored'
<1>1. \A u \in Units :
        \/ graph[u] = state[u]
        \/ /\ Logical /\ u \in Children /\ ContinueAfterFailure
           /\ graph[u] = "Processing" /\ state[u] = "Failed"
  BY AllShown
<1>2. \A u \in Units :
        \/ graph'[u] = state'[u]
        \/ /\ Logical /\ u \in Children /\ ContinueAfterFailure
           /\ graph'[u] = "Processing" /\ state'[u] = "Failed"
  BY <1>1 DEF Recorded
<1>3. Logical' = Logical /\ ContinueAfterFailure' = ContinueAfterFailure
  BY DEF Logical, ContinueAfterFailure
<1> QED BY <1>2, <1>3 DEF Mirrored, Shows, CatchesUp, Behind

\* No requeue is due when a result is taken.
LEMMA NoRequeue ==
  ASSUME LoopInv, NEW i \in pending, Taken(i), i.kind = "execution"
  PROVE  Running /\ \A j \in pending : j.kind # "requeue"
BY NextFacts DEF Taken, LoopInv, Base, Lists, Entries

\* The requeue brings back the graph of its recovery: whoever it lacks has a
\* requeue to come (coordinator.py:897).
LEMMA RequeueMirrored ==
  ASSUME LoopInv, NEW i \in pending, Requeue(i) PROVE Mirrored'
<1> USE UnitFacts
<1>1. /\ Taken(i) /\ i.kind = "requeue" /\ graph' = i.graph /\ state' = state
      /\ scenario' = scenario /\ pending' = pending \ {i}
      /\ Running /\ Logical /\ i.unit \in Units
  BY TakenFacts DEF Requeue, Consume
<1>2. /\ Logical' = Logical /\ ContinueAfterFailure' = ContinueAfterFailure
  BY <1>1 DEF Logical, ContinueAfterFailure
<1>3. CatchesUp
  BY <1>1 DEF LoopInv, Mirrored
<1>4. Shows(graph)'
  BY <1>1, <1>2, <1>3 DEF CatchesUp, Shows
<1>5. \A j \in pending : /\ j.unit \in Units
                         /\ j.kind = "retry" => j.event.time = clock /\ j.event.priority = 50
                         /\ j.kind = "requeue" => j.event.time = clock /\ j.event.priority = 60
  BY <1>1 DEF LoopInv, Base, Lists, Entries, Items, Timed
<1>6. \A j \in pending' : j.kind # "retry"
  <2> SUFFICES ASSUME NEW j \in pending \ {i}, j.kind = "retry" PROVE FALSE
    BY <1>1
  <2>1. j.event.time = i.event.time /\ j.event.priority = 50 /\ i.event.priority = 60
    BY <1>1, <1>5
  <2> QED BY <2>1, <1>1, NextFacts
<1>7. \A k \in pending' : k.kind = "requeue" => Rank[i.unit] <= Rank[k.unit]
  <2> SUFFICES ASSUME NEW k \in pending \ {i}, k.kind = "requeue"
               PROVE  Rank[i.unit] <= Rank[k.unit]
    BY <1>1
  <2>1. k.event.time = i.event.time /\ k.event.priority = i.event.priority
    BY <1>1, <1>5
  <2> QED BY <2>1, <1>1, NextFacts
<1>8. \A c \in Units : Requeued(c) /\ Rank[i.unit] < Rank[c] => Requeued(c)'
  BY <1>1 DEF Requeued
<1>9. \A c \in Behind(graph)' : Requeued(c)'
  <2>1. \A c \in Behind(graph)' : c \in Behind(i.graph) /\ c \in Units
    BY <1>1 DEF Behind
  <2> QED BY <2>1, <1>1, <1>3, <1>8 DEF CatchesUp
<1>10. ASSUME NEW k \in pending', k.kind = "requeue"
       PROVE  Shows(k.graph)' /\ \A c \in Behind(k.graph)' : Requeued(c)' /\ Rank[k.unit] < Rank[c]
  <2>1. k \in pending
    BY <1>1
  <2>2. Shows(k.graph) /\ \A c \in Behind(k.graph) : Requeued(c) /\ Rank[k.unit] < Rank[c]
    BY <2>1, <1>3, <1>10 DEF CatchesUp
  <2>3. Shows(k.graph)'
    BY <2>2, <1>1, <1>2 DEF Shows
  <2>4. ASSUME NEW c \in Behind(k.graph)' PROVE Requeued(c)' /\ Rank[k.unit] < Rank[c]
    <3>1. c \in Behind(k.graph) /\ c \in Units
      BY <1>1 DEF Behind
    <3>2. Requeued(c) /\ Rank[k.unit] < Rank[c] /\ Rank[i.unit] <= Rank[k.unit]
      BY <2>2, <3>1, <1>7, <1>10
    <3>3. Rank[k.unit] \in Nat /\ Rank[c] \in Nat /\ Rank[i.unit] \in Nat
      BY <2>1, <3>1, <1>1, <1>5
    <3>4. Rank[i.unit] < Rank[c]
      BY <3>2, <3>3
    <3> QED BY <3>1, <3>2, <3>4, <1>8
  <2> QED BY <2>3, <2>4
<1> QED BY <1>4, <1>6, <1>9, <1>10 DEF Mirrored, CatchesUp

\* Nothing is behind while a recovery is due, and what it records later requeues
\* will not show (coordinator.py:805).
LEMMA RetryMirrored ==
  ASSUME LoopInv, NEW i \in pending, Retry(i), graph' \in Graphs, Recorded PROVE Mirrored'
<1> USE UnitFacts
<1> HIDE DEF Graphs
<1> DEFINE u == i.unit
<1>1. /\ Taken(i) /\ i.kind = "retry" /\ AtWork(i) /\ Logical /\ ending = "running" /\ Running
      /\ i.unit \in Units
      /\ scenario' = scenario /\ attempts' = attempts
  BY TakenFacts DEF Retry, Recovered, AtWork
<1>2. Logical' = Logical /\ ContinueAfterFailure' = ContinueAfterFailure
  BY <1>1 DEF Logical, ContinueAfterFailure
<1>3. CASE ~Running'
  BY <1>1, <1>3, EndedMirrored
<1>4. CASE Running'
  <2>1. CatchesUp /\ Behind(graph) = {} /\ Shows(graph)
    BY <1>1 DEF LoopInv, Mirrored, CatchesUp
  <2>2. WorkOf(i) /\ state[u] = "Processing" /\ state \in Graphs /\ graph \in Graphs
    BY <1>1, WorkFacts DEF WorkOf, LoopInv, Base, TypeOK, Graphs
  <2>3. PICK new \in {"Ready", "Failed"} :
          /\ state' = [state EXCEPT ![u] = new] /\ graph' = [graph EXCEPT ![u] = new]
          /\ new = "Ready" => Follow(i, "requeue", i.unit, i.ordinal)
          /\ new = "Failed" => Consume(i) /\ ContinueAfterFailure
    BY <1>1, <1>4 DEF Retry, Fail, RecordOne, Running
  <2>4. /\ pending \ {i} \subseteq pending'
        /\ \A k \in pending' \ (pending \ {i}) :
             new = "Ready" /\ k.kind = "requeue" /\ k.unit = u /\ k.graph = graph'
        /\ new = "Ready" => \E k \in pending' : k.kind = "requeue" /\ k.unit = u
    <3>1. CASE new = "Failed"
      BY <3>1, <2>3 DEF Consume
    <3>2. CASE new = "Ready"
      <4>1. PICK next \in Items :
              /\ next.kind = "requeue" /\ next.unit = i.unit /\ next.graph = graph'
              /\ pending' = (pending \ {i}) \cup {next}
        <5>1. Follow(i, "requeue", i.unit, i.ordinal)
          BY <3>2, <2>3
        <5> HIDE DEF u
        <5> QED BY <5>1, <1>1, DeferStep
      <4>2. next.unit = u /\ next \in pending' /\ new # "Failed"
        BY <4>1, <3>2
      <4> HIDE DEF u
      <4>3. \A k \in pending' \ (pending \ {i}) : k = next
        BY <4>1
      <4> QED BY <4>1, <4>2, <4>3, <3>2
    <3> QED BY <3>1, <3>2
  <2> HIDE DEF u
  <2>5. \A v \in Units : IF v = u THEN graph'[v] = state'[v]
                         ELSE graph'[v] = graph[v] /\ state'[v] = state[v]
    BY <2>2, <2>3 DEF Graphs
  <2>6. Shows(graph)' /\ Behind(graph)' = {}
    <3>1. Shows(graph)'
      BY <2>1, <2>5, <1>2 DEF Shows
    <3>2. \A v \in Units : state'[v] = "Ready" => graph'[v] = "Ready"
      BY <2>1, <2>5 DEF Behind
    <3> QED BY <3>1, <3>2 DEF Behind
  <2>7. \A c \in Units : Requeued(c) => Requeued(c)'
    BY <2>4, <1>1 DEF Requeued
  <2>8. ASSUME NEW k \in pending \ {i}, k.kind = "requeue"
        PROVE  Shows(k.graph)' /\ \A c \in Behind(k.graph)' : Requeued(c)' /\ Rank[k.unit] < Rank[c]
    <3>1. Shows(k.graph) /\ \A c \in Behind(k.graph) : Requeued(c) /\ Rank[k.unit] < Rank[c]
      BY <2>1, <2>8 DEF CatchesUp
    <3>2. u \in Children
      <4>1. u # Root /\ k.unit # u /\ k.unit # Root
        BY <2>2 DEF WorkOf, u
      <4>2. u # Merge
        BY <4>1, <2>2 DEF LoopInv, Base, MergeIsAlone, MergeMade
      <4> QED BY <4>1, <4>2, <1>1 DEF Units, u
    <3>3. k.graph[u] = "Processing"
      BY <3>1, <2>2, <1>1 DEF Shows, u
    <3>4. state'[u] = new
      BY <2>2, <2>3, <3>2 DEF Graphs
    <3>5. Shows(k.graph)'
      <4> SUFFICES ASSUME NEW v \in Units
                   PROVE  \/ k.graph[v] = state'[v]
                          \/ /\ Logical /\ v \in Children /\ k.graph[v] = "Processing"
                             /\ state'[v] = "Ready" \/ (state'[v] = "Failed" /\ ContinueAfterFailure)
        BY <1>2 DEF Shows
      <4>1. CASE v = u
        BY <4>1, <3>2, <3>3, <3>4, <2>3, <1>1
      <4>2. CASE v # u
        <5>1. state'[v] = state[v]
          BY <4>2, <2>5
        <5> QED BY <5>1, <3>1 DEF Shows
      <4> QED BY <4>1, <4>2
    <3>6. ASSUME NEW c \in Behind(k.graph)' PROVE Requeued(c)' /\ Rank[k.unit] < Rank[c]
      <4>1. c \in Units /\ state'[c] = "Ready" /\ k.graph[c] # "Ready"
        BY DEF Behind
      <4>2. CASE c # u
        <5>1. c \in Behind(k.graph)
          BY <4>1, <4>2, <2>5 DEF Behind
        <5> QED BY <5>1, <4>1, <3>1, <2>7
      <4>3. CASE c = u
        <5>1. new = "Ready"
          BY <4>1, <4>3, <3>4
        <5>2. Requeued(c)'
          BY <5>1, <4>3, <2>4 DEF Requeued
        <5>3. Rank[k.unit] < Rank[i.unit]
          BY <2>8, <1>1 DEF LoopInv, Base, Lists, Timed
        <5> QED BY <5>2, <5>3, <4>3 DEF u
      <4> QED BY <4>2, <4>3
    <3> QED BY <3>5, <3>6
  <2>9. ASSUME NEW k \in pending' \ (pending \ {i})
        PROVE  Shows(k.graph)' /\ Behind(k.graph)' = {}
    BY <2>4, <2>6, <2>9 DEF Shows, Behind
  <2> QED BY <2>6, <2>8, <2>9 DEF Mirrored, CatchesUp
<1> QED BY <1>3, <1>4

\* Every step of the loop.
LEMMA NextMirrored ==
  ASSUME LoopInv, [Next]_vars PROVE Mirrored'
<1>0. graph' \in Graphs /\ (Recorded \/ \E i \in pending : Requeue(i))
  BY NextRecorded
<1> HIDE DEF Graphs
<1>1. CASE \E u \in Units : Activate(u)
  <2>1. PICK u \in Units : Activate(u)
    BY <1>1
  <2>2. Running /\ scenario' = scenario /\ pending' = pending /\ Activatable # {}
    BY <2>1 DEF Activate
  <2>3. \A i \in pending : i.kind # "requeue"
    BY <2>2 DEF Activatable, PendingControl, Executions
  <2>4. Recorded
    BY <2>1, RecordOneFacts DEF Activate
  <2> QED BY <2>2, <2>3, <2>4, PlainMirrored
<1>2. CASE Dispatch
  <2>1. /\ Running /\ scenario' = scenario /\ pending \subseteq pending'
        /\ \A i \in pending' : i.kind = "execution"
    BY <1>0, <1>2, DispatchStep DEF Dispatch
  <2>2. Recorded
    BY <1>0, <2>1 DEF Requeue
  <2> QED BY <2>1, <2>2, PlainMirrored
<1>3. ASSUME NEW i \in pending,
             CompleteChild(i) \/ CompleteRoot(i) \/ ExpandRoot(i) \/ CompleteMerge(i)
      PROVE  Mirrored'
  <2>1. /\ scenario' = scenario /\ Running /\ \A j \in pending : j.kind # "requeue"
    BY <1>3, NoRequeue DEF CompleteChild, CompleteRoot, ExpandRoot, CompleteMerge
  <2>2. \A j \in pending' : j.kind # "requeue"
    <3>1. CASE CompleteMerge(i)
      BY <3>1, <1>0, CompleteMergeStep
    <3>2. CASE CompleteChild(i) \/ CompleteRoot(i) \/ ExpandRoot(i)
      <4>1. pending' = pending \ {i}
        BY <3>2 DEF CompleteChild, CompleteRoot, ExpandRoot, Consume
      <4> QED BY <4>1, <2>1
    <3> QED BY <1>3, <3>1, <3>2
  <2>3. Recorded
    BY <1>0, <2>1 DEF Requeue
  <2> QED BY <2>1, <2>2, <2>3, PlainMirrored
<1>4. ASSUME NEW i \in pending, InfrastructureFailure(i) \/ Refuse(i) PROVE Mirrored'
  <2>1. scenario' = scenario /\ ~Running' /\ state' = state /\ graph' = graph
    BY <1>4 DEF InfrastructureFailure, Refuse, Running, graphVars
  <2> QED BY <2>1, NothingRecorded, EndedMirrored
<1>5. ASSUME NEW i \in pending, DeferRecovery(i) PROVE Mirrored'
  <2>1. /\ Taken(i) /\ Logical /\ i.kind = "execution"
        /\ Seen(i) \notin Successes \cup {"infrastructure"}
        /\ Follow(i, "retry", i.unit, i.ordinal)
        /\ scenario' = scenario /\ attempts' = attempts /\ state' = state /\ graph' = graph
    BY <1>5 DEF DeferRecovery, Fails, graphVars
  <2>2. PICK next \in Items : next.kind = "retry" /\ pending' = (pending \ {i}) \cup {next}
    BY <2>1, <1>0, DeferStep
  <2> QED BY <2>1, <2>2, NoRequeue, NothingRecorded, PlainMirrored
<1>6. ASSUME NEW i \in pending, RecoverNow(i) PROVE Mirrored'
  <2>1. Taken(i) /\ Running /\ ~Logical /\ scenario' = scenario /\ pending' = pending \ {i}
    BY <1>6 DEF RecoverNow, Recovered, Fails, Taken, Consume
  <2>2. \A j \in pending : j.kind # "requeue"
    BY <2>1 DEF LoopInv, Base, Lists, Entries
  <2>3. Recorded
    BY <1>0, <2>2 DEF Requeue
  <2> QED BY <2>1, <2>2, <2>3, PlainMirrored
<1>7. ASSUME NEW i \in pending, Retry(i) PROVE Mirrored'
  <2>1. Recorded
    BY <1>7, TakenFacts, RecordOneFacts, FailRecorded DEF Retry, Recovered, Fails
  <2> QED BY <2>1, <1>0, <1>7, RetryMirrored
<1>8. ASSUME NEW i \in pending, EarlyStop(i) PROVE Mirrored'
  <2>1. i.kind = "early_stop" /\ scenario' = scenario /\ ~Running'
    BY <1>8 DEF EarlyStop, Running
  <2>2. pending = {i}
    BY <2>1 DEF LoopInv, Base, Order
  <2>3. Recorded
    BY <1>0, <2>1, <2>2 DEF Requeue
  <2> QED BY <2>1, <2>3, EndedMirrored
<1>9. CASE Idle
  <2>1. Running /\ scenario' = scenario /\ pending = {} /\ pending' = {}
    BY <1>9 DEF Idle, EndPartial, CreateMerge, PrematureMerge, FailParent, Stall, Quiet
  <2>2. Recorded
    BY <1>0, <2>1
  <2> QED BY <2>1, <2>2, PlainMirrored
<1>10. CASE UNCHANGED vars
  BY <1>10 DEF vars, graphVars, LoopInv, Mirrored, Shows, CatchesUp, Behind, Requeued, Running,
               Logical, ContinueAfterFailure
<1>11. CASE Complete
  BY <1>11, <1>3 DEF Complete
<1>12. CASE Trouble
  BY <1>12, <1>4, <1>5, <1>6 DEF Trouble
<1>13. CASE Control
  BY <1>13, <1>7, <1>8, RequeueMirrored DEF Control
<1> QED BY <1>1, <1>2, <1>9, <1>10, <1>11, <1>12, <1>13 DEF Next, Returned

\* Every step of the loop.
LEMMA NextInv == LoopInv /\ [Next]_vars => LoopInv'
<1> SUFFICES ASSUME LoopInv, [Next]_vars PROVE Base'
  BY NextMirrored DEF LoopInv
<1>0. graph' \in Graphs
  BY NextRecorded
<1> HIDE DEF Graphs
<1>1. CASE \E u \in Units : Activate(u)
  BY <1>0, <1>1, ActivateStep
<1>2. CASE Dispatch
  BY <1>0, <1>2, DispatchStep
<1>3. CASE Complete
  BY <1>0, <1>3, CompleteChildStep, CompleteRootStep, ExpandRootStep, CompleteMergeStep DEF Complete
<1>4. CASE Trouble
  <2> SUFFICES ASSUME NEW i \in pending,
                      InfrastructureFailure(i) \/ DeferRecovery(i) \/ RecoverNow(i) \/ Refuse(i)
               PROVE  Base'
    BY <1>4 DEF Trouble
  <2>1. CASE InfrastructureFailure(i)
    BY <1>0, <2>1, EndStep, TakenFacts DEF InfrastructureFailure, Endings, graphVars
  <2>2. CASE Refuse(i)
    BY <1>0, <2>2, EndStep, TakenFacts DEF Refuse, Recovered, Fails, Endings, graphVars
  <2> QED BY <1>0, <2>1, <2>2, DeferRecoveryStep, RecoverNowStep
<1>5. CASE Control
  <2> SUFFICES ASSUME NEW i \in pending, Retry(i) \/ Requeue(i) \/ EarlyStop(i)
               PROVE  Base'
    BY <1>5 DEF Control
  <2>1. CASE Requeue(i)
    BY <1>0, <2>1, EndStep DEF Requeue, Endings
  <2> QED BY <1>0, <2>1, RetryStep, EarlyStopStep
<1>6. CASE Idle
  BY <1>0, <1>6, IdleStep
<1>7. CASE UNCHANGED vars
  <2>1. ListsKept
    BY <1>7 DEF vars, ListsKept, graphVars, schedVars
  <2> QED
    BY <1>7, <2>1, KeptStep
       DEF vars, graphVars, schedVars, LoopInv, Base, TypeOK, Assigned, AtWorkIsPending, StopOnce, Budget,
           AttemptsMatchRecoveries, Order, MergeIsAlone, MergeMade, Remembered, Running
<1> QED BY <1>1, <1>2, <1>3, <1>4, <1>5, <1>6, <1>7 DEF Next, Returned

\* The engine refuses no recovery but that of a gate that stops.
LEMMA RefusedIsStopped ==
  ASSUME LoopInv, NEW i \in pending, Refuse(i)
  PROVE  Taken(i) /\ i.outcome = "parser_stop"
<1>1. Taken(i)
  BY DEF Refuse, Recovered, Fails
<1>2. i \in Items /\ AtWork(i)
  BY <1>1, TakenFacts DEF Refuse, Recovered, Fails, AtWork
<1>3. i.outcome \in AllOutcomes \ (Successes \cup {"infrastructure"})
  <2>1. CASE ~Logical /\ Fails(i)
    BY <2>1, <1>2 DEF Fails, Seen, Items
  <2>2. CASE i.kind = "retry"
    BY <2>2, <1>2 DEF LoopInv, Base, Lists, Current, Items
  <2> QED BY <2>1, <2>2 DEF Refuse, Recovered
<1>4. ~(Logical /\ i.outcome \in Silent) \/ i.event.time >= i.deadline
  BY <1>2 DEF LoopInv, Base, Lists, Current
<1>5. ~MayConclude(Reached(i.outcome), Trigger(i.outcome))
  BY <1>4 DEF Refuse, Recoverable
<1>6. ASSUME i.outcome # "parser_stop" PROVE FALSE
  <2>1. CASE i.outcome \in Silent \cup {"late"}
    <3>1. Reached(i.outcome) = "Running" /\ Trigger(i.outcome) = "lease_expired"
      BY <2>1 DEF Reached, Trigger, Silent
    <3> QED BY <3>1, <1>5 DEF MayConclude, TerminalState, AttemptTransitions
  <2>2. CASE i.outcome \in {"unstarted", "failed", "fatal"}
    <3>1. Reached(i.outcome) \in {"Running", "Submitted"} /\ Trigger(i.outcome) = "executor_error"
      BY <2>2 DEF Reached, Trigger, Silent
    <3> QED BY <3>1, <1>5 DEF MayConclude, TerminalState, AttemptTransitions
  <2>3. CASE i.outcome \in {"rejected", "unverified"}
    <3>1. /\ Reached(i.outcome) \in {"Rejected", "Submitted"}
          /\ Trigger(i.outcome) = "verification_rejected"
      BY <2>3 DEF Reached, Trigger, Silent
    <3> QED BY <3>1, <1>5 DEF MayConclude, TerminalState, AttemptTransitions
  <2> QED BY <2>1, <2>2, <2>3, <1>3, <1>6 DEF AllOutcomes, Silent, Successes
<1> QED BY <1>1, <1>6

\* A root that fails with a descendant knows which.
LEMMA FailParentStep == ASSUME LoopInv, FailParent PROVE failedChild # None
<1>1. Required \subseteq Children
  BY CoordinatorAssumption DEF LoopInv, Base, TypeOK, Required, Scenario
<1>2. Readiness = "failed" => failedChild # None
  BY <1>1, UnitFacts, ShownFacts DEF Readiness, LoopInv, Base, Remembered
<1> QED BY <1>2 DEF FailParent

\* The steps that raise are the stopped gate of verification (coordinator.py:1573)
\* and the failure of a root for a child that a requeue has put back to work.
LEMMA RaiseStep ==
  ASSUME LoopInv, EndInv, Next, Running, ending' = "raised"
  PROVE  \/ \E i \in pending : Taken(i) /\ i.outcome = "parser_stop"
         \/ failedChild # None /\ state[failedChild] = "Failed" /\ graph[failedChild] # "Failed"
<1>0. graph' \in Graphs
  BY NextRecorded
<1> HIDE DEF Graphs
<1>1. CASE \E u \in Units : Activate(u)
  BY <1>1 DEF Activate, Running
<1>2. CASE Dispatch
  BY <1>0, <1>2, DispatchStep
<1>3. CASE Complete
  <2> SUFFICES ASSUME NEW i \in pending,
                      CompleteChild(i) \/ CompleteRoot(i) \/ ExpandRoot(i) \/ CompleteMerge(i)
               PROVE  FALSE
    BY <1>3 DEF Complete
  <2> QED BY <1>0, CompleteMergeStep DEF CompleteChild, CompleteRoot, ExpandRoot, Running
<1>4. CASE Trouble
  <2> SUFFICES ASSUME NEW i \in pending,
                      InfrastructureFailure(i) \/ DeferRecovery(i) \/ RecoverNow(i) \/ Refuse(i)
               PROVE  Taken(i) /\ i.outcome = "parser_stop"
    BY <1>4 DEF Trouble
  <2>1. ~RecoverNow(i)
    BY DEF RecoverNow, Fail, Running
  <2>2. ~InfrastructureFailure(i)
    BY DEF InfrastructureFailure
  <2> QED BY <1>0, <2>1, <2>2, DeferRecoveryStep, RefusedIsStopped
<1>5. CASE Control
  <2> SUFFICES ASSUME NEW i \in pending, Retry(i) \/ Requeue(i) \/ EarlyStop(i)
               PROVE  FALSE
    BY <1>5 DEF Control
  <2> QED BY <1>0, RetryStep DEF Requeue, EarlyStop, Running
<1>6. CASE Idle
  <2>1. FailParent
    BY <1>6 DEF Idle, EndPartial, CreateMerge, PrematureMerge, Stall, Running
  <2>2. failedChild # None /\ graph[failedChild] # "Failed"
    BY <2>1, FailParentStep DEF FailParent
  <2> QED BY <2>2 DEF EndInv, Founded
<1> QED BY <1>1, <1>2, <1>3, <1>4, <1>5, <1>6 DEF Next, Returned

\* Nothing but the return is left of a run that has ended.
LEMMA EndedStep == ASSUME ~Running, Next PROVE UNCHANGED vars
BY DEF Next, Activate, Dispatch, Complete, CompleteChild, CompleteRoot, ExpandRoot, CompleteMerge,
       Trouble, InfrastructureFailure, DeferRecovery, RecoverNow, Refuse, Recovered, Fails, Taken,
       Control, Retry, Requeue, EarlyStop, Idle, EndPartial, CreateMerge, PrematureMerge,
       FailParent, Stall, Quiet, Returned

-----------------------------------------------------------------------------
\* How a run ends.

LEMMA InitEnd == Init => EndInv
<1> SUFFICES ASSUME Init PROVE EndInv
  OBVIOUS
<1> QED
  BY UnitFacts DEF Init, EndInv, Grown, Expanded, MergeMade, Awaited, Founded, EndingsAreEarned,
     SettledIsClean, FailureIsJustified, StallIsExplained

\* The scenario's sets of children.
LEMMA ScenarioFacts ==
  ASSUME LoopInv
  PROVE  /\ scenario.split \subseteq Children /\ scenario.split # {}
         /\ Required \subseteq scenario.split /\ Selected \subseteq scenario.split
         /\ \A c \in scenario.split : Needs[c] \subseteq scenario.split
BY CoordinatorAssumption DEF LoopInv, Base, TypeOK, Required, Selected, Scenario

\* A step of a run that goes on, or ends without a failed root.
LEMMA GoesOn ==
  ASSUME Grown', Awaited', Founded', state'[Root] # "Failed",
         ending' \notin {"settled", "stalled"}
  PROVE  EndInv'
BY DEF EndInv, EndingsAreEarned, SettledIsClean, FailureIsJustified, StallIsExplained

\* A step that brings no unit into the graph.
LEMMA GrownStep ==
  ASSUME LoopInv, Grown, scenario' = scenario,
         \A u \in Units \ {Root} : state'[u] = "Absent" <=> state[u] = "Absent",
         state'[Merge] \notin {"Blocked", "Completed"},
         Running' => \A u \in Units : state'[u] # "Cancelled"
  PROVE  Grown' /\ Expanded' = Expanded /\ MergeMade' = MergeMade
<1>1. /\ \A c \in Children : state'[c] = "Absent" <=> state[c] = "Absent"
      /\ state'[Merge] = "Absent" <=> state[Merge] = "Absent"
  BY UnitFacts
<1>2. (Expanded' <=> Expanded) /\ (MergeMade' <=> MergeMade)
  BY <1>1 DEF Expanded, MergeMade
<1>3. Expanded \in BOOLEAN /\ Expanded' \in BOOLEAN /\ MergeMade \in BOOLEAN /\ MergeMade' \in BOOLEAN
  BY DEF Expanded, MergeMade
<1>4. Grown'
  BY <1>1, <1>2, ScenarioFacts DEF Grown
<1> QED BY <1>2, <1>3, <1>4

\* An activated child was in the graph and no merge is made.
LEMMA ActivateEnd ==
  ASSUME LoopInv, EndInv, NEW u \in Units, Activate(u) PROVE EndInv'
<1> USE UnitFacts
<1>1. /\ Running /\ state' = [state EXCEPT ![u] = "Ready"] /\ scenario' = scenario
      /\ witness' = witness /\ failedChild' = failedChild
      /\ ending' = ending /\ pending' = pending
  BY DEF Activate, RecordOne
<1>2. u \in Children /\ state[u] = "Blocked"
  <2>1. u \in Scoped({c \in Children : /\ ~MergeMade /\ graph[c] = "Blocked"
                                       /\ \A s \in Needs[c] : graph[s] = "Completed"})
    BY DEF Activate, Activatable
  <2> QED BY <2>1, ShownFacts DEF Scoped
<1>3. /\ state'[u] = "Ready" /\ \A v \in Units \ {u} : state'[v] = state[v]
      /\ state[Root] \in {"Ready", "Processing", "Completed"}
  BY <1>1 DEF LoopInv, Base, TypeOK, Order
<1>4. Grown' /\ Expanded' = Expanded
  BY <1>1, <1>2, <1>3, GrownStep DEF EndInv, Grown, Running
<1>5. Awaited' /\ Founded'
  BY <1>1, <1>2, <1>3, <1>4 DEF EndInv, Awaited, Founded, Running
<1> QED BY <1>1, <1>2, <1>3, <1>4, <1>5, GoesOn DEF Running

\* What is put to work waits for its entry.
LEMMA DispatchEnd ==
  ASSUME LoopInv, EndInv, Dispatch, graph' \in Graphs PROVE EndInv'
<1> USE UnitFacts
<1>1. /\ Running /\ scenario' = scenario /\ witness' = witness /\ failedChild' = failedChild
      /\ ending' = "running"
      /\ \A u \in Units : \/ state'[u] = state[u]
                          \/ /\ state[u] = "Ready" /\ state'[u] = "Processing"
                             /\ \E i \in pending' : i.unit = u
      /\ pending \subseteq pending'
      /\ \A i \in pending' \ pending : i.outcome \in scenario.outcomes
  BY DispatchStep DEF Dispatch
<1>2. Grown' /\ Expanded' = Expanded
  BY <1>1, GrownStep DEF EndInv, Grown, Running
<1>3. Awaited' /\ Founded'
  <2>1. Awaited'
    BY <1>1, <1>2 DEF EndInv, Awaited, Running
  <2>2. Founded'
    BY <1>1 DEF EndInv, Founded
  <2> QED BY <2>1, <2>2
<1>4. state[Root] \in {"Ready", "Processing", "Completed"}
  BY <1>1 DEF LoopInv, Base, Order
<1> QED BY <1>1, <1>2, <1>3, <1>4, GoesOn

\* A witness is a bound child.
LEMMA CompleteChildEnd ==
  ASSUME LoopInv, EndInv, NEW i \in pending, CompleteChild(i) PROVE EndInv'
<1> USE UnitFacts
<1>1. /\ Taken(i) /\ i.kind = "execution" /\ i.unit \in Children /\ AtWork(i)
      /\ state' = [state EXCEPT ![i.unit] = "Completed"]
      /\ witness' \subseteq witness \cup {i.unit}
      /\ Consume(i)
      /\ scenario' = scenario /\ failedChild' = failedChild /\ ending' = ending
  BY DEF CompleteChild, RecordOne, AtWork
<1>2. Running /\ WorkOf(i) /\ pending' = pending \ {i}
  BY <1>1, WorkFacts, TakenFacts DEF Consume
<1>3. /\ state'[i.unit] = "Completed" /\ \A v \in Units \ {i.unit} : state'[v] = state[v]
      /\ state[Root] = "Processing" /\ state[i.unit] = "Processing"
  BY <1>1, <1>2 DEF LoopInv, Base, TypeOK, WorkOf
<1>4. Grown' /\ Expanded' = Expanded
  BY <1>1, <1>3, GrownStep DEF EndInv, Grown, Running
<1>5. Awaited' /\ Founded'
  BY <1>1, <1>2, <1>3, <1>4 DEF EndInv, Awaited, Founded, Running, WorkOf
<1> QED BY <1>1, <1>2, <1>3, <1>4, <1>5, GoesOn DEF Running

\* An unsplit root leaves no other unit.
LEMMA CompleteRootEnd ==
  ASSUME LoopInv, EndInv, NEW i \in pending, CompleteRoot(i) PROVE EndInv'
<1> USE UnitFacts
<1>1. /\ Taken(i) /\ i.kind = "execution" /\ i.unit = Root /\ AtWork(i)
      /\ state' = [state EXCEPT ![Root] = "Completed"] /\ Consume(i)
      /\ scenario' = scenario /\ witness' = witness /\ failedChild' = failedChild
      /\ ending' = "settled"
  BY DEF CompleteRoot, RecordOne, AtWork
<1>2. WorkOf(i) /\ pending' = pending \ {i}
  BY <1>1, WorkFacts DEF Consume
<1>3. /\ state'[Root] = "Completed" /\ pending' = {}
      /\ \A v \in Units \ {Root} : state'[v] = "Absent" /\ state[v] = "Absent"
  BY <1>1, <1>2 DEF LoopInv, Base, TypeOK, WorkOf
<1>4. Grown'
  BY <1>1, <1>3, GrownStep DEF EndInv, Grown, Running
<1>5. Awaited' /\ Founded'
  BY <1>1, <1>3 DEF EndInv, Awaited, Founded, Running
<1>6. EndingsAreEarned'
  BY <1>1, <1>3 DEF EndingsAreEarned, SettledIsClean, FailureIsJustified, StallIsExplained
<1> QED BY <1>4, <1>5, <1>6 DEF EndInv

\* The whole split comes in at once.
LEMMA ExpandRootEnd ==
  ASSUME LoopInv, EndInv, NEW i \in pending, ExpandRoot(i) PROVE EndInv'
<1> USE UnitFacts
<1>1. /\ Taken(i) /\ i.kind = "execution" /\ i.unit = Root /\ AtWork(i)
      /\ state' = [u \in Units |-> IF u \notin scenario.split THEN state[u]
                                   ELSE IF Needs[u] = {} THEN "Ready" ELSE "Blocked"]
      /\ Consume(i)
      /\ scenario' = scenario /\ witness' = witness /\ failedChild' = failedChild
      /\ ending' = ending
  <2>1. scenario.split \subseteq Units
    BY ScenarioFacts
  <2> QED BY <2>1 DEF ExpandRoot, Record, AtWork
<1>2. Running /\ WorkOf(i) /\ pending' = pending \ {i}
  BY <1>1, WorkFacts, TakenFacts DEF Consume
<1>3. pending' = {} /\ state[Root] = "Processing" /\ \A v \in Units \ {Root} : state[v] = "Absent"
  BY <1>1, <1>2 DEF WorkOf
<1>4. /\ state'[Root] = "Processing" /\ state'[Merge] = "Absent"
      /\ \A c \in scenario.split : state'[c] \in {"Ready", "Blocked"}
      /\ \A c \in Children \ scenario.split : state'[c] = "Absent"
  BY <1>1, <1>3, ScenarioFacts
<1>5. Expanded' /\ ~MergeMade'
  BY <1>4, ScenarioFacts DEF Expanded, MergeMade
<1>6. Grown'
  BY <1>1, <1>4, <1>5, ScenarioFacts DEF Grown, Units
<1>7. Awaited' /\ Founded'
  BY <1>1, <1>3, <1>4, <1>5 DEF EndInv, Awaited, Founded
<1> QED BY <1>1, <1>2, <1>4, <1>6, <1>7, GoesOn DEF Running

\* A bound merge settles the root, or leaves the early stop pending.
LEMMA CompleteMergeEnd ==
  ASSUME LoopInv, EndInv, NEW i \in pending, CompleteMerge(i), graph' \in Graphs PROVE EndInv'
<1> USE UnitFacts
<1>1. /\ Taken(i) /\ i.kind = "execution" /\ AtWork(i) /\ i.unit = Merge
      /\ state' = [state EXCEPT ![Root] = "Completed"]
      /\ scenario' = scenario /\ witness' = witness /\ failedChild' = failedChild
  BY DEF CompleteMerge, RecordOne, AtWork
<1>2. Running /\ WorkOf(i) /\ i \in Items /\ pending \subseteq Items
  BY <1>1, WorkFacts, TakenFacts DEF LoopInv, Base, Lists, Entries
<1>3. state[Root] = "Processing" /\ state[Merge] = "Processing" /\ pending = {i}
  BY <1>1, <1>2 DEF WorkOf, LoopInv, Base, MergeIsAlone, MergeMade
<1>4. state'[Root] = "Completed" /\ \A u \in Units \ {Root} : state'[u] = state[u]
  BY <1>1 DEF LoopInv, Base, TypeOK
<1>5. Grown' /\ Expanded' = Expanded
  BY <1>1, <1>2, <1>4, GrownStep DEF EndInv, Grown
<1>6. CASE ending' = "settled" /\ Consume(i) /\ ~(Logical /\ Unscheduled(i) # {})
  <2>1. pending' = {}
    BY <1>3, <1>6 DEF Consume
  <2>2. \A c \in Children : state[c] # "Processing"
    BY <1>1, <1>2, <1>3 DEF LoopInv, Base, AtWorkIsPending
  <2>3. Logical => \A u \in Units \ {Root} : state[u] \notin {"Ready", "Blocked"}
    <3>1. \A u \in Units : state[u] \in {"Ready", "Blocked"} => graph[u] = state[u]
      BY <1>1, <1>2, <1>3, AllShown
    <3> QED BY <3>1, <1>3, <1>6 DEF Unscheduled, Executions
  <2>4. SettledIsClean'
    BY <2>1, <2>2, <2>3, <1>1, <1>4 DEF SettledIsClean, Logical
  <2>5. Awaited' /\ Founded'
    BY <2>1, <1>1, <1>4, <1>6 DEF EndInv, Awaited, Founded, Running
  <2> QED BY <2>4, <2>5, <1>4, <1>5, <1>6
          DEF EndInv, EndingsAreEarned, FailureIsJustified, StallIsExplained
<1>7. CASE Logical /\ Follow(i, "early_stop", Root, 0) /\ ending' # "raised"
  <2>1. PICK next : /\ pending' = (pending \ {i}) \cup {next} /\ next.kind = "early_stop"
                    /\ next.outcome \in {i.outcome, "late"}
    <3>1. i.outcome \in AllOutcomes
      BY <1>2 DEF Items
    <3> DEFINE e == Event(i.event.time, "early_stop", Root, 0)
               next == [i EXCEPT !.kind = "early_stop", !.unit = Root, !.ordinal = 0,
                                 !.outcome = Seen(i), !.event = e,
                                 !.graph = IF "early_stop" = "requeue" THEN graph' ELSE None]
    <3>2. pending' = (pending \ {i}) \cup {next}
      BY <1>7 DEF Follow
    <3>3. next.kind = "early_stop" /\ next.outcome = Seen(i)
      <4> HIDE DEF e
      <4> QED BY <1>2 DEF Items
    <3>4. Seen(i) \in {i.outcome, "late"}
      BY DEF Seen
    <3> HIDE DEF next
    <3> QED BY <3>2, <3>3, <3>4
  <2>2. ending' = "running"
    BY <1>7 DEF Follow
  <2>3. Awaited' /\ Founded'
    BY <2>1, <2>2, <1>1, <1>2, <1>3, <1>4, <1>5 DEF EndInv, Awaited, Founded
  <2> QED BY <2>2, <2>3, <1>4, <1>5, GoesOn
<1> QED BY <1>6, <1>7, CompleteMergeStep DEF CompleteMerge

\* The run ends where the units are, or goes on after a requeue.
LEMMA EndEnd ==
  ASSUME LoopInv, EndInv, NEW i \in pending, Taken(i), Consume(i),
         ending' \in Endings \ {"running", "settled", "stalled"} \/ ending' = ending,
         UNCHANGED <<scenario, state, witness, retries, failedChild, candidates>>,
         ending' = ending => i.kind = "requeue"
  PROVE  EndInv'
<1> USE UnitFacts
<1>1. /\ scenario' = scenario /\ witness' = witness /\ state' = state /\ failedChild' = failedChild
      /\ ending = "running" /\ Running /\ pending' = pending \ {i}
  BY TakenFacts DEF Consume
<1>2. Grown' /\ Expanded' = Expanded
  BY <1>1, GrownStep DEF EndInv, Grown, Running
<1>3. Awaited' /\ Founded'
  <2>1. Running' => state[i.unit] = "Ready" /\ i.kind = "requeue"
    BY <1>1, WorkFacts DEF WorkOf, AtWork, Running
  <2>2. Awaited'
    BY <2>1, <1>1, <1>2 DEF EndInv, Awaited
  <2>3. Founded'
    BY <1>1 DEF EndInv, Founded
  <2> QED BY <2>2, <2>3
<1>4. state[Root] \in {"Ready", "Processing", "Completed"}
  BY <1>1 DEF LoopInv, Base, Order
<1> QED BY <1>1, <1>2, <1>3, <1>4, GoesOn

\* The attempt that waits for its recovery is still awaited.
LEMMA DeferRecoveryEnd ==
  ASSUME LoopInv, EndInv, NEW i \in pending, DeferRecovery(i) PROVE EndInv'
<1> USE UnitFacts
<1>1. /\ Taken(i) /\ Logical /\ i.kind = "execution"
      /\ Seen(i) \notin Successes \cup {"infrastructure"}
      /\ Follow(i, "retry", i.unit, i.ordinal)
      /\ scenario' = scenario /\ attempts' = attempts /\ witness' = witness
      /\ state' = state /\ graph' = graph /\ failedChild' = failedChild
  BY DEF DeferRecovery, Fails, graphVars
<1>2. PICK next \in Items :
        /\ next.kind = "retry" /\ next.unit = i.unit /\ next.outcome \in {i.outcome, "late"}
        /\ pending' = (pending \ {i}) \cup {next} /\ ending' = "running"
  BY <1>1, DeferStep, NothingRecorded
<1>3. Running /\ WorkOf(i) /\ state[Root] \in {"Ready", "Processing", "Completed"}
  BY <1>1, WorkFacts, TakenFacts DEF LoopInv, Base, Order
<1>4. Grown' /\ Expanded' = Expanded
  BY <1>1, <1>3, GrownStep DEF EndInv, Grown
<1>5. Awaited' /\ Founded'
  BY <1>1, <1>2, <1>3, <1>4 DEF EndInv, Awaited, Founded
<1> QED BY <1>1, <1>2, <1>3, <1>4, <1>5, GoesOn

\* A unit that is tried again.
LEMMA ReadyAgainEnd ==
  ASSUME LoopInv, EndInv, NEW i \in pending, Taken(i), AtWork(i),
         state' = [state EXCEPT ![i.unit] = "Ready"],
         ending' \in {"requeue_blocked", ending},
         pending \ {i} \subseteq pending',
         \A j \in pending' : j \in pending \ {i} \/ j.outcome \in {i.outcome, "late"},
         UNCHANGED <<scenario, witness, failedChild>>
  PROVE  EndInv'
<1> USE UnitFacts
<1>1. Running /\ ending = "running" /\ WorkOf(i) /\ i.unit \in Units
  BY WorkFacts, TakenFacts DEF AtWork
<1>2. /\ state'[i.unit] = "Ready" /\ \A v \in Units \ {i.unit} : state'[v] = state[v]
      /\ state[i.unit] = "Processing" /\ state[Root] = "Processing"
  BY <1>1 DEF LoopInv, Base, TypeOK, WorkOf
<1>3. Grown' /\ Expanded' = Expanded
  BY <1>1, <1>2, GrownStep DEF EndInv, Grown
<1>4. Awaited' /\ Founded'
  BY <1>1, <1>2, <1>3 DEF EndInv, Awaited, Founded, WorkOf
<1>5. state'[Root] # "Failed"
  BY <1>2
<1> QED BY <1>1, <1>3, <1>4, <1>5, GoesOn

\* A unit whose budget is spent: the root and the merge end the run, a child is
\* remembered.
LEMMA FailEnd ==
  ASSUME LoopInv, EndInv, NEW i \in pending, Taken(i), AtWork(i),
         Verdict(i.unit) # "Ready",
         retries' = [retries EXCEPT ![i.unit] = @ + 1],
         Fail(i), Consume(i), UNCHANGED <<scenario, witness>>
  PROVE  EndInv'
<1> USE UnitFacts
<1>1. Running /\ ending = "running" /\ WorkOf(i) /\ i.unit \in Units /\ pending' = pending \ {i}
  BY WorkFacts, TakenFacts DEF AtWork, Consume
<1>2. /\ state'[i.unit] = "Failed" /\ \A v \in Units \ {Root} : v # i.unit => state'[v] = state[v]
      /\ state[i.unit] = "Processing" /\ state[Root] = "Processing"
      /\ i.unit = Root => failedChild' = failedChild /\ ending' = "root_failed"
      /\ i.unit # Root => /\ failedChild' = i.unit
                          /\ \/ /\ ContinueAfterFailure /\ i.outcome # "fatal"
                                /\ state'[Root] = "Processing" /\ ending' = "running"
                             \/ /\ ~(ContinueAfterFailure /\ i.outcome # "fatal")
                                /\ state'[Root] = "Failed" /\ ending' = "parent_failed"
  <2>1. state \in [Units -> TaskStates] /\ i.unit \in Units /\ Root \in Units
    BY <1>1 DEF LoopInv, Base, TypeOK
  <2>2. state[i.unit] = "Processing" /\ state[Root] = "Processing"
    BY <1>1 DEF WorkOf
  <2> QED BY <1>1, <2>1, <2>2 DEF Fail, Record, RecordOne
<1>3. Grown' /\ Expanded' = Expanded
  BY <1>1, <1>2, GrownStep DEF EndInv, Grown, Running
<1>4. Awaited' /\ Founded'
  <2>1. Awaited'
    BY <1>1, <1>2, <1>3 DEF EndInv, Awaited, Running, WorkOf
  <2>2. i.unit = Root => failedChild = None
    BY <1>1 DEF EndInv, Founded, WorkOf
  <2>3. Founded'
    BY <2>2, <1>1, <1>2, CoordinatorAssumption DEF EndInv, Founded
  <2> QED BY <2>1, <2>3
<1>5. FailureIsJustified'
  <2>1. CASE i.unit = Root
    <3>1. retries'[Root] = MaxRetries + 1
      <4>1. retries[Root] \in Nat /\ ~(retries[Root] + 1 <= MaxRetries) /\ retries[Root] <= MaxRetries
        BY <1>1, <2>1 DEF Verdict, RetryState, LoopInv, Base, TypeOK, RecoveryAssumption, WorkOf
      <4>2. retries'[Root] = retries[Root] + 1
        BY <2>1 DEF LoopInv, Base, TypeOK
      <4> QED BY <4>1, <4>2, RecoveryAssumption
    <3>2. witness = {}
      BY <1>1, <2>1 DEF EndInv, Founded, WorkOf
    <3> QED BY <3>1, <3>2 DEF FailureIsJustified, Witnessed
  <2>2. CASE i.unit # Root
    <3>1. ~(ContinueAfterFailure' /\ "fatal" \notin scenario'.outcomes /\ state'[Root] = "Failed")
      BY <2>2, <1>2 DEF EndInv, Founded, ContinueAfterFailure
    <3>2. \E u \in Units \ {Root} : state'[u] = "Failed"
      BY <2>2, <1>1, <1>2
    <3> QED BY <3>1, <3>2 DEF FailureIsJustified
  <2> QED BY <2>1, <2>2
<1>6. ending' \notin {"settled", "stalled"}
  BY <1>2
<1> QED BY <1>3, <1>4, <1>5, <1>6 DEF EndInv, EndingsAreEarned, SettledIsClean, StallIsExplained

\* Either of the two, at once ...
LEMMA RecoverNowEnd ==
  ASSUME LoopInv, EndInv, NEW i \in pending, RecoverNow(i) PROVE EndInv'
<1>1. /\ Taken(i) /\ AtWork(i) /\ Consume(i) /\ pending' = pending \ {i}
      /\ retries' = [retries EXCEPT ![i.unit] = @ + 1]
      /\ scenario' = scenario /\ witness' = witness
  BY DEF RecoverNow, Recovered, Fails, AtWork, Consume
<1>2. CASE Verdict(i.unit) = "Ready"
  <2>1. /\ state' = [state EXCEPT ![i.unit] = "Ready"]
        /\ ending' \in {"requeue_blocked", ending} /\ failedChild' = failedChild
    BY <1>2 DEF RecoverNow, RecordOne
  <2> QED BY <1>1, <2>1, ReadyAgainEnd
<1>3. CASE Verdict(i.unit) # "Ready"
  BY <1>1, <1>3, FailEnd DEF RecoverNow
<1> QED BY <1>2, <1>3

\* ... or when the recovery is due.
LEMMA RetryEnd ==
  ASSUME LoopInv, EndInv, NEW i \in pending, Retry(i), graph' \in Graphs PROVE EndInv'
<1>1. /\ Taken(i) /\ i.kind = "retry" /\ AtWork(i) /\ Logical /\ ending = "running"
      /\ retries' = [retries EXCEPT ![i.unit] = @ + 1]
      /\ scenario' = scenario /\ witness' = witness /\ attempts' = attempts
  BY TakenFacts DEF Retry, Recovered, AtWork
<1>2. CASE Verdict(i.unit) = "Ready"
  <2>1. /\ state' = [state EXCEPT ![i.unit] = "Ready"] /\ failedChild' = failedChild
        /\ \/ ending' = "requeue_blocked" /\ Consume(i)
           \/ Follow(i, "requeue", i.unit, i.ordinal)
    BY <1>2 DEF Retry, RecordOne
  <2>2. CASE ending' = "requeue_blocked" /\ Consume(i)
    <3>1. pending' = pending \ {i}
      BY <2>2 DEF Consume
    <3> QED BY <1>1, <2>1, <2>2, <3>1, ReadyAgainEnd
  <2>3. CASE Follow(i, "requeue", i.unit, i.ordinal)
    <3>1. PICK next \in Items :
            /\ next.outcome \in {i.outcome, "late"}
            /\ pending' = (pending \ {i}) \cup {next} /\ ending' = "running"
      BY <1>1, <2>3, DeferStep
    <3> QED BY <1>1, <2>1, <3>1, ReadyAgainEnd
  <2> QED BY <2>1, <2>2, <2>3
<1>3. CASE Verdict(i.unit) # "Ready"
  BY <1>1, <1>3, FailEnd DEF Retry
<1> QED BY <1>2, <1>3

\* The early stop ends the run with whatever the merge bound.
LEMMA EarlyStopEnd ==
  ASSUME LoopInv, EndInv, NEW i \in pending, EarlyStop(i) PROVE EndInv'
<1> USE UnitFacts
<1>1. /\ Taken(i) /\ i.kind = "early_stop"
      /\ state' = [u \in Units |-> IF u \in candidates THEN "Cancelled" ELSE state[u]]
      /\ scenario' = scenario /\ witness' = witness /\ failedChild' = failedChild
      /\ ending' = "settled" /\ pending' = pending \ {i}
  <2>1. candidates \subseteq Units
    BY DEF LoopInv, Base, TypeOK
  <2> QED BY <2>1 DEF EarlyStop, Record, Consume
<1>2. /\ pending = {i} /\ i.unit = Root /\ state[Root] = "Completed" /\ Running
      /\ candidates = {u \in Units \ {Root} : state[u] \in {"Ready", "Blocked"}}
  BY <1>1, TakenFacts DEF LoopInv, Base, Order
<1>3. /\ \A u \in Units \ {Root} : state'[u] = IF state[u] \in {"Ready", "Blocked"}
                                               THEN "Cancelled" ELSE state[u]
      /\ state'[Root] = "Completed" /\ pending' = {}
  BY <1>1, <1>2
<1>4. Grown'
  BY <1>1, <1>3, GrownStep DEF EndInv, Grown, Running
<1>5. Awaited' /\ Founded'
  BY <1>1, <1>3 DEF EndInv, Awaited, Founded, Running
<1>6. SettledIsClean'
  <2>1. \A c \in Children : state[c] # "Processing"
    BY <1>1, <1>2 DEF LoopInv, Base, AtWorkIsPending, AtWork
  <2> QED BY <2>1, <1>3 DEF SettledIsClean
<1> QED BY <1>1, <1>3, <1>4, <1>5, <1>6
        DEF EndInv, EndingsAreEarned, FailureIsJustified, StallIsExplained

\* Nothing is pending and nothing can be done: what that says of the units.
LEMMA QuietFacts ==
  ASSUME LoopInv, EndInv, Quiet
  PROVE  /\ Running /\ pending = {} /\ ending = "running"
         /\ Expanded /\ state[Root] = "Processing"
         /\ \A c \in Children : state[c] \notin {"Processing", "Cancelled"}
         /\ MergeMade => \/ state[Merge] = "Failed" /\ failedChild # None
                         \/ state[Merge] = "Ready" /\ ~WholeRoot
         /\ ~MergeMade /\ Readiness # "ready" =>
              \A c \in Children : WholeRoot \/ c \in Selected =>
                /\ state[c] # "Ready"
                /\ state[c] = "Blocked" => \E n \in Needs[c] : state[n] # "Completed"
<1> USE UnitFacts
<1>1. Running /\ ending = "running" /\ pending = {} /\ Activatable = {} /\ ~ShouldDispatch
  BY DEF Quiet, Running
<1>2. Executions = {} /\ ~PendingControl
  BY <1>1 DEF Executions, PendingControl
<1>3. Slots > 0
  BY <1>1, <1>2, FS_EmptySet, CoordinatorAssumption DEF Slots
<1>4. ReadyUnits = {} \/ MergeReadyBeforeDispatch
  BY <1>1, <1>2, <1>3 DEF ShouldDispatch
<1>5. state[Root] \in {"Ready", "Processing"}
  BY <1>1 DEF LoopInv, Base, Order
<1>6. Expanded
  <2> SUFFICES ASSUME ~Expanded PROVE FALSE
    OBVIOUS
  <2>1. ~MergeMade
    BY DEF EndInv, Grown
  <2>2. ReadyUnits = {}
    BY <1>4 DEF MergeReadyBeforeDispatch
  <2>3. state[Root] # "Ready"
    BY <2>1, <2>2, ShownFacts DEF ReadyUnits, Scoped
  <2>4. state[Root] # "Processing"
    BY <1>1 DEF EndInv, Awaited
  <2> QED BY <2>3, <2>4, <1>5
<1>7. state[Root] = "Processing"
  BY <1>5, <1>6 DEF LoopInv, Base, Order, Expanded
<1>8. \A c \in Children : state[c] \notin {"Processing", "Cancelled"}
  BY <1>1 DEF LoopInv, Base, AtWorkIsPending, EndInv, Grown
<1>9. ASSUME MergeMade
      PROVE  \/ state[Merge] = "Failed" /\ failedChild # None
             \/ state[Merge] = "Ready" /\ ~WholeRoot
  <2>1. state[Merge] \in {"Ready", "Failed"}
    BY <1>1, <1>9 DEF LoopInv, Base, TypeOK, EndInv, Grown, Awaited, MergeMade
  <2>2. state[Merge] = "Failed" => failedChild # None
    BY DEF LoopInv, Base, Remembered
  <2>3. ReadyUnits = {}
    BY <1>4, <1>9 DEF MergeReadyBeforeDispatch
  <2>4. state[Merge] = "Ready" => ~WholeRoot
    BY <2>3, ShownFacts DEF ReadyUnits, Scoped
  <2> QED BY <2>1, <2>2, <2>4
<1>10. ASSUME ~MergeMade, Readiness # "ready", NEW c \in Children, WholeRoot \/ c \in Selected
       PROVE  /\ state[c] # "Ready"
              /\ state[c] = "Blocked" => \E n \in Needs[c] : state[n] # "Completed"
  <2>1. ReadyUnits = {}
    BY <1>4, <1>10 DEF MergeReadyBeforeDispatch
  <2>2. state[c] # "Ready"
    BY <2>1, <1>10, <1>1, AllShown DEF ReadyUnits, Scoped
  <2>3. Scoped({d \in Children : /\ ~MergeMade /\ graph[d] = "Blocked"
                                 /\ \A s \in Needs[d] : graph[s] = "Completed"}) = {}
    BY <1>1 DEF Activatable
  <2>4. state[c] = "Blocked" => \E n \in Needs[c] : state[n] # "Completed"
    <3>1. \A n \in Needs[c] : n \in Units
      BY CoordinatorAssumption
    <3> QED BY <2>3, <3>1, <1>10, ShownFacts DEF Scoped
  <2> QED BY <2>2, <2>4
<1> QED BY <1>1, <1>6, <1>7, <1>8, <1>9, <1>10

\* A run with nothing to do and no reason to end waits for a child that is out
\* of the scope, or that failed and that the merge does not need.
LEMMA StallStep ==
  ASSUME LoopInv, EndInv, Stall
  PROVE  \/ ~WholeRoot /\ state[Merge] = "Ready"
         \/ /\ Logical /\ ContinueAfterFailure
            /\ \E c \in Children : graph[c] = "Processing" /\ state[c] = "Failed"
         \/ \E c \in Children : /\ state[c] = "Blocked"
                                /\ \E n \in Needs[c] : \/ ~WholeRoot /\ n \notin Selected
                                                       \/ state[n] = "Failed" /\ n \notin Required
<1> USE UnitFacts
<1>1. Quiet /\ ~ScopeFinished
  BY DEF Stall
<1>2. Expanded
  BY <1>1, QuietFacts
<1>3. CASE MergeMade
  BY <1>1, <1>3, QuietFacts DEF Stall
<1>4. CASE \E u \in Units : graph[u] # state[u]
  BY <1>1, <1>4, QuietFacts, AllShown
<1>5. CASE ~MergeMade /\ \A u \in Units : graph[u] = state[u]
  <2>1. Readiness = "wait"
    BY <1>2, <1>5 DEF Stall
  <2>2. /\ \A c \in Required : state[c] # "Failed"
        /\ \E c \in Required : state[c] # "Completed"
    <3>1. \A c \in Required : graph[c] = state[c]
      BY <1>5, ScenarioFacts
    <3> QED BY <2>1, <3>1 DEF Readiness
  <2> DEFINE InScope(c) == WholeRoot \/ c \in Selected
             Waiting == {c \in Children : InScope(c) /\ state[c] = "Blocked"}
  <2>3. \A c \in scenario.split :
          /\ state[c] \in {"Ready", "Blocked", "Completed", "Failed"}
          /\ InScope(c) => state[c] # "Ready"
    <3> SUFFICES ASSUME NEW c \in scenario.split
                 PROVE  /\ state[c] \in {"Ready", "Blocked", "Completed", "Failed"}
                        /\ InScope(c) => state[c] # "Ready"
      OBVIOUS
    <3>1. c \in Children
      BY ScenarioFacts
    <3>2. state[c] # "Absent"
      BY <1>2 DEF EndInv, Grown
    <3> QED BY <3>1, <3>2, <1>1, <1>5, <2>1, QuietFacts DEF LoopInv, Base, TypeOK
  <2>4. Waiting # {}
    <3>1. CASE WholeRoot
      BY <3>1, <2>2, <2>3, ScenarioFacts
    <3>2. CASE ~WholeRoot
      <4>1. \E c \in Selected : state[c] \notin {"Completed", "Failed"}
        BY <3>2, <1>1, <1>2, <1>5, ScenarioFacts DEF ScopeFinished
      <4> QED BY <4>1, <2>3, ScenarioFacts
    <3> QED BY <3>1, <3>2
  <2>5. PICK c \in Waiting : Needs[c] \cap Waiting = {}
    <3>1. Waiting \in (SUBSET Children) \ {{}}
      BY <2>4
    <3> HIDE DEF Waiting
    <3> QED BY <3>1, CoordinatorAssumption
  <2>6. PICK n \in Needs[c] : state[n] # "Completed"
    BY <1>1, <1>5, <2>1, <2>5, QuietFacts
  <2>7. n \in scenario.split /\ n \in Children
    BY <2>5, <2>6, ScenarioFacts DEF EndInv, Grown
  <2>8. n \notin Waiting
    BY <2>5, <2>6
  <2>9. InScope(n) => state[n] = "Failed" /\ n \notin Required
    BY <2>2, <2>3, <2>6, <2>7, <2>8
  <2> QED BY <2>5, <2>6, <2>9
<1> QED BY <1>3, <1>4, <1>5

\* The steps that find nothing to do: the merge is made, the root fails with its
\* child, the scope is finished or the run stalls.
LEMMA IdleEnd ==
  ASSUME LoopInv, EndInv, Idle PROVE EndInv'
<1> USE UnitFacts
<1>1. /\ Quiet /\ scenario' = scenario /\ witness' = witness /\ failedChild' = failedChild
      /\ pending' = pending /\ retries' = retries
  BY DEF Idle, EndPartial, CreateMerge, PrematureMerge, FailParent, Stall, graphVars
<1>2. /\ Running /\ pending = {} /\ ending = "running" /\ Expanded /\ state[Root] = "Processing"
  BY <1>1, QuietFacts
<1>3. /\ WholeRoot' = WholeRoot /\ ContinueAfterFailure' = ContinueAfterFailure
      /\ Required' = Required /\ Selected' = Selected /\ Witnessed' = Witnessed
  BY <1>1 DEF WholeRoot, ContinueAfterFailure, Required, Selected, Witnessed
<1>4. CASE EndPartial \/ PrematureMerge
  <2>1. state' = state /\ ending' \in {"partial", "premature_merge"}
    BY <1>4 DEF EndPartial, PrematureMerge, graphVars
  <2>2. Grown' /\ Expanded' = Expanded
    BY <2>1, <1>1, <1>2, GrownStep DEF EndInv, Grown
  <2>3. Awaited' /\ Founded'
    BY <2>1, <1>1, <1>2 DEF EndInv, Awaited, Founded, Running
  <2> QED BY <2>1, <2>2, <2>3, <1>2, GoesOn
<1>5. CASE CreateMerge
  <2>1. state' = [state EXCEPT ![Merge] = "Ready"] /\ ending' = "running" /\ ~MergeMade
    BY <1>2, <1>5 DEF CreateMerge, RecordOne
  <2>2. /\ state'[Merge] = "Ready" /\ \A u \in Units \ {Merge} : state'[u] = state[u]
    BY <2>1 DEF LoopInv, Base, TypeOK
  <2>3. Expanded'
    BY <2>2, <1>2 DEF Expanded
  <2>4. Grown'
    BY <2>2, <2>3, <1>1, <1>2, ScenarioFacts DEF EndInv, Grown, Running
  <2>5. Awaited' /\ Founded'
    BY <2>1, <2>2, <2>3, <1>1, <1>2 DEF EndInv, Awaited, Founded, MergeMade
  <2> QED BY <2>1, <2>2, <2>4, <2>5, <1>2, GoesOn
<1>6. CASE FailParent /\ ending' = "parent_failed"
  <2>1. failedChild # None /\ ending' = "parent_failed" /\ state' = [state EXCEPT ![Root] = "Failed"]
    BY <1>6, FailParentStep DEF FailParent, RecordOne
  <2>2. /\ state'[Root] = "Failed" /\ \A u \in Units \ {Root} : state'[u] = state[u]
    BY <2>1 DEF LoopInv, Base, TypeOK
  <2>3. Grown'
    BY <2>1, <2>2, <1>1, GrownStep DEF EndInv, Grown, Running
  <2>4. Awaited' /\ Founded'
    BY <2>1, <2>2, <1>1, <1>2 DEF EndInv, Awaited, Founded, Running
  <2>5. \E u \in Units \ {Root} : state'[u] = "Failed"
    BY <2>1, <2>2 DEF EndInv, Founded
  <2>6. WholeRoot /\ Witnessed => state'[Merge] = "Failed"
    <3>1. Witnessed => Readiness = "ready"
      BY DEF Readiness
    <3>2. Witnessed => MergeMade
      BY <3>1, <1>6 DEF FailParent
    <3> QED BY <3>2, <2>2, <1>1, QuietFacts
  <2>7. FailureIsJustified'
    BY <2>5, <2>6, <1>3 DEF FailureIsJustified
  <2> QED BY <2>1, <2>3, <2>4, <2>7
          DEF EndInv, EndingsAreEarned, SettledIsClean, StallIsExplained
<1>7. CASE Stall
  <2>1. state' = state /\ ending' = "stalled"
    BY <1>7 DEF Stall, graphVars
  <2>2. Grown'
    BY <2>1, <1>1, <1>2, GrownStep DEF EndInv, Grown
  <2>3. Awaited' /\ Founded'
    BY <2>1, <1>1, <1>2 DEF EndInv, Awaited, Founded, Running
  <2>4. StallIsExplained'
    <3>1. graph' = graph /\ Logical' = Logical
      BY <1>1, <1>7 DEF Stall, graphVars, Logical
    <3> QED BY <2>1, <3>1, <1>3, <1>7, StallStep DEF StallIsExplained
  <2> QED BY <2>1, <2>2, <2>3, <2>4, <1>2
          DEF EndInv, EndingsAreEarned, SettledIsClean, FailureIsJustified
<1>8. CASE FailParent /\ ending' = "raised"
  <2>1. state' = state
    BY <1>8 DEF FailParent
  <2>2. Grown' /\ Expanded' = Expanded
    BY <2>1, <1>1, <1>2, GrownStep DEF EndInv, Grown
  <2>3. Awaited' /\ Founded'
    BY <2>1, <1>1, <1>2, <1>8 DEF EndInv, Awaited, Founded, Running
  <2> QED BY <2>1, <2>2, <2>3, <1>2, <1>8, GoesOn
<1>9. FailParent => ending' \in {"parent_failed", "raised"}
  BY DEF FailParent
<1> QED BY <1>4, <1>5, <1>6, <1>7, <1>8, <1>9 DEF Idle

\* Every step of the loop.
LEMMA NextEnd == LoopInv /\ EndInv /\ [Next]_vars => EndInv'
<1> SUFFICES ASSUME LoopInv, EndInv, [Next]_vars PROVE EndInv'
  OBVIOUS
<1>0. graph' \in Graphs
  BY NextRecorded
<1> HIDE DEF Graphs
<1>1. CASE \E u \in Units : Activate(u)
  BY <1>1, ActivateEnd
<1>2. CASE Dispatch
  BY <1>0, <1>2, DispatchEnd
<1>3. CASE Complete
  BY <1>0, <1>3, CompleteChildEnd, CompleteRootEnd, ExpandRootEnd, CompleteMergeEnd DEF Complete
<1>4. CASE Trouble
  <2> SUFFICES ASSUME NEW i \in pending,
                      InfrastructureFailure(i) \/ DeferRecovery(i) \/ RecoverNow(i) \/ Refuse(i)
               PROVE  EndInv'
    BY <1>4 DEF Trouble
  <2>1. CASE InfrastructureFailure(i)
    BY <2>1, EndEnd, TakenFacts DEF InfrastructureFailure, Endings, graphVars
  <2>2. CASE Refuse(i)
    BY <2>2, EndEnd, TakenFacts DEF Refuse, Recovered, Fails, Endings, graphVars
  <2> QED BY <2>1, <2>2, DeferRecoveryEnd, RecoverNowEnd
<1>5. CASE Control
  <2> SUFFICES ASSUME NEW i \in pending, Retry(i) \/ Requeue(i) \/ EarlyStop(i)
               PROVE  EndInv'
    BY <1>5 DEF Control
  <2>1. CASE Requeue(i)
    BY <2>1, EndEnd DEF Requeue, Endings
  <2> QED BY <1>0, <2>1, RetryEnd, EarlyStopEnd
<1>6. CASE Idle
  BY <1>6, IdleEnd
<1>7. CASE UNCHANGED vars
  BY <1>7
     DEF vars, graphVars, schedVars, EndInv, Grown, Expanded, MergeMade, Awaited, Founded, Running,
         EndingsAreEarned, SettledIsClean, FailureIsJustified, StallIsExplained, WholeRoot, Logical,
         ContinueAfterFailure, Required, Selected, Witnessed
<1> QED BY <1>1, <1>2, <1>3, <1>4, <1>5, <1>6, <1>7 DEF Next, Returned

-----------------------------------------------------------------------------
\* What the loop asks of the engine.

\* The ways in which a step may change a unit, which the graph shows as it is.
UnitMoves(u) ==
  \/ state'[u] = state[u]
  \/ /\ graph[u] = state[u]
     /\ \/ Added(u) \/ Unblocked(u) \/ Begun(u) \/ GivenBack(u)
        \/ Concluded(u) \/ Abandoned(u) \/ Pruned(u)

\* An activated child was Blocked, and has what it needs.
LEMMA ActivateMoves ==
  ASSUME LoopInv, NEW v \in Units, Activate(v), NEW u \in Units PROVE UnitMoves(u)
<1>1. v \in Scoped({c \in Children : /\ ~MergeMade /\ graph[c] = "Blocked"
                                     /\ \A n \in Needs[c] : graph[n] = "Completed"})
  BY DEF Activate, Activatable
<1>2. /\ v \in Children /\ ~MergeMade /\ state[v] = "Blocked"
      /\ \A n \in Needs[v] : state[n] = "Completed"
  <2>1. v \in Children /\ ~MergeMade /\ graph[v] = "Blocked" /\ \A n \in Needs[v] : graph[n] = "Completed"
    BY <1>1 DEF Scoped
  <2>2. \A n \in Needs[v] : n \in Units
    BY <2>1, UnitFacts, CoordinatorAssumption
  <2> QED BY <2>1, <2>2, ShownFacts
<1>3. state' = [state EXCEPT ![v] = "Ready"] /\ u \in DOMAIN state
  BY DEF Activate, RecordOne, LoopInv, Base, TypeOK
<1> QED BY <1>2, <1>3, ShownFacts DEF UnitMoves, Unblocked

\* Only what is Ready is begun, below a root that is at work.
LEMMA DispatchMoves ==
  ASSUME LoopInv, Dispatch, NEW u \in Units PROVE UnitMoves(u)
<1> USE UnitFacts
<1> DEFINE Batches == kSubset(Min({Slots, Cardinality(ReadyUnits)}), ReadyUnits)
           Works(b) == [b -> [outcome : scenario.outcomes, latency : scenario.latencies]]
<1>1. PICK batch \in Batches : \E work \in Works(batch) : Begin(batch, work)
  BY DEF Dispatch
<1>2. /\ state' = [v \in Units |-> IF v \in batch THEN "Processing" ELSE state[v]]
      /\ attempts' = [v \in Units |-> IF v \in batch THEN attempts[v] + 1 ELSE attempts[v]]
  <2>1. batch \subseteq Units
    BY DEF kSubset, ReadyUnits, Scoped
  <2> QED BY <1>1, <2>1 DEF Begin, Record
<1>3. batch \subseteq ReadyUnits
  BY DEF kSubset
<1>4. Running /\ \A j \in pending : j.kind = "execution"
  BY DEF Dispatch, ShouldDispatch, PendingControl, Executions
<1>5. /\ state[Root] \in {"Ready", "Processing"}
      /\ state[Root] = "Ready" => \A v \in Units \ {Root} : state[v] = "Absent"
  BY <1>4 DEF LoopInv, Base, Order
<1>6. CASE u \in batch
  <2>1. u \in Scoped({v \in Units : graph[v] = "Ready" /\ (MergeMade => v = Merge)})
    BY <1>3, <1>6 DEF ReadyUnits
  <2>2. state[u] = "Ready" /\ graph[u] = "Ready" /\ (MergeMade => u = Merge)
    BY <2>1, ShownFacts DEF Scoped
  <2>3. state'[u] = "Processing" /\ attempts'[u] = attempts[u] + 1
    BY <1>2, <1>6
  <2>4. state[Root] = IF u = Root THEN "Ready" ELSE "Processing"
    BY <2>2, <1>5
  <2> QED BY <2>2, <2>3, <2>4 DEF UnitMoves, Begun
<1>7. CASE u \notin batch
  BY <1>2, <1>7 DEF UnitMoves
<1> QED BY <1>6, <1>7

\* A result concludes its own unit, adds the split, or concludes the root.
LEMMA CompleteMoves ==
  ASSUME LoopInv, Complete, NEW u \in Units PROVE UnitMoves(u)
<1> USE UnitFacts
<1>1. PICK i \in pending : CompleteChild(i) \/ CompleteRoot(i) \/ ExpandRoot(i) \/ CompleteMerge(i)
  BY DEF Complete
<1>2. /\ Taken(i) /\ i.kind = "execution" /\ AtWork(i)
      /\ state \in [Units -> TaskStates]
  BY <1>1 DEF CompleteChild, CompleteRoot, ExpandRoot, CompleteMerge, AtWork, LoopInv, Base, TypeOK
<1>3. WorkOf(i)
  BY <1>2, WorkFacts
<1>4. CASE CompleteChild(i)
  <2>1. i.unit \in Children /\ state' = [state EXCEPT ![i.unit] = "Completed"]
    BY <1>4 DEF CompleteChild, RecordOne
  <2> QED BY <2>1, <1>2, <1>3, ShownFacts DEF WorkOf, UnitMoves, Concluded
<1>5. CASE CompleteRoot(i)
  <2>1. i.unit = Root /\ state' = [state EXCEPT ![Root] = "Completed"]
    BY <1>5 DEF CompleteRoot, RecordOne
  <2> QED BY <2>1, <1>2, <1>3, ShownFacts DEF WorkOf, UnitMoves, Concluded
<1>6. CASE ExpandRoot(i)
  <2>1. /\ i.unit = Root
        /\ state' = [v \in Units |-> IF v \notin scenario.split THEN state[v]
                                     ELSE IF Needs[v] = {} THEN "Ready" ELSE "Blocked"]
    BY <1>6, ScenarioFacts DEF ExpandRoot, Record
  <2>2. scenario.split \subseteq Children
    BY ScenarioFacts
  <2>3. state[Root] = "Processing" /\ \A v \in Units \ {Root} : state[v] = "Absent"
    BY <2>1, <1>2, <1>3 DEF WorkOf
  <2> QED BY <2>1, <2>2, <2>3, ShownFacts DEF UnitMoves, Added
<1>7. CASE CompleteMerge(i)
  <2>1. i.unit = Merge /\ state' = [state EXCEPT ![Root] = "Completed"]
    BY <1>7 DEF CompleteMerge, RecordOne
  <2> QED BY <2>1, <1>2, <1>3, ShownFacts DEF WorkOf, UnitMoves, Concluded
<1> QED BY <1>1, <1>4, <1>5, <1>6, <1>7

\* A recovery gives its unit back while the budget lasts, and fails it when
\* the budget is spent, with the root if the run is not to go on.
LEMMA RecoveryMoves ==
  ASSUME LoopInv, NEW i \in pending, RecoverNow(i) \/ Retry(i), NEW u \in Units
  PROVE  UnitMoves(u)
<1> USE UnitFacts
<1>1. Taken(i) /\ AtWork(i) /\ i.kind # "early_stop"
  BY DEF RecoverNow, Retry, Recovered, Fails, AtWork
<1>2. WorkOf(i) /\ i.unit \in Units
  BY <1>1, WorkFacts, TakenFacts
<1>3. /\ state \in [Units -> TaskStates]
      /\ retries \in [Units -> 0..(MaxRetries + 1)] /\ MaxRetries \in Nat
  BY DEF LoopInv, Base, TypeOK, RecoveryAssumption
<1>4. retries' = [retries EXCEPT ![i.unit] = @ + 1]
  BY DEF RecoverNow, Retry
<1>5. /\ state[i.unit] = "Processing" /\ retries[i.unit] <= MaxRetries
      /\ retries[i.unit] \in Nat /\ retries'[i.unit] = retries[i.unit] + 1
  BY <1>1, <1>2, <1>3, <1>4 DEF WorkOf
<1>6. CASE Verdict(i.unit) = "Ready"
  <2>1. state' = [state EXCEPT ![i.unit] = "Ready"]
    BY <1>6 DEF RecoverNow, Retry, RecordOne
  <2>2. retries[i.unit] + 1 <= MaxRetries
    BY <1>6 DEF Verdict, RetryState
  <2> QED BY <2>1, <2>2, <1>2, <1>3, <1>5, ShownFacts DEF UnitMoves, GivenBack
<1>7. CASE Verdict(i.unit) # "Ready"
  <2>1. Fail(i)
    BY <1>7 DEF RecoverNow, Retry
  <2>2. retries[i.unit] = MaxRetries
    BY <1>3, <1>5, <1>7 DEF Verdict, RetryState
  <2>3. Abandoned(i.unit)
    BY <2>1, <2>2, <1>2, <1>3, <1>5 DEF Fail, Record, RecordOne, Abandoned
  <2>4. CASE u \notin {i.unit, Root}
    BY <2>1, <2>4, <1>3 DEF Fail, Record, RecordOne, UnitMoves
  <2>5. CASE u = Root /\ i.unit # Root
    <3>1. state[Root] = "Processing" /\ state'[Root] \in {"Processing", "Failed"}
      BY <2>1, <2>5, <1>2, <1>3 DEF Fail, Record, RecordOne, WorkOf
    <3>2. state'[i.unit] = "Failed"
      BY <2>3 DEF Abandoned
    <3> QED BY <3>1, <3>2, <2>5, <1>2, ShownFacts DEF UnitMoves, Abandoned
  <2> QED BY <2>3, <2>4, <2>5, <1>2, <1>5, ShownFacts DEF UnitMoves
<1> QED BY <1>6, <1>7

\* The early stop prunes what it captured, and nothing was begun since.
LEMMA EarlyStopMoves ==
  ASSUME LoopInv, NEW i \in pending, EarlyStop(i), NEW u \in Units PROVE UnitMoves(u)
<1>1. /\ i.kind = "early_stop" /\ Running
      /\ state' = [v \in Units |-> IF v \in candidates THEN "Cancelled" ELSE state[v]]
  <2>1. candidates \subseteq Units
    BY DEF LoopInv, Base, TypeOK
  <2> QED BY <2>1 DEF EarlyStop, Record, Taken
<1>2. /\ state[Root] = "Completed" /\ pending = {i}
      /\ candidates = {v \in Units \ {Root} : state[v] \in {"Ready", "Blocked"}}
  BY <1>1 DEF LoopInv, Base, Order
<1> QED BY <1>1, <1>2, AllShown DEF UnitMoves, Pruned

\* The merge unit comes in once, and the root fails with the remembered child.
LEMMA IdleMoves ==
  ASSUME LoopInv, EndInv, Idle, NEW u \in Units PROVE UnitMoves(u)
<1> USE UnitFacts
<1>1. state \in [Units -> TaskStates]
  BY DEF LoopInv, Base, TypeOK
<1>2. CASE CreateMerge
  <2>1. /\ Quiet /\ Expanded /\ ~MergeMade /\ Readiness = "ready"
        /\ state' = [state EXCEPT ![Merge] = "Ready"]
    BY <1>2 DEF CreateMerge, RecordOne
  <2>2. state[Root] = "Processing" /\ pending = {} /\ state[Merge] = "Absent"
    BY <2>1, QuietFacts DEF MergeMade
  <2> QED BY <2>1, <2>2, <1>1, ShownFacts DEF UnitMoves, Added
<1>3. CASE FailParent
  <2>1. /\ Quiet
        /\ \/ state' = state
           \/ failedChild # None /\ state' = [state EXCEPT ![Root] = "Failed"]
    BY <1>3 DEF FailParent, RecordOne
  <2>2. state[Root] = "Processing"
    BY <2>1, QuietFacts
  <2>3. failedChild # None => failedChild \in Units \ {Root} /\ state[failedChild] = "Failed"
    BY DEF EndInv, Founded
  <2> QED BY <2>1, <2>2, <2>3, <1>1, ShownFacts DEF UnitMoves, Abandoned
<1>4. CASE EndPartial \/ PrematureMerge \/ Stall
  BY <1>4 DEF EndPartial, PrematureMerge, Stall, graphVars, UnitMoves
<1> QED BY <1>2, <1>3, <1>4 DEF Idle

\* No other step changes a unit.
LEMMA NextMoves ==
  ASSUME LoopInv, EndInv, Next, NEW u \in Units
  PROVE  UnitMoves(u) /\ (graph'[u] = state'[u] \/ state'[u] = state[u])
<1>0. graph'[u] = state'[u] \/ state'[u] = state[u]
  BY NextRecorded DEF Recorded, Requeue
<1> SUFFICES UnitMoves(u)
  BY <1>0
<1>1. CASE \E v \in Units : Activate(v)
  BY <1>1, ActivateMoves
<1>2. CASE Dispatch
  BY <1>2, DispatchMoves
<1>3. CASE Complete
  BY <1>3, CompleteMoves
<1>4. CASE Trouble
  <2> SUFFICES ASSUME NEW i \in pending,
                      InfrastructureFailure(i) \/ DeferRecovery(i) \/ RecoverNow(i) \/ Refuse(i)
               PROVE  UnitMoves(u)
    BY <1>4 DEF Trouble
  <2>1. CASE RecoverNow(i)
    BY <2>1, RecoveryMoves
  <2>2. CASE InfrastructureFailure(i) \/ DeferRecovery(i) \/ Refuse(i)
    BY <2>2 DEF InfrastructureFailure, DeferRecovery, Refuse, graphVars, UnitMoves
  <2> QED BY <2>1, <2>2
<1>5. CASE Control
  <2> SUFFICES ASSUME NEW i \in pending, Retry(i) \/ Requeue(i) \/ EarlyStop(i)
               PROVE  UnitMoves(u)
    BY <1>5 DEF Control
  <2>1. CASE Requeue(i)
    BY <2>1 DEF Requeue, UnitMoves
  <2> QED BY <2>1, RecoveryMoves, EarlyStopMoves
<1>6. CASE Idle
  BY <1>6, IdleMoves
<1>7. CASE Returned
  BY <1>7 DEF Returned, vars, graphVars, UnitMoves
<1> QED BY <1>1, <1>2, <1>3, <1>4, <1>5, <1>6, <1>7 DEF Next

-----------------------------------------------------------------------------

\* The loop's invariant, for any units, dependencies, capacity and budget.
THEOREM LoopIsSound == Spec => []LoopInv
BY InitInv, NextInv, PTL DEF Spec

\* However results, deferrals and hooks interleave, the scheduler's queue, the
\* pending list, the slots and the ledger agree on what is under way, and the
\* graph lacks at most what a requeue has undone.
THEOREM ListsAlwaysAgree == Spec => []ListsAgree
<1>1. LoopInv => TypeOK /\ QueueIsPending /\ OneAttemptEach
  BY DEF LoopInv, Base, Lists, OneAttemptEach, OnePerUnit, AtWorkIsPending, AtWork
<1>2. LoopInv => GraphFollowsLedger
  BY DEF LoopInv, Mirrored, Shows, CatchesUp, Behind, Requeued, GraphFollowsLedger
<1>3. LoopInv => ListsAgree
  BY <1>1, <1>2 DEF ListsAgree
<1> QED BY <1>3, LoopIsSound, PTL

\* No unit is tried more often than its recoveries account for, and none beside
\* the merge once there is one.
THEOREM AttemptsAlwaysDue == Spec => []AttemptsAreDue
<1>1. LoopInv => AttemptsAreDue
  BY DEF LoopInv, Base, AttemptsAreDue
<1> QED BY <1>1, LoopIsSound, PTL

\* How a run ends follows from what its units are, for any run.
THEOREM EndIsSound == Spec => []EndInv
BY InitEnd, NextEnd, LoopIsSound, PTL DEF Spec

\* A run raises for a stopped gate or a failure that a requeue has undone, nothing is begun or bound
\* after a failure that is to end the run, and whatever a step does to a unit is
\* what the engine takes.
THEOREM StepsAlwaysOrderly == Spec => StepsAreOrderly
<1>1. LoopInv /\ EndInv /\ [Next]_vars =>
        [Running /\ ending' = "raised" =>
           \/ \E i \in pending : Taken(i) /\ i.outcome = "parser_stop"
           \/ failedChild # None /\ state[failedChild] = "Failed" /\ graph[failedChild] # "Failed"]_vars
  BY RaiseStep
<1>2. LoopInv /\ [Next]_vars =>
        [failedChild # None /\ ~ContinueAfterFailure
           => UNCHANGED <<attempts, witness>>
              /\ \A u \in Units : state'[u] = "Completed" => state[u] = "Completed"]_vars
  BY EndedStep DEF LoopInv, Base, Remembered, vars, graphVars
<1>3. LoopInv /\ EndInv /\ [Next]_vars =>
        [\A u \in Units :
           \/ state'[u] = state[u]
           \/ /\ graph[u] = state[u] /\ graph'[u] = state'[u]
              /\ \/ Added(u) \/ Unblocked(u) \/ Begun(u) \/ GivenBack(u)
                 \/ Concluded(u) \/ Abandoned(u) \/ Pruned(u)]_vars
  BY NextMoves DEF UnitMoves
<1> QED BY <1>1, <1>2, <1>3, LoopIsSound, EndIsSound, PTL
        DEF Spec, StepsAreOrderly, RaisesOnlyWhenStopped, NoWorkAfterFailure, UnitsMoveLegally

\* A settled run leaves nothing behind, a root fails for a reason and without
\* throwing a witness away, and a stall has one of its causes.
THEOREM EndingsAlwaysEarned == Spec => []EndingsAreEarned
<1>1. EndInv => EndingsAreEarned
  BY DEF EndInv
<1> QED BY <1>1, EndIsSound, PTL
=============================================================================
