-------------------------- MODULE LogicalScheduler --------------------------
(***************************************************************************)
(* The discrete-event scheduler of                                         *)
(* src/src/tokenshare/local_runtime/logical_scheduler.py: a logical clock, *)
(* a heap of pending events and the set of ordering keys ever used.  It    *)
(* can be saved as a checkpoint and restored from one; the restored object *)
(* starts with an empty pop history but keeps the used keys.               *)
(*                                                                         *)
(* An event is its ordering key: time, priority, unit, attempt ordinal.    *)
(* One scheduler serves one task, so the task id is left out; a unit is    *)
(* the rank of its id among the ids in string order.  The sequence number  *)
(* and the delivery's start and latency only annotate an event.  The heap  *)
(* orders entries by key and keys are distinct, so it is the set of        *)
(* events with the least one taken first.                                  *)
(***************************************************************************)
EXTENDS Integers, FiniteSets

CONSTANTS
  UnitRanks,   \* ranks of the unit ids
  Ordinals,    \* attempt ordinals
  Kinds,       \* the event kinds in use
  MaxTime,     \* bound of the times that clients ask for
  MaxEvents,   \* bound of the number of events scheduled
  MaxSaved     \* bound of the number of checkpoints

\* EVENT_PRIORITY_BY_KIND.
Priority == [worker_completion |-> 10, lease_deadline |-> 20, worker_death |-> 30,
             early_stop |-> 40, retry |-> 50, requeue |-> 60]

ASSUME SchedulerAssumption ==
  /\ UnitRanks \subseteq Nat
  /\ Ordinals \subseteq Nat
  /\ Kinds \subseteq DOMAIN Priority
  /\ MaxTime \in Nat
  /\ MaxEvents \in Nat
  /\ MaxSaved \in Nat

Events == [time : Nat, priority : Nat, unit : UnitRanks, ordinal : Ordinals]

VARIABLES
  clock,      \* _clock_ms
  queue,      \* _queue: the pending events
  used,       \* _used_ordering_keys
  history,    \* _pop_history, as a set
  delivered,  \* every event popped, by this object and those it was restored from
  saved       \* the checkpoints taken

vars == <<clock, queue, used, history, delivered, saved>>

\* ordering_key, compared as a tuple.
Before(e, f) ==
  \/ e.time < f.time
  \/ /\ e.time = f.time
     /\ \/ e.priority < f.priority
        \/ /\ e.priority = f.priority
           /\ \/ e.unit < f.unit
              \/ e.unit = f.unit /\ e.ordinal < f.ordinal

\* The head of the heap.
IsNext(e) == e \in queue /\ \A f \in queue \ {e} : Before(e, f)

\* checkpoint(): the ghost delivered is saved with it to follow a lineage.
Checkpoint == [clock |-> clock, pending |-> queue, used |-> used, delivered |-> delivered]

\* The checks of LogicalSchedulerCheckpoint.__post_init__.
Valid(c) ==
  /\ c.clock >= 0
  /\ c.pending \subseteq c.used
  /\ \A e \in c.pending : e.time >= c.clock

Init ==
  /\ clock = 0
  /\ queue = {}
  /\ used = {}
  /\ history = {}
  /\ delivered = {}
  /\ saved = {}

(***************************************************************************)
(* Operations.                                                             *)
(***************************************************************************)

\* Mutant: the clock is not consulted.
ScheduleAnyTime(e) ==
  /\ e \notin used
  /\ used' = used \cup {e}
  /\ queue' = queue \cup {e}

\* _schedule: not before the clock, and no key twice, popped ones included.
Schedule(e) ==
  /\ e.time >= clock
  /\ e \notin used
  /\ used' = used \cup {e}
  /\ queue' = queue \cup {e}

\* pop_next.
Pop(e) ==
  /\ IsNext(e)
  /\ e.time >= clock
  /\ queue' = queue \ {e}
  /\ clock' = e.time

\* schedule_delivery: an explicit start must not lie before the clock.
ScheduleDelivery(kind, start, latency, u, n) ==
  /\ start >= clock
  /\ Schedule([time |-> start + latency, priority |-> Priority[kind],
               unit |-> u, ordinal |-> n])
  /\ UNCHANGED <<clock, history, delivered, saved>>

\* schedule_event.
ScheduleEvent(kind, time, u, n) ==
  /\ Schedule([time |-> time, priority |-> Priority[kind], unit |-> u, ordinal |-> n])
  /\ UNCHANGED <<clock, history, delivered, saved>>

PopNext(e) ==
  /\ Pop(e)
  /\ history' = history \cup {e}
  /\ delivered' = delivered \cup {e}
  /\ UNCHANGED <<used, saved>>

Save ==
  /\ saved' = saved \cup {Checkpoint}
  /\ UNCHANGED <<clock, queue, used, history, delivered>>

\* Mutant: only the pending keys come back as used.
RestorePendingKeys(c) ==
  /\ Valid(c)
  /\ clock' = c.clock
  /\ queue' = c.pending
  /\ used' = c.pending
  /\ history' = {}
  /\ delivered' = c.delivered
  /\ UNCHANGED saved

\* from_checkpoint.
Restore(c) ==
  /\ Valid(c)
  /\ clock' = c.clock
  /\ queue' = c.pending
  /\ used' = c.used
  /\ history' = {}
  /\ delivered' = c.delivered
  /\ UNCHANGED saved

Deliveries == \E kind \in Kinds, start, latency \in 0..MaxTime, u \in UnitRanks, n \in Ordinals :
                ScheduleDelivery(kind, start, latency, u, n)
Controls == \E kind \in Kinds, time \in 0..MaxTime, u \in UnitRanks, n \in Ordinals :
              ScheduleEvent(kind, time, u, n)

Next ==
  \/ Cardinality(used) < MaxEvents /\ (Deliveries \/ Controls)
  \/ \E e \in queue : PopNext(e)
  \/ Cardinality(saved) < MaxSaved /\ Save
  \/ \E c \in saved : Restore(c)

Spec == Init /\ [][Next]_vars

-----------------------------------------------------------------------------

\* The state is well typed.
TypeOK ==
  /\ clock \in Nat
  /\ queue \subseteq Events
  /\ used \subseteq Events
  /\ history \subseteq Events
  /\ delivered \subseteq Events
  /\ saved \subseteq [clock : Nat, pending : SUBSET Events,
                      used : SUBSET Events, delivered : SUBSET Events]

\* An event is never delivered twice nor lost, however often the scheduler is
\* saved and restored: what was scheduled is pending or delivered, not both.
DeliveredOnce ==
  /\ used = queue \cup delivered
  /\ queue \cap delivered = {}

\* The clock separates the past from the future.
ClockDivides ==
  /\ \A e \in delivered : e.time <= clock
  /\ \A e \in queue : clock <= e.time

\* checkpoint() builds an object whose own validation accepts it, and every
\* checkpoint ever taken can still be restored.
CheckpointsValid == Valid(Checkpoint) /\ \A c \in saved : Valid(c)

\* A replay goes on exactly where a checkpoint left it: every event is delivered
\* once along a lineage, and no checkpoint is refused.
ReplaysExactly == DeliveredOnce /\ CheckpointsValid
=============================================================================
