---------------------------- MODULE ExecutionProofs ----------------------------
(***************************************************************************)
(* The invariants of the two ways in which results come to the             *)
(* coordinator.                                                            *)
(*                                                                         *)
(* LogicalScheduler, for every set of units, ordinals and kinds and for    *)
(* any number of events and checkpoints.  A restore brings back an old     *)
(* state, so what holds of the current state must be known of every        *)
(* checkpoint as well: that is what CheckpointsWhole adds.                 *)
(*                                                                         *)
(* ProcessWorkers, for batches of any size.  That an executor runs with    *)
(* every child up is known from the start file alone (SlotKept), and that  *)
(* no process outlives its batch from what each phase of the parent has    *)
(* behind it (PhaseKept).                                                  *)
(***************************************************************************)
EXTENDS LogicalScheduler, ProcessWorkers, SequenceTheorems, FiniteSetTheorems, TLAPS

-----------------------------------------------------------------------------
(* The logical scheduler.                                                  *)

\* Every checkpoint is itself a state with DeliveredOnce and ClockDivides.
CheckpointsWhole ==
  \A c \in saved : /\ c.used = c.pending \cup c.delivered
                   /\ c.pending \cap c.delivered = {}
                   /\ \A e \in c.delivered : e.time <= c.clock
                   /\ \A e \in c.pending : c.clock <= e.time

IInv == TypeOK /\ DeliveredOnce /\ ClockDivides /\ CheckpointsWhole

\* Events that are ordered by Before are ordered in time.
LEMMA BeforeIsLater ==
  ASSUME NEW e \in Events, NEW f \in Events, Before(e, f)
  PROVE  e.time <= f.time
  BY DEF Before, Events

\* What both schedule operations do, told apart only by the event.
LEMMA ScheduleStep ==
  ASSUME IInv, NEW e \in Events, Schedule(e),
         UNCHANGED <<clock, history, delivered, saved>>
  PROVE  IInv'
  <1> USE DEF IInv, Schedule
  <1>1. TypeOK'
    BY DEF TypeOK
  <1>2. DeliveredOnce'
    BY DEF TypeOK, DeliveredOnce
  <1>3. ClockDivides'
    BY DEF TypeOK, ClockDivides, Events
  <1>4. CheckpointsWhole'
    BY DEF CheckpointsWhole
  <1> QED BY <1>1, <1>2, <1>3, <1>4

\* A delivery is one of the events.
LEMMA DeliveryIsEvent ==
  ASSUME NEW kind \in Kinds, NEW time \in Nat, NEW u \in UnitRanks, NEW n \in Ordinals
  PROVE  [time |-> time, priority |-> Priority[kind], unit |-> u, ordinal |-> n] \in Events
  <1>1. Priority[kind] \in Nat
    BY SchedulerAssumption DEF Priority
  <1> QED BY <1>1 DEF Events

\* Popping the next event (logical_scheduler.py, pop_next).
LEMMA PopStep ==
  ASSUME IInv, NEW e \in queue, PopNext(e)
  PROVE  IInv'
  <1> USE DEF IInv, PopNext, Pop
  <1>1. e \in Events /\ e.time \in Nat
    BY DEF TypeOK, Events
  <1>2. TypeOK'
    BY <1>1 DEF TypeOK
  <1>3. DeliveredOnce'
    BY DEF DeliveredOnce
  <1>4. ClockDivides'
    <2>1. \A f \in delivered' : f.time <= clock'
      <3> SUFFICES ASSUME NEW f \in delivered, f # e PROVE f.time <= e.time
        BY <1>1
      <3>1. f.time <= clock /\ clock <= e.time /\ clock \in Nat
        BY DEF ClockDivides, TypeOK
      <3>2. f \in Events
        BY DEF TypeOK
      <3> QED BY <1>1, <3>1, <3>2 DEF Events
    <2>2. ASSUME NEW f \in queue' PROVE clock' <= f.time
      BY <1>1, <2>2, BeforeIsLater DEF IsNext, TypeOK
    <2> QED BY <2>1, <2>2 DEF ClockDivides
  <1>5. CheckpointsWhole'
    BY DEF CheckpointsWhole
  <1> QED BY <1>2, <1>3, <1>4, <1>5

\* Taking a checkpoint.
LEMMA SaveStep ==
  ASSUME IInv, Save
  PROVE  IInv'
  <1> USE DEF IInv, Save, Checkpoint
  <1>1. TypeOK'
    BY DEF TypeOK
  <1>2. DeliveredOnce' /\ ClockDivides'
    BY DEF DeliveredOnce, ClockDivides
  <1>3. CheckpointsWhole'
    BY DEF CheckpointsWhole, DeliveredOnce, ClockDivides
  <1> QED BY <1>1, <1>2, <1>3

\* Going on from any checkpoint.
LEMMA RestoreStep ==
  ASSUME IInv, NEW c \in saved, Restore(c)
  PROVE  IInv'
  <1> USE DEF IInv, Restore
  <1>1. TypeOK'
    BY DEF TypeOK
  <1>2. DeliveredOnce' /\ ClockDivides'
    BY DEF CheckpointsWhole, DeliveredOnce, ClockDivides
  <1>3. CheckpointsWhole'
    BY DEF CheckpointsWhole
  <1> QED BY <1>1, <1>2, <1>3

\* Every step.
LEMMA Invariance == Spec => []IInv
  <1>1. Init => IInv
    BY DEF Init, IInv, TypeOK, DeliveredOnce, ClockDivides, CheckpointsWhole
  <1>2. IInv /\ [Next]_vars => IInv'
    <2> SUFFICES ASSUME IInv, [Next]_vars PROVE IInv'
      OBVIOUS
    <2>1. CASE Deliveries
      <3>1. PICK kind \in Kinds, from \in 0..MaxTime, latency \in 0..MaxTime,
                 u \in UnitRanks, n \in Ordinals :
              ScheduleDelivery(kind, from, latency, u, n)
        BY <2>1 DEF Deliveries
      <3>2. from + latency \in Nat
        BY SchedulerAssumption
      <3>3. [time |-> from + latency, priority |-> Priority[kind],
             unit |-> u, ordinal |-> n] \in Events
        BY <3>2, DeliveryIsEvent
      <3> QED BY <3>1, <3>3, ScheduleStep DEF ScheduleDelivery
    <2>2. CASE Controls
      <3>1. PICK kind \in Kinds, time \in 0..MaxTime, u \in UnitRanks, n \in Ordinals :
              ScheduleEvent(kind, time, u, n)
        BY <2>2 DEF Controls
      <3>2. time \in Nat
        BY SchedulerAssumption
      <3>3. [time |-> time, priority |-> Priority[kind], unit |-> u, ordinal |-> n] \in Events
        BY <3>2, DeliveryIsEvent
      <3> QED BY <3>1, <3>3, ScheduleStep DEF ScheduleEvent
    <2>3. CASE \E e \in queue : PopNext(e)
      BY <2>3, PopStep
    <2>4. CASE Save
      BY <2>4, SaveStep
    <2>5. CASE \E c \in saved : Restore(c)
      BY <2>5, RestoreStep
    <2>6. CASE UNCHANGED vars
      BY <2>6 DEF vars, IInv, TypeOK, DeliveredOnce, ClockDivides, CheckpointsWhole
    <2> QED BY <2>1, <2>2, <2>3, <2>4, <2>5, <2>6 DEF Next
  <1> QED BY <1>1, <1>2, PTL DEF Spec

\* Every reachable scheduler state, checkpoints included, is well typed.
THEOREM SchedulerTypeOK == Spec => []TypeOK
  <1>1. IInv => TypeOK
    BY DEF IInv
  <1> QED BY <1>1, Invariance, PTL

\* The clock never passes a pending event nor lags behind a delivered one, so
\* deliveries are in the order of time.
THEOREM SchedulerClockDivides == Spec => []ClockDivides
  <1>1. IInv => ClockDivides
    BY DEF IInv
  <1> QED BY <1>1, Invariance, PTL

\* No event is ever delivered twice or lost along any lineage of checkpoints
\* and restores; checkpoint() always builds an object that its own validation
\* accepts, and from_checkpoint accepts every checkpoint ever taken.
THEOREM SchedulerReplaysExactly == Spec => []ReplaysExactly
  <1>1. ASSUME IInv PROVE ReplaysExactly
    <2>1. Valid(Checkpoint)
      BY <1>1 DEF IInv, TypeOK, DeliveredOnce, ClockDivides, Valid, Checkpoint, Events
    <2>2. ASSUME NEW c \in saved PROVE Valid(c)
      BY <1>1, <2>2 DEF IInv, TypeOK, CheckpointsWhole, Valid, Events
    <2>3. DeliveredOnce
      BY <1>1 DEF IInv
    <2> QED BY <2>1, <2>2, <2>3 DEF CheckpointsValid, ReplaysExactly
  <1> QED BY <1>1, Invariance, PTL

-----------------------------------------------------------------------------
(* The worker processes.                                                   *)

\* Nothing is reported of the slot yet.
Fresh(s) == outcome[s] = None

\* The files and the report of one slot.
SlotKept(s) ==
  /\ start[s] => s \in Used /\ \A r \in Used : ready[r]
  /\ ~start[s] => child[s] \notin {"running", "written"} /\ result[s] = None
  /\ Fresh(s) => ingested[s] = 0
  /\ ~Fresh(s) => child[s] = "gone"
  /\ outcome[s] \in {"submission", "worker_terminated"} =>
       ingested[s] = 1 /\ result[s] \in {"succeeded", "failed"}
  /\ outcome[s] = "executor_error" => ingested[s] = 0
  /\ target[s] => s \in Used /\ batch[s] \in Targets
  /\ s \notin Used => child[s] = "none"

\* What each phase of the parent has already done.
PhaseKept ==
  /\ phase # "idle" => batch \in BatchesOf /\ at \in Used
  /\ phase \in {"starting", "abandoning"} => \A s \in Slots : ~start[s] /\ Fresh(s)
  /\ phase = "starting" => \A s \in 1..(at - 1) : ready[s]
  /\ phase = "signalling" => \A s \in Slots : Fresh(s)
  /\ phase \in {"signalling", "finishing"} => \A s \in Used : ready[s]
  /\ phase = "finishing" => \A s \in Slots : (s < at => child[s] \notin Alive)
                                          /\ (s >= at => Fresh(s))
  /\ phase = "idle" => \A s \in Slots : child[s] \notin Alive
  /\ phase = "raised" => \A s \in Slots : child[s] \in Alive => ~start[s]

BatchInv == WorkersTypeOK /\ (\A s \in Slots : SlotKept(s)) /\ PhaseKept

\* A batch is a sequence that fits the slots.
LEMMA BatchShape ==
  ASSUME NEW b \in BatchesOf
  PROVE  /\ b \in Seq(Units) /\ Len(b) \in Slots /\ DOMAIN b = 1..Len(b)
         /\ DOMAIN b \subseteq Slots /\ \A i \in DOMAIN b : b[i] \in Units
  <1>1. PICK n \in Slots : b \in [1..n -> Units]
    BY DEF BatchesOf
  <1>2. n \in Nat
    BY <1>1, WorkersAssumption DEF Slots
  <1>3. b \in Seq(Units)
    BY <1>1, <1>2, SeqDef
  <1>4. Len(b) = n
    BY <1>1, <1>2, <1>3, LenProperties
  <1> QED BY <1>1, <1>2, <1>3, <1>4, WorkersAssumption DEF Slots

\* While a batch is on, the parent is at one of its slots.
LEMMA AtBusy ==
  ASSUME BatchInv, phase # "idle"
  PROVE  /\ batch \in BatchesOf /\ batch \in Seq(Units)
         /\ Len(batch) \in Slots /\ Used = 1..Len(batch)
         /\ at \in Used /\ Used \subseteq Slots /\ batch[at] \in Units /\ at \in Slots
         /\ Slots \subseteq Nat
  BY BatchShape, WorkersAssumption DEF BatchInv, PhaseKept, Used, Slots

\* The end of one request keeps the types of what it assigns.
LEMMA FinishedTypes ==
  ASSUME BatchInv, phase = "finishing",
         NEW o \in Reports, Finished(o)
  PROVE  /\ phase' \in {"idle", "finishing"} /\ at' \in Slots /\ doomed' \in BOOLEAN
         /\ child' \in [Slots -> Alive \cup {"none", "gone"}]
         /\ outcome' \in [Slots -> Reports \cup {None}]
  <1>1. phase' \in {"idle", "finishing"} /\ at' \in Slots
    BY AtBusy DEF Finished, Slots
  <1>2. doomed' \in BOOLEAN
    BY DEF Finished
  <1>3. child' \in [Slots -> Alive \cup {"none", "gone"}]
    BY AtBusy DEF Finished, BatchInv, WorkersTypeOK
  <1>4. outcome' \in [Slots -> Reports \cup {None}]
    BY AtBusy DEF Finished, BatchInv, WorkersTypeOK
  <1> QED BY <1>1, <1>2, <1>3, <1>4

\* The end of one request leaves its child gone and the later ones unreported.
LEMMA FinishedPhase ==
  ASSUME BatchInv, phase = "finishing", UNCHANGED <<batch, ready, start>>,
         NEW o \in Reports, Finished(o)
  PROVE  PhaseKept'
  <1>1. /\ phase' \in {"idle", "finishing"}
        /\ phase' = "idle" <=> at = Len(batch)
        /\ phase' = "finishing" => at' = at + 1
    BY AtBusy DEF Finished
  <1>2. phase' = "finishing" => batch' \in BatchesOf /\ at' \in Used'
    BY <1>1, AtBusy DEF Used
  <1>3. \A s \in Used : ready'[s]
    BY DEF BatchInv, PhaseKept
  <1>4. ASSUME NEW s \in Slots, s < at + 1 PROVE child'[s] \notin Alive
    BY <1>4, AtBusy DEF BatchInv, PhaseKept, Finished, Alive, WorkersTypeOK
  <1>5. ASSUME NEW s \in Slots, s >= at + 1 PROVE outcome'[s] = None
    BY <1>5, AtBusy DEF BatchInv, PhaseKept, Finished, Fresh, WorkersTypeOK
  <1>6. ASSUME NEW s \in Slots, at = Len(batch) PROVE child'[s] \notin Alive
    <2>1. CASE s \in Used
      BY <2>1, <1>6, <1>4, AtBusy
    <2>2. CASE s \notin Used
      BY <2>2, <1>6, AtBusy DEF BatchInv, SlotKept, Finished, Alive, WorkersTypeOK
    <2> QED BY <2>1, <2>2
  <1> QED BY <1>1, <1>2, <1>3, <1>4, <1>5, <1>6, AtBusy DEF PhaseKept, Fresh, Used

\* A process is started, or the attempts are used up (_start_process_handle).
LEMMA OpenStep ==
  ASSUME BatchInv, Open
  PROVE  BatchInv'
  <1> USE DEF BatchInv, Open, slotVars, policy
  <1>1. WorkersTypeOK'
    <2>1. tries' \in 0..Bootstraps
      BY DEF WorkersTypeOK, Bootstraps
    <2>2. child' \in [Slots -> Alive \cup {"none", "gone"}]
      BY DEF WorkersTypeOK, Alive
    <2>3. phase' \in {"starting", "closing"}
      OBVIOUS
    <2> QED BY <2>1, <2>2, <2>3 DEF WorkersTypeOK
  <1>2. ASSUME NEW q \in Slots PROVE SlotKept(q)'
    BY AtBusy, WorkersAssumption DEF WorkersTypeOK, SlotKept, PhaseKept, Fresh, Used,
       Alive, Results
  <1>3. PhaseKept'
    BY AtBusy, WorkersAssumption DEF WorkersTypeOK, SlotKept, PhaseKept, Fresh, Used, Alive
  <1> QED BY <1>1, <1>2, <1>3

\* The last ready signal is the only way to the start signals.
LEMMA SeeReadyStep ==
  ASSUME BatchInv, SeeReady
  PROVE  BatchInv'
  <1> USE DEF BatchInv, SeeReady, slotVars, policy
  <1>1. WorkersTypeOK'
    BY AtBusy, WorkersAssumption DEF WorkersTypeOK, Results, Alive, Bootstraps
  <1>2. ASSUME NEW q \in Slots PROVE SlotKept(q)'
    BY AtBusy, WorkersAssumption DEF WorkersTypeOK, SlotKept, PhaseKept, Fresh, Used,
       Alive, Results
  <1>3. PhaseKept'
    BY AtBusy, WorkersAssumption DEF WorkersTypeOK, SlotKept, PhaseKept, Fresh, Used, Alive
  <1> QED BY <1>1, <1>2, <1>3

\* A bootstrap fails before any start signal.
LEMMA BootFailsStep ==
  ASSUME BatchInv, BootFails
  PROVE  BatchInv'
  <1> USE DEF BatchInv, BootFails, slotVars, policy
  <1>1. WorkersTypeOK'
    BY AtBusy, WorkersAssumption DEF WorkersTypeOK, Results, Alive, Bootstraps
  <1>2. ASSUME NEW q \in Slots PROVE SlotKept(q)'
    BY AtBusy, WorkersAssumption DEF WorkersTypeOK, SlotKept, PhaseKept, Fresh, Used,
       Alive, Results
  <1>3. PhaseKept'
    BY AtBusy, WorkersAssumption DEF WorkersTypeOK, SlotKept, PhaseKept, Fresh, Used, Alive
  <1> QED BY <1>1, <1>2, <1>3

\* The start signals (_signal of every handle).
LEMMA SignalStep ==
  ASSUME BatchInv, Signal
  PROVE  BatchInv'
  <1> USE DEF BatchInv, Signal, slotVars, policy
  <1>1. WorkersTypeOK'
    BY AtBusy, WorkersAssumption DEF WorkersTypeOK, Results, Alive, Bootstraps
  <1>2. ASSUME NEW q \in Slots PROVE SlotKept(q)'
    BY AtBusy, WorkersAssumption DEF WorkersTypeOK, SlotKept, PhaseKept, Fresh, Used,
       Alive, Results
  <1>3. PhaseKept'
    <2>1. phase' \in {"signalling", "finishing"} /\ at' \in Used' /\ Used' = Used
      BY AtBusy DEF Used
    <2>2. phase' = "finishing" => at' = 1
      BY DEF WorkersTypeOK
    <2>3. \A s \in Slots : Fresh(s)' /\ s >= 1
      BY DEF PhaseKept, Fresh, Slots
    <2> QED BY <2>1, <2>2, <2>3, AtBusy DEF PhaseKept, Used
  <1> QED BY <1>1, <1>2, <1>3

\* The wait for a result ends without one.
LEMMA GiveUpStep ==
  ASSUME BatchInv, GiveUp
  PROVE  BatchInv'
  <1> USE DEF BatchInv, GiveUp, slotVars, policy
  <1>1. WorkersTypeOK'
    BY AtBusy, WorkersAssumption DEF WorkersTypeOK, Results, Alive, Bootstraps
  <1>2. ASSUME NEW q \in Slots PROVE SlotKept(q)'
    BY AtBusy, WorkersAssumption DEF WorkersTypeOK, SlotKept, PhaseKept, Fresh, Used,
       Alive, Results
  <1>3. PhaseKept'
    BY AtBusy, WorkersAssumption DEF WorkersTypeOK, SlotKept, PhaseKept, Fresh, Used, Alive
  <1> QED BY <1>1, <1>2, <1>3

\* The process without a result is killed.
LEMMA KillDoomedStep ==
  ASSUME BatchInv, KillDoomed
  PROVE  BatchInv'
  <1>1. /\ phase = "finishing" /\ "executor_error" \in Reports /\ Finished("executor_error")
        /\ UNCHANGED <<batch, tries, ready, start, result, target, batches>>
    BY DEF KillDoomed, policy, Reports
  <1>2. WorkersTypeOK'
    <2>1. ingested' \in [Slots -> {0, 1}]
      BY AtBusy DEF KillDoomed, Ingest, BatchInv, WorkersTypeOK, PhaseKept, SlotKept, Fresh
    <2>2. killed' \in Seq(Targets) /\ completed' \subseteq Units
      BY AtBusy DEF KillDoomed, ShouldTerminate, policy, BatchInv, WorkersTypeOK, SlotKept
    <2> QED BY <1>1, <2>1, <2>2, FinishedTypes DEF BatchInv, WorkersTypeOK
  <1>3. ASSUME NEW q \in Slots PROVE SlotKept(q)'
    BY <1>3, AtBusy, WorkersAssumption DEF KillDoomed, Finished, BatchInv, WorkersTypeOK,
       SlotKept, PhaseKept, Fresh, Used, Alive, Results
  <1>4. PhaseKept'
    BY <1>1, FinishedPhase
  <1> QED BY <1>2, <1>3, <1>4 DEF BatchInv

\* The termination policy kills a process whose result is read.
LEMMA TerminateStep ==
  ASSUME BatchInv, Terminate
  PROVE  BatchInv'
  <1>1. /\ phase = "finishing" /\ "worker_terminated" \in Reports /\ Finished("worker_terminated")
        /\ UNCHANGED <<batch, tries, ready, start, result, target, batches>>
    BY DEF Terminate, policy, Reports
  <1>2. WorkersTypeOK'
    <2>1. ingested' \in [Slots -> {0, 1}]
      <3>1. ingested[at] = 0
        BY <1>1, AtBusy DEF BatchInv, PhaseKept, SlotKept
      <3>2. ingested' = [ingested EXCEPT ![at] = 1]
        BY <3>1 DEF Terminate, Ingest
      <3> QED BY <3>2, AtBusy, <1>1 DEF BatchInv, WorkersTypeOK
    <2>2. killed' \in Seq(Targets) /\ completed' \subseteq Units
      BY AtBusy DEF Terminate, ShouldTerminate, policy, BatchInv, WorkersTypeOK, SlotKept
    <2> QED BY <1>1, <2>1, <2>2, FinishedTypes DEF BatchInv, WorkersTypeOK
  <1>3. ASSUME NEW q \in Slots PROVE SlotKept(q)'
    BY <1>3, AtBusy, WorkersAssumption DEF Terminate, Finished, ShouldTerminate, Ingest,
       policy, BatchInv, WorkersTypeOK, SlotKept, PhaseKept, Fresh, Used, Alive, Results
  <1>4. PhaseKept'
    BY <1>1, FinishedPhase
  <1> QED BY <1>2, <1>3, <1>4 DEF BatchInv

\* A submission is reported and ingested.
LEMMA DeliverStep ==
  ASSUME BatchInv, Deliver
  PROVE  BatchInv'
  <1>1. /\ phase = "finishing" /\ "submission" \in Reports /\ Finished("submission")
        /\ UNCHANGED <<batch, tries, ready, start, result, target, batches>>
    BY DEF Deliver, policy, Reports
  <1>2. WorkersTypeOK'
    <2>1. ingested' \in [Slots -> {0, 1}]
      <3>1. ingested[at] = 0
        BY <1>1, AtBusy DEF BatchInv, PhaseKept, SlotKept
      <3>2. ingested' = [ingested EXCEPT ![at] = 1]
        BY <3>1 DEF Deliver, Ingest
      <3> QED BY <3>2, AtBusy, <1>1 DEF BatchInv, WorkersTypeOK
    <2>2. killed' \in Seq(Targets) /\ completed' \subseteq Units
      BY AtBusy DEF Deliver, ShouldTerminate, policy, BatchInv, WorkersTypeOK, SlotKept
    <2> QED BY <1>1, <2>1, <2>2, FinishedTypes DEF BatchInv, WorkersTypeOK
  <1>3. ASSUME NEW q \in Slots PROVE SlotKept(q)'
    BY <1>3, AtBusy, WorkersAssumption DEF Deliver, Finished, Ingest, BatchInv,
       WorkersTypeOK, SlotKept, PhaseKept, Fresh, Used, Alive, Results
  <1>4. PhaseKept'
    BY <1>1, FinishedPhase
  <1> QED BY <1>2, <1>3, <1>4 DEF BatchInv

\* The child reported an exception.
LEMMA ReportErrorStep ==
  ASSUME BatchInv, ReportError
  PROVE  BatchInv'
  <1>1. /\ phase = "finishing" /\ "executor_error" \in Reports /\ Finished("executor_error")
        /\ UNCHANGED <<batch, tries, ready, start, result, target, batches>>
    BY DEF ReportError, policy, Reports
  <1>2. WorkersTypeOK'
    <2>1. ingested' \in [Slots -> {0, 1}]
      BY AtBusy DEF ReportError, Ingest, BatchInv, WorkersTypeOK, PhaseKept, SlotKept, Fresh
    <2>2. killed' \in Seq(Targets) /\ completed' \subseteq Units
      BY AtBusy DEF ReportError, ShouldTerminate, policy, BatchInv, WorkersTypeOK, SlotKept
    <2> QED BY <1>1, <2>1, <2>2, FinishedTypes DEF BatchInv, WorkersTypeOK
  <1>3. ASSUME NEW q \in Slots PROVE SlotKept(q)'
    BY <1>3, AtBusy, WorkersAssumption DEF ReportError, Finished, BatchInv, WorkersTypeOK,
       SlotKept, PhaseKept, Fresh, Used, Alive, Results
  <1>4. PhaseKept'
    BY <1>1, FinishedPhase
  <1> QED BY <1>2, <1>3, <1>4 DEF BatchInv

\* The child left something that is no submission.
LEMMA RefuseResultStep ==
  ASSUME BatchInv, RefuseResult
  PROVE  BatchInv'
  <1> USE DEF BatchInv, RefuseResult, slotVars, policy
  <1>1. WorkersTypeOK'
    BY AtBusy, WorkersAssumption DEF WorkersTypeOK, Results, Alive, Bootstraps
  <1>2. ASSUME NEW q \in Slots PROVE SlotKept(q)'
    BY AtBusy, WorkersAssumption DEF WorkersTypeOK, SlotKept, PhaseKept, Fresh, Used,
       Alive, Results
  <1>3. PhaseKept'
    BY AtBusy, WorkersAssumption DEF WorkersTypeOK, SlotKept, PhaseKept, Fresh, Used, Alive
  <1> QED BY <1>1, <1>2, <1>3

\* The parent is torn out of the batch.
LEMMA InterruptStep ==
  ASSUME BatchInv, Interrupt
  PROVE  BatchInv'
  <1> USE DEF BatchInv, Interrupt, slotVars, policy
  <1>1. WorkersTypeOK'
    BY AtBusy, WorkersAssumption DEF WorkersTypeOK, Results, Alive, Bootstraps
  <1>2. ASSUME NEW q \in Slots PROVE SlotKept(q)'
    BY AtBusy, WorkersAssumption DEF WorkersTypeOK, SlotKept, PhaseKept, Fresh, Used,
       Alive, Results
  <1>3. PhaseKept'
    BY AtBusy, WorkersAssumption DEF WorkersTypeOK, SlotKept, PhaseKept, Fresh, Used, Alive
  <1> QED BY <1>1, <1>2, <1>3

\* The finally of execute_batch.
LEMMA CloseStep ==
  ASSUME BatchInv, Close
  PROVE  BatchInv'
  <1> USE DEF BatchInv, Close, slotVars, policy
  <1>1. WorkersTypeOK'
    BY AtBusy, WorkersAssumption DEF WorkersTypeOK, Results, Alive, Bootstraps
  <1>2. ASSUME NEW q \in Slots PROVE SlotKept(q)'
    BY AtBusy, WorkersAssumption DEF WorkersTypeOK, SlotKept, PhaseKept, Fresh, Used,
       Alive, Results
  <1>3. PhaseKept'
    BY AtBusy, WorkersAssumption DEF WorkersTypeOK, SlotKept, PhaseKept, Fresh, Used, Alive
  <1> QED BY <1>1, <1>2, <1>3

\* The child writes its ready file.
LEMMA ChildReadyStep ==
  ASSUME BatchInv, NEW s \in Slots, ChildReady(s)
  PROVE  BatchInv'
  <1> USE DEF BatchInv, ChildReady, Becomes, slotVars, policy
  <1>1. WorkersTypeOK'
    BY WorkersAssumption DEF WorkersTypeOK, Results, Alive, Bootstraps
  <1>2. ASSUME NEW q \in Slots PROVE SlotKept(q)'
    BY WorkersAssumption DEF WorkersTypeOK, SlotKept, PhaseKept, Fresh, Used, Alive, Results
  <1>3. PhaseKept'
    BY WorkersAssumption DEF WorkersTypeOK, SlotKept, PhaseKept, Fresh, Used, Alive
  <1> QED BY <1>1, <1>2, <1>3

\* The child sees the start file.
LEMMA ChildStartsStep ==
  ASSUME BatchInv, NEW s \in Slots, ChildStarts(s)
  PROVE  BatchInv'
  <1> USE DEF BatchInv, ChildStarts, Becomes, slotVars, policy
  <1>1. WorkersTypeOK'
    BY WorkersAssumption DEF WorkersTypeOK, Results, Alive, Bootstraps
  <1>2. ASSUME NEW q \in Slots PROVE SlotKept(q)'
    BY WorkersAssumption DEF WorkersTypeOK, SlotKept, PhaseKept, Fresh, Used, Alive, Results
  <1>3. PhaseKept'
    BY WorkersAssumption DEF WorkersTypeOK, SlotKept, PhaseKept, Fresh, Used, Alive
  <1> QED BY <1>1, <1>2, <1>3

\* The child leaves after its timeouts.
LEMMA ChildExitsStep ==
  ASSUME BatchInv, NEW s \in Slots, ChildExits(s)
  PROVE  BatchInv'
  <1> USE DEF BatchInv, ChildExits, Becomes, slotVars, policy
  <1>1. WorkersTypeOK'
    BY WorkersAssumption DEF WorkersTypeOK, Results, Alive, Bootstraps
  <1>2. ASSUME NEW q \in Slots PROVE SlotKept(q)'
    BY WorkersAssumption DEF WorkersTypeOK, SlotKept, PhaseKept, Fresh, Used, Alive, Results
  <1>3. PhaseKept'
    BY WorkersAssumption DEF WorkersTypeOK, SlotKept, PhaseKept, Fresh, Used, Alive
  <1> QED BY <1>1, <1>2, <1>3

\* The child dies.
LEMMA ChildDiesStep ==
  ASSUME BatchInv, NEW s \in Slots, ChildDies(s)
  PROVE  BatchInv'
  <1> USE DEF BatchInv, ChildDies, Becomes, slotVars, policy
  <1>1. WorkersTypeOK'
    BY WorkersAssumption DEF WorkersTypeOK, Results, Alive, Bootstraps
  <1>2. ASSUME NEW q \in Slots PROVE SlotKept(q)'
    BY WorkersAssumption DEF WorkersTypeOK, SlotKept, PhaseKept, Fresh, Used, Alive, Results
  <1>3. PhaseKept'
    BY WorkersAssumption DEF WorkersTypeOK, SlotKept, PhaseKept, Fresh, Used, Alive
  <1> QED BY <1>1, <1>2, <1>3

\* The child writes its result.
LEMMA ChildWritesStep ==
  ASSUME BatchInv, NEW s \in Slots, NEW r \in Results, ChildWrites(s, r)
  PROVE  BatchInv'
  <1> USE DEF BatchInv, ChildWrites, Becomes, slotVars, policy
  <1>1. WorkersTypeOK'
    BY WorkersAssumption DEF WorkersTypeOK, Results, Alive, Bootstraps
  <1>2. ASSUME NEW q \in Slots PROVE SlotKept(q)'
    BY WorkersAssumption DEF WorkersTypeOK, SlotKept, PhaseKept, Fresh, Used, Alive, Results
  <1>3. PhaseKept'
    BY WorkersAssumption DEF WorkersTypeOK, SlotKept, PhaseKept, Fresh, Used, Alive
  <1> QED BY <1>1, <1>2, <1>3

\* A new batch clears every slot, the clocks and the files.
LEMMA BeginStep ==
  ASSUME BatchInv, NEW b \in BatchesOf, Begin(b)
  PROVE  BatchInv'
  <1> USE DEF BatchInv, Begin, Clear, policy
  <1>1. 1 \in Slots /\ 1 \in DOMAIN b
    BY BatchShape, WorkersAssumption DEF Slots
  <1>2. WorkersTypeOK'
    <2>1. /\ child' \in [Slots -> Alive \cup {"none", "gone"}]
          /\ outcome' \in [Slots -> Reports \cup {None}]
          /\ result' \in [Slots -> Results \cup {None}]
      OBVIOUS
    <2>2. /\ ready' \in [Slots -> BOOLEAN] /\ start' \in [Slots -> BOOLEAN]
          /\ target' \in [Slots -> BOOLEAN] /\ ingested' \in [Slots -> {0, 1}]
      OBVIOUS
    <2>3. tries' \in 0..Bootstraps /\ batches' \in 0..MaxBatches
      BY WorkersAssumption DEF WorkersTypeOK, Bootstraps
    <2>4. doomed' \in BOOLEAN
      OBVIOUS
    <2> QED BY <1>1, <2>1, <2>2, <2>3, <2>4 DEF WorkersTypeOK
  <1>3. ASSUME NEW q \in Slots PROVE SlotKept(q)'
    BY <1>3, WorkersAssumption DEF SlotKept, Fresh, Used, Reports
  <1>4. PhaseKept'
    BY <1>1 DEF PhaseKept, Fresh, Used
  <1> QED BY <1>2, <1>3, <1>4

\* Nothing has been started before the first batch.
LEMMA WorkersInitially ==
  ASSUME WorkersInit
  PROVE  BatchInv
  <1> USE DEF WorkersInit, Clear
  <1>1. WorkersTypeOK
    <2>1. /\ child \in [Slots -> Alive \cup {"none", "gone"}]
          /\ outcome \in [Slots -> Reports \cup {None}] /\ result \in [Slots -> Results \cup {None}]
      OBVIOUS
    <2>2. /\ ready \in [Slots -> BOOLEAN] /\ start \in [Slots -> BOOLEAN]
          /\ target \in [Slots -> BOOLEAN] /\ ingested \in [Slots -> {0, 1}]
      OBVIOUS
    <2>3. tries \in 0..Bootstraps /\ batches \in 0..MaxBatches /\ at \in Slots
      BY WorkersAssumption DEF Bootstraps, Slots
    <2>5. doomed \in BOOLEAN
      OBVIOUS
    <2>4. killed \in Seq(Targets) /\ completed \subseteq Units
      BY EmptySeq
    <2> QED BY <2>1, <2>2, <2>3, <2>4, <2>5 DEF WorkersTypeOK
  <1>2. ASSUME NEW q \in Slots PROVE SlotKept(q)
    BY <1>2, WorkersAssumption DEF SlotKept, Fresh, Used, Reports
  <1>3. PhaseKept
    BY DEF PhaseKept, Alive
  <1> QED BY <1>1, <1>2, <1>3 DEF BatchInv

\* Every step of the parent, of a child, or of the world keeps the invariant.
LEMMA WorkersStep ==
  ASSUME BatchInv, [WorkersNext]_workerVars
  PROVE  BatchInv'
  <1>1. CASE \E b \in BatchesOf : Begin(b)
    BY <1>1, BeginStep
  <1>2. CASE Parent
    BY <1>2, OpenStep, SeeReadyStep, BootFailsStep, SignalStep, GiveUpStep, KillDoomedStep,
       TerminateStep, DeliverStep, ReportErrorStep, RefuseResultStep, CloseStep DEF Parent
  <1>3. CASE Interrupt
    BY <1>3, InterruptStep
  <1>4. CASE \E s \in Slots : Child(s)
    BY <1>4, ChildReadyStep, ChildStartsStep, ChildExitsStep, ChildDiesStep, ChildWritesStep
       DEF Child
  <1>5. CASE UNCHANGED workerVars
    BY <1>5 DEF workerVars, slotVars, policy, BatchInv, WorkersTypeOK, SlotKept,
       PhaseKept, Fresh, Used
  <1> QED BY <1>1, <1>2, <1>3, <1>4, <1>5 DEF WorkersNext

\* The invariant of the worker processes.
LEMMA WorkersInvariance == WorkersSpec => []BatchInv
  <1>1. WorkersInit => BatchInv
    BY WorkersInitially
  <1>2. BatchInv /\ [WorkersNext]_workerVars => BatchInv'
    BY WorkersStep
  <1> QED BY <1>1, <1>2, PTL DEF WorkersSpec

\* An executor runs only when every child of its batch came up, none runs on
\* after the batch, and what ran is ingested exactly as it is reported.
THEOREM WorkersRunInTheirBatch == WorkersSpec => []RunsInItsBatch
  <1>1. ASSUME BatchInv PROVE RunsInItsBatch
    <2>1. WorkersTypeOK
      BY <1>1 DEF BatchInv
    <2>2. AllOrNoneRun
      BY <1>1 DEF BatchInv, SlotKept, AllOrNoneRun
    <2>3. NothingRunsOn
      BY <1>1 DEF BatchInv, SlotKept, PhaseKept, NothingRunsOn
    <2>4. ASSUME NEW s \in Used
          PROVE  /\ outcome[s] \in {"submission", "worker_terminated"} =>
                      ingested[s] = 1 /\ result[s] \in {"succeeded", "failed"}
                 /\ outcome[s] = "executor_error" => ingested[s] = 0
      <3>1. s \in Slots
        BY <1>1, BatchShape DEF BatchInv, WorkersTypeOK, Used
      <3> QED BY <1>1, <3>1 DEF BatchInv, SlotKept
    <2> QED BY <2>1, <2>2, <2>3, <2>4 DEF RunsInItsBatch, IngestedAsReported
  <1> QED BY <1>1, WorkersInvariance, PTL

\* Only Terminate adds a kill, and it looks at the kills of the moment.
LEMMA KillsStep ==
  ASSUME BatchInv, KillsKeepToThePlan, [WorkersNext]_workerVars
  PROVE  KillsKeepToThePlan'
  <1>1. CASE Terminate
    <2>1. /\ killed \in Seq(Targets) /\ Len(killed) \in Nat
          /\ DOMAIN killed = 1..Len(killed)
      BY LenProperties DEF BatchInv, WorkersTypeOK
    <2>2. batch[at] \in Targets /\ Len(killed) < Limit /\ Available(batch[at])
      BY <1>1, AtBusy DEF Terminate, ShouldTerminate, BatchInv, SlotKept
    <2>3. /\ killed' = Append(killed, batch[at]) /\ killed' \in Seq(Targets)
          /\ Len(killed') = Len(killed) + 1 /\ DOMAIN killed' = 1..(Len(killed) + 1)
          /\ \A i \in 1..Len(killed) : killed'[i] = killed[i]
          /\ killed'[Len(killed) + 1] = batch[at]
      BY <1>1, <2>1, <2>2, AppendProperties DEF Terminate
    <2>4. Len(killed') <= Limit
      BY <2>1, <2>2, <2>3, WorkersAssumption
    <2>5. ASSUME NEW j \in DOMAIN killed', \E i \in 1..(j - 1) : killed'[i] = killed'[j]
          PROVE  Targets \subseteq {killed'[i] : i \in 1..(j - 1)}
      <3>1. CASE j \in DOMAIN killed
        <4>1. \A i \in 1..j : killed'[i] = killed[i]
          BY <2>1, <2>3, <3>1
        <4>2. \E i \in 1..(j - 1) : killed[i] = killed[j]
          BY <2>1, <2>5, <3>1, <4>1
        <4>3. Targets \subseteq {killed[i] : i \in 1..(j - 1)}
          BY <3>1, <4>2 DEF KillsKeepToThePlan
        <4>4. {killed[i] : i \in 1..(j - 1)} = {killed'[i] : i \in 1..(j - 1)}
          BY <2>1, <3>1, <4>1
        <4> QED BY <4>3, <4>4
      <3>2. CASE j = Len(killed) + 1
        <4>1. batch[at] \in Terminated
          BY <2>1, <2>3, <2>5, <3>2 DEF Terminated
        <4>2. Targets \subseteq Terminated
          BY <2>2, <4>1 DEF Available
        <4>3. j - 1 = Len(killed)
          BY <2>1, <3>2
        <4>4. {killed'[i] : i \in 1..(j - 1)} = {killed[i] : i \in 1..(j - 1)}
          BY <2>3, <4>3
        <4>5. {killed[i] : i \in 1..(j - 1)} = Terminated
          BY <2>1, <4>3 DEF Terminated
        <4> QED BY <4>2, <4>4, <4>5
      <3>3. j \in DOMAIN killed \/ j = Len(killed) + 1
        BY <2>1, <2>3
      <3> QED BY <3>1, <3>2, <3>3, Zenon
    <2> QED BY <2>4, <2>5 DEF KillsKeepToThePlan
  <1>2. CASE UNCHANGED killed
    BY <1>2 DEF KillsKeepToThePlan
  <1>3. Terminate \/ UNCHANGED killed
    BY DEF WorkersNext, workerVars, Begin, Parent, Open, SeeReady, BootFails, Signal, GiveUp,
       KillDoomed, Deliver, ReportError, RefuseResult, Interrupt, Close, Child, ChildReady,
       ChildStarts, ChildExits, ChildDies, ChildWrites, policy
  <1> QED BY <1>1, <1>2, <1>3

\* Never more kills than planned, and no unit a second time before every target
\* had its first.
THEOREM KillsAreAsPlanned == WorkersSpec => []KillsKeepToThePlan
  <1>1. WorkersInit => KillsKeepToThePlan
    BY EmptySeq, WorkersAssumption, FS_CardinalityType DEF WorkersInit, KillsKeepToThePlan
  <1>2. BatchInv /\ KillsKeepToThePlan /\ [WorkersNext]_workerVars => KillsKeepToThePlan'
    BY KillsStep
  <1> QED BY <1>1, <1>2, WorkersInvariance, PTL DEF WorkersSpec
=============================================================================
