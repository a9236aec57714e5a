------------------------ MODULE ProtocolEngineProofs ------------------------
(***************************************************************************)
(* Invariance proofs for ProtocolEngine, for every set of units and        *)
(* attempts, every retry budget and every lease TTL.                       *)
(***************************************************************************)
EXTENDS ProtocolEngine, TLAPS

-----------------------------------------------------------------------------
(* Any caller.                                                             *)

\* An attempt is issued together with its owner, its lease and its history.
IssuedTogether ==
  \A a \in Attempts :
    /\ leaseState[a] = "Unissued" <=> owner[a] = None
    /\ leaseState[a] = "Unissued" => attemptState[a] = "Uncreated" /\ attemptLog[a] = {}
    /\ leaseState[a] # "Unissued" => attemptState[a] \in attemptLog[a]
    /\ attemptState[a] = "Running" => attemptLog[a] \subseteq {"Running"}

\* Attempts of expired leases were never Submitted, hence never Verified.
ExpiredUnsubmitted ==
  \A a \in Attempts : leaseState[a] = "Expired" =>
    /\ attemptState[a] = "Superseded"
    /\ "Submitted" \notin attemptLog[a]
    /\ "Verified" \notin attemptLog[a]

\* The outputs an attempt carries came with an accepted submission of its own,
\* and it was never Submitted without them.
DeliveredAccepted ==
  \A a \in Attempts :
    /\ "Submitted" \in attemptLog[a] => delivered[a] # None
    /\ delivered[a] # None => delivered[a][1] = a /\ submission[delivered[a]] = "accepted"

\* Each record rests on the one before it: an accepted submission on a lease, a
\* report on the outputs of its attempt, a binding on a Verified attempt.
RecordsChained ==
  /\ \A s \in Submissions :
       /\ submission[s] = "accepted" => leaseState[s[1]] # "Unissued"
       /\ report[s] # "Unrecorded" => delivered[s[1]] # None
  /\ \A u \in Units : canonical[u] # None =>
       "Verified" \in attemptLog[canonical[u][1]]

\* A call in flight works on an attempt whose lease did not expire, and one that
\* is to make it Submitted has recorded an accepted submission.
PendingLive ==
  pending # None =>
    /\ leaseState[pending.submission[1]] \notin {"Unissued", "Expired"}
    /\ pending.step = "Submitted" => submission[pending.submission] = "accepted"

AnyInv ==
  /\ TypeOK
  /\ LeasesAgree
  /\ IssuedTogether
  /\ ExpiredUnsubmitted
  /\ DeliveredAccepted
  /\ RecordsChained
  /\ CanonicalBacked
  /\ PendingLive

-----------------------------------------------------------------------------
(* Callers that pass the latest snapshots.                                 *)

Holding == {"Running", "Submitted", "Verified", "Canonical"}

\* Ordinals count the attempts of a unit, and the lease that is active
\* belongs to the newest of them.
OrdinalsCount ==
  \A a \in Attempts : \A u \in Units : owner[a] = u =>
    /\ ordinal[a] \in 0..unit[u].ordinal
    /\ leaseState[a] = "Active" => ordinal[a] = unit[u].ordinal
    /\ \A b \in Attempts : owner[b] = u /\ ordinal[a] = ordinal[b] => a = b

\* The recoveries of a unit and its ordinal move together, within budget.
BudgetCount ==
  \A u \in Units :
    /\ unit[u].state \in {"Processing", "Completed"} =>
         unit[u].ordinal = recoveries[u] /\ recoveries[u] <= MaxRetries
    /\ unit[u].state = "Ready" =>
         unit[u].ordinal = recoveries[u] - 1 /\ recoveries[u] <= MaxRetries
    /\ unit[u].state = "Failed" =>
         unit[u].ordinal = recoveries[u] - 1 /\ recoveries[u] = MaxRetries + 1

\* An attempt that still works holds an active lease.
HoldersLeased ==
  \A a \in Attempts :
    attemptState[a] \in Holding => leaseState[a] = "Active"

\* Where a call stands between its two appends.
PendingStage ==
  pending # None =>
    LET s == pending.submission IN
    /\ pending.step = "Submitted" => attemptState[s[1]] = "Running"
    /\ pending.step = "Verified" =>
         attemptState[s[1]] = "Submitted" /\ report[s] \in {"passed", "rejected"}
    /\ pending.step = "Canonical" => attemptState[s[1]] = "Verified"

\* Completed units are bound and have never left Completed.
CompletedBound ==
  \A u \in Units :
    /\ unit[u] \in unitLog[u]
    /\ unit[u].state = "Completed" => canonical[u] # None
    /\ \A v \in unitLog[u] : v.state = "Completed" => unit[u].state = "Completed"

FreshInv ==
  /\ AnyInv
  /\ OrdinalsCount
  /\ BudgetCount
  /\ HoldersLeased
  /\ PendingStage
  /\ CompletedBound
  /\ CanonicalFromNewestAttempt

-----------------------------------------------------------------------------
(* Type correctness.                                                       *)

\* A unit snapshot that a caller can pass is a snapshot.
LEMMA ViewType ==
  ASSUME TypeOK, NEW u \in Units, NEW view \in UnitView(u)
  PROVE  view \in Snapshots
BY DEF TypeOK, UnitView

\* The initial state is well typed.
LEMMA TypeInit == Init => TypeOK
BY EngineAssumption, RecoveryAssumption DEF Init, TypeOK, Snapshots, UnitStates, LeaseStates,
                        AttemptStates, Submissions

\* Every engine call keeps the state well typed.
LEMMA TypeStep == TypeOK /\ [Next]_vars => TypeOK'
<1> SUFFICES ASSUME TypeOK, [Next]_vars PROVE TypeOK'
  OBVIOUS
<1> USE EngineAssumption, RecoveryAssumption
<1>1. CASE Schedule
  <2> SUFFICES ASSUME NEW u \in Units, NEW a \in Attempts, NEW entry \in LeaseEntries,
                      NEW view \in UnitView(u), ScheduleReadyUnit(u, a, view, entry)
               PROVE  TypeOK'
    BY <1>1 DEF Schedule
  <2>1. view \in Snapshots
    BY ViewType
  <2>2. [state |-> "Processing", ordinal |-> view.ordinal + 1] \in Snapshots
    BY <2>1 DEF Snapshots, UnitStates
  <2> QED
    BY <2>1, <2>2 DEF ScheduleReadyUnit, RecordUnit, RecordAttempt, TypeOK, Snapshots,
                 LeaseStates, AttemptStates, recVars
<1>2. CASE Heartbeat
  BY <1>2 DEF Heartbeat, RecordLeaseHeartbeat, TypeOK, unitVars, tryVars, recVars
<1>3. CASE Submit
  <2> SUFFICES ASSUME NEW s \in Submissions, NEW t \in 0..MaxTime,
                      NEW tokenMatches \in BOOLEAN,
                      RecordExecutionSubmission(s, t, tokenMatches)
               PROVE  TypeOK'
    BY <1>3 DEF Submit
  <2> QED
    BY DEF RecordExecutionSubmission, TypeOK, unitVars, leaseVars, tryVars
<1>4. CASE Verify
  BY <1>4 DEF Verify, RecordVerification, TypeOK, unitVars, leaseVars, tryVars
<1>5. CASE Bind
  BY <1>5 DEF Bind, BindCanonicalOutputs, TypeOK, unitVars, leaseVars, tryVars
<1>6. CASE Complete
  <2> SUFFICES ASSUME NEW u \in Units, NEW view \in UnitView(u),
                      RecordCompleteDecision(u, view)
               PROVE  TypeOK'
    BY <1>6 DEF Complete
  <2>1. [view EXCEPT !.state = "Completed"] \in Snapshots
    BY ViewType DEF Snapshots, UnitStates
  <2> QED
    BY <2>1 DEF RecordCompleteDecision, RecordUnit, TypeOK, leaseVars, tryVars, recVars
<1>7. CASE Recover
  <2> SUFFICES ASSUME NEW u \in Units, NEW a \in Attempts, NEW trigger \in Triggers,
                      NEW count \in RetryCounts(u), NEW view \in UnitView(u),
                      RecordRecoveryDecision(u, a, trigger, count, view)
               PROVE  TypeOK'
    BY <1>7 DEF Recover
  <2>1. [view EXCEPT !.state = RetryState(count)] \in Snapshots
    BY ViewType DEF Snapshots, UnitStates, RetryState
  <2>2. TerminalState(trigger) \in AttemptStates
    BY DEF TerminalState, AttemptStates
  <2> QED
    BY <2>1, <2>2 DEF RecordRecoveryDecision, RecordUnit, RecordAttempt, TypeOK,
                      LeaseStates, recVars
<1>8. CASE AppendAttemptState
  BY <1>8 DEF AppendAttemptState, RecordAttempt, TypeOK, AttemptStates, Submissions,
              unitVars, leaseVars
<1>9. CASE Crash
  BY <1>9 DEF Crash, TypeOK, unitVars, leaseVars, tryVars, recVars
<1>10. CASE Tick
  BY <1>10 DEF Tick, TypeOK, unitVars, leaseVars, tryVars, recVars
<1>11. CASE UNCHANGED vars
  BY <1>11 DEF vars, TypeOK, unitVars, leaseVars, tryVars, recVars
<1> QED
  BY <1>1, <1>2, <1>3, <1>4, <1>5, <1>6, <1>7, <1>8, <1>9, <1>10, <1>11 DEF Next

\* The type invariant holds of every reachable state of the engine.
THEOREM EngineTypeOK == Spec => []TypeOK
BY TypeInit, TypeStep, PTL DEF Spec

-----------------------------------------------------------------------------
(* Any caller: leases, expiry and canonical bindings.                      *)

LEMMA AnyInit == Init => AnyInv
<1> SUFFICES ASSUME Init PROVE AnyInv
  OBVIOUS
<1>1. TypeOK
  BY TypeInit
<1>2. LeasesAgree
  BY DEF Init, LeasesAgree
<1>3. IssuedTogether /\ ExpiredUnsubmitted
  BY DEF Init, IssuedTogether, ExpiredUnsubmitted
<1>4. DeliveredAccepted /\ RecordsChained /\ CanonicalBacked /\ PendingLive
  BY DEF Init, DeliveredAccepted, RecordsChained, CanonicalBacked, PendingLive
<1> QED
  BY <1>1, <1>2, <1>3, <1>4 DEF AnyInv

\* Scheduling, with any snapshot.
LEMMA AnySchedule ==
  ASSUME AnyInv, TypeOK', NEW u \in Units, NEW a \in Attempts, NEW view \in UnitView(u),
         NEW entry \in LeaseEntries, ScheduleReadyUnit(u, a, view, entry)
  PROVE  AnyInv'
<1> USE EngineAssumption, RecoveryAssumption DEF AnyInv, TypeOK
<1> USE DEF ScheduleReadyUnit, RecordUnit, RecordAttempt, recVars
<1>1. LeasesAgree'
  <2> SUFFICES ASSUME usage.fresh \/ ~(usage.ownLeases \/ usage.shadow)
               PROVE  LeasesAgree'
    BY DEF LeasesAgree
  <2>1. ~HasActiveLease(u)
    <3>1. CASE usage.fresh
      BY <3>1 DEF UnitView, LeasesAgree, HasActiveLease
    <3>2. CASE ~(usage.ownLeases \/ usage.shadow)
      BY <3>2 DEF LeaseEntries, ShowsLease
    <3> QED
      BY <3>1, <3>2
  <2> QED
    BY <2>1 DEF LeasesAgree, HasActiveLease, IssuedTogether
<1>2. IssuedTogether'
  BY DEF IssuedTogether
<1>3. ExpiredUnsubmitted'
  BY DEF ExpiredUnsubmitted
<1>4. DeliveredAccepted' /\ RecordsChained'
  BY DEF DeliveredAccepted, RecordsChained, IssuedTogether, Submissions
<1>5. CanonicalBacked'
  <2>1. \A w \in Units : canonical[w] # None => leaseState[canonical[w][1]] # "Unissued"
    BY DEF RecordsChained, IssuedTogether, Submissions
  <2> QED
    BY <2>1 DEF CanonicalBacked, Submissions
<1>6. PendingLive'
  BY DEF PendingLive
<1> QED
  BY <1>1, <1>2, <1>3, <1>4, <1>5, <1>6

\* Recovery, with any snapshot.
LEMMA AnyRecover ==
  ASSUME AnyInv, TypeOK', NEW u \in Units, NEW a \in Attempts, NEW trigger \in Triggers,
         NEW count \in RetryCounts(u), NEW view \in UnitView(u),
         RecordRecoveryDecision(u, a, trigger, count, view)
  PROVE  AnyInv'
<1> USE EngineAssumption, RecoveryAssumption DEF AnyInv, TypeOK
<1> DEFINE target == TerminalState(trigger)
           next == [view EXCEPT !.state = RetryState(count)]
<1>1. /\ target \in {"Superseded", "Failed", "Rejected"}
      /\ trigger = "lease_expired" => target = "Superseded"
  BY DEF TerminalState
<1>2. view \in Snapshots /\ next.state \in {"Ready", "Failed"}
  <2>1. view \in Snapshots
    BY ViewType
  <2> QED
    BY <2>1 DEF Snapshots, RetryState
<1>3. /\ pending = None /\ pending' = None
      /\ owner[a] = u /\ leaseState[a] = "Active"
      /\ trigger = "lease_expired" => attemptState[a] = "Running"
      /\ leaseState' = [leaseState EXCEPT ![a] = IF trigger = "lease_expired"
                                                 THEN "Expired" ELSE "Released"]
      /\ attemptState' = [attemptState EXCEPT ![a] = target]
      /\ attemptLog' = [attemptLog EXCEPT ![a] = @ \cup {target}]
      /\ unit' = [unit EXCEPT ![u] = next]
      /\ UNCHANGED <<usage, owner, delivered, submission, report, canonical>>
  BY DEF RecordRecoveryDecision, RecordUnit, RecordAttempt, recVars
<1> HIDE DEF target, next
<1>4. LeasesAgree'
  BY <1>2, <1>3 DEF LeasesAgree
<1>5. IssuedTogether'
  BY <1>1, <1>3 DEF IssuedTogether
<1>6. ExpiredUnsubmitted'
  BY <1>1, <1>3 DEF ExpiredUnsubmitted, IssuedTogether
<1>7. DeliveredAccepted' /\ RecordsChained' /\ CanonicalBacked'
  BY <1>1, <1>3 DEF DeliveredAccepted, RecordsChained, CanonicalBacked, Submissions
<1>8. PendingLive'
  BY <1>3 DEF PendingLive
<1> QED
  BY <1>4, <1>5, <1>6, <1>7, <1>8

\* Calls that write records only: leases, owners and units stay.
LEMMA AnyRecord ==
  ASSUME AnyInv, TypeOK', Submit \/ Verify \/ Bind
  PROVE  AnyInv'
<1> USE EngineAssumption, RecoveryAssumption DEF AnyInv, TypeOK
<1>1. UNCHANGED <<usage, unitVars, leaseVars, tryVars>>
  BY DEF Submit, Verify, Bind, RecordExecutionSubmission, RecordVerification,
         BindCanonicalOutputs
<1>2. LeasesAgree' /\ IssuedTogether' /\ ExpiredUnsubmitted'
  BY <1>1 DEF LeasesAgree, IssuedTogether, ExpiredUnsubmitted,
              unitVars, leaseVars, tryVars
<1>3. CASE Submit
  <2> PICK s \in Submissions, t \in 0..MaxTime, ok \in BOOLEAN :
        RecordExecutionSubmission(s, t, ok)
    BY <1>3 DEF Submit
  <2>1. DeliveredAccepted' /\ RecordsChained' /\ CanonicalBacked'
    BY DEF RecordExecutionSubmission, DeliveredAccepted, RecordsChained, CanonicalBacked,
           Submissions, leaseVars, tryVars
  <2>2. PendingLive'
    BY DEF RecordExecutionSubmission, Accepted, PendingLive, Submissions, leaseVars
  <2> QED
    BY <1>2, <2>1, <2>2
<1>4. CASE Verify
  <2> PICK s \in Submissions, status \in {"passed", "rejected", "error"} :
        RecordVerification(s, status)
    BY <1>4 DEF Verify
  <2>1. s[1] \in Attempts /\ "Submitted" \in attemptLog[s[1]]
    BY DEF RecordVerification, AttemptView, IssuedTogether, Submissions
  <2>2. leaseState[s[1]] \notin {"Unissued", "Expired"}
    BY <2>1 DEF ExpiredUnsubmitted, IssuedTogether
  <2>3. DeliveredAccepted' /\ RecordsChained' /\ CanonicalBacked'
    BY <2>1 DEF RecordVerification, DeliveredAccepted, RecordsChained, CanonicalBacked,
           Submissions, leaseVars, tryVars
  <2>4. PendingLive'
    BY <2>2 DEF RecordVerification, PendingLive, Submissions, leaseVars
  <2> QED
    BY <1>2, <2>3, <2>4
<1>5. CASE Bind
  <2> PICK u \in Units, s \in Submissions : BindCanonicalOutputs(u, s)
    BY <1>5 DEF Bind
  <2>1. s[1] \in Attempts /\ delivered[s[1]] # None /\ leaseState[s[1]] # "Unissued"
    <3>1. s[1] \in Attempts /\ delivered[s[1]] # None
      BY DEF BindCanonicalOutputs, RecordsChained, Submissions
    <3>2. /\ delivered[s[1]] \in Submissions /\ delivered[s[1]][1] = s[1]
          /\ submission[delivered[s[1]]] = "accepted"
      BY <3>1 DEF DeliveredAccepted
    <3> QED
      BY <3>1, <3>2 DEF RecordsChained
  <2>2. "Verified" \in attemptLog[s[1]]
    BY <2>1 DEF BindCanonicalOutputs, AttemptView, IssuedTogether
  <2>3. DeliveredAccepted' /\ RecordsChained' /\ CanonicalBacked'
    BY <2>1, <2>2 DEF BindCanonicalOutputs, DeliveredAccepted, RecordsChained,
                CanonicalBacked, Submissions, leaseVars, tryVars
  <2>4. PendingLive'
    BY <2>1, <2>2 DEF BindCanonicalOutputs, PendingLive, ExpiredUnsubmitted,
                      Submissions, leaseVars
  <2> QED
    BY <1>2, <2>3, <2>4
<1> QED
  BY <1>3, <1>4, <1>5

\* The second append of a call, which is unconditional.
LEMMA AnyAppend ==
  ASSUME AnyInv, TypeOK', AppendAttemptState
  PROVE  AnyInv'
<1> USE EngineAssumption, RecoveryAssumption DEF AnyInv, TypeOK
<1> DEFINE a == pending.submission[1]
           target == IF pending.step = "Verified" /\ report[pending.submission] # "passed"
                     THEN "Rejected" ELSE pending.step
<1>1. /\ a \in Attempts
      /\ leaseState[a] \notin {"Unissued", "Expired"}
      /\ target \in {"Submitted", "Verified", "Canonical", "Rejected"}
  BY DEF AppendAttemptState, PendingLive, Submissions
<1>2. /\ pending' = None
      /\ attemptState' = [attemptState EXCEPT ![a] = target]
      /\ attemptLog' = [attemptLog EXCEPT ![a] = @ \cup {target}]
      /\ UNCHANGED <<usage, unit, owner, leaseState, submission, report, canonical>>
  BY DEF AppendAttemptState, RecordAttempt, unitVars, leaseVars
<1>6. \/ delivered' = delivered /\ target # "Submitted"
      \/ /\ delivered' = [delivered EXCEPT ![a] = pending.submission]
         /\ pending.submission # None /\ pending.submission \in Submissions
         /\ submission[pending.submission] = "accepted"
  BY DEF AppendAttemptState, PendingLive, Submissions
<1>7. a = pending.submission[1]
  OBVIOUS
<1> HIDE DEF a, target
<1>3. LeasesAgree'
  BY <1>2 DEF LeasesAgree
<1>4. IssuedTogether' /\ ExpiredUnsubmitted'
  BY <1>1, <1>2 DEF IssuedTogether, ExpiredUnsubmitted
<1>5. DeliveredAccepted' /\ RecordsChained' /\ CanonicalBacked' /\ PendingLive'
  BY <1>1, <1>2, <1>6, <1>7 DEF DeliveredAccepted, RecordsChained, CanonicalBacked,
                               PendingLive, Submissions
<1> QED
  BY <1>3, <1>4, <1>5

\* Steps that touch none of the snapshots and records AnyInv speaks of.
LEMMA AnyOther ==
  ASSUME AnyInv, TypeOK', Heartbeat \/ Crash \/ Tick \/ UNCHANGED vars
  PROVE  AnyInv'
<1>1. /\ pending' \in {pending, None}
      /\ UNCHANGED <<usage, unit, owner, leaseState, attemptState, attemptLog,
                     delivered, submission, report, canonical>>
  BY DEF Heartbeat, RecordLeaseHeartbeat, Crash, Tick, vars, unitVars, leaseVars,
         tryVars, recVars
<1>2. LeasesAgree' /\ IssuedTogether' /\ ExpiredUnsubmitted'
  BY <1>1 DEF AnyInv, LeasesAgree, IssuedTogether, ExpiredUnsubmitted
<1>3. DeliveredAccepted' /\ RecordsChained' /\ CanonicalBacked' /\ PendingLive'
  BY <1>1 DEF AnyInv, DeliveredAccepted, RecordsChained, CanonicalBacked, PendingLive
<1> QED
  BY <1>2, <1>3 DEF AnyInv

\* Completion, with any snapshot.
LEMMA AnyComplete ==
  ASSUME AnyInv, TypeOK', NEW u \in Units, NEW view \in UnitView(u),
         RecordCompleteDecision(u, view)
  PROVE  AnyInv'
<1> DEFINE next == [view EXCEPT !.state = "Completed"]
<1>1. next.state = "Completed"
  BY ViewType DEF AnyInv, Snapshots
<1>2. /\ unit' = [unit EXCEPT ![u] = next]
      /\ UNCHANGED <<usage, owner, leaseState, attemptState, attemptLog, delivered,
                     submission, report, canonical, pending>>
  BY DEF RecordCompleteDecision, RecordUnit, leaseVars, tryVars, recVars
<1> HIDE DEF next
<1>3. LeasesAgree'
  BY <1>1, <1>2 DEF AnyInv, TypeOK, LeasesAgree
<1>4. IssuedTogether' /\ ExpiredUnsubmitted'
  BY <1>2 DEF AnyInv, IssuedTogether, ExpiredUnsubmitted
<1>5. DeliveredAccepted' /\ RecordsChained' /\ CanonicalBacked' /\ PendingLive'
  BY <1>2 DEF AnyInv, DeliveredAccepted, RecordsChained, CanonicalBacked, PendingLive
<1> QED
  BY <1>3, <1>4, <1>5 DEF AnyInv

\* Every step of any caller.
LEMMA AnyStep == AnyInv /\ [Next]_vars => AnyInv'
<1> SUFFICES ASSUME AnyInv, [Next]_vars PROVE AnyInv'
  OBVIOUS
<1>1. TypeOK'
  BY TypeStep DEF AnyInv
<1>2. CASE Schedule
  BY <1>1, <1>2, AnySchedule DEF Schedule
<1>3. CASE Submit \/ Verify \/ Bind
  BY <1>1, <1>3, AnyRecord
<1>4. CASE Complete
  BY <1>1, <1>4, AnyComplete DEF Complete
<1>5. CASE Recover
  BY <1>1, <1>5, AnyRecover DEF Recover
<1>6. CASE AppendAttemptState
  BY <1>1, <1>6, AnyAppend
<1>7. CASE Heartbeat \/ Crash \/ Tick \/ UNCHANGED vars
  BY <1>1, <1>7, AnyOther
<1> QED
  BY <1>2, <1>3, <1>4, <1>5, <1>6, <1>7 DEF Next

\* What holds for any caller.
LEMMA AnyInvariant == Spec => []AnyInv
BY AnyInit, AnyStep, PTL DEF Spec

\* Whatever snapshots its callers pass, the engine never leaves two active leases
\* on a unit, nor a Processing unit without one: with old snapshots as long as
\* the scheduler decides by the leases of the ledger (no lease map of the caller,
\* no shadow execution), with the latest ones in any case.
THEOREM EngineLeasesAgree == Spec => []LeasesAgree
<1>1. AnyInv => LeasesAgree
  BY DEF AnyInv
<1> QED
  BY AnyInvariant, <1>1, PTL

\* Whatever its callers pass, work of an expired lease is never canonical.
THEOREM EngineExpiredNeverCanonical == Spec => []ExpiredNeverCanonical
<1>1. AnyInv => ExpiredNeverCanonical
  BY DEF AnyInv, ExpiredUnsubmitted, RecordsChained, ExpiredNeverCanonical
<1> QED
  BY AnyInvariant, <1>1, PTL

\* Canonical bindings rest on a passed report about an attempt of the unit and
\* bind the outputs of an accepted submission of it, whatever submission the
\* report names.
THEOREM EngineCanonicalBacked == Spec => []CanonicalBacked
<1>1. AnyInv => CanonicalBacked
  BY DEF AnyInv
<1> QED
  BY AnyInvariant, <1>1, PTL

\* A canonical binding is never replaced or withdrawn.
THEOREM EngineCanonicalIsFinal == Spec => CanonicalIsFinal
<1>1. TypeOK /\ [Next]_vars
        => [\A u \in Units : canonical[u] # None => canonical'[u] = canonical[u]]_vars
  <2> SUFFICES ASSUME TypeOK, Next
               PROVE  \A u \in Units : canonical[u] # None => canonical'[u] = canonical[u]
    OBVIOUS
  <2>1. CASE Bind
    BY <2>1 DEF Bind, BindCanonicalOutputs, TypeOK
  <2>2. CASE ~Bind
    BY <2>2 DEF Next, Schedule, ScheduleReadyUnit, Heartbeat, RecordLeaseHeartbeat,
                Submit, RecordExecutionSubmission, Verify, RecordVerification,
                Complete, RecordCompleteDecision, Recover, RecordRecoveryDecision,
                AppendAttemptState, Crash, Tick, recVars
  <2> QED
    BY <2>1, <2>2
<1> QED
  BY EngineTypeOK, <1>1, PTL DEF Spec, CanonicalIsFinal

-----------------------------------------------------------------------------
(* Callers that pass the latest snapshots, ending in the refinement of     *)
(* UnitContract.                                                           *)

LEMMA FreshInit == Init => FreshInv
<1> SUFFICES ASSUME Init PROVE FreshInv
  OBVIOUS
<1>1. AnyInv
  BY AnyInit
<1>2. OrdinalsCount /\ HoldersLeased /\ PendingStage
  BY EngineAssumption, RecoveryAssumption DEF Init, OrdinalsCount, HoldersLeased, Holding, PendingStage
<1>3. BudgetCount /\ CompletedBound /\ CanonicalFromNewestAttempt
  BY EngineAssumption, RecoveryAssumption DEF Init, BudgetCount, CompletedBound, CanonicalFromNewestAttempt
<1> QED
  BY <1>1, <1>2, <1>3 DEF FreshInv

\* Scheduling, with the latest snapshots.
LEMMA FreshSchedule ==
  ASSUME usage.fresh, FreshInv, AnyInv', NEW u \in Units, NEW a \in Attempts,
         NEW view \in UnitView(u), NEW entry \in LeaseEntries,
         ScheduleReadyUnit(u, a, view, entry)
  PROVE  FreshInv'
<1> USE EngineAssumption, RecoveryAssumption DEF FreshInv, AnyInv, TypeOK
<1> USE DEF ScheduleReadyUnit, RecordUnit, RecordAttempt, recVars
<1>1. view = unit[u] /\ unit[u].state = "Ready" /\ unit[u].ordinal \in Int
  BY DEF UnitView, Snapshots
<1>2. \A b \in Attempts : owner[b] = u => leaseState[b] # "Active"
  BY <1>1 DEF LeasesAgree
<1>3. unit[u].ordinal + 1 >= 0
  BY <1>1 DEF BudgetCount
<1>4. canonical[u] = None
  BY <1>1 DEF CanonicalFromNewestAttempt
<1>5. OrdinalsCount'
  BY <1>1, <1>2, <1>3 DEF OrdinalsCount, IssuedTogether
<1>6. BudgetCount'
  BY <1>1 DEF BudgetCount
<1>7. HoldersLeased' /\ PendingStage'
  BY DEF HoldersLeased, PendingStage, Holding
<1>8. CompletedBound'
  BY <1>1 DEF CompletedBound
<1>9. CanonicalFromNewestAttempt'
  BY <1>1, <1>4 DEF CanonicalFromNewestAttempt, Submissions
<1> QED
  BY <1>5, <1>6, <1>7, <1>8, <1>9

\* Recovery, with the latest snapshots.
LEMMA FreshRecover ==
  ASSUME usage.fresh, FreshInv, AnyInv', NEW u \in Units, NEW a \in Attempts,
         NEW trigger \in Triggers, NEW count \in RetryCounts(u), NEW view \in UnitView(u),
         RecordRecoveryDecision(u, a, trigger, count, view)
  PROVE  FreshInv'
<1> USE EngineAssumption, RecoveryAssumption DEF FreshInv, AnyInv, TypeOK
<1> DEFINE target == TerminalState(trigger)
           next == [view EXCEPT !.state = RetryState(count)]
           ended == IF trigger = "lease_expired" THEN "Expired" ELSE "Released"
<1>1. /\ target \in {"Superseded", "Failed", "Rejected"}
      /\ ended \in {"Expired", "Released"}
  BY DEF TerminalState
<1>2. /\ view = unit[u] /\ unit[u].state = "Processing" /\ unit[u].ordinal \in Int
      /\ count = recoveries[u] + 1
  BY DEF UnitView, RetryCounts, Snapshots, RecordRecoveryDecision
<1>3. /\ next = [state |-> RetryState(count), ordinal |-> unit[u].ordinal]
      /\ next.state = IF count <= MaxRetries THEN "Ready" ELSE "Failed"
      /\ next.ordinal = unit[u].ordinal
  BY <1>2 DEF Snapshots, RetryState
<1>4. /\ pending = None /\ pending' = None
      /\ owner[a] = u /\ leaseState[a] = "Active"
      /\ attemptState[a] \notin {"Verified", "Canonical"}
      /\ leaseState' = [leaseState EXCEPT ![a] = ended]
      /\ attemptState' = [attemptState EXCEPT ![a] = target]
      /\ attemptLog' = [attemptLog EXCEPT ![a] = @ \cup {target}]
      /\ unit' = [unit EXCEPT ![u] = next]
      /\ unitLog' = [unitLog EXCEPT ![u] = @ \cup {next}]
      /\ recoveries' = [recoveries EXCEPT ![u] = @ + 1]
      /\ UNCHANGED <<owner, ordinal, submission, report, canonical>>
  BY <1>1 DEF RecordRecoveryDecision, RecordUnit, RecordAttempt, recVars,
              MayConclude, AttemptTransitions
<1> HIDE DEF target, next, ended
<1>5. canonical[u] = None
  BY <1>4 DEF CanonicalFromNewestAttempt, CanonicalBacked, LeasesAgree, Submissions
<1>6. OrdinalsCount'
  BY <1>1, <1>3, <1>4 DEF OrdinalsCount
<1>7. BudgetCount'
  BY <1>2, <1>3, <1>4 DEF BudgetCount
<1>8. HoldersLeased' /\ PendingStage'
  BY <1>1, <1>4 DEF HoldersLeased, PendingStage, Holding
<1>9. CompletedBound'
  BY <1>2, <1>3, <1>4 DEF CompletedBound
<1>10. CanonicalFromNewestAttempt'
  BY <1>4, <1>5 DEF CanonicalFromNewestAttempt, CanonicalBacked, Submissions
<1> QED
  BY <1>6, <1>7, <1>8, <1>9, <1>10

\* Completion, with the latest snapshots.
LEMMA FreshComplete ==
  ASSUME usage.fresh, FreshInv, AnyInv', NEW u \in Units, NEW view \in UnitView(u),
         RecordCompleteDecision(u, view)
  PROVE  FreshInv'
<1> USE EngineAssumption, RecoveryAssumption DEF FreshInv, AnyInv, TypeOK
<1> DEFINE next == [view EXCEPT !.state = "Completed"]
<1>1. view = unit[u] /\ unit[u].state = "Processing" /\ canonical[u] # None
  BY DEF UnitView, RecordCompleteDecision
<1>2. next.state = "Completed" /\ next.ordinal = unit[u].ordinal
  BY <1>1 DEF Snapshots
<1>3. /\ unit' = [unit EXCEPT ![u] = next]
      /\ unitLog' = [unitLog EXCEPT ![u] = @ \cup {next}]
      /\ UNCHANGED <<recoveries, owner, ordinal, leaseState, attemptState, attemptLog,
                     submission, report, canonical, pending>>
  BY DEF RecordCompleteDecision, RecordUnit, leaseVars, tryVars, recVars
<1> HIDE DEF next
<1>4. OrdinalsCount'
  BY <1>2, <1>3 DEF OrdinalsCount
<1>5. BudgetCount'
  BY <1>1, <1>2, <1>3 DEF BudgetCount
<1>6. HoldersLeased' /\ PendingStage'
  BY <1>3 DEF HoldersLeased, PendingStage
<1>7. CompletedBound'
  BY <1>1, <1>2, <1>3 DEF CompletedBound
<1>8. CanonicalFromNewestAttempt'
  BY <1>1, <1>2, <1>3 DEF CanonicalFromNewestAttempt
<1> QED
  BY <1>4, <1>5, <1>6, <1>7, <1>8

\* The calls that record about a running attempt.
LEMMA FreshRecord ==
  ASSUME usage.fresh, FreshInv, AnyInv', Submit \/ Verify \/ Bind
  PROVE  FreshInv'
<1> USE EngineAssumption, RecoveryAssumption DEF FreshInv, AnyInv, TypeOK
<1>1. UNCHANGED <<usage, unitVars, leaseVars, tryVars>>
  BY DEF Submit, Verify, Bind, RecordExecutionSubmission, RecordVerification,
         BindCanonicalOutputs
<1>2. OrdinalsCount' /\ BudgetCount' /\ HoldersLeased'
  BY <1>1 DEF OrdinalsCount, BudgetCount, HoldersLeased, unitVars, leaseVars, tryVars
<1>3. CASE Submit
  <2> PICK s \in Submissions, t \in 0..MaxTime, ok \in BOOLEAN :
        RecordExecutionSubmission(s, t, ok)
    BY <1>3 DEF Submit
  <2>1. PendingStage'
    BY <1>1 DEF RecordExecutionSubmission, Accepted, PendingStage, tryVars
  <2>2. CompletedBound' /\ CanonicalFromNewestAttempt'
    BY <1>1 DEF RecordExecutionSubmission, CompletedBound, CanonicalFromNewestAttempt,
                unitVars, leaseVars, tryVars
  <2> QED
    BY <1>2, <2>1, <2>2
<1>4. CASE Verify
  <2> PICK s \in Submissions, status \in {"passed", "rejected", "error"} :
        RecordVerification(s, status)
    BY <1>4 DEF Verify
  <2>1. PendingStage'
    BY <1>1 DEF RecordVerification, AttemptView, PendingStage, Submissions, tryVars
  <2>2. CompletedBound' /\ CanonicalFromNewestAttempt'
    BY <1>1 DEF RecordVerification, CompletedBound, CanonicalFromNewestAttempt,
                unitVars, leaseVars, tryVars
  <2> QED
    BY <1>2, <2>1, <2>2
<1>5. CASE Bind
  <2> PICK u \in Units, s \in Submissions : BindCanonicalOutputs(u, s)
    BY <1>5 DEF Bind
  <2>1. s[1] \in Attempts /\ attemptState[s[1]] = "Verified" /\ owner[s[1]] = u
    BY DEF BindCanonicalOutputs, AttemptView, Submissions
  <2>2. leaseState[s[1]] = "Active" /\ ordinal[s[1]] = unit[u].ordinal
    BY <2>1 DEF HoldersLeased, Holding, OrdinalsCount
  <2>3. unit[u].state \in {"Processing", "Completed"}
    <3>1. unit[u].state \in UnitStates
      BY DEF Snapshots
    <3> QED
      BY <2>1, <2>2, <3>1 DEF LeasesAgree, UnitStates
  <2>4. PendingStage'
    BY <1>1, <2>1 DEF BindCanonicalOutputs, PendingStage, tryVars
  <2>5. CompletedBound'
    BY <1>1 DEF BindCanonicalOutputs, CompletedBound, unitVars, Submissions
  <2>6. CanonicalFromNewestAttempt'
    BY <1>1, <2>1, <2>2, <2>3 DEF BindCanonicalOutputs, CanonicalFromNewestAttempt,
                unitVars, leaseVars, tryVars
  <2> QED
    BY <1>2, <2>4, <2>5, <2>6
<1> QED
  BY <1>3, <1>4, <1>5

\* The second append of a call.
LEMMA FreshAppend ==
  ASSUME usage.fresh, FreshInv, AnyInv', AppendAttemptState
  PROVE  FreshInv'
<1> USE EngineAssumption, RecoveryAssumption DEF FreshInv, AnyInv, TypeOK
<1> DEFINE a == pending.submission[1]
           target == IF pending.step = "Verified" /\ report[pending.submission] # "passed"
                     THEN "Rejected" ELSE pending.step
<1>1. /\ a \in Attempts
      /\ attemptState[a] \in Holding
      /\ leaseState[a] = "Active"
      /\ attemptState[a] = "Verified" => target = "Canonical"
      /\ attemptState[a] # "Canonical"
      /\ target \in {"Submitted", "Verified", "Canonical", "Rejected"}
  BY DEF AppendAttemptState, PendingStage, HoldersLeased, Holding, Submissions
<1>2. /\ pending' = None
      /\ attemptState' = [attemptState EXCEPT ![a] = target]
      /\ UNCHANGED <<unit, unitLog, recoveries, owner, ordinal, leaseState, submission,
                     report, canonical>>
  BY DEF AppendAttemptState, RecordAttempt, unitVars, leaseVars
<1> HIDE DEF a, target
<1>3. OrdinalsCount' /\ BudgetCount' /\ CompletedBound' /\ PendingStage'
  BY <1>2 DEF OrdinalsCount, BudgetCount, CompletedBound, PendingStage
<1>4. HoldersLeased'
  BY <1>1, <1>2 DEF HoldersLeased, Holding
<1>5. CanonicalFromNewestAttempt'
  BY <1>1, <1>2 DEF CanonicalFromNewestAttempt, Submissions
<1> QED
  BY <1>3, <1>4, <1>5

\* The steps that leave units and attempts alone.
LEMMA FreshOther ==
  ASSUME usage.fresh, FreshInv, AnyInv', Heartbeat \/ Crash \/ Tick \/ UNCHANGED vars
  PROVE  FreshInv'
<1>1. /\ pending' \in {pending, None}
      /\ UNCHANGED <<unit, unitLog, recoveries, owner, ordinal, leaseState, attemptState,
                     submission, report, canonical>>
  BY DEF Heartbeat, RecordLeaseHeartbeat, Crash, Tick, vars, unitVars, leaseVars,
         tryVars, recVars
<1>2. OrdinalsCount' /\ BudgetCount' /\ HoldersLeased'
  BY <1>1 DEF FreshInv, OrdinalsCount, BudgetCount, HoldersLeased
<1>3. PendingStage' /\ CompletedBound' /\ CanonicalFromNewestAttempt'
  BY <1>1 DEF FreshInv, PendingStage, CompletedBound, CanonicalFromNewestAttempt
<1> QED
  BY <1>2, <1>3 DEF FreshInv

\* Every step of a caller with the latest snapshots.
LEMMA FreshStep ==
  ASSUME usage.fresh
  PROVE  FreshInv /\ [Next]_vars => FreshInv'
<1> SUFFICES ASSUME FreshInv, [Next]_vars PROVE FreshInv'
  OBVIOUS
<1>1. AnyInv'
  BY AnyStep DEF FreshInv
<1>2. CASE Schedule
  BY <1>1, <1>2, FreshSchedule DEF Schedule
<1>3. CASE Submit \/ Verify \/ Bind
  BY <1>1, <1>3, FreshRecord
<1>4. CASE Complete
  BY <1>1, <1>4, FreshComplete DEF Complete
<1>5. CASE Recover
  BY <1>1, <1>5, FreshRecover DEF Recover
<1>6. CASE AppendAttemptState
  BY <1>1, <1>6, FreshAppend
<1>7. CASE Heartbeat \/ Crash \/ Tick \/ UNCHANGED vars
  BY <1>1, <1>7, FreshOther
<1> QED
  BY <1>2, <1>3, <1>4, <1>5, <1>6, <1>7 DEF Next

\* No step changes the way the engine is used.
LEMMA UsageStays == [Next]_vars => usage' = usage
BY DEF Next, Schedule, ScheduleReadyUnit, Heartbeat, RecordLeaseHeartbeat, Submit,
       RecordExecutionSubmission, Verify, RecordVerification, Bind, BindCanonicalOutputs,
       Complete, RecordCompleteDecision, Recover, RecordRecoveryDecision,
       AppendAttemptState, Crash, Tick, vars

\* What holds for such callers.
LEMMA FreshInvariant == Spec => [](usage.fresh => FreshInv)
<1>1. Init => (usage.fresh => FreshInv)
  BY FreshInit
<1>2. (usage.fresh => FreshInv) /\ [Next]_vars => (usage.fresh => FreshInv)'
  BY FreshStep, UsageStays
<1> QED
  BY <1>1, <1>2, PTL DEF Spec

-----------------------------------------------------------------------------
(* Theorems for callers that pass the latest snapshots.                    *)

\* No unit is tried more than max_retries + 1 times and no two attempts of a
\* unit share an ordinal.
THEOREM EngineRetryBudget == Spec => []RetryBudget
<1>1. (usage.fresh => FreshInv) => RetryBudget
  <2> SUFFICES ASSUME FreshInv, NEW u \in Units
               PROVE  /\ unit[u].ordinal <= MaxRetries
                      /\ unit[u].state = "Failed" => unit[u].ordinal = MaxRetries
                      /\ \A a, b \in Attempts :
                           owner[a] = u /\ owner[b] = u /\ ordinal[a] = ordinal[b] => a = b
    BY DEF RetryBudget
  <2>1. unit[u] \in Snapshots /\ recoveries[u] \in Nat /\ MaxRetries \in Nat
    BY EngineAssumption, RecoveryAssumption DEF FreshInv, AnyInv, TypeOK
  <2>2. /\ unit[u].ordinal <= MaxRetries
        /\ unit[u].state = "Failed" => unit[u].ordinal = MaxRetries
    BY <2>1 DEF FreshInv, BudgetCount, Snapshots, UnitStates
  <2>3. \A a, b \in Attempts :
          owner[a] = u /\ owner[b] = u /\ ordinal[a] = ordinal[b] => a = b
    BY DEF FreshInv, OrdinalsCount
  <2> QED
    BY <2>2, <2>3
<1> QED
  BY FreshInvariant, <1>1, PTL

\* The canonical bundle comes from the newest attempt, which keeps its lease.
THEOREM EngineCanonicalFromNewest == Spec => []CanonicalFromNewestAttempt
<1>1. (usage.fresh => FreshInv) => CanonicalFromNewestAttempt
  BY DEF FreshInv, CanonicalFromNewestAttempt
<1> QED
  BY FreshInvariant, <1>1, PTL

\* A unit starts as its contract does.
LEMMA ContractInit == Init => Contract!Init
BY EngineAssumption, RecoveryAssumption DEF Init, Contract!Init, Phase

\* A step that leaves units and bindings alone leaves the contract alone.
LEMMA ContractStutter ==
  ASSUME UNCHANGED <<unit, canonical>>
  PROVE  UNCHANGED Contract!vars
BY DEF Contract!vars, Phase

\* Scheduling is the contract's start of an attempt.
LEMMA ContractSchedule ==
  ASSUME usage.fresh, FreshInv, NEW u \in Units, NEW a \in Attempts,
         NEW view \in UnitView(u), NEW entry \in LeaseEntries,
         ScheduleReadyUnit(u, a, view, entry)
  PROVE  Contract!Start(u)
<1> USE EngineAssumption, RecoveryAssumption DEF FreshInv, AnyInv, TypeOK
<1>1. /\ view = unit[u] /\ unit[u].state = "Ready" /\ canonical[u] = None
      /\ unit[u].ordinal + 1 <= MaxRetries
      /\ unit[u].ordinal \in Int
  BY DEF UnitView, ScheduleReadyUnit, CanonicalFromNewestAttempt, BudgetCount, Snapshots
<1>2. /\ unit' = [unit EXCEPT ![u] = [state |-> "Processing", ordinal |-> unit[u].ordinal + 1]]
      /\ canonical' = canonical
  BY <1>1 DEF ScheduleReadyUnit, RecordUnit, recVars
<1> QED
  BY <1>1, <1>2 DEF Contract!Start, Phase

\* Recovery is the contract's retry or failure.
LEMMA ContractRecover ==
  ASSUME usage.fresh, FreshInv, NEW u \in Units, NEW a \in Attempts,
         NEW trigger \in Triggers, NEW count \in RetryCounts(u), NEW view \in UnitView(u),
         RecordRecoveryDecision(u, a, trigger, count, view)
  PROVE  Contract!GiveBack(u) \/ Contract!GiveUp(u)
<1> USE EngineAssumption, RecoveryAssumption DEF FreshInv, AnyInv, TypeOK
<1>1. /\ view = unit[u] /\ unit[u].state = "Processing"
      /\ count = recoveries[u] + 1 /\ recoveries[u] \in Nat
      /\ unit[u].ordinal = recoveries[u] /\ recoveries[u] <= MaxRetries
  BY DEF UnitView, RetryCounts, RecordRecoveryDecision, BudgetCount
<1>2. canonical[u] = None
  <2>1. /\ owner[a] = u /\ leaseState[a] = "Active"
        /\ attemptState[a] \notin {"Verified", "Canonical"}
    BY DEF RecordRecoveryDecision, MayConclude, AttemptTransitions, TerminalState
  <2> QED
    BY <2>1 DEF CanonicalFromNewestAttempt, CanonicalBacked, LeasesAgree, Submissions
<1>3. /\ unit' = [unit EXCEPT ![u] = [state |-> RetryState(count), ordinal |-> unit[u].ordinal]]
      /\ canonical' = canonical
  <2>1. [view EXCEPT !.state = RetryState(count)]
          = [state |-> RetryState(count), ordinal |-> unit[u].ordinal]
    BY <1>1 DEF Snapshots
  <2> QED
    BY <2>1 DEF RecordRecoveryDecision, RecordUnit, recVars
<1>4. CASE count <= MaxRetries
  BY <1>1, <1>2, <1>3, <1>4 DEF RetryState, Contract!GiveBack, Phase
<1>5. CASE count > MaxRetries
  <2>1. unit[u].ordinal = MaxRetries /\ MaxRetries \in Nat
    BY <1>1, <1>5
  <2>2. RetryState(count) = "Failed"
    BY <1>1, <1>5 DEF RetryState
  <2> QED
    BY <1>1, <1>2, <1>3, <2>1, <2>2 DEF Contract!GiveUp, Phase
<1> QED
  BY <1>1, <1>4, <1>5

\* Completion is the contract's, or a stutter.
LEMMA ContractComplete ==
  ASSUME usage.fresh, FreshInv, NEW u \in Units, NEW view \in UnitView(u),
         RecordCompleteDecision(u, view)
  PROVE  Contract!Finish(u)
<1> USE EngineAssumption, RecoveryAssumption DEF FreshInv, AnyInv, TypeOK
<1>1. /\ view = unit[u] /\ unit[u].state = "Processing" /\ canonical[u] # None
  BY DEF UnitView, RecordCompleteDecision
<1>2. [view EXCEPT !.state = "Completed"] = [state |-> "Completed", ordinal |-> unit[u].ordinal]
  BY <1>1 DEF Snapshots
<1>3. /\ unit' = [unit EXCEPT ![u] = [state |-> "Completed", ordinal |-> unit[u].ordinal]]
      /\ canonical' = canonical
  BY <1>2 DEF RecordCompleteDecision, RecordUnit, recVars
<1> QED
  BY <1>1, <1>3 DEF Contract!Finish, Phase

\* Binding is the contract's.
LEMMA ContractBind ==
  ASSUME usage.fresh, FreshInv, NEW u \in Units, NEW s \in Submissions,
         BindCanonicalOutputs(u, s)
  PROVE  Contract!Bind(u, s)
<1> USE EngineAssumption, RecoveryAssumption DEF FreshInv, AnyInv, TypeOK
<1>1. /\ s[1] \in Attempts /\ owner[s[1]] = u /\ attemptState[s[1]] = "Verified"
      /\ canonical[u] = None
  BY DEF BindCanonicalOutputs, AttemptView, Submissions
<1>2. leaseState[s[1]] = "Active"
  BY <1>1 DEF HoldersLeased, Holding
<1>3. unit[u].state = "Processing"
  <2>1. unit[u].state \in UnitStates
    BY DEF Snapshots
  <2> QED
    BY <1>1, <1>2, <2>1 DEF LeasesAgree, UnitStates, CompletedBound
<1>4. canonical' = [canonical EXCEPT ![u] = s] /\ unit' = unit
  BY DEF BindCanonicalOutputs, unitVars
<1>5. s # None
  BY DEF Submissions
<1> QED
  BY <1>1, <1>3, <1>4, <1>5 DEF Contract!Bind, Phase

\* Every step is one of the contract, or a stutter.
LEMMA ContractStep ==
  ASSUME usage.fresh
  PROVE  FreshInv /\ [Next]_vars => [Contract!Next]_(Contract!vars)
<1> SUFFICES ASSUME FreshInv, [Next]_vars PROVE Contract!Next \/ UNCHANGED Contract!vars
  OBVIOUS
<1>1. CASE Schedule
  BY <1>1, ContractSchedule DEF Schedule, Contract!Next
<1>2. CASE Recover
  BY <1>2, ContractRecover DEF Recover, Contract!Next
<1>3. CASE Complete
  BY <1>3, ContractComplete DEF Complete, Contract!Next
<1>4. CASE Bind
  BY <1>4, ContractBind DEF Bind, Contract!Next
<1>5. CASE \/ Heartbeat \/ Submit \/ Verify \/ AppendAttemptState \/ Crash \/ Tick
           \/ UNCHANGED vars
  <2>1. UNCHANGED <<unit, canonical>>
    BY <1>5 DEF Heartbeat, RecordLeaseHeartbeat, Submit, RecordExecutionSubmission, Verify,
                RecordVerification, AppendAttemptState, Crash, Tick, vars, unitVars, recVars
  <2> QED
    BY <2>1, ContractStutter
<1> QED
  BY <1>1, <1>2, <1>3, <1>4, <1>5 DEF Next

\* With callers that pass the latest snapshots, the engine implements
\* UnitContract: at most max_retries + 1 tries, one canonical bundle, and
\* Completed and Failed are final, crashes between appends included.
THEOREM EngineKeepsContract == Spec => KeepsContract
<1>1. (usage.fresh => FreshInv) /\ [Next]_vars
        => [usage.fresh => [Contract!Next]_(Contract!vars)]_vars
  BY ContractStep
<1> QED
  BY ContractInit, FreshInvariant, <1>1, PTL DEF Spec, KeepsContract
=============================================================================
