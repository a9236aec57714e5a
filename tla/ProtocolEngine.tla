--------------------------- MODULE ProtocolEngine ---------------------------
(***************************************************************************)
(* The unit lifecycle that src/src/tokenshare/protocol_engine.py keeps in  *)
(* its event ledger: TaskUnit, Lease and Attempt snapshots, submission and *)
(* verification records, canonical bindings and complete decisions.        *)
(*                                                                         *)
(* A variable holds what the latest ledger events say.  One action is one  *)
(* engine call, or the second half of a call that appends two events in    *)
(* two separate appends (submission, verification, canonical binding): the *)
(* process may crash between them, and the call may be made again.         *)
(*                                                                         *)
(* Several handlers trust the TaskUnit or the Attempt snapshot that their  *)
(* caller passes, and the scheduler the lease map that it may pass.  usage *)
(* says which callers a behaviour has: the local coordinator always passes *)
(* the latest snapshots and no lease map (fresh, ~ownLeases, ~shadow);     *)
(* other callers may pass any snapshot ever recorded.  A report names a    *)
(* submission id of the attempt it is about.                               *)
(***************************************************************************)
EXTENDS Integers, FiniteSets, Recovery

CONSTANTS
  Units,                  \* unit ids of one task
  Attempts,               \* attempt ids (each has one lease of its own)
  SubmissionsPerAttempt,  \* submission ids a worker may use for an attempt
  LeaseTTL,               \* ProtocolConfig.lease_ttl_seconds
  MaxTime,                \* bound of the clock
  None

ASSUME EngineAssumption ==
  /\ SubmissionsPerAttempt \in Nat
  /\ LeaseTTL \in Nat
  /\ MaxTime \in Nat
  /\ None \notin Units
  /\ None \notin Attempts \X (1..SubmissionsPerAttempt)
  /\ \A step \in {"Submitted", "Verified", "Canonical"},
        s \in Attempts \X (1..SubmissionsPerAttempt) :
        None # [step |-> step, submission |-> s]

Submissions == Attempts \X (1..SubmissionsPerAttempt)

UnitStates    == {"Ready", "Processing", "Completed", "Failed"}
LeaseStates   == {"Unissued", "Active", "Released", "Expired"}
Snapshots     == [state : UnitStates, ordinal : Int]

\* fresh: callers pass the latest snapshots; ownLeases: callers may pass
\* active_leases_by_unit_id; shadow: ProtocolConfig.allow_shadow_execution.
Usages == [fresh : BOOLEAN, ownLeases : BOOLEAN, shadow : BOOLEAN]

VARIABLES
  usage,         \* how this behaviour uses the engine
  now,           \* the protocol clock
  unit,          \* unit -> latest TaskUnit snapshot
  unitLog,       \* unit -> every TaskUnit snapshot recorded
  owner,         \* attempt -> the unit it was scheduled for
  ordinal,       \* attempt -> Attempt.attempt_ordinal
  leaseState,    \* attempt -> state of its lease
  expiresAt,     \* attempt -> Lease.expires_at
  attemptState,  \* attempt -> latest Attempt state
  attemptLog,    \* attempt -> every Attempt state recorded
  delivered,     \* attempt -> submission whose outputs its snapshots carry
  submission,    \* submission -> acceptance status recorded
  report,        \* submission -> status of its VERIFICATION_RECORDED event
  concluded,     \* submissions whose report has moved its attempt
  canonical,     \* unit -> submission bound by CANONICAL_OUTPUTS_BOUND
  recoveries,    \* unit -> RECOVERY_ACTION_RECORDED events
  pending        \* the second append a running call has still to make

leaseVars == <<owner, ordinal, leaseState, expiresAt>>
unitVars  == <<unit, unitLog, recoveries>>
tryVars   == <<attemptState, attemptLog, delivered>>
recVars   == <<submission, report, concluded, canonical>>
vars == <<usage, now, unitVars, leaseVars, tryVars, recVars, pending>>

(***************************************************************************)
(* What the handlers share.                                                *)
(***************************************************************************)

\* Mutant: acceptance looks at the deadline only.
AcceptedByDeadline(a, submittedAt, tokenMatches) ==
  tokenMatches /\ submittedAt <= expiresAt[a]

\* evaluate_submission_acceptance, on the authoritative snapshots.
Accepted(a, submittedAt, tokenMatches) ==
  /\ attemptState[a] = "Running"
  /\ leaseState[a] = "Active"
  /\ tokenMatches
  /\ submittedAt <= expiresAt[a]

\* Mutant: only leases of running attempts count.
HasRunningLease(u) ==
  \E a \in Attempts : owner[a] = u /\ leaseState[a] = "Active" /\ attemptState[a] = "Running"

\* The scheduler skips a unit that has an active lease in the ledger.
HasActiveLease(u) == \E a \in Attempts : owner[a] = u /\ leaseState[a] = "Active"

\* The snapshots and the lease map entries a caller may pass.
UnitView(u)    == IF usage.fresh THEN {unit[u]} ELSE unitLog[u]
AttemptView(a) == IF usage.fresh THEN {attemptState[a]} ELSE attemptLog[a]
RetryCounts(u) == IF usage.fresh THEN {recoveries[u] + 1} ELSE 0..(MaxRetries + 1)
LeaseEntries   == IF usage.ownLeases THEN {"absent", "empty", "some"} ELSE {"absent"}

\* Mutant: the leases of the ledger do not matter.
ShowsLeaseOnlySupplied(u, entry) == entry = "some"

\* The merged lease map shows a lease of the unit: an entry of the caller
\* replaces what the ledger says of it.
ShowsLease(u, entry) == IF entry = "absent" THEN HasActiveLease(u) ELSE entry = "some"

RecordUnit(u, snapshot) ==
  /\ unit' = [unit EXCEPT ![u] = snapshot]
  /\ unitLog' = [unitLog EXCEPT ![u] = @ \cup {snapshot}]

RecordAttempt(a, state) ==
  /\ attemptState' = [attemptState EXCEPT ![a] = state]
  /\ attemptLog' = [attemptLog EXCEPT ![a] = @ \cup {state}]

Init ==
  /\ usage \in Usages
  /\ now = 0
  /\ unit = [u \in Units |-> [state |-> "Ready", ordinal |-> -1]]
  /\ unitLog = [u \in Units |-> {[state |-> "Ready", ordinal |-> -1]}]
  /\ owner = [a \in Attempts |-> None]
  /\ ordinal = [a \in Attempts |-> -1]
  /\ leaseState = [a \in Attempts |-> "Unissued"]
  /\ expiresAt = [a \in Attempts |-> 0]
  /\ attemptState = [a \in Attempts |-> "Uncreated"]
  /\ attemptLog = [a \in Attempts |-> {}]
  /\ delivered = [a \in Attempts |-> None]
  /\ submission = [s \in Submissions |-> "Unrecorded"]
  /\ report = [s \in Submissions |-> "Unrecorded"]
  /\ concluded = {}
  /\ canonical = [u \in Units |-> None]
  /\ recoveries = [u \in Units |-> 0]
  /\ pending = None

(***************************************************************************)
(* Engine calls.                                                           *)
(***************************************************************************)

\* One batch: lease Active, attempt Created and Running, unit Processing.
\* The ordinal is one more than the one in the caller's unit snapshot.
ScheduleReadyUnit(u, a, view, entry) ==
  /\ pending = None
  /\ view.state = "Ready"
  /\ ~ShowsLease(u, entry) \/ usage.shadow
  /\ leaseState[a] = "Unissued"
  /\ owner' = [owner EXCEPT ![a] = u]
  /\ ordinal' = [ordinal EXCEPT ![a] = view.ordinal + 1]
  /\ leaseState' = [leaseState EXCEPT ![a] = "Active"]
  /\ expiresAt' = [expiresAt EXCEPT ![a] = now + LeaseTTL]
  /\ RecordAttempt(a, "Running")
  /\ RecordUnit(u, [state |-> "Processing", ordinal |-> view.ordinal + 1])
  /\ UNCHANGED <<usage, now, recoveries, delivered, recVars, pending>>

\* Refused at the very instant of expiry, where a submission is still taken.
RecordLeaseHeartbeat(a) ==
  /\ pending = None
  /\ leaseState[a] = "Active"
  /\ now < expiresAt[a]
  /\ expiresAt' = [expiresAt EXCEPT ![a] = now + LeaseTTL]
  /\ UNCHANGED <<usage, now, unitVars, owner, ordinal, leaseState, tryVars, recVars, pending>>

\* First append of a submission.  A submission id already recorded must come
\* with the same verdict again, else the ledger reports a conflict.  A
\* rejected submission ends the call.
RecordExecutionSubmission(s, submittedAt, tokenMatches) ==
  LET verdict == IF Accepted(s[1], submittedAt, tokenMatches)
                 THEN "accepted" ELSE "rejected"
  IN  /\ pending = None
      /\ leaseState[s[1]] # "Unissued"
      /\ submission[s] \in {"Unrecorded", verdict}
      /\ submission' = [submission EXCEPT ![s] = verdict]
      /\ pending' = IF verdict = "accepted"
                    THEN [step |-> "Submitted", submission |-> s] ELSE None
      /\ UNCHANGED <<usage, now, unitVars, leaseVars, tryVars, report, concluded, canonical>>

\* First append of a verification.  The Submitted check reads the caller's
\* snapshot, and the report must be about the outputs which that snapshot
\* carries; the submission it names is never looked up.  One report per
\* submission id, and a repeated call must agree.  An error report does not
\* move the attempt, a repeated one only if its first call crashed half way.
RecordVerification(s, status) ==
  /\ pending = None
  /\ "Submitted" \in AttemptView(s[1])
  /\ report[s] \in {"Unrecorded", status}
  /\ s \notin concluded
  /\ report' = [report EXCEPT ![s] = status]
  /\ pending' = IF status = "error"
                THEN None ELSE [step |-> "Verified", submission |-> s]
  /\ UNCHANGED <<usage, now, unitVars, leaseVars, tryVars, submission, concluded, canonical>>

\* First append of a canonical binding.  Any passed report of the unit can be
\* the first eligible one of the events the caller supplies.  A unit that has
\* a binding keeps it: the call returns it or raises, and appends nothing.
BindCanonicalOutputs(u, s) ==
  /\ pending = None
  /\ owner[s[1]] = u
  /\ report[s] = "passed"
  /\ canonical[u] = None
  /\ "Verified" \in AttemptView(s[1])
  /\ canonical' = [canonical EXCEPT ![u] = s]
  /\ pending' = [step |-> "Canonical", submission |-> s]
  /\ UNCHANGED <<usage, now, unitVars, leaseVars, tryVars, submission, report, concluded>>

\* The second append of the three calls above.
AppendAttemptState ==
  /\ pending # None
  /\ LET s == pending.submission
         target == IF pending.step = "Verified" /\ report[s] # "passed"
                   THEN "Rejected" ELSE pending.step
     IN  /\ RecordAttempt(s[1], target)
         /\ delivered' = IF pending.step = "Submitted"
                         THEN [delivered EXCEPT ![s[1]] = s] ELSE delivered
         /\ concluded' = IF pending.step = "Verified"
                         THEN concluded \cup {s} ELSE concluded
  /\ pending' = None
  /\ UNCHANGED <<usage, now, unitVars, leaseVars, submission, report, canonical>>

\* The process dies between the two appends.
Crash ==
  /\ pending # None
  /\ pending' = None
  /\ UNCHANGED <<usage, now, unitVars, leaseVars, tryVars, recVars>>

\* Mutant: the canonical selection is not required.
RecordCompleteDecisionUnbound(u, view) ==
  /\ pending = None
  /\ view.state = "Processing"
  /\ \A v \in unitLog[u] : v.state # "Completed"
  /\ RecordUnit(u, [view EXCEPT !.state = "Completed"])
  /\ UNCHANGED <<usage, now, recoveries, leaseVars, tryVars, recVars, pending>>

\* One batch: the complete decision and the unit's Completed state.  The
\* decision's idempotency key admits one per unit.  The lease stays Active.
RecordCompleteDecision(u, view) ==
  /\ pending = None
  /\ view.state = "Processing"
  /\ canonical[u] # None
  /\ \A v \in unitLog[u] : v.state # "Completed"
  /\ RecordUnit(u, [view EXCEPT !.state = "Completed"])
  /\ UNCHANGED <<usage, now, recoveries, leaseVars, tryVars, recVars, pending>>

\* One batch: lease terminal, attempt terminal (unless it already is), the
\* recovery action and the unit Ready or Failed.  The lease and the attempt
\* must be the latest in the ledger; the unit is the caller's snapshot.
RecordRecoveryDecision(u, a, trigger, count, view) ==
  LET target == TerminalState(trigger)
  IN  /\ pending = None
      /\ owner[a] = u
      /\ leaseState[a] = "Active"
      /\ IF trigger = "lease_expired"
         THEN now >= expiresAt[a] /\ attemptState[a] = "Running"
         ELSE MayConclude(attemptState[a], trigger)
      /\ view.state = "Processing"
      /\ leaseState' = [leaseState EXCEPT ![a] = IF trigger = "lease_expired"
                                                 THEN "Expired" ELSE "Released"]
      /\ RecordAttempt(a, target)
      /\ RecordUnit(u, [view EXCEPT !.state = RetryState(count)])
      /\ recoveries' = [recoveries EXCEPT ![u] = @ + 1]
      /\ UNCHANGED <<usage, now, owner, ordinal, expiresAt, delivered, recVars, pending>>

Tick ==
  /\ pending = None
  /\ now < MaxTime
  /\ now' = now + 1
  /\ UNCHANGED <<usage, unitVars, leaseVars, tryVars, recVars, pending>>

Schedule == \E u \in Units, a \in Attempts, entry \in LeaseEntries :
              \E view \in UnitView(u) : ScheduleReadyUnit(u, a, view, entry)
Heartbeat == \E a \in Attempts : RecordLeaseHeartbeat(a)
Submit == \E s \in Submissions, t \in 0..MaxTime, tokenMatches \in BOOLEAN :
            RecordExecutionSubmission(s, t, tokenMatches)
Verify == \E s \in Submissions, status \in {"passed", "rejected", "error"} :
            RecordVerification(s, status)
Bind == \E u \in Units, s \in Submissions : BindCanonicalOutputs(u, s)
Complete == \E u \in Units : \E view \in UnitView(u) : RecordCompleteDecision(u, view)
Recover == \E u \in Units, a \in Attempts, trigger \in Triggers :
             \E count \in RetryCounts(u), view \in UnitView(u) :
               RecordRecoveryDecision(u, a, trigger, count, view)

Next == \/ Schedule \/ Heartbeat \/ Submit \/ Verify \/ Bind \/ Complete \/ Recover
        \/ AppendAttemptState \/ Crash \/ Tick

Spec == Init /\ [][Next]_vars

-----------------------------------------------------------------------------

\* The state is well typed.
TypeOK ==
  /\ usage \in Usages
  /\ now \in 0..MaxTime
  /\ unit \in [Units -> Snapshots]
  /\ unitLog \in [Units -> SUBSET Snapshots]
  /\ owner \in [Attempts -> Units \cup {None}]
  /\ ordinal \in [Attempts -> Int]
  /\ leaseState \in [Attempts -> LeaseStates]
  /\ expiresAt \in [Attempts -> Nat]
  /\ attemptState \in [Attempts -> AttemptStates]
  /\ attemptLog \in [Attempts -> SUBSET AttemptStates]
  /\ delivered \in [Attempts -> Submissions \cup {None}]
  /\ submission \in [Submissions -> {"Unrecorded", "accepted", "rejected"}]
  /\ report \in [Submissions -> {"Unrecorded", "passed", "rejected", "error"}]
  /\ concluded \in SUBSET Submissions
  /\ canonical \in [Units -> Submissions \cup {None}]
  /\ recoveries \in [Units -> Nat]
  /\ pending \in [step : {"Submitted", "Verified", "Canonical"},
                  submission : Submissions] \cup {None}

(***************************************************************************)
(* Properties that hold whatever snapshots the callers pass.               *)
(***************************************************************************)

\* Where the scheduler decides by the leases of the ledger, or on the latest
\* snapshots, a unit and its leases agree: never two active leases for a unit,
\* a Processing unit has one, a Ready or Failed unit has none.  A caller with an
\* old Ready snapshot is stopped by the ledger's leases alone; its own lease map
\* and allow_shadow_execution switch them off.
LeasesAgree ==
  usage.fresh \/ ~(usage.ownLeases \/ usage.shadow) =>
    /\ \A a, b \in Attempts :
         /\ leaseState[a] = "Active" /\ leaseState[b] = "Active"
         /\ owner[a] = owner[b]
         => a = b
    /\ \A u \in Units :
         LET leased == \E a \in Attempts : owner[a] = u /\ leaseState[a] = "Active"
         IN  /\ unit[u].state = "Processing" => leased
             /\ unit[u].state \in {"Ready", "Failed"} => ~leased

\* Work of an attempt that lost its lease to expiry never becomes canonical,
\* even when its submission was accepted before the crash that kept the
\* attempt Running: record_lease_expiry makes it Superseded for good.
ExpiredNeverCanonical ==
  \A a \in Attempts : leaseState[a] = "Expired" =>
    /\ attemptState[a] = "Superseded"
    /\ \A u \in Units : canonical[u] # None => canonical[u][1] # a

\* A canonical binding always rests on a passed report about an attempt of the
\* unit, and the outputs it binds came with an accepted submission of that
\* attempt, whatever submission the report names.
CanonicalBacked ==
  \A u \in Units : canonical[u] # None =>
    LET a == canonical[u][1]
    IN  /\ owner[a] = u
        /\ report[canonical[u]] = "passed"
        /\ delivered[a] # None
        /\ delivered[a][1] = a
        /\ submission[delivered[a]] = "accepted"

\* A canonical binding is never replaced or withdrawn.
CanonicalIsFinal ==
  [][\A u \in Units : canonical[u] # None => canonical'[u] = canonical[u]]_vars

(***************************************************************************)
(* Properties of callers that pass the latest snapshots.                   *)
(***************************************************************************)

\* Once bound, the canonical bundle comes from the unit's newest attempt,
\* whose lease is never given up: no recovery can start another try behind it.
CanonicalFromNewestAttempt ==
  usage.fresh => \A u \in Units : canonical[u] # None =>
    /\ unit[u].state \in {"Processing", "Completed"}
    /\ ordinal[canonical[u][1]] = unit[u].ordinal
    /\ leaseState[canonical[u][1]] = "Active"
    /\ attemptState[canonical[u][1]] \in {"Verified", "Canonical"}

\* A unit is tried at most max_retries + 1 times, fails only when all of them
\* are used, and no two of its attempts share an attempt_ordinal.
RetryBudget ==
  usage.fresh => \A u \in Units :
    /\ unit[u].ordinal <= MaxRetries
    /\ unit[u].state = "Failed" => unit[u].ordinal = MaxRetries
    /\ \A a, b \in Attempts :
         owner[a] = u /\ owner[b] = u /\ ordinal[a] = ordinal[b] => a = b

\* The engine keeps the promise of UnitContract: the phase of a unit is its
\* TaskUnit state, "bound" from its canonical binding on.
Phase(u) ==
  CASE unit[u].state = "Ready"     -> "ready"
    [] unit[u].state = "Failed"    -> "failed"
    [] unit[u].state = "Completed" -> "completed"
    [] OTHER -> IF canonical[u] = None THEN "running" ELSE "bound"

Contract == INSTANCE UnitContract WITH
  Bundles <- Submissions, NoBundle <- None,
  phase <- [u \in Units |-> Phase(u)],
  tries <- [u \in Units |-> unit[u].ordinal + 1],
  bundle <- canonical

\* With such callers every step of the engine is a step of the contract or
\* leaves it unchanged.
KeepsContract ==
  Contract!Init /\ [][usage.fresh => [Contract!Next]_(Contract!vars)]_vars
=============================================================================
