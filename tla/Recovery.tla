------------------------------ MODULE Recovery ------------------------------
(***************************************************************************)
(* The tables of src/src/tokenshare/core/recovery.py and of                *)
(* core/state_machines.py that the engine and the coordinator share: which *)
(* attempt states follow which, and what a recovery trigger does to the    *)
(* attempt and to its unit.                                                *)
(***************************************************************************)
EXTENDS Integers

CONSTANT MaxRetries     \* ProtocolConfig.max_retries

ASSUME RecoveryAssumption == MaxRetries \in Nat

AttemptStates == {"Uncreated", "Running", "Submitted", "Verified", "Canonical",
                  "Rejected", "Failed", "Superseded"}

\* Mutant: a verified attempt may still fail.
TransitionsVerifiedMayFail ==
  { <<"Uncreated", "Running">>,
    <<"Running", "Submitted">>, <<"Running", "Failed">>,
    <<"Running", "Superseded">>,
    <<"Submitted", "Verified">>, <<"Submitted", "Rejected">>,
    <<"Submitted", "Failed">>,
    <<"Verified", "Canonical">>, <<"Verified", "Failed">> }

\* _ATTEMPT_TRANSITIONS.  Created and Running are recorded in one batch, so
\* the ledger never stops at Created.
AttemptTransitions ==
  { <<"Uncreated", "Running">>,
    <<"Running", "Submitted">>, <<"Running", "Failed">>,
    <<"Running", "Superseded">>,
    <<"Submitted", "Verified">>, <<"Submitted", "Rejected">>,
    <<"Submitted", "Failed">>,
    <<"Verified", "Canonical">> }

Triggers == {"lease_expired", "no_return", "executor_error", "parser_failure",
             "verification_rejected", "checker_rejected"}

\* Mutant: no trigger supersedes.
TerminalStateNeverSuperseded(trigger) ==
  IF trigger = "executor_error" THEN "Failed" ELSE "Rejected"

\* _RETRY_ATTEMPT_STATES: the terminal attempt state of a recovery trigger.
TerminalState(trigger) ==
  CASE trigger \in {"lease_expired", "no_return"} -> "Superseded"
    [] trigger = "executor_error"                 -> "Failed"
    [] OTHER                                      -> "Rejected"

\* Mutant: one retry too many.
RetryStateOneMore(count) == IF count <= MaxRetries + 1 THEN "Ready" ELSE "Failed"

\* evaluate_retry: the state the unit goes to.
RetryState(count) == IF count <= MaxRetries THEN "Ready" ELSE "Failed"

\* record_recovery_decision takes the attempt as it is when it already has
\* the terminal state of the trigger, else it makes the transition.
MayConclude(attempt, trigger) ==
  \/ attempt = TerminalState(trigger)
  \/ <<attempt, TerminalState(trigger)>> \in AttemptTransitions
=============================================================================
