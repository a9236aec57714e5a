--------------------------- MODULE MCCoordinator ----------------------------
(***************************************************************************)
(* Instances of RunCoordinator for TLC: up to four children, the third of  *)
(* which may need the output of the first, under six configurations.       *)
(***************************************************************************)
EXTENDS RunCoordinator

CONSTANTS c1, c2, c3, c4

InOrder == [u \in Units |-> CASE u = Root -> 0 [] u = c1 -> 1 [] u = c2 -> 2
                              [] u = c3 -> 3   [] u = c4 -> 4   [] OTHER -> 5]
Chain   == [c \in Children |-> IF c = c3 THEN {c1} ELSE {}]

\* Factorization in logical time: ties and overlaps of two latencies with a
\* lease of two units, silent workers, a merge gate that may be bypassed.
LogicalFactorization ==
  [split |-> {c1, c2}, required |-> {c1, c2}, selected |-> {},
   logical |-> TRUE, witnessPolicy |-> TRUE, continueAfterFailure |-> TRUE,
   replacementAllowed |-> TRUE, stops |-> {"bypass_merge"},
   outcomes |-> {"passed", "found", "terminated", "no_return", "rejected"},
   latencies |-> {1, 3}]

\* Lean in logical time: a dependency between children, every one of them
\* required, late submissions and no replacement of a failed attempt.
LogicalLean ==
  [split |-> {c1, c2, c3}, required |-> {c1, c2, c3}, selected |-> {},
   logical |-> TRUE, witnessPolicy |-> FALSE, continueAfterFailure |-> FALSE,
   replacementAllowed |-> FALSE, stops |-> {"recovery_merge"},
   outcomes |-> {"passed", "late", "failed", "infrastructure"},
   latencies |-> {1, 2}]

\* Three children on two slots in logical time: one may have failed for good when
\* the recoveries of the other two fall on one instant.
LogicalThree ==
  [split |-> {c1, c2, c4}, required |-> {c1, c2, c4}, selected |-> {},
   logical |-> TRUE, witnessPolicy |-> TRUE, continueAfterFailure |-> TRUE,
   replacementAllowed |-> TRUE, stops |-> {},
   outcomes |-> {"passed", "no_return", "rejected"}, latencies |-> {1}]

\* An online run of a selected scope: batches, a dependency inside the scope,
\* a child outside it, hooks that stop a retry, every outcome but the silent
\* ones; the first terminal child failure ends the run.
OnlineScope ==
  [split |-> {c1, c2, c3, c4}, required |-> {c1, c2, c3, c4}, selected |-> {c1, c2, c3},
   logical |-> FALSE, witnessPolicy |-> TRUE, continueAfterFailure |-> FALSE,
   replacementAllowed |-> TRUE, stops |-> {"requeue", "recovery_merge"},
   outcomes |-> AllOutcomes \ Silent,
   latencies |-> {0}]

\* An online run whose merge takes one child, which needs one that it does not
\* take and that may fail.
OnlineSlots ==
  [split |-> {c1, c2, c3}, required |-> {c3}, selected |-> {},
   logical |-> FALSE, witnessPolicy |-> TRUE, continueAfterFailure |-> TRUE,
   replacementAllowed |-> TRUE, stops |-> {},
   outcomes |-> {"passed", "found", "rejected"}, latencies |-> {0}]

\* A selected scope with a child that needs one outside it, which goes on after
\* failures.
OpenScope ==
  [split |-> {c1, c2, c3, c4}, required |-> {c1, c2, c3, c4}, selected |-> {c2, c3, c4},
   logical |-> FALSE, witnessPolicy |-> TRUE, continueAfterFailure |-> TRUE,
   replacementAllowed |-> TRUE, stops |-> {},
   outcomes |-> {"passed", "found", "rejected"}, latencies |-> {0}]

AllScenarios ==
  {LogicalFactorization, LogicalLean, LogicalThree, OnlineScope, OnlineSlots, OpenScope}
=============================================================================
