\* One unit through its whole budget under the coordinator, two attempts under
\* any other caller; two children under every proposal, one crash, one stray call.
SPECIFICATION EngineSpec
CONSTANTS
  Units = {u1}
  Attempts = {a1, a2, a3}
  SubmissionsPerAttempt = 2
  MaxNamed = 3
  OtherAttempts = 2
  OtherNamed = 1
  LeaseTTL = 1
  MaxRetries = 1
  MaxTime = 2
  None = None
  Children = {a, b}
  MaxTotalUnits = 4
  RootBudget = 5
  MaxCrashes = 1
  MaxStrays = 1
INVARIANTS LeasesAgree ExpiredNeverCanonical CanonicalFromNewestAttempt
INVARIANTS ParentRestsOnMerge PaysWhatCounted
PROPERTIES KeepsContract TerminalIsFinal KeepsAccount
SYMMETRY Symmetry
CHECK_DEADLOCK FALSE
