\* Two roots of one condition with tails, the second with two units at once; two
\* attempts, one fault.
SPECIFICATION Spec
CONSTANTS
  Roots <- TwoRoots
  Planned <- OneUnitThenTwo
  Condition <- OneCondition
  Downstream <- TwoRoots
  Attempts = 2
  Answers = {"accepted", "mismatch", "transport"}
  MaxFaults = 1
  None = None
INVARIANTS JournalKept TailAccounted
PROPERTIES FailuresStand CompletesOrWedged
CHECK_DEADLOCK FALSE
