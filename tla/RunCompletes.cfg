\* One unit in a tail, one crash, a provider that never answers with a wrong model.
SPECIFICATION Spec
CONSTANTS
  Roots <- OneRoot
  Planned <- OneUnit
  Condition <- OneCondition
  Downstream <- OneRoot
  Attempts = 2
  Answers = {"accepted", "rejected", "transport"}
  MaxFaults = 1
  None = None
PROPERTIES Completes
CHECK_DEADLOCK FALSE
