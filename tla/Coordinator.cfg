\* Six configurations: three logical runs and three online ones (MCCoordinator).
SPECIFICATION Spec
CONSTANTS
  Root = root
  Merge = merge
  c1 = c1
  c2 = c2
  c3 = c3
  c4 = c4
  Children = {c1, c2, c3, c4}
  Rank <- InOrder
  Needs <- Chain
  Capacity = 2
  LeaseMs = 2
  MaxRetries = 1
  Scenarios <- AllScenarios
  None = None
INVARIANTS ListsAgree AttemptsAreDue EndingsAreEarned
PROPERTIES StepsAreOrderly Terminates
