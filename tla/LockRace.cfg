\* Three processes that may crash at any step: the stale lock is reclaimed twice.
SPECIFICATION Spec
CONSTANTS
  p1 = p1
  p2 = p2
  p3 = p3
  Processes = {p1, p2, p3}
  None = None
INVARIANT MutualExclusion
CHECK_DEADLOCK FALSE
