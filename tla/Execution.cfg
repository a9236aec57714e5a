\* Four events, two kinds, times that collide, one checkpoint that may be
\* restored at any later moment, more than once; three batches of up to two of
\* three units, two kills planned.
SPECIFICATION ExecutionSpec
CONSTANTS
  UnitRanks = {1, 2}
  Ordinals = {0}
  Kinds = {"worker_completion", "requeue"}
  MaxTime = 1
  MaxEvents = 4
  MaxSaved = 1
  Capacity = 2
  Units = {u1, u2, u3}
  Targets = {u1, u2}
  Limit = 2
  Needed = 2
  MaxBatches = 3
  None = None
CHECK_DEADLOCK FALSE
INVARIANTS ReplaysExactly RunsInItsBatch KillsKeepToThePlan
PROPERTY BatchEnds
