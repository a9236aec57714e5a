SPECIFICATION Spec
CONSTANTS
  k1 = k1
  k2 = k2
  k3 = k3
  b1 = b1
  b2 = b2
  Keys = {k1, k2, k3}
  Bodies = {b1, b2}
  Batches = {"B1", "B2"}
  BatchDrafts <- MCBatchDrafts
  MaxLines = 4
  FaultSets <- MCFaultSets
  NoBatch = NoBatch
  Garbled = Garbled
CHECK_DEADLOCK FALSE
INVARIANTS CrashesLeaveOrder VerifiedLosesNothing
PROPERTY KeepsLog
