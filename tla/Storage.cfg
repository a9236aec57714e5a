\* Three processes at the lock, two writers of one id, one index.
SPECIFICATION StorageSpec
CONSTANTS
  p1 = p1
  p2 = p2
  p3 = p3
  Processes = {p1, p2, p3}
  Writers = {w1, w2}
  Contents = {x, y}
  Instants = {t1, t2}
  MaxSaves = 3
  MaxCuts = 1
  MaxRebuilds = 2
  None = None
  Absent = Absent
  Tables <- MCTables
CHECK_DEADLOCK FALSE
INVARIANTS ExclusiveUnlessRaced SavedStays ManifestComesLast FailsOnlyOnConflict
INVARIANTS AcceptsExactlyWhole RebuildsOrKeeps TablesAgree
PROPERTY Concludes
