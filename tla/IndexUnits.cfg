\* One merge whose unit is created and not yet scheduled, one rebuild.
SPECIFICATION StorageSpec
CONSTANTS
  p1 = p1
  p2 = p2
  p3 = p3
  Processes = {p1}
  Writers = {w1}
  Contents = {x}
  Instants = {t1}
  MaxSaves = 1
  MaxCuts = 0
  MaxRebuilds = 1
  None = None
  Absent = Absent
  Tables <- MCTables
CHECK_DEADLOCK FALSE
INVARIANT CreatedUnitsShown
