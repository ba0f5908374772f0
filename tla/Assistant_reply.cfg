\* A thread is saved, loaded and replied to.
CONSTANTS
  Page = {p1, p2}
  ContextKey = {c}
  FreshKey = {k1, k2}
  RowId = {i1, i2, i3}
  NoRow = norow
  MaxTurns = 3
  Faults = TRUE
SPECIFICATION Spec
SYMMETRY MC_Symmetry
INVARIANTS
  RepliesUpdateSameThread
CHECK_DEADLOCK FALSE
