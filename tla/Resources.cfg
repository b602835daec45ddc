SPECIFICATION MCSpec
CONSTANTS
  Requests = {r1, r2}
  Ids = {o1}
  RowIds = {i1, i2}
  MaxBatch = 3
  Keys = {k1, k2}
  Vals = {v1, v2}
  Parents = {p1}
  Host = host
  None = None
  Gone = Gone
INVARIANTS
  TypesOK
  OneBatch LastUpdateKept
  RowsConsistent AsRequested
SYMMETRY Symmetry
CHECK_DEADLOCK FALSE
