SPECIFICATION MCSpec
CONSTANTS
  n1 = n1
  n2 = n2
  e1 = e1
  e2 = e2
  g1 = g1
  g2 = g2
  i1 = i1
  i2 = i2
  i3 = i3
  k1 = k1
  a1 = a1
  a2 = a2
  Nests = {g1, g2}
  Eggs = {e1, e2}
  NestOf <- EggNest
  Nodes = {n1, n2}
  MaxOpens = 2
  MaxGets = 2
  Ids = {i1, i2, i3}
  Keys = {k1}
  Allocations = {a1, a2}
  AllocNode <- AllocationNode
  Place <- Order
  PerPage = 2
  AllocsPerPage = 1
  MaxDialogs = 3
  MaxRuns = 4
  None = None
INVARIANTS
  TypesOK
  PayloadFits OneCreation
  ListCurrent FlagsHeld DetailsOfNode
SYMMETRY Symmetry
CHECK_DEADLOCK FALSE
