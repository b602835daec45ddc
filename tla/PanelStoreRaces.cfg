\* Every handler, three at a time, with database errors.
SPECIFICATION Spec
CONSTANTS
  Servers = {s1, s2}
  Allocs = {a1, a2}
  Nodes = {n1}
  Users = {u1}
  Requests = {r1, r2, r3}
  Ports = {1, 2}
  Memories = {1}
  Capacity = 2
  MaxRange = 1
  Ops = {"create", "update", "delete", "alloc_create", "admin_alloc_create", "alloc_delete", "bulk_delete", "node_delete", "admin_node_delete", "user_delete", "admin_user_delete", "db_error"}
  None = None
  n1 = n1
  a1 = a1
  a2 = a2
  InitAlloc <- OneAlloc
SYMMETRY Symmetry
INVARIANTS OwnerConsistent
PROPERTIES AllocationNeverStolen ImplementsOwnership
