\* Creations racing each other and the deletion of users and nodes, on two nodes.
SPECIFICATION Spec
CONSTANTS
  Servers = {s1, s2}
  Allocs = {a1, a2}
  Nodes = {n1, n2}
  Users = {u1, u2}
  Requests = {r1, r2, r3}
  Ports = {1, 2}
  Memories = {1}
  Capacity = 2
  MaxRange = 1
  Ops = {"create", "alloc_create", "user_delete", "admin_user_delete", "node_delete"}
  None = None
  n1 = n1
  a1 = a1
  a2 = a2
  InitAlloc <- TwoAllocs
SYMMETRY Symmetry
INVARIANTS ServersBound
PROPERTIES UserDeletionSparesServers
