\* The stored configuration, with starts by REST, without other installations and
\* without deadlines that expire.
SPECIFICATION Spec
CONSTANTS
  Requests = {r1, r2, r3, r4}
  Ops = {"create", "update", "start", "ws_restart", "suspend", "delete"}
  Faults = {"callback", "docker", "crash"}
  HasScript = TRUE
  None = None
SYMMETRY Symmetry
INVARIANTS ContainerRecoverable
\* Requests are made once: when all are done and nothing runs, the system rests.
CHECK_DEADLOCK FALSE
