\* Every handler and every fault.
SPECIFICATION Spec
CONSTANTS
  Requests = {r1, r2, r3}
  Ops = {"create", "update", "start", "ws_start", "ws_restart", "suspend", "unsuspend", "reinstall", "delete"}
  Faults = {"timeout", "callback", "docker", "crash"}
  HasScript = TRUE
  None = None
SYMMETRY Symmetry
INVARIANTS ReadyNeedsSuccess
\* Requests are made once: when all are done and nothing runs, the system rests.
CHECK_DEADLOCK FALSE
