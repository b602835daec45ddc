\* Installations that race each other, and calls that wait for the mutex of the server,
\* on a healthy node.
SPECIFICATION OrderedLiveSpec
CONSTANTS
  Requests = {1, 2, 3}
  Ops = {"create", "reinstall", "ws_start", "ws_restart", "delete"}
  Faults = {}
  HasScript = TRUE
  None = None
PROPERTIES InstallResolves RequestsFinish
\* Requests are made once: when all are done and nothing runs, the system rests.
CHECK_DEADLOCK FALSE
