\* One creation on a healthy node, whose script may fail.
SPECIFICATION OrderedLiveSpec
CONSTANTS
  Requests = {1}
  Ops = {"create"}
  Faults = {}
  HasScript = TRUE
  None = None
PROPERTIES FailureReported
\* Requests are made once: when all are done and nothing runs, the system rests.
CHECK_DEADLOCK FALSE
