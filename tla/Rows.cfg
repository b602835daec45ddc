\* The heartbeats, health checks and administrators of a node; the handlers of an account.
SPECIFICATION MCSpec
CONSTANTS
  Requests = {r1, r2}
  Interval = 3
  Slack = 1
  Delay = 1
  Threshold = 6
  MaxLate = 2
  MaxToken = 1
  Sessions = {s1}
  Secrets = {k1}
  Codes = {c1}
  CodesPerSetup = 1
  None = None
SYMMETRY Symmetry
INVARIANTS
  SteadyNodeOnline SteadyInv StatusFollows HandedTokenAccepted
  SecondFactorPossible
