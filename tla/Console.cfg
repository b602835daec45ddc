\* A page that is opened, moved and left, with broken connections and overlapping polls.
SPECIFICATION Spec
CONSTANTS
  Servers = {u1, u2}
  p1 = p1
  p2 = p2
  Polls = {p1, p2}
  Loads <- Busy
  MaxHooks = 2
  MaxCommands = 3
  MaxChanges = 1
  MaxLines = 2
  None = None
INVARIANTS TypeOK DelayBounded ShowsItsServer CommandOnce TerminalFollows
PROPERTIES NewerUnlessOverlapped ComesBack
CHECK_DEADLOCK FALSE
