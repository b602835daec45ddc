SPECIFICATION Spec
CONSTANTS
  Users = {u1, u2, u3}
  Admins = {u1}
  Totp = {u3}
  Slots = {1, 2}
  MaxActs = 5
  None = None
INVARIANTS TypeOK ShownUserIsSession SignedOutStays
PROPERTIES Settles RefusedLeaves
CHECK_DEADLOCK FALSE
