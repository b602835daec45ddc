\* Two logins with one backup code.
SPECIFICATION Spec
CONSTANTS
  Requests = {r1, r2}
  Sessions = {s1, s2}
  Secrets = {k1, k2}
  Codes = {c1, c2}
  CodesPerSetup = 1
  None = None
SYMMETRY Symmetry
PROPERTIES BackupCodeSingleUse
