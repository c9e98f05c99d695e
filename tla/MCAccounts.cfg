SPECIFICATION FairSpec
CONSTANTS
  p1 = p1
  p2 = p2
  k1 = k1
  k2 = k2
  Users = {"root", "ann"}
  Passwords = {p1, p2}
  Secrets = {k1, k2}
  Environments <- MCEnvironments
  tokenTTL = 2
  Browsers = {c1, c2}
  None = None
PROPERTIES SessionsRunOut DeletedStaysDeleted DeletedIsLockedOut
