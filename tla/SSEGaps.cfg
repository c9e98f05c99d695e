SPECIFICATION GapFairSpec
CONSTANTS
  Clients = {c1}
  MaxWrites = 1
  NoSnapshot = NoSnapshot
INVARIANT ConsistentView
PROPERTY WritesAreBroadcast
CHECK_DEADLOCK FALSE
