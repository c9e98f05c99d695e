SPECIFICATION HubFairSpec
CONSTANTS
  Clients = {c1}
  MaxWrites = 2
  NoSnapshot = NoSnapshot
INVARIANTS NothingForgotten UnskippedIsCurrent
PROPERTY BroadcastCatchesUp
