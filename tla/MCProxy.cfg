SPECIFICATION Spec
CONSTANTS
  Ports = {p1, p2}
  IPs = {b1, b2}
  Clients = {c1}
  NoIP = NoIP
  MaxGen = 3
  RRWrap = 2
  CtTimeout = 0
  SessionTTL = 1
  NetlinkFaults = {"add", "delete", "flush", "verdict"}
INVARIANTS TypeOK GenNamesOneBackend FlowFollowsSession RoutableHasElement PoolInv
PROPERTY SessionPinned ImplementsDirectory
