SPECIFICATION LFairSpec
CONSTANTS
  Ports = {p1, p2}
  IPs = {b1, b2}
  Clients = {c1}
  NoIP = NoIP
  NoPort = NoPort
  MaxGen = 2
  RRWrap = 2
  CtTimeout = 0
  SessionTTL = 1
  NetlinkFaults = {"add", "verdict"}
INVARIANTS
  GenNamesOneBackend
  RoutableHasElement
  DrainedMeansQuiet
  FlowOnlyToItsInstance
PROPERTIES
  ImplementsDirectory
  OrphansAgeOut
