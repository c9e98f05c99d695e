SPECIFICATION FSpec
CONSTANTS
  Ports = {p1}
  IPs = {b1}
  Clients = {c1}
  NoIP = NoIP
  NoPort = NoPort
  MaxGen = 2
  RRWrap = 2
  CtTimeout = 1
  SessionTTL = 3
  NetlinkFaults = {}
PROPERTY ActiveClientNotMoved
