SPECIFICATION FairSpec
CONSTANTS
  Names = {s1}
  IPs = {10, 11}
  NoIP = NoIP
  Defs = {d1, d2}
  NoDef = NoDef
  Handlers = {h1}
  None = None
  Faults = {}
PROPERTY RecreateTakesEffect
CHECK_DEADLOCK FALSE
