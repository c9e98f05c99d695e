SPECIFICATION Spec
CONSTANTS
  Names = {s1, s2}
  IPs = {10, 11}
  NoIP = NoIP
  Defs = {d1}
  NoDef = NoDef
  Handlers = {h1}
  None = None
  Faults = {}
INVARIANTS AlwaysRegistered NeverStale
CHECK_DEADLOCK FALSE
