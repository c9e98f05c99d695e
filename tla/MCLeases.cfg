SPECIFICATION FairSpec
CONSTANTS
  Names = {s1, s2}
  IPs = {10, 11}
  NoIP = NoIP
  Defs = {d1}
  NoDef = NoDef
  Handlers = {h1}
  None = None
  Faults = {"start", "add"}
INVARIANTS OneHolder HeldIsRegistered
PROPERTY LeaseIsServed

CHECK_DEADLOCK FALSE
