SPECIFICATION Spec
CONSTANTS
  Names = {s1, s2}
  Ports = {1, 2}
  Homes <- MemberHomes
  Clustered = Clustered
  ClusterPorts = {1, 2}
  NoPort = NoPort
  NoRow = NoRow
  Faults = {"add", "stop"}
  Limits = {}
  MayShutDown = FALSE
SYMMETRY Symmetry
INVARIANTS RunningIsRouted RoutedIsThere
