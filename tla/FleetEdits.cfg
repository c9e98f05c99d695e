SPECIFICATION ESpec
CONSTANTS
  Names = {s1}
  Ports = {1, 2}
  Homes <- AnyHomes
  Clustered = Clustered
  ClusterPorts = {}
  NoPort = NoPort
  NoRow = NoRow
  Faults = {}
  Limits = {}
  MayShutDown = FALSE
PROPERTY EmptyDesiredPreserves
