SPECIFICATION Spec
CONSTANTS
  Names = {s1, s2}
  Ports = {1, 2}
  Homes <- AnyHomes
  Clustered = Clustered
  ClusterPorts = {1}
  NoPort = NoPort
  NoRow = NoRow
  Faults = {"late"}
  Limits = {}
  MayShutDown = TRUE
INVARIANTS RunningIsRouted ManagedHasOwner ReturnedMeansEmpty
