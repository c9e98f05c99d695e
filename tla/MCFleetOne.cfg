SPECIFICATION FairSpec
CONSTANTS
  Names = {s1}
  Ports = {1, 2}
  Homes <- AnyHomes
  Clustered = Clustered
  ClusterPorts = {2}
  NoPort = NoPort
  NoRow = NoRow
  Faults = {"start", "inspect"}
  Limits = {"stop", "restart"}
  MayShutDown = TRUE
INVARIANTS NotLiveMeansNoContainer ReturnedMeansEmpty
PROPERTIES WantedComesUp UnwantedGoesDown PortChangeArrives ShutdownEnds
