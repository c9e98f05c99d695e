\* Two builds and three losses (a crash, the failure of the start after it, a reboot).
SPECIFICATION StartupSpec
CONSTANTS
  Subnets = {"a", "b"}
  None = None
  MaxLosses = 3
  MaxVersion = 2
  maxSteamAttempts = 2
INVARIANTS
  ReadyIsFresh
  OrderlyExitCleansUp
  PlayedBaseIsWhole
  DoneMeansBuilt
  SkippedIsComplete
PROPERTY
  BootRecovers
