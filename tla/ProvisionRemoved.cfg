SPECIFICATION DisturbedSpec
CONSTANTS
  MaxVersion = 2
  maxSteamAttempts = 2
INVARIANT DoneMeansBuilt
