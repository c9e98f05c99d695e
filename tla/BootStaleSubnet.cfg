\* A build with another subnet is installed after a crash, MariaDB still running.
SPECIFICATION UpgradeFairSpec
CONSTANTS
  Subnets = {"a", "b"}
  None = None
  MaxLosses = 1
PROPERTY
  BootRecovers
