SPECIFICATION CacheFairSpec
CONSTANTS
  Urls = {u1, u2}
  MaxVersion = 1
  MaxBlobs = 1
  NetworkMayFail = FALSE
  MayCrash = FALSE
PROPERTY PoisonHeals
