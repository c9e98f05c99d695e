SPECIFICATION CacheSpec
CONSTANTS
  Urls = {u1, u2}
  MaxVersion = 2
  MaxBlobs = 1
  NetworkMayFail = TRUE
  MayCrash = TRUE
INVARIANTS ConfirmedIsServed StoreKeepsBound
