SPECIFICATION FairCacheSpec
CONSTANTS
  None = None
  Readers = {p1, p2}
  Syncs = {s1}
  Views = {all, available}
  TTL = 2
  MaxRead = 1
  MaxSyncs = 2
  MayFail = TRUE
INVARIANTS
  CacheInv
  StalenessIsBounded
PROPERTIES
  CacheCatchesUp
