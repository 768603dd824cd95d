SPECIFICATION Spec
CONSTANTS
  t1 = t1
  t2 = t2
  t3 = t3
  x = x
  y = y
  z = z
  None = None
  Threads = {t1, t2, t3}
  Ids = {1, 2}
  Channels = {x, y, z}
  ShardCount = 2
  ShardOf <- Hash
  Requests <- Disconnects
  MaxRequests = 4
  CacheLimit = 1
  SnapshotLimit = 1
SYMMETRY Symmetry
INVARIANTS
  RegistryAgrees
  NeverAborts
  DescribeLeavesOnlyNewer
