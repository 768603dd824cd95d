SPECIFICATION FairSpec
CONSTANTS
  t1 = t1
  t2 = t2
  t3 = t3
  x = x
  y = y
  z = z
  None = None
  Threads = {t1, t2}
  Ids = {1, 2}
  Channels = {x, y, z}
  ShardCount = 2
  ShardOf <- Hash
  Requests <- EveryKind
  MaxRequests = 4
  CacheLimit = 2
  SnapshotLimit = 1
INVARIANTS
  TypeOK
  GaplessHandoff
  ReadsTheBroker
PROPERTIES
  ImplementsBroker
  EveryCallReturns
