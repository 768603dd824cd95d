SPECIFICATION Spec
CONSTANTS
  t1 = t1
  t2 = t2
  x = x
  y = y
  Threads = {t1, t2}
  Conns = {1, 2}
  CometConns = {2}
  Channels = {x, y}
  Parts <- TwoShards
  CacheLimit = 2
  PageLimit = 1
  Configured = {TRUE}
  Events = {}
  Requests <- Clients
  MaxRequests = 3
SYMMETRY Symmetry
INVARIANTS
  TypeOK
  ClientGapless
  SubscribeThenLoad
  NothingLeftBehind
  EachChannelOnce
