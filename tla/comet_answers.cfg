SPECIFICATION FairSpec
CONSTANTS
  t1 = t1
  t2 = t2
  x = x
  y = y
  Threads = {t1, t2}
  Conns = {1, 2}
  CometConns = {2}
  Channels = {x, y}
  Parts <- OneShard
  CacheLimit = 2
  PageLimit = 1
  Configured = {TRUE, FALSE}
  Events = {"debugReset", "destroyTarget"}
  Requests <- EveryCall
  MaxRequests = 2
PROPERTIES
  EveryRequestAnswered
