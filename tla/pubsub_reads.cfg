SPECIFICATION Spec
CONSTANTS
  a = a
  x = x
  Identities = {a}
  Channels = {x}
  Ttls <- TwoTtls
  Options <- EveryStart
  Inputs <- Mixed
  Times = {1, 3, 6}
  MaxPushes = 2
  MaxEpochs = 2
INVARIANTS
  TypeOK
  ReadAlive
  NothingTwice
  FiredIsKept
  NothingCountedTwice
