SPECIFICATION Spec
CONSTANTS
  a = a
  x = x
  Identities = {a}
  Channels = {x}
  Ttls <- TwoTtls
  Options <- EitherDefault
  Inputs <- Mixed
  Times = {1, 3, 6}
  MaxPushes = 2
  MaxEpochs = 1
INVARIANTS
  DocSortedByCursor
