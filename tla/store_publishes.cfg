SPECIFICATION Spec
CONSTANTS
  a = a
  b = b
  Identities = {a, b}
  Inputs <- Publishes
  Times = {1, 3}
  MaxPushes = 4
INVARIANTS
  TypeOK
  ReadSound
  LosesNothing
  MergeLosesNothing
