SPECIFICATION Spec
CONSTANTS
  a = a
  b = b
  Identities = {a, b}
  Inputs <- EveryAction
  Times = {1, 3}
  MaxPushes = 4
INVARIANTS
  NoResurrection
  AsNew
  SameAsCache
