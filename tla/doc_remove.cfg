SPECIFICATION Spec
CONSTANTS
  a = a
  b = b
  Identities = {a, b}
  Inputs <- DocRemoves
  Times = {2, 3}
  MaxPushes = 3
PROPERTIES
  DocRemoveByIdentity
