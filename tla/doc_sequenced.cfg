SPECIFICATION Spec
CONSTANTS
  a = a
  b = b
  Identities = {a, b}
  Inputs <- DocIdeals
  Times = {2, 3}
  MaxPushes = 3
PROPERTIES
  DocIdealStaysSequenced
