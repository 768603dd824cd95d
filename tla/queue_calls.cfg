SPECIFICATION Spec
CONSTANTS
  a = a
  b = b
  Identities = {a, b}
  Inputs <- AllInputs
  Times = {1, 2, 3}
  MaxPushes = 3
INVARIANTS
  TypeOK
  OrderedByCursor
  SequencedSound
  ThrottleSound
  Accounting
  SnapshotExact
  SweepExact
PROPERTIES
  ImplementsChannel
