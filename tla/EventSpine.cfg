SPECIFICATION HalfSpec
CONSTANTS
  a = a
  b = b
  t1 = t1
  t2 = t2
  w1 = w1
  w2 = w2
  None = None
  TypeOf <- MCTypeOf
  Definition <- MCDefinition
  Rows = {a, b}
  Ticks = {t1, t2}
  RelayLimit = 1
  ReadCount = 2
  Workflows = {w1, w2}
  MaxFaults = 1
INVARIANTS
  CopiesBounded
  StrandedOnlyByFaults
  RunsTellTheTruth
PROPERTIES
  PendingIsPublished
  EntriesAcknowledged
CHECK_DEADLOCK FALSE
