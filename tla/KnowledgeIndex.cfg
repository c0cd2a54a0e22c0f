SPECIFICATION Spec
CONSTANTS
  u = u
  f = f
  d = d
  g = g
  j1 = j1
  j2 = j2
  j3 = j3
  Shared = Shared
  Units = {u}
  Facts = {f}
  Documents = {d, g}
  ScopeOf <- MCScopeOf
  Jobs = {j1, j2, j3}
  MaxVersion = 2
  MaxFaults = 1
INVARIANTS
  NoDuplicateChunks
  StaleOnlyInTransit
PROPERTIES
  ImplementsShelf
  ReindexesEnd
CHECK_DEADLOCK FALSE
