SPECIFICATION AssistantSpec
CONSTANTS
  g1 = g1
  g2 = g2
  h1 = h1
  x1 = x1
  m1 = m1
  GuestPosts = {g1, g2, x1}
  HostPosts = {h1}
  Manual = {m1}
  Strangers = {x1}
  Urgent = {g1}
  MaxFaults = 0
  MaxLength = 3
  MaxChars = 2
  Overlap = 1
INVARIANT EmergenciesEscalate
CHECK_DEADLOCK FALSE
