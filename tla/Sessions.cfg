SPECIFICATION Spec
CONSTANTS
  t1 = t1
  t2 = t2
  q1 = q1
  q2 = q2
  l1 = l1
  None = None
  Tabs = {t1, t2}
  Requests = {q1, q2}
  Logins = {l1}
  MaxFaults = 1
INVARIANTS
  PresentedOnce
  NeverStranded
PROPERTIES
  LogoutSticks
  CallsSettle
CHECK_DEADLOCK FALSE
