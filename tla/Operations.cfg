SPECIFICATION Spec
CONSTANTS
  t1 = t1
  k1 = k1
  m1 = m1
  c1 = c1
  s1 = s1
  o1 = o1
  o2 = o2
  w1 = w1
  v1 = v1
  None = None
  Tasks = {t1}
  Tickets = {k1}
  Managers = {m1}
  Cleaners = {c1}
  Staff = {s1}
  Offers = {o1, o2}
  Vendors = {w1}
  Visits = {v1}
  MaxRequests = 2
  MaxFaults = 1
SYMMETRY Interchangeable
INVARIANTS
  AcceptedTasksHaveATaker
  NoUnrecordedKeys
PROPERTY
  UndoneOnlyByStalePages
CHECK_DEADLOCK FALSE
