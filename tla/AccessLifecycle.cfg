SPECIFICATION Spec
CONSTANTS
  api = api
  engine = engine
  t1 = t1
  t2 = t2
  None = None
  Creds = {api, engine}
  ByEngine = {engine}
  Window <- MCWindow
  Ticks = {t1, t2}
  Horizon = 2
  MaxFaults = 1
INVARIANTS
  TimeBoxed
  CodesFollowRows
PROPERTIES
  TransitionsLogged
  RevocationSettles
  KeysAreTakenBack
CHECK_DEADLOCK FALSE
