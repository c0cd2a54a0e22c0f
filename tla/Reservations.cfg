SPECIFICATION Spec
CONSTANTS
  r1 = r1
  r2 = r2
  r3 = r3
  u = u
  x = x
  y = y
  g = g
  e1 = e1
  e2 = e2
  e3 = e3
  e4 = e4
  e5 = e5
  None = None
  Requests = {r1, r2, r3}
  Units = {u}
  Days <- MCDays
  Refs = {x, y}
  Emails = {g}
  Events = {e1, e2, e3, e4, e5}
  Payload <- MCPayload
  Calls <- MCCalls
  MaxFaults = 1
INVARIANTS
  BlocksMirrorBookings
  NightsHeldOnce
  OneBookingPerEvent
  OutcomesAreTrue
  ReceivedEventsHaveAnOwner
PROPERTY
  ImplementsLedger
CHECK_DEADLOCK FALSE
