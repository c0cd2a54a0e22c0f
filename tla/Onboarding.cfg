SPECIFICATION DoorSpec
CONSTANTS
  ea = ea
  eb = eb
  r1 = r1
  r2 = r2
  a1 = a1
  a2 = a2
  a3 = a3
  v1 = v1
  v2 = v2
  i1 = i1
  l1 = l1
  Absent = Absent
  Emails = {ea, eb}
  Registrations = {r1, r2}
  Accepts = {a1, a2, a3}
  Verifies = {v1, v2}
  Invitations = {i1}
  Links = {l1}
  MaxEntryFaults = 2
INVARIANTS
  UsedTwiceOnlyByOverlap
  HalfMadeOnlyByFaults
SYMMETRY Interchangeable
CHECK_DEADLOCK FALSE
