SPECIFICATION OfficeSpec
CONSTANTS
  b1 = b1
  b2 = b2
  b3 = b3
  p1 = p1
  p2 = p2
  p3 = p3
  c1 = c1
  c2 = c2
  c3 = c3
  None = None
  Bills = {b1, b2, b3}
  Unknown = {b2}
  Worthless = {b3}
  Payouts = {p1, p2, p3}
  Checkouts = {c1, c2, c3}
  MaxFaults = 2
  n1 = n1
  n2 = n2
  n3 = n3
  key = key
  ca = ca
  cb = cb
  NoKey = NoKey
  Notices = {n1, n2, n3}
  Keys = {key}
  KeyOf <- MCKeyOf
  Channels = {ca, cb}
  MaxSendFaults = 1
  s1 = s1
  s2 = s2
  k1 = k1
  k2 = k2
  ra = ra
  rb = rb
  rc = rc
  Nothing = Nothing
  Suggestions = {s1, s2}
  Rules = {ra, rb, rc}
  Conditions <- MCConditions
  Percent <- MCPercent
  Absolute <- MCAbsolute
  Priority <- MCPriority
  Base = 101
  LeadTimes = {2}
  Nights = 1
  Clicks = {k1, k2}
INVARIANTS
  PaidTwiceOnlyByFaults
  BooksWrongOnlyByFaults
  SentTwiceOnlyByOverlap
  SameDaySamePrice
  ExtraRatesOnlyByStaleClicks
  SecondPlanOnlyByOverlap
SYMMETRY Interchangeable
CHECK_DEADLOCK FALSE
