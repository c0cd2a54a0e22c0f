SPECIFICATION AssistantSpec
CONSTANTS
  g1 = g1
  g2 = g2
  h1 = h1
  x1 = x1
  m1 = m1
  GuestPosts = {g1, g2, x1}
  HostPosts = {h1}
  Manual = {m1}
  Strangers = {x1}
  Urgent = {g1}
  MaxFaults = 1
  MaxLength = 11
  MaxChars = 4
  Overlap = 2
INVARIANTS
  SilenceOnlyByFaults
  AnsweredTwiceOnlyByOverlap
  HintsReachTheHost
PROPERTIES
  PostsComeBack
  ChunkingEnds
CHECK_DEADLOCK FALSE
