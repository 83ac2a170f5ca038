\* Both peers initiate.
SPECIFICATION Spec
CONSTANTS
  Peers = {p1, p2}
  Stranger = stranger
  Null = Null
  MaxEvents = 2
  MaxCandidates = 1
INVARIANT GlareHandled
CHECK_DEADLOCK FALSE
