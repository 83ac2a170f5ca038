\* Two calls of initiateConnection, or one of them and one disturbance, or two.
SPECIFICATION Spec
CONSTANTS
  Peers = {p1, p2}
  Stranger = stranger
  Null = Null
  MaxEvents = 2
  MaxCandidates = 1
INVARIANTS NegotiationTypeOK Agreement CredentialsAgree CandidatesArrive StuckOnlyByGlare StuckOnlyByRefusal ReadyHonest
PROPERTY Connects
CHECK_DEADLOCK FALSE
