\* Join codes, card placement, the test client, and one connection with its timers.
SPECIFICATION MCSpec
CONSTANTS
  ByteValues = 8
  AlphabetLens = {1, 3, 5, 8}
  CodeLengths = {1, 2}
  MinPool = 5
  MaxFills = 2
  Layouts <- MCLayouts
  PeerCount = 3
  EdgeSpawnLimit = 2
  CandidateCount <- MCCandidateCount
  Grain = 3
  Types = {a, b}
  MaxMessages = 2
  MaxCalls = 3
  AuthTimeout = 3
  Heartbeat = 2
  Window = 3
  MaxPerWindow = 3
INVARIANTS
  Unbiased CharsIndependent CardsApart CardsSpread CardsInPlace NoneWaitsInVain BufferServesOnce
  MessagesInOrder GuardTypeOK NoEarlyTermination RateBoundedTwice
PROPERTIES UnauthenticatedGoes GonePeerGoes
CHECK_DEADLOCK FALSE
