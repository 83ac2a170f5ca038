\* Two users, two connections between them, an application that switches rooms.
SPECIFICATION Spec
CONSTANTS
  Users = {u1, u2}
  Sockets = {s1, s2}
  PeerIds = {p1, p2}
  Tokens = {t1, t2}
  RoomIds = {r1, r2}
  JoinCodes = {c1, c2}
  MaxPeers = 2
  MaxConnections = 2
  ReconnectsPromptly = FALSE
  ReconnectsInHandler = FALSE
  SwitchesRooms = TRUE
  MaxRequests = 3
  Null = Null
SYMMETRY Symmetry
VIEW StateView
CONSTRAINT NobodyGoes
CHECK_DEADLOCK FALSE
INVARIANTS ViewKeptUpToDate
