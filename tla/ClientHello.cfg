\* Two users, two connections between them, an application that reconnects at once.
SPECIFICATION Spec
CONSTANTS
  Users = {u1, u2}
  Sockets = {s1, s2}
  PeerIds = {p1, p2}
  Tokens = {t1, t2}
  RoomIds = {r1}
  JoinCodes = {c1}
  MaxPeers = 2
  MaxConnections = 2
  ReconnectsPromptly = TRUE
  ReconnectsInHandler = FALSE
  SwitchesRooms = FALSE
  MaxRequests = 3
  Null = Null
SYMMETRY Symmetry
VIEW StateView
CHECK_DEADLOCK FALSE
INVARIANTS ConnectSaysHello
