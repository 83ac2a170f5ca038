\* A resumed peer is taken out of its room.
SPECIFICATION Spec
CONSTANTS
  Sockets = {s1, s2, s3}
  PeerIds = {p1, p2, p3}
  Tokens = {t1, t2, t3}
  RoomIds = {r1, r2}
  JoinCodes = {c1}
  MaxPeers = 2
  MaxConnections = 3
  Null = Null
SYMMETRY Symmetry
VIEW StateView
CHECK_DEADLOCK FALSE
PROPERTY ResumptionKeepsRoom
