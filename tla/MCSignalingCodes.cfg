\* Two join codes and a connection cap that the third connection exceeds.
SPECIFICATION Spec
CONSTANTS
  Sockets = {s1, s2, s3}
  PeerIds = {p1, p2}
  Tokens = {t1, t2}
  RoomIds = {r1, r2}
  JoinCodes = {c1, c2}
  MaxPeers = 2
  MaxConnections = 2
  Null = Null
SYMMETRY Symmetry
VIEW StateView
CHECK_DEADLOCK FALSE
INVARIANTS JoinCodesResolve ConnectionCap
