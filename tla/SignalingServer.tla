---------------------------- MODULE SignalingServer ----------------------------
(***************************************************************************)
(* The Riftsend signaling server (apps/signaling/src): the WebSocket       *)
(* connections it holds, the peer and session registries filled by hello,  *)
(* the rooms, and the relay of WebRTC messages.                            *)
(*                                                                         *)
(* Node runs every handler to completion, so an action is one handler call *)
(* (or one timer callback) with everything it calls.  A Map<K, V> of the   *)
(* code is a function from K whose value is Null where the map has no      *)
(* entry; an absent or null field of a socket is Null too.                 *)
(*                                                                         *)
(* Left out: ws.role and the other fields hello copies to the socket       *)
(* (nothing reads them), timestamps, logging.  The clocks (room lifetime,  *)
(* authentication timeout, heartbeat, rate window) are events that may     *)
(* happen at any time while they are armed.                                *)
(***************************************************************************)
EXTENDS Naturals, FiniteSets, TLC

CONSTANTS
  Sockets,          \* WebSocket objects, one per connection ever accepted
  PeerIds,          \* ids generatePeerId can return
  Tokens,           \* tokens generateSessionToken can return
  RoomIds,          \* ids generateRoomId can return
  JoinCodes,        \* codes generateJoinCode can return
  MaxPeers,         \* metadata.maxPeers of every room (2 in the code)
  MaxConnections,   \* maxConn
  Null

Room == [joinCode : JoinCodes, hostPeerId : PeerIds, members : SUBSET PeerIds]

ASSUME NullAssumption ==
  Null \notin Sockets \cup PeerIds \cup Tokens \cup RoomIds \cup JoinCodes \cup Room
ASSUME IdKindsAssumption == RoomIds \cap (PeerIds \cup Tokens) = {}
ASSUME MaxPeersAssumption == MaxPeers \in Nat \ {0}
ASSUME MaxConnectionsAssumption == MaxConnections \in Nat /\ IsFiniteSet(Sockets)

VARIABLES
  readyState,       \* of each socket: see ReadyStates
  peerId,           \* ws.peerId
  sessionToken,     \* ws.sessionToken
  roomId,           \* ws.roomId
  peerMap,          \* peer id -> socket
  sessionMap,       \* session token -> socket
  rooms,            \* room id -> room
  joinCodeToRoomId, \* join code -> room id
  roomTimers,       \* ids of the rooms whose expiration timer is pending
  issued,           \* every peer id, token and room id generated so far
  stopped,          \* stop() has been called
  sent              \* what the last handler sent to each socket

socketVars == <<readyState, peerId, sessionToken>>
registryVars == <<peerMap, sessionMap>>
roomVars == <<roomId, rooms, joinCodeToRoomId, roomTimers>>
vars == <<readyState, peerId, sessionToken, roomId, peerMap, sessionMap, rooms,
          joinCodeToRoomId, roomTimers, issued, stopped, sent>>

(***************************************************************************)
(* "none": not connected yet.  "rejected": closed by the connection cap    *)
(* before any handler was attached.  "closing": close() was called or the  *)
(* peer is going away; frames already on their way are still delivered to  *)
(* the message handler, and sends are dropped.                             *)
(***************************************************************************)
ReadyStates == {"none", "open", "closing", "rejected", "closed"}

\* wss.clients holds a socket until its close event.
Clients == {s \in Sockets : readyState[s] \in {"open", "closing", "rejected"}}

Listening(s) == readyState[s] \in {"open", "closing"}
Authenticated(s) == Listening(s) /\ peerId[s] # Null

IsMember(p, r) == rooms[r] # Null /\ p \in rooms[r].members

-----------------------------------------------------------------------------
(* Messages.  A handler sends at most one message to a socket.             *)

Error(code) == [type |-> "error", code |-> code]
PeerIdMsg(p, t) == [type |-> "peer-id", peerId |-> p, sessionToken |-> t]
RoomJoined(r, c, host, ms) ==
  [type |-> "room-joined", roomId |-> r, joinCode |-> c, hostPeerId |-> host,
   members |-> ms]
RoomLeft(r, p) == [type |-> "room-left", roomId |-> r, peerId |-> p]
RoomExpired(r) == [type |-> "room-expired", roomId |-> r]
PeerEvent(event, r, p) == [type |-> event, roomId |-> r, peerId |-> p]
Relayed(from, to) == [type |-> "relay", from |-> from, to |-> to]

NoMessages == [s \in {} |-> Null]
To(s, msg) == [w \in {s} |-> msg]

\* A reply to s beside what the others are sent.
Reply(s, msg, others) ==
  [w \in {s} \cup DOMAIN others |-> IF w = s THEN msg ELSE others[w]]

\* safeSend: only a socket that is open gets its message.
Send(msgs) ==
  sent' = [s \in Sockets |->
             IF s \in DOMAIN msgs /\ readyState[s] = "open" THEN msgs[s] ELSE Null]

\* The sockets findClientByPeerId finds for a set of peers.
Registered(ps) == {peerMap[p] : p \in ps} \ {Null}

\* Mutant: only the host of the room is told.
NotifyHost(event, r, p) ==
  [s \in Registered({rooms[r].hostPeerId} \ {p}) |-> PeerEvent(event, r, p)]

NotifyMembers(event, r, p) ==
  [s \in Registered(rooms[r].members \ {p}) |-> PeerEvent(event, r, p)]

-----------------------------------------------------------------------------
Init ==
  /\ readyState = [s \in Sockets |-> "none"]
  /\ peerId = [s \in Sockets |-> Null]
  /\ sessionToken = [s \in Sockets |-> Null]
  /\ roomId = [s \in Sockets |-> Null]
  /\ peerMap = [p \in PeerIds |-> Null]
  /\ sessionMap = [t \in Tokens |-> Null]
  /\ rooms = [r \in RoomIds |-> Null]
  /\ joinCodeToRoomId = [c \in JoinCodes |-> Null]
  /\ roomTimers = {}
  /\ issued = {}
  /\ stopped = FALSE
  /\ sent = [s \in Sockets |-> Null]

-----------------------------------------------------------------------------
(* Connections.                                                            *)

\* Mutant: the new socket is not counted.
OverCapOffByOne(s) == Cardinality(Clients) > MaxConnections

\* wss.clients already holds the new socket when its connection handler runs.
OverCap(s) == Cardinality(Clients \cup {s}) > MaxConnections

Connect(s) ==
  /\ readyState[s] = "none"
  /\ ~stopped
  /\ readyState' = [readyState EXCEPT ![s] =
       IF OverCap(s) THEN "rejected" ELSE "open"]
  /\ Send(NoMessages)
  /\ UNCHANGED <<peerId, sessionToken, registryVars, roomVars, issued, stopped>>

(***************************************************************************)
(* The connection starts to close: the peer closes it, it is lost or       *)
(* terminated by the heartbeat, it authenticates too late, exceeds the     *)
(* rate, sends invalid JSON, a message before its hello or one whose from  *)
(* is not its own id, or its handler throws.                               *)
(***************************************************************************)
BeginClose(s) ==
  /\ readyState[s] = "open"
  /\ readyState' = [readyState EXCEPT ![s] = "closing"]
  /\ Send(NoMessages)
  /\ UNCHANGED <<peerId, sessionToken, registryVars, roomVars, issued, stopped>>

-----------------------------------------------------------------------------
(* hello.                                                                  *)

HelloFresh(s, p, t) ==
  /\ Listening(s)
  /\ peerId[s] = Null
  /\ p \notin issued /\ t \notin issued
  /\ issued' = issued \cup {p, t}
  /\ peerId' = [peerId EXCEPT ![s] = p]
  /\ sessionToken' = [sessionToken EXCEPT ![s] = t]
  /\ peerMap' = [peerMap EXCEPT ![p] = s]
  /\ sessionMap' = [sessionMap EXCEPT ![t] = s]
  /\ Send(To(s, PeerIdMsg(p, t)))
  /\ UNCHANGED <<readyState, roomVars, stopped>>

\* Mutant: a resumed session keeps its token.
KeptToken(old, t) == sessionToken[old]

\* A resumed session gets a token of its own.
ResumedToken(old, t) == t

(***************************************************************************)
(* The hello carries the peer id and token of another client of the        *)
(* server, `old', which may be closing already.  The new socket takes over *)
(* both registry entries under a new token; old keeps its own fields until *)
(* its close event, and no room is handed over.                            *)
(***************************************************************************)
HelloResume(s, old, t) ==
  LET p == peerId[old]
      u == ResumedToken(old, t)
  IN /\ Listening(s)
     /\ peerId[s] = Null
     /\ old # s /\ Authenticated(old)
     /\ t \notin issued
     /\ issued' = issued \cup {t}
     /\ readyState' = [readyState EXCEPT ![old] = "closing"]
     /\ peerId' = [peerId EXCEPT ![s] = p]
     /\ sessionToken' = [sessionToken EXCEPT ![s] = u]
     /\ peerMap' = [peerMap EXCEPT ![p] = s]
     /\ sessionMap' = [sessionMap EXCEPT ![sessionToken[old]] = Null, ![u] = s]
     /\ Send(To(s, PeerIdMsg(p, u)))
     /\ UNCHANGED <<roomVars, stopped>>

-----------------------------------------------------------------------------
(* Rooms.                                                                  *)

\* Mutant: the capacity check is off by one.
JoinResultOffByOne(p, r) ==
  IF rooms[r] = Null THEN "ROOM_NOT_FOUND"
  ELSE IF Cardinality(rooms[r].members) > MaxPeers THEN "ROOM_IS_FULL"
  ELSE IF p \in rooms[r].members THEN "PEER_ALREADY_IN_ROOM"
  ELSE "success"

\* Mutant: a peer may join a room it is in.
JoinResultRejoin(p, r) ==
  IF rooms[r] = Null THEN "ROOM_NOT_FOUND"
  ELSE IF Cardinality(rooms[r].members) >= MaxPeers THEN "ROOM_IS_FULL"
  ELSE "success"

\* The checks of addPeerToRoom in their order.
JoinResult(p, r) ==
  IF rooms[r] = Null THEN "ROOM_NOT_FOUND"
  ELSE IF Cardinality(rooms[r].members) >= MaxPeers THEN "ROOM_IS_FULL"
  ELSE IF p \in rooms[r].members THEN "PEER_ALREADY_IN_ROOM"
  ELSE "success"

\* A failed join or leave answers with an error and changes nothing.
Refuse(s, code) ==
  /\ Send(To(s, Error(code)))
  /\ UNCHANGED <<socketVars, registryVars, roomVars, issued, stopped>>

\* addPeerToRoom and the room-joined reply of handleJoinRoom.
AddPeerToRoom(s, r) ==
  LET p == peerId[s]
      room == [rooms[r] EXCEPT !.members = @ \cup {p}]
  IN /\ rooms' = [rooms EXCEPT ![r] = room]
     /\ roomId' = [roomId EXCEPT ![s] = r]
     /\ Send(Reply(s, RoomJoined(r, room.joinCode, room.hostPeerId, room.members),
                   NotifyMembers("room-peer-joined", r, p)))
     /\ UNCHANGED <<socketVars, registryVars, joinCodeToRoomId, roomTimers, issued,
                    stopped>>

JoinById(s, r) ==
  /\ Authenticated(s)
  /\ IF JoinResult(peerId[s], r) = "success"
     THEN AddPeerToRoom(s, r)
     ELSE Refuse(s, JoinResult(peerId[s], r))

JoinByCode(s, c) ==
  /\ Authenticated(s)
  /\ IF joinCodeToRoomId[c] = Null
     THEN Refuse(s, "JOIN_CODE_NOT_FOUND")
     ELSE JoinById(s, joinCodeToRoomId[c])

\* Mutant: key and value swapped.
MapJoinCodeSwapped(c, r) == (r :> c) @@ joinCodeToRoomId

MapJoinCode(c, r) == [joinCodeToRoomId EXCEPT ![c] = r]

\* A room starts with a fresh timer; nothing in the program restarts it later.
ScheduleRoomExpiration(r) == roomTimers' = roomTimers \cup {r}

ClearRoomTimer(r) == roomTimers' = roomTimers \ {r}

(***************************************************************************)
(* createRoom and the join of its creator.  Only room ids are checked for  *)
(* a collision: a code that is already in use is mapped to the new room.   *)
(***************************************************************************)
CreateRoom(s, r, c) ==
  LET room == [joinCode |-> c, hostPeerId |-> peerId[s], members |-> {peerId[s]}]
  IN /\ Authenticated(s)
     /\ r \notin issued
     /\ issued' = issued \cup {r}
     /\ rooms' = [rooms EXCEPT ![r] = room]
     /\ joinCodeToRoomId' = MapJoinCode(c, r)
     /\ ScheduleRoomExpiration(r)
     /\ roomId' = [roomId EXCEPT ![s] = r]
     /\ Send(To(s, RoomJoined(r, c, room.hostPeerId, room.members)))
     /\ UNCHANGED <<socketVars, registryVars, stopped>>

CreateCollides(s, r) ==
  /\ Authenticated(s)
  /\ rooms[r] # Null
  /\ Refuse(s, "ROOM_ID_COLLISION")

\* Mutant: the timer of a cleaned-up room is left pending.
CleanupRoomKeepsTimer(r) ==
  /\ joinCodeToRoomId' = [joinCodeToRoomId EXCEPT ![rooms[r].joinCode] = Null]
  /\ rooms' = [rooms EXCEPT ![r] = Null]
  /\ UNCHANGED roomTimers

\* Mutant: the join code of a cleaned-up room stays mapped.
CleanupRoomKeepsCode(r) ==
  /\ ClearRoomTimer(r)
  /\ rooms' = [rooms EXCEPT ![r] = Null]
  /\ UNCHANGED joinCodeToRoomId

CleanupRoom(r) ==
  /\ joinCodeToRoomId' = [joinCodeToRoomId EXCEPT ![rooms[r].joinCode] = Null]
  /\ ClearRoomTimer(r)
  /\ rooms' = [rooms EXCEPT ![r] = Null]

\* removePeerFromRoom, for a member of room r.
RemovePeerFromRoom(s, r) ==
  /\ roomId' = [roomId EXCEPT ![s] = Null]
  /\ IF rooms[r].members = {peerId[s]}
     THEN CleanupRoom(r)
     ELSE /\ rooms' = [rooms EXCEPT ![r].members = @ \ {peerId[s]}]
          /\ UNCHANGED <<joinCodeToRoomId, roomTimers>>

LeaveRoom(s) ==
  LET p == peerId[s]
      r == roomId[s]
  IN /\ Authenticated(s)
     /\ r # Null /\ IsMember(p, r)
     /\ RemovePeerFromRoom(s, r)
     /\ Send(Reply(s, RoomLeft(r, p), NotifyMembers("room-peer-left", r, p)))
     /\ UNCHANGED <<socketVars, registryVars, issued, stopped>>

LeaveRefused(s) ==
  /\ Authenticated(s)
  /\ IF roomId[s] = Null
     THEN Refuse(s, "NOT_IN_A_ROOM")
     ELSE /\ ~IsMember(peerId[s], roomId[s])
          /\ Refuse(s, "FAILED_TO_REMOVE_PEER_FROM_ROOM")

\* The expiration timer of room r fires (handleRoomExpiration).
ExpireRoom(r) ==
  LET told == Registered(rooms[r].members)
  IN /\ r \in roomTimers
     /\ rooms[r] # Null
     /\ roomId' = [s \in Sockets |-> IF s \in told THEN Null ELSE roomId[s]]
     /\ Send([s \in told |-> RoomExpired(r)])
     /\ CleanupRoom(r)
     /\ UNCHANGED <<socketVars, registryVars, issued, stopped>>

-----------------------------------------------------------------------------
(* Relay, close event, shutdown.                                           *)

\* An offer, answer, ICE candidate or peer error whose from is the sender's id.
Relay(s, to) ==
  /\ Authenticated(s)
  /\ Send([w \in Registered({to}) |-> Relayed(peerId[s], to)])
  /\ UNCHANGED <<socketVars, registryVars, roomVars, issued, stopped>>

\* Mutant: the close handler forgets peerMap.
UnregisterSessionOnly(s) ==
  /\ sessionMap' = [u \in Tokens |->
       IF u = sessionToken[s] /\ sessionMap[u] = s THEN Null ELSE sessionMap[u]]
  /\ UNCHANGED peerMap

\* The entries of a closing socket, unless another socket has taken them over.
Unregister(s) ==
  /\ peerMap' = [p \in PeerIds |->
       IF p = peerId[s] /\ peerMap[p] = s THEN Null ELSE peerMap[p]]
  /\ sessionMap' = [t \in Tokens |->
       IF t = sessionToken[s] /\ sessionMap[t] = s THEN Null ELSE sessionMap[t]]

\* The close event, after ws has taken the socket out of wss.clients.
Close(s) ==
  LET p == peerId[s]
      r == roomId[s]
  IN /\ readyState[s] \in {"closing", "rejected"}
     /\ readyState' = [readyState EXCEPT ![s] = "closed"]
     /\ Unregister(s)
     /\ IF r # Null /\ IsMember(p, r)
        THEN /\ RemovePeerFromRoom(s, r)
             /\ Send(NotifyMembers("room-peer-left", r, p))
        ELSE /\ Send(NoMessages)
             /\ UNCHANGED roomVars
     /\ UNCHANGED <<peerId, sessionToken, issued, stopped>>

\* stop(): the room timers are cleared and every client is closed.
Stop ==
  /\ ~stopped
  /\ stopped' = TRUE
  /\ roomTimers' = {}
  /\ readyState' = [s \in Sockets |->
       IF readyState[s] = "open" THEN "closing" ELSE readyState[s]]
  /\ Send(NoMessages)
  /\ UNCHANGED <<peerId, sessionToken, registryVars, roomId, rooms, joinCodeToRoomId,
                 issued>>

-----------------------------------------------------------------------------
Next ==
  \/ \E s \in Sockets :
       \/ Connect(s)
       \/ BeginClose(s)
       \/ \E p \in PeerIds, t \in Tokens : HelloFresh(s, p, t)
       \/ \E old \in Sockets, t \in Tokens : HelloResume(s, old, t)
       \/ \E r \in RoomIds : JoinById(s, r)
       \/ \E c \in JoinCodes : JoinByCode(s, c)
       \/ \E r \in RoomIds, c \in JoinCodes : CreateRoom(s, r, c)
       \/ \E r \in RoomIds : CreateCollides(s, r)
       \/ LeaveRoom(s)
       \/ LeaveRefused(s)
       \/ \E to \in PeerIds : Relay(s, to)
       \/ Close(s)
  \/ \E r \in RoomIds : ExpireRoom(r)
  \/ Stop

Spec == Init /\ [][Next]_vars

-----------------------------------------------------------------------------
(* Properties.                                                             *)

LiveRooms == {r \in RoomIds : rooms[r] # Null}

\* The values each variable takes, and that ids in use have been issued.
TypeOK ==
  /\ readyState \in [Sockets -> ReadyStates]
  /\ peerId \in [Sockets -> PeerIds \cup {Null}]
  /\ sessionToken \in [Sockets -> Tokens \cup {Null}]
  /\ roomId \in [Sockets -> RoomIds \cup {Null}]
  /\ peerMap \in [PeerIds -> Sockets \cup {Null}]
  /\ sessionMap \in [Tokens -> Sockets \cup {Null}]
  /\ rooms \in [RoomIds -> Room \cup {Null}]
  /\ joinCodeToRoomId \in [JoinCodes -> RoomIds \cup {Null}]
  /\ roomTimers \subseteq RoomIds
  /\ issued \subseteq PeerIds \cup Tokens \cup RoomIds
  /\ stopped \in BOOLEAN

(***************************************************************************)
(* Whatever the order of resumptions and close events, an entry of peerMap *)
(* or sessionMap leads to a socket that still has handlers and that is the *)
(* peer, or the session, it is filed under: a relay or a room event never  *)
(* goes to somebody else (hello.ts, close handler of index.ts).            *)
(***************************************************************************)
RegistriesFaithful ==
  /\ \A p \in PeerIds : peerMap[p] # Null =>
       Listening(peerMap[p]) /\ peerId[peerMap[p]] = p
  /\ \A t \in Tokens : sessionMap[t] # Null =>
       Listening(sessionMap[t]) /\ sessionToken[sessionMap[t]] = t

(***************************************************************************)
(* An open, authenticated socket is filed under its session token: neither *)
(* the resumption of an older session of the same peer nor the late close  *)
(* event of the socket it replaced removes it.                             *)
(***************************************************************************)
OpenSessionsRegistered ==
  \A s \in Sockets : readyState[s] = "open" /\ peerId[s] # Null =>
    sessionMap[sessionToken[s]] = s

(***************************************************************************)
(* A socket whose ws.roomId names a live room is a member of that room, so *)
(* its leave-room and its close event take it out: however sockets of the  *)
(* same peer join, leave, replace one another and close.                   *)
(***************************************************************************)
RoomIdsAgree ==
  \A s \in Sockets, r \in RoomIds :
    roomId[s] = r /\ rooms[r] # Null => peerId[s] \in rooms[r].members

\* At most one socket, closed ones included, acts for a peer in a live room.
SoleDelegate ==
  \A r \in LiveRooms : \A s1, s2 \in Sockets :
    roomId[s1] = r /\ roomId[s2] = r /\ peerId[s1] = peerId[s2] => s1 = s2

(***************************************************************************)
(* A room in the map has at least one member (an emptied room is cleaned   *)
(* up at once) and at most MaxPeers.                                       *)
(***************************************************************************)
RoomSizes ==
  \A r \in LiveRooms :
    rooms[r].members # {} /\ Cardinality(rooms[r].members) <= MaxPeers

(***************************************************************************)
(* A join code that is found leads to a live room that has this code, also *)
(* when two rooms got the same code and one of them is gone.               *)
(***************************************************************************)
JoinCodesResolve ==
  \A c \in JoinCodes : joinCodeToRoomId[c] # Null =>
    /\ rooms[joinCodeToRoomId[c]] # Null
    /\ rooms[joinCodeToRoomId[c]].joinCode = c

(***************************************************************************)
(* Until the server stops, exactly the live rooms have an expiration timer *)
(* pending: no room outlives its timer, no timer outlives its room.        *)
(***************************************************************************)
TimersMatchRooms ==
  /\ roomTimers \subseteq LiveRooms
  /\ ~stopped => roomTimers = LiveRooms

\* The sockets that got handlers and are not closed stay within the cap.
ConnectionCap == Cardinality({s \in Sockets : Listening(s)}) <= MaxConnections

\* The open socket registered for peer q is sent msg by this step.
Told(q, msg) ==
  peerMap[q] # Null /\ readyState[peerMap[q]] = "open" => sent'[peerMap[q]] = msg

(***************************************************************************)
(* Whichever handler changes a room, every member that stays and has an    *)
(* open registered socket is told in the same step: who joined, who left,  *)
(* or that the room expired under it.                                      *)
(***************************************************************************)
ChangesAnnounced ==
  [][\A r \in LiveRooms :
       LET before == rooms[r].members
           after == IF rooms'[r] = Null THEN {} ELSE rooms'[r].members
       IN /\ \A p \in after \ before, q \in before :
               Told(q, PeerEvent("room-peer-joined", r, p))
          /\ \A p \in before \ after, q \in before \cap after :
               Told(q, PeerEvent("room-peer-left", r, p))
          /\ Cardinality(before) > 1 /\ after = {} =>
               \A q \in before : Told(q, RoomExpired(r))]_vars

(***************************************************************************)
(* What the comments of the code say and the code does not do (each is     *)
(* the property of a run that expects a violation).                        *)
(***************************************************************************)

(***************************************************************************)
(* "The old connection is closed and this one takes its place (session     *)
(* resumption)" (hello.ts): a peer with an open registered socket loses a  *)
(* room only by expiry, of which it is told, or by a leave-room of its own *)
(* (one that it sent over the replaced socket included).                   *)
(***************************************************************************)
ResumptionKeepsRoom ==
  [][\A r \in LiveRooms : \A p \in rooms[r].members :
       /\ rooms'[r] = Null \/ p \notin rooms'[r].members
       /\ peerMap[p] # Null
       /\ readyState[peerMap[p]] = "open"
       => \/ sent'[peerMap[p]] = RoomExpired(r)
          \/ \E s \in Sockets : peerId[s] = p /\ LeaveRoom(s)]_vars

(***************************************************************************)
(* "Remove a peer from the room when their socket closes": a member of a   *)
(* live room still has a socket.                                           *)
(***************************************************************************)
NoGhostMembers ==
  \A r \in LiveRooms : \A p \in rooms[r].members :
    \E s \in Sockets : Listening(s) /\ peerId[s] = p

(***************************************************************************)
(* "A map of connected peers, keyed by their peer ID" (peer.ts): the peer  *)
(* of an open socket is found, and found at an open socket.                *)
(***************************************************************************)
PeerMapHoldsConnected ==
  \A s \in Sockets : readyState[s] = "open" /\ peerId[s] # Null =>
    peerMap[peerId[s]] # Null /\ readyState[peerMap[peerId[s]]] = "open"

\* The rooms behave as the room directory promises.
Directory == INSTANCE RoomDirectory WITH
  used <- issued \cap RoomIds,
  occupants <- [r \in RoomIds |-> IF rooms[r] = Null THEN {} ELSE rooms[r].members]

ImplementsDirectory == Directory!Spec
=============================================================================
