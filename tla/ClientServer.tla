------------------------------ MODULE ClientServer ------------------------------
(***************************************************************************)
(* The signaling clients and the signaling server together.  A step is one *)
(* handler of one side.  What a handler of the server puts into `sent' is  *)
(* appended to the channel of the socket; the server takes the frames of a *)
(* socket in order, until its close event.                                 *)
(***************************************************************************)
EXTENDS SignalingClient, TLC

CONSTANTS MaxPeers, MaxConnections

VARIABLES
  readyState, peerId, sessionToken, roomId, peerMap, sessionMap, rooms,
  joinCodeToRoomId, roomTimers, issued, stopped, sent

Server == INSTANCE SignalingServer

ASSUME ServerAssumption ==
  /\ Server!NullAssumption
  /\ Server!IdKindsAssumption
  /\ Server!MaxPeersAssumption
  /\ Server!MaxConnectionsAssumption

\* What the server sends.
ErrorCodes ==
  {"ROOM_NOT_FOUND", "ROOM_IS_FULL", "PEER_ALREADY_IN_ROOM", "JOIN_CODE_NOT_FOUND",
   "ROOM_ID_COLLISION", "NOT_IN_A_ROOM", "FAILED_TO_REMOVE_PEER_FROM_ROOM"}

ServerFrames ==
  [type : {"error"}, code : ErrorCodes]
    \cup [type : {"peer-id"}, peerId : PeerIds, sessionToken : Tokens]
    \cup [type : {"room-joined"}, roomId : RoomIds, joinCode : JoinCodes,
          hostPeerId : PeerIds, members : SUBSET PeerIds]
    \cup [type : {"room-left", "room-peer-joined", "room-peer-left"}, roomId : RoomIds,
          peerId : PeerIds]
    \cup [type : {"room-expired"}, roomId : RoomIds]
    \cup [type : {"relay"}, from : PeerIds, to : PeerIds]

ASSUME FrameAssumption == Null \notin ServerFrames

serverVars == <<readyState, peerId, sessionToken, roomId, peerMap, sessionMap, rooms,
                joinCodeToRoomId, roomTimers, issued, stopped, sent>>
vars == <<clientVars, toServer, toClient, serverVars>>

SystemInit == Init /\ Server!Init

\* A step of a client.
ClientStep(A) == A /\ UNCHANGED serverVars

\* What the server's step sends arrives at the sockets that are open.
Deliver ==
  toClient' = [s \in Sockets |->
    IF sent'[s] # Null /\ wsState[s] = "open" THEN Append(toClient[s], sent'[s])
    ELSE toClient[s]]

\* A step of the server that takes no frame.
ServerStep(A) == A /\ Deliver /\ UNCHANGED <<clientVars, toServer>>

-----------------------------------------------------------------------------
\* The handshake has come through; the client may have given up meanwhile.
Accept(s) ==
  /\ wsState[s] \in {"connecting", "closing"}
  /\ ServerStep(Server!Connect(s))

\* onopen comes after the handshake.
Opened(s) ==
  /\ readyState[s] # "none"
  /\ ClientStep(OnOpen(s))

\* The socket the server finds for the credentials of a hello.
Resumable(s, msg) ==
  {old \in Server!Clients \ {s} :
     peerId[old] # Null /\ peerId[old] = msg.from /\ sessionToken[old] = msg.sessionToken}

HandleHello(s, msg) ==
  IF Resumable(s, msg) # {}
  THEN \E old \in Resumable(s, msg), t \in Tokens : Server!HelloResume(s, old, t)
  ELSE \E p \in PeerIds, t \in Tokens : Server!HelloFresh(s, p, t)

HandleRequest(s, msg) ==
  \/ msg.type = "join-id" /\ Server!JoinById(s, msg.roomId)
  \/ msg.type = "join-code" /\ Server!JoinByCode(s, msg.joinCode)
  \/ /\ msg.type = "create"
     /\ \E r \in RoomIds :
          Server!CreateCollides(s, r) \/ \E c \in JoinCodes : Server!CreateRoom(s, r, c)
  \/ msg.type = "leave-room" /\ (Server!LeaveRoom(s) \/ Server!LeaveRefused(s))
  \/ msg.type = "relay" /\ msg.from = peerId[s] /\ Server!Relay(s, msg.to)

\* A message before hello, or one with somebody else's id, closes the connection.
Unauthorized(s, msg) ==
  /\ msg.type # "hello"
  /\ peerId[s] = Null \/ (msg.type = "relay" /\ msg.from # peerId[s])

Receive(s) ==
  LET msg == Head(toServer[s])
  IN /\ toServer[s] # <<>>
     /\ Server!Listening(s)
     /\ \/ msg.type = "hello" /\ HandleHello(s, msg)
        \/ ~Unauthorized(s, msg) /\ HandleRequest(s, msg)
        \/ Unauthorized(s, msg) /\ Server!BeginClose(s)
     /\ toServer' = [toServer EXCEPT ![s] = Tail(@)]
     /\ Deliver
     /\ UNCHANGED clientVars

(***************************************************************************)
(* The server notices that the client has closed its end.  (When the       *)
(* server closes for a reason of its own the client sees a connection that *)
(* is lost, and for the server it is as if the client had gone.)           *)
(***************************************************************************)
NoticeGone(s) ==
  /\ wsState[s] \in {"closing", "closed"}
  /\ ServerStep(Server!BeginClose(s))

\* The close event of the server's socket: the frames still on their way are lost.
ServerClosed(s) ==
  /\ Server!Close(s)
  /\ toServer' = [toServer EXCEPT ![s] = <<>>]
  /\ Deliver
  /\ UNCHANGED clientVars

Next ==
  \/ \E u \in Users : ClientStep(Calls(u))
  \/ \E s \in Sockets :
       \/ Accept(s)
       \/ Opened(s)
       \/ ClientStep(OnMessage(s))
       \/ ClientStep(SocketCloses(s))
       \/ Receive(s)
       \/ NoticeGone(s)
       \/ ServerClosed(s)
  \/ \E r \in RoomIds : ServerStep(Server!ExpireRoom(r))

Spec == SystemInit /\ [][Next]_vars

-----------------------------------------------------------------------------
(* Properties.                                                             *)

\* The application calls connect() when the close events of its earlier sockets are over.
Patient == ~ReconnectsPromptly /\ ~ReconnectsInHandler

\* The values the client's variables take.
ClientTypeOK ==
  /\ ws \in [Users -> Sockets \cup {Null}]
  /\ myPeerId \in [Users -> PeerIds \cup {Null}]
  /\ myToken \in [Users -> Tokens \cup {Null}]
  /\ \A u \in Users : myRoom[u] # Null =>
       myRoom[u] \in [roomId : RoomIds, members : SUBSET PeerIds]
  /\ listeners \in [Users -> BOOLEAN]
  /\ owner \in [Sockets -> Users \cup {Null}]
  /\ wsState \in [Sockets -> WsStates]
  /\ handlers \in [Sockets -> BOOLEAN]
  /\ requests \in 0 .. MaxRequests

(***************************************************************************)
(* The server handles hello as the first and only hello of a connection,   *)
(* however often the client connects and disconnects: it never sees a      *)
(* request of a socket it does not know yet, nor a second hello (onopen    *)
(* and send of SignalingClient.ts, index.ts:163-193, hello.ts:37), if the  *)
(* application is patient.                                                 *)
(***************************************************************************)
HelloFirst ==
  \A s \in Sockets : Server!Listening(s) /\ toServer[s] # <<>> =>
    (Head(toServer[s]).type = "hello" <=> peerId[s] = Null)

(***************************************************************************)
(* The state of a client changes only by messages of the socket in its ws: *)
(* a socket it replaced or disconnected has no say (onmessage), provided   *)
(* the application is patient.                                             *)
(***************************************************************************)
OneVoice ==
  [][\A u \in Users :
       <<myPeerId[u], myToken[u], myRoom[u]>>' # <<myPeerId[u], myToken[u], myRoom[u]>> =>
         /\ ws[u] # Null
         /\ toClient'[ws[u]] # toClient[ws[u]]]_vars

(***************************************************************************)
(* A client gives up its socket or its listeners only when that socket     *)
(* closes: the close event of an earlier one does not touch them (onclose),*)
(* provided connect() waits for the close event after a disconnect() and   *)
(* is not called by the handler of "disconnected".                         *)
(***************************************************************************)
CurrentKept ==
  [][\A u \in Users :
       /\ ws[u] # Null
       /\ ws'[u] # ws[u] \/ (listeners[u] /\ ~listeners'[u])
       => wsState'[ws[u]] \in {"closing", "closed"}]_vars

\* The client u has handled every frame on its open connection, hello's answer included.
UpToDate(u) ==
  LET s == ws[u]
  IN /\ s # Null
     /\ wsState[s] = "open" /\ readyState[s] = "open"
     /\ toClient[s] = <<>>
     /\ peerId[s] # Null

(***************************************************************************)
(* The credentials a client holds are those the server has for its open    *)
(* connection, so a reconnect with them resumes the session, after any     *)
(* number of earlier resumptions and fresh sessions, if the application is *)
(* patient.                                                                *)
(***************************************************************************)
CredentialsCurrent ==
  \A u \in Users : UpToDate(u) =>
    myPeerId[u] = peerId[ws[u]] /\ myToken[u] = sessionToken[ws[u]]

\* The room as the client sees it is the room as the server has it.
SeesItsRoom(u) ==
  IF myRoom[u] = Null
  THEN \A r \in RoomIds : ~Server!IsMember(peerId[ws[u]], r)
  ELSE /\ rooms[myRoom[u].roomId] # Null
       /\ rooms[myRoom[u].roomId].members = myRoom[u].members
       /\ peerId[ws[u]] \in myRoom[u].members

\* The user has not connected a second time.
FirstConnection(u) == Cardinality({s \in Sockets : owner[s] = u}) = 1

(***************************************************************************)
(* On its first connection, and if it stays in one room at a time, a       *)
(* client that has handled all frames knows its room and the members,      *)
(* whatever the other users do (room-* messages of SignalingClient.ts).    *)
(***************************************************************************)
ViewFollowsServer == \A u \in Users : UpToDate(u) /\ FirstConnection(u) => SeesItsRoom(u)

(***************************************************************************)
(* The room of a client is "kept up-to-date via room-peer-joined /         *)
(* room-peer-left events" (types.ts of packages/shared): the members it    *)
(* lists for a room it is in are the members, also when it has been in     *)
(* another one before.                                                     *)
(***************************************************************************)
ViewKeptUpToDate ==
  \A u \in Users, r \in RoomIds :
    /\ UpToDate(u) /\ FirstConnection(u)
    /\ myRoom[u] # Null /\ Server!IsMember(peerId[ws[u]], r)
    => (myRoom[u].roomId = r => myRoom[u].members = rooms[r].members)

(***************************************************************************)
(* "Call connect to open the WebSocket and send a hello handshake"         *)
(* (SignalingClient.ts): a socket of connect() that is open is not idle,   *)
(* its hello is on its way or handled.                                     *)
(***************************************************************************)
ConnectSaysHello ==
  \A s \in Sockets : wsState[s] = "open" /\ readyState[s] = "open" /\ peerId[s] = Null =>
    toServer[s] # <<>>
=============================================================================
