---------------------------- MODULE SignalingClient ----------------------------
(***************************************************************************)
(* SignalingClient objects of the web application                          *)
(* (apps/web/src/signaling/SignalingClient.ts), one per user, with the     *)
(* browser's WebSocket objects they create.                                *)
(*                                                                         *)
(* toServer[s] and toClient[s] are the frames on their way over socket s,  *)
(* in order.  The server is not in this module: ClientServer composes it   *)
(* with SignalingServer.  The application around the client is what calls  *)
(* its methods, in any order; three constants say how careful it is.       *)
(***************************************************************************)
EXTENDS Naturals, Sequences, FiniteSets

CONSTANTS
  Users,               \* SignalingClient objects
  Sockets, PeerIds, Tokens, RoomIds, JoinCodes, Null,
  ReconnectsPromptly,  \* connect() may come before the close event of a disconnect()
  ReconnectsInHandler, \* connect() may be called by the handler of "disconnected"
  SwitchesRooms,       \* join and leave do not wait for the answer to the last one,
                       \* nor join for the end of the current room
  MaxRequests          \* bound: join, leave and relay messages of all users together

ASSUME ApplicationAssumption ==
  /\ {ReconnectsPromptly, ReconnectsInHandler, SwitchesRooms} \subseteq BOOLEAN
  /\ MaxRequests \in Nat
ASSUME ClientNullAssumption ==
  Null \notin Users \cup Sockets \cup [roomId : RoomIds, members : SUBSET PeerIds]

VARIABLES
  ws,          \* this.ws of each user
  myPeerId,    \* this.peerId
  myToken,     \* this.sessionToken
  myRoom,      \* this.room: its id and members
  listeners,   \* this.listeners is not empty
  owner,       \* of each socket: the user whose connect() created it
  wsState,     \* readyState of the browser's socket
  handlers,    \* onopen, onmessage, onclose and onerror are set
  resume,      \* the credentials its onopen was created with
  requests,    \* how many of MaxRequests are used up
  toServer, toClient

objectVars == <<ws, myPeerId, myToken, myRoom, listeners>>
browserVars == <<owner, wsState, handlers, resume>>
clientVars == <<objectVars, browserVars, requests>>

WsStates == {"none", "connecting", "open", "closing", "closed"}

Hello(c) == [type |-> "hello", from |-> c.peerId, sessionToken |-> c.sessionToken]
JoinRoomById(r) == [type |-> "join-id", roomId |-> r]
JoinRoomByCode(c) == [type |-> "join-code", joinCode |-> c]
JoinRoomCreate == [type |-> "create"]
LeaveRoomMsg == [type |-> "leave-room"]
RelayMsg(from, to) == [type |-> "relay", from |-> from, to |-> to]

Requests == {JoinRoomById(r) : r \in RoomIds} \cup {JoinRoomByCode(c) : c \in JoinCodes}
              \cup {JoinRoomCreate}

NoCredentials == [peerId |-> Null, sessionToken |-> Null]
Credentials(u) == [peerId |-> myPeerId[u], sessionToken |-> myToken[u]]

Init ==
  /\ ws = [u \in Users |-> Null]
  /\ myPeerId = [u \in Users |-> Null]
  /\ myToken = [u \in Users |-> Null]
  /\ myRoom = [u \in Users |-> Null]
  /\ listeners = [u \in Users |-> FALSE]
  /\ owner = [s \in Sockets |-> Null]
  /\ wsState = [s \in Sockets |-> "none"]
  /\ handlers = [s \in Sockets |-> FALSE]
  /\ resume = [s \in Sockets |-> NoCredentials]
  /\ requests = 0
  /\ toServer = [s \in Sockets |-> <<>>]
  /\ toClient = [s \in Sockets |-> <<>>]

-----------------------------------------------------------------------------
(* Sending.                                                                *)

\* Mutant: send() does not look at readyState.
CanSendAlways(u) == ws[u] # Null

CanSend(u) == ws[u] # Null /\ wsState[ws[u]] = "open"

\* send(): dropped without a word when the socket is not open.
Send(u, msg) ==
  toServer' = IF CanSend(u) THEN [toServer EXCEPT ![ws[u]] = Append(@, msg)] ELSE toServer

\* An answer to a join or leave is still to come.
Waiting(u) ==
  LET Pending(channel, types) == \E i \in DOMAIN channel : channel[i].type \in types
  IN /\ ws[u] # Null
     /\ \/ Pending(toServer[ws[u]], {"join-id", "join-code", "create", "leave-room"})
        \/ Pending(toClient[ws[u]], {"room-joined", "room-left", "error"})

Request(u, msg) ==
  /\ requests < MaxRequests
  /\ CanSend(u)
  /\ myPeerId[u] # Null
  /\ requests' = requests + 1
  /\ Send(u, msg)
  /\ UNCHANGED <<objectVars, browserVars, toClient>>

SendJoinRoom(u, msg) ==
  /\ SwitchesRooms \/ (myRoom[u] = Null /\ ~Waiting(u))
  /\ Request(u, msg)

SendLeaveRoom(u) ==
  /\ SwitchesRooms \/ ~Waiting(u)
  /\ myRoom[u] # Null
  /\ Request(u, LeaveRoomMsg)

\* sendOffer, sendAnswer, sendIceCandidate, sendError.
SendRelay(u, to) == Request(u, RelayMsg(myPeerId[u], to))

-----------------------------------------------------------------------------
(* Connecting and closing.                                                 *)

\* close() of a browser socket, and what its states do to the frames for it.
Closing(s) == IF wsState[s] \in {"connecting", "open"} THEN "closing" ELSE wsState[s]

\* Mutant: the old socket keeps its handlers.
HandlersAfterTeardownKept(old) == handlers

HandlersAfterTeardown(old) == [handlers EXCEPT ![old] = FALSE]

\* Mutant: a socket that is open already is left as it is.
TornDownNever(u) == {}

\* The socket connect() tears down.
TornDown(u) == {ws[u]} \ {Null}

\* connect(), after which the application subscribes with on().
Connect(u, s, c) ==
  /\ owner[s] = Null
  /\ ReconnectsPromptly \/ \A t \in Sockets :
       owner[t] = u /\ t # ws[u] /\ handlers[t] => wsState[t] # "closing"
  /\ c \in {NoCredentials, Credentials(u)}
  /\ ws' = [ws EXCEPT ![u] = s]
  /\ owner' = [owner EXCEPT ![s] = u]
  /\ wsState' = [t \in Sockets |->
       IF t = s THEN "connecting" ELSE IF t \in TornDown(u) THEN Closing(t) ELSE wsState[t]]
  /\ handlers' = [t \in Sockets |->
       IF t = s THEN TRUE
       ELSE IF t \in TornDown(u) THEN HandlersAfterTeardown(t)[t] ELSE handlers[t]]
  /\ toClient' = [t \in Sockets |-> IF t \in TornDown(u) THEN <<>> ELSE toClient[t]]
  /\ resume' = [resume EXCEPT ![s] = c]
  /\ listeners' = [listeners EXCEPT ![u] = TRUE]
  /\ UNCHANGED <<myPeerId, myToken, myRoom, requests, toServer>>

\* disconnect(): the handlers stay.
Disconnect(u) ==
  LET s == ws[u]
  IN /\ s # Null
     /\ ws' = [ws EXCEPT ![u] = Null]
     /\ wsState' = [wsState EXCEPT ![s] = Closing(s)]
     /\ toClient' = [toClient EXCEPT ![s] = <<>>]
     /\ UNCHANGED <<myPeerId, myToken, myRoom, listeners, owner, handlers, resume, requests,
                    toServer>>

-----------------------------------------------------------------------------
(* Events of a socket.                                                     *)

OnOpen(s) ==
  /\ wsState[s] = "connecting"
  /\ wsState' = [wsState EXCEPT ![s] = "open"]
  /\ toServer' = IF handlers[s] /\ ws[owner[s]] # Null
                    /\ (ws[owner[s]] = s \/ CanSend(owner[s]))
                 THEN [toServer EXCEPT ![ws[owner[s]]] = Append(@, Hello(resume[s]))]
                 ELSE toServer
  /\ UNCHANGED <<objectVars, owner, handlers, resume, requests, toClient>>

\* Lost or closed, by either side; what was still on its way to it is lost.
OnClose(s) ==
  LET u == owner[s]
  IN /\ wsState[s] \in {"connecting", "open", "closing"}
     /\ wsState' = [wsState EXCEPT ![s] = "closed"]
     /\ toClient' = [toClient EXCEPT ![s] = <<>>]
     /\ ws' = IF handlers[s] THEN [ws EXCEPT ![u] = Null] ELSE ws
     /\ listeners' = IF handlers[s] THEN [listeners EXCEPT ![u] = FALSE] ELSE listeners
     /\ UNCHANGED <<myPeerId, myToken, myRoom, owner, handlers, resume, requests, toServer>>

(***************************************************************************)
(* The same event when the handler of "disconnected" calls connect():      *)
(* onclose emits the event before it clears the listeners and ws, so what  *)
(* connect() has put there goes with them, and the new socket is left with *)
(* its handlers and without a client.  What else that handler may call     *)
(* does no more than it would just before or after the event.              *)
(***************************************************************************)
OnCloseReconnecting(s) ==
  LET u == owner[s]
  IN /\ ReconnectsInHandler
     /\ wsState[s] \in {"connecting", "open", "closing"}
     /\ u # Null /\ handlers[s] /\ listeners[u]
     /\ \E t \in {free \in Sockets : owner[free] = Null},
           c \in {NoCredentials, Credentials(u)} :
          /\ owner' = [owner EXCEPT ![t] = u]
          /\ resume' = [resume EXCEPT ![t] = c]
          /\ wsState' = [r \in Sockets |->
               IF r = t THEN "connecting" ELSE IF r = s THEN "closed"
               ELSE IF r \in TornDown(u) THEN Closing(r) ELSE wsState[r]]
          /\ handlers' = [r \in Sockets |->
               IF r = t THEN TRUE
               ELSE IF r \in TornDown(u) THEN HandlersAfterTeardown(r)[r] ELSE handlers[r]]
     /\ toClient' = [r \in Sockets |->
          IF r \in TornDown(u) \cup {s} THEN <<>> ELSE toClient[r]]
     /\ ws' = [ws EXCEPT ![u] = Null]
     /\ listeners' = [listeners EXCEPT ![u] = FALSE]
     /\ UNCHANGED <<myPeerId, myToken, myRoom, requests, toServer>>

SocketCloses(s) == OnClose(s) \/ OnCloseReconnecting(s)

\* Mutant: room-left does not reset the room.
RoomAfterKeepsLeft(room, msg) ==
  CASE msg.type = "room-joined" -> [roomId |-> msg.roomId, members |-> msg.members]
    [] msg.type = "room-peer-joined" /\ room # Null ->
         [room EXCEPT !.members = @ \cup {msg.peerId}]
    [] msg.type = "room-peer-left" /\ room # Null ->
         [room EXCEPT !.members = @ \ {msg.peerId}]
    [] msg.type = "room-expired" -> Null
    [] OTHER -> room

\* this.room after a message.
RoomAfter(room, msg) ==
  CASE msg.type = "room-joined" -> [roomId |-> msg.roomId, members |-> msg.members]
    [] msg.type = "room-peer-joined" /\ room # Null ->
         [room EXCEPT !.members = @ \cup {msg.peerId}]
    [] msg.type = "room-peer-left" /\ room # Null ->
         [room EXCEPT !.members = @ \ {msg.peerId}]
    [] msg.type \in {"room-expired", "room-left"} -> Null
    [] OTHER -> room

\* Mutant: the token of the first session is kept.
TokenAfterKeepsFirst(token, msg) ==
  IF msg.type = "peer-id" /\ token = Null THEN msg.sessionToken ELSE token

\* Mutant: the wrong field of peer-id is taken.
TokenAfterPeerId(token, msg) == IF msg.type = "peer-id" THEN msg.peerId ELSE token

TokenAfter(token, msg) == IF msg.type = "peer-id" THEN msg.sessionToken ELSE token

\* onmessage and handleMessage; the browser drops frames of a socket that is not open.
OnMessage(s) ==
  LET u == owner[s]
      msg == Head(toClient[s])
  IN /\ toClient[s] # <<>>
     /\ wsState[s] = "open" /\ handlers[s]
     /\ toClient' = [toClient EXCEPT ![s] = Tail(@)]
     /\ myPeerId' = IF msg.type = "peer-id" THEN [myPeerId EXCEPT ![u] = msg.peerId]
                    ELSE myPeerId
     /\ myToken' = [myToken EXCEPT ![u] = TokenAfter(@, msg)]
     /\ myRoom' = [myRoom EXCEPT ![u] = RoomAfter(@, msg)]
     /\ UNCHANGED <<ws, listeners, browserVars, requests, toServer>>

-----------------------------------------------------------------------------
\* What the application does.
Calls(u) ==
  \/ \E s \in Sockets, c \in {NoCredentials, Credentials(u)} : Connect(u, s, c)
  \/ Disconnect(u)
  \/ \E msg \in Requests : SendJoinRoom(u, msg)
  \/ SendLeaveRoom(u)
  \/ \E to \in PeerIds : SendRelay(u, to)
=============================================================================
