--------------------------- MODULE ClientServerProofs ---------------------------
(***************************************************************************)
(* Proofs about ClientServer, for any sets of users, sockets, ids and      *)
(* codes.  The server inside the composition is the server of              *)
(* SignalingServer, so what SignalingServerProofs shows of it holds here.  *)
(***************************************************************************)
EXTENDS ClientServer, FiniteSetTheorems, SequenceTheorems, TLAPS

Proved == INSTANCE SignalingServerProofs

-----------------------------------------------------------------------------
(* The types of the frames.                                                *)

ClientFrames ==
  [type : {"hello"}, from : PeerIds \cup {Null}, sessionToken : Tokens \cup {Null}]
    \cup [type : {"join-id"}, roomId : RoomIds]
    \cup [type : {"join-code"}, joinCode : JoinCodes]
    \cup [type : {"create", "leave-room"}]
    \cup [type : {"relay"}, from : PeerIds, to : PeerIds]

FramesOK ==
  /\ resume \in [Sockets -> [peerId : PeerIds \cup {Null}, sessionToken : Tokens \cup {Null}]]
  /\ myRoom \in [Users -> [roomId : RoomIds, members : SUBSET PeerIds] \cup {Null}]
  /\ toServer \in [Sockets -> Seq(ClientFrames)]
  /\ toClient \in [Sockets -> Seq(ServerFrames)]

TypeInv == Server!TypeOK /\ ClientTypeOK /\ FramesOK

(***************************************************************************)
(* The sockets of the clients of patient applications.                     *)
(***************************************************************************)
SocketInv ==
  /\ \A s \in Sockets :
       /\ owner[s] = Null <=> wsState[s] = "none"
       /\ wsState[s] \in {"none", "connecting"} => toServer[s] = <<>> /\ peerId[s] = Null
       /\ wsState[s] = "open" \/ toServer[s] # <<>> \/ peerId[s] # Null =>
            readyState[s] # "none"
       /\ handlers[s] => owner[s] # Null
  /\ \A u \in Users : ws[u] # Null =>
       owner[ws[u]] = u /\ handlers[ws[u]] /\ wsState[ws[u]] \in {"connecting", "open"}

\* Only the socket in ws of its user is connecting or open and has handlers.
SoleSocket ==
  \A s \in Sockets : handlers[s] /\ wsState[s] # "closed" =>
    /\ ws[owner[s]] \in {s, Null}
    /\ wsState[s] \in {"connecting", "open"} => ws[owner[s]] = s

\* hello is the first frame of a connection and no other.
HelloInv ==
  \A s \in Sockets : Server!Listening(s) =>
    /\ \A i \in DOMAIN toServer[s] :
         toServer[s][i].type = "hello" <=> i = 1 /\ peerId[s] = Null
    /\ wsState[s] = "open" /\ handlers[s] /\ peerId[s] = Null => toServer[s] # <<>>

IsPeerId(msg) == msg.type = "peer-id"

\* The answer to hello is on its way, or the client has it.
CredentialsInv ==
  /\ \A s \in Sockets : \A i \in DOMAIN toClient[s] : IsPeerId(toClient[s][i]) =>
       peerId[s] # Null /\ toClient[s][i] = Server!PeerIdMsg(peerId[s], sessionToken[s])
  /\ \A u \in Users :
       /\ ws[u] # Null
       /\ wsState[ws[u]] = "open" /\ readyState[ws[u]] = "open" /\ peerId[ws[u]] # Null
       => \/ \E i \in DOMAIN toClient[ws[u]] : IsPeerId(toClient[ws[u]][i])
          \/ myPeerId[u] = peerId[ws[u]] /\ myToken[u] = sessionToken[ws[u]]

-----------------------------------------------------------------------------
(* The server of the composition.                                          *)

LEMMA Assumptions ==
  /\ Proved!NullAssumption
  /\ Proved!IdKindsAssumption
  /\ Proved!MaxPeersAssumption
  /\ Proved!MaxConnectionsAssumption
BY ServerAssumption
DEF Proved!NullAssumption, Proved!IdKindsAssumption, Proved!MaxPeersAssumption,
  Proved!MaxConnectionsAssumption, Proved!Room, Proved!IsFiniteSet,
  Server!NullAssumption, Server!IdKindsAssumption, Server!MaxPeersAssumption,
  Server!MaxConnectionsAssumption, Server!Room, Server!IsFiniteSet

LEMMA Nulls ==
  /\ Null \notin Users \cup Sockets \cup PeerIds \cup Tokens \cup RoomIds \cup JoinCodes
  /\ Null \notin Server!Room \cup ServerFrames
BY ServerAssumption, ClientNullAssumption, FrameAssumption DEF Server!NullAssumption

\* A step of the server that sends messages of their types, none of them peer-id.
NoneNamed ==
  /\ sent' \in [Sockets -> ServerFrames \cup {Null}]
  /\ \A s \in Sockets : sent'[s] # Null => ~IsPeerId(sent'[s])

Unnamed(msgs) == \A s \in DOMAIN msgs : msgs[s] \in ServerFrames /\ ~IsPeerId(msgs[s])

LEMMA SendUnnamed ==
  ASSUME NEW msgs, Unnamed(msgs), Server!Send(msgs) PROVE NoneNamed
BY DEF Server!Send, NoneNamed, Unnamed

LEMMA NothingUnnamed == Unnamed(Server!NoMessages)
BY DEF Server!NoMessages, Unnamed

LEMMA ToUnnamed ==
  ASSUME NEW s, NEW msg \in ServerFrames, ~IsPeerId(msg) PROVE Unnamed(Server!To(s, msg))
BY DEF Server!To, Unnamed

LEMMA ReplyUnnamed ==
  ASSUME NEW s, NEW msg \in ServerFrames, ~IsPeerId(msg), NEW others, Unnamed(others)
  PROVE  Unnamed(Server!Reply(s, msg, others))
BY DEF Server!Reply, Unnamed

LEMMA MembersUnnamed ==
  ASSUME Server!TypeOK, NEW r \in RoomIds, NEW p \in PeerIds,
         NEW event \in {"room-peer-joined", "room-peer-left"}
  PROVE  Unnamed(Server!NotifyMembers(event, r, p))
<1>1. /\ Server!PeerEvent(event, r, p) \in ServerFrames
      /\ Server!PeerEvent(event, r, p).type = event
  BY DEF Server!PeerEvent, ServerFrames
<1> QED
  BY <1>1 DEF Server!NotifyMembers, Unnamed, IsPeerId

\* The requests leave the sessions alone.
SessionsKept == UNCHANGED <<peerId, sessionToken>> /\ NoneNamed

LEMMA RefuseKeeps ==
  ASSUME NEW s, NEW code \in ErrorCodes, Server!Refuse(s, code)
  PROVE  SessionsKept /\ UNCHANGED readyState
<1>1. Server!Error(code) \in ServerFrames /\ ~IsPeerId(Server!Error(code))
  BY DEF Server!Error, ServerFrames, IsPeerId
<1>2. Server!Send(Server!To(s, Server!Error(code))) /\ UNCHANGED <<peerId, sessionToken, readyState>>
  BY DEF Server!Refuse, Server!socketVars
<1> QED
  BY <1>1, <1>2, ToUnnamed, SendUnnamed DEF SessionsKept

LEMMA JoinKeeps ==
  ASSUME Server!TypeOK, NEW s \in Sockets, NEW r \in RoomIds, Server!JoinById(s, r)
  PROVE  SessionsKept /\ UNCHANGED readyState
<1> DEFINE p == peerId[s]
           room == [rooms[r] EXCEPT !.members = @ \cup {p}]
           reply == Server!RoomJoined(r, room.joinCode, room.hostPeerId, room.members)
<1>1. CASE Server!JoinResult(p, r) = "success"
  <2>1. /\ rooms[r] \in Server!Room /\ p \in PeerIds
    BY <1>1 DEF Server!JoinById, Server!Authenticated, Server!JoinResult, Server!TypeOK
  <2>2. reply \in ServerFrames /\ ~IsPeerId(reply)
    BY <2>1 DEF Server!RoomJoined, ServerFrames, IsPeerId, Server!Room
  <2>3. /\ Server!Send(Server!Reply(s, reply, Server!NotifyMembers("room-peer-joined", r, p)))
        /\ UNCHANGED <<peerId, sessionToken, readyState>>
    BY <1>1 DEF Server!JoinById, Server!AddPeerToRoom, Server!socketVars
  <2> HIDE DEF reply, p
  <2> QED
    BY <2>1, <2>2, <2>3, MembersUnnamed, ReplyUnnamed, SendUnnamed DEF SessionsKept
<1>2. CASE Server!JoinResult(p, r) # "success"
  <2>1. Server!JoinResult(p, r) \in ErrorCodes
    BY <1>2 DEF Server!JoinResult, ErrorCodes
  <2>2. Server!Refuse(s, Server!JoinResult(p, r))
    BY <1>2 DEF Server!JoinById
  <2> QED
    BY <2>1, <2>2, RefuseKeeps
<1> QED
  BY <1>1, <1>2

LEMMA JoinCodeKeeps ==
  ASSUME Server!TypeOK, NEW s \in Sockets, NEW c \in JoinCodes, Server!JoinByCode(s, c)
  PROVE  SessionsKept /\ UNCHANGED readyState
<1>1. CASE joinCodeToRoomId[c] = Null
  BY <1>1, RefuseKeeps DEF Server!JoinByCode, ErrorCodes
<1>2. CASE joinCodeToRoomId[c] # Null
  BY <1>2, JoinKeeps DEF Server!JoinByCode, Server!TypeOK
<1> QED
  BY <1>1, <1>2

LEMMA CreateKeeps ==
  ASSUME Server!TypeOK, NEW s \in Sockets, NEW r \in RoomIds, NEW c \in JoinCodes,
         Server!CreateRoom(s, r, c)
  PROVE  SessionsKept /\ UNCHANGED readyState
<1> DEFINE p == peerId[s]
           reply == Server!RoomJoined(r, c, p, {p})
<1>1. p \in PeerIds
  BY DEF Server!CreateRoom, Server!Authenticated, Server!TypeOK
<1>2. reply \in ServerFrames /\ ~IsPeerId(reply)
  BY <1>1 DEF Server!RoomJoined, ServerFrames, IsPeerId
<1>3. Server!Send(Server!To(s, reply)) /\ UNCHANGED <<peerId, sessionToken, readyState>>
  BY DEF Server!CreateRoom, Server!socketVars
<1> HIDE DEF reply
<1> QED
  BY <1>2, <1>3, ToUnnamed, SendUnnamed DEF SessionsKept

LEMMA LeaveKeeps ==
  ASSUME Server!TypeOK, NEW s \in Sockets, Server!LeaveRoom(s) \/ Server!LeaveRefused(s)
  PROVE  SessionsKept /\ UNCHANGED readyState
<1> DEFINE p == peerId[s]
           r == roomId[s]
           reply == Server!RoomLeft(r, p)
<1>1. CASE Server!LeaveRoom(s)
  <2>1. r \in RoomIds /\ p \in PeerIds
    BY <1>1 DEF Server!LeaveRoom, Server!Authenticated, Server!TypeOK
  <2>2. reply \in ServerFrames /\ ~IsPeerId(reply)
    BY <2>1 DEF Server!RoomLeft, ServerFrames, IsPeerId
  <2>3. /\ Server!Send(Server!Reply(s, reply, Server!NotifyMembers("room-peer-left", r, p)))
        /\ UNCHANGED <<peerId, sessionToken, readyState>>
    BY <1>1 DEF Server!LeaveRoom, Server!socketVars
  <2> HIDE DEF reply, p, r
  <2> QED
    BY <2>1, <2>2, <2>3, MembersUnnamed, ReplyUnnamed, SendUnnamed DEF SessionsKept
<1>2. CASE Server!LeaveRefused(s)
  BY <1>2, RefuseKeeps DEF Server!LeaveRefused, ErrorCodes
<1> QED
  BY <1>1, <1>2

LEMMA RelayKeeps ==
  ASSUME Server!TypeOK, NEW s \in Sockets, NEW to \in PeerIds, Server!Relay(s, to)
  PROVE  SessionsKept /\ UNCHANGED readyState
<1> DEFINE msg == Server!Relayed(peerId[s], to)
           msgs == [w \in Server!Registered({to}) |-> msg]
<1>1. msg \in ServerFrames /\ ~IsPeerId(msg)
  BY DEF Server!Relay, Server!Authenticated, Server!TypeOK, Server!Relayed, ServerFrames,
    IsPeerId
<1>2. Unnamed(msgs)
  BY <1>1 DEF Unnamed
<1>3. Server!Send(msgs) /\ UNCHANGED <<peerId, sessionToken, readyState>>
  BY DEF Server!Relay, Server!socketVars
<1> HIDE DEF msgs
<1> QED
  BY <1>2, <1>3, SendUnnamed DEF SessionsKept

\* A connection that comes, goes or is gone, and a room that expires.
LEMMA ConnectKeeps ==
  ASSUME NEW s \in Sockets, Server!Connect(s) \/ Server!BeginClose(s)
  PROVE  SessionsKept
BY NothingUnnamed, SendUnnamed DEF Server!Connect, Server!BeginClose, SessionsKept

LEMMA CloseKeeps ==
  ASSUME Server!TypeOK, NEW s \in Sockets, Server!Close(s) PROVE SessionsKept
<1>1. UNCHANGED <<peerId, sessionToken>>
  BY DEF Server!Close
<1>2. CASE roomId[s] # Null /\ Server!IsMember(peerId[s], roomId[s])
  <2>1. Server!Send(Server!NotifyMembers("room-peer-left", roomId[s], peerId[s]))
    BY <1>2 DEF Server!Close
  <2>2. roomId[s] \in RoomIds /\ peerId[s] \in PeerIds
    BY <1>2 DEF Server!TypeOK, Server!IsMember, Server!Room
  <2> QED
    BY <1>1, <2>1, <2>2, MembersUnnamed, SendUnnamed DEF SessionsKept
<1>3. CASE ~(roomId[s] # Null /\ Server!IsMember(peerId[s], roomId[s]))
  BY <1>1, <1>3, NothingUnnamed, SendUnnamed DEF Server!Close, SessionsKept
<1> QED
  BY <1>2, <1>3

LEMMA ExpireKeeps ==
  ASSUME NEW r \in RoomIds, Server!ExpireRoom(r)
  PROVE  SessionsKept /\ UNCHANGED readyState
<1> DEFINE msgs == [s \in Server!Registered(rooms[r].members) |-> Server!RoomExpired(r)]
<1>1. Unnamed(msgs)
  BY DEF Unnamed, Server!RoomExpired, ServerFrames, IsPeerId
<1>2. Server!Send(msgs) /\ UNCHANGED <<peerId, sessionToken, readyState>>
  BY DEF Server!ExpireRoom, Server!socketVars
<1> HIDE DEF msgs
<1> QED
  BY <1>1, <1>2, SendUnnamed DEF SessionsKept

-----------------------------------------------------------------------------
(* Hello, and the frames the server takes.                                 *)

(***************************************************************************)
(* What hello does to the sessions: the socket gets an id and a token, and *)
(* they are what it is sent; only the socket it replaces starts to close.  *)
(***************************************************************************)
Greets(s) ==
  \E p \in PeerIds, t \in Tokens :
    /\ Server!Listening(s) /\ peerId[s] = Null
    /\ peerId' = [peerId EXCEPT ![s] = p]
    /\ sessionToken' = [sessionToken EXCEPT ![s] = t]
    /\ sent' = [x \in Sockets |->
         IF x = s /\ readyState[s] = "open" THEN Server!PeerIdMsg(p, t) ELSE Null]
    /\ \A x \in Sockets : readyState'[x] # readyState[x] =>
         x # s /\ Server!Listening(x) /\ readyState'[x] = "closing"

LEMMA FreshGreets ==
  ASSUME Server!TypeOK, NEW s \in Sockets, NEW p \in PeerIds, NEW t \in Tokens,
         Server!HelloFresh(s, p, t)
  PROVE  Greets(s)
<1>1. sent' = [x \in Sockets |->
         IF x = s /\ readyState[s] = "open" THEN Server!PeerIdMsg(p, t) ELSE Null]
  BY DEF Server!HelloFresh, Server!Send, Server!To
<1> QED
  BY <1>1 DEF Server!HelloFresh, Greets

LEMMA ResumeGreets ==
  ASSUME Server!TypeOK, NEW s \in Sockets, NEW old \in Sockets, NEW t \in Tokens,
         Server!HelloResume(s, old, t)
  PROVE  Greets(s)
<1> DEFINE p == peerId[old]
<1>1. p \in PeerIds
  BY DEF Server!HelloResume, Server!Authenticated, Server!TypeOK
<1>2. sent' = [x \in Sockets |->
         IF x = s /\ readyState[s] = "open" THEN Server!PeerIdMsg(p, t) ELSE Null]
  BY DEF Server!HelloResume, Server!ResumedToken, Server!Send, Server!To
<1>3. readyState' = [readyState EXCEPT ![old] = "closing"] /\ old # s /\ Server!Listening(old)
  BY DEF Server!HelloResume, Server!Authenticated
<1>4. \A x \in Sockets : readyState'[x] # readyState[x] =>
         x # s /\ Server!Listening(x) /\ readyState'[x] = "closing"
  BY <1>3 DEF Server!TypeOK
<1>5. /\ Server!Listening(s) /\ peerId[s] = Null
      /\ peerId' = [peerId EXCEPT ![s] = p]
      /\ sessionToken' = [sessionToken EXCEPT ![s] = t]
  BY DEF Server!HelloResume, Server!ResumedToken
<1> HIDE DEF p
<1> QED
  BY <1>1, <1>2, <1>4, <1>5 DEF Greets

\* The frame a socket is about to be served.
LEMMA HeadFrame ==
  ASSUME TypeInv, NEW s \in Sockets, toServer[s] # <<>>
  PROVE  Head(toServer[s]) \in ClientFrames /\ Tail(toServer[s]) \in Seq(ClientFrames)
BY HeadTailProperties DEF TypeInv, FramesOK

LEMMA FrameFields ==
  ASSUME NEW msg \in ClientFrames
  PROVE  /\ msg.type = "join-id" => msg.roomId \in RoomIds
         /\ msg.type = "join-code" => msg.joinCode \in JoinCodes
         /\ msg.type = "relay" => msg.from \in PeerIds /\ msg.to \in PeerIds
BY DEF ClientFrames

\* A request of an authenticated socket is a step of the server that keeps the sessions.
LEMMA RequestServed ==
  ASSUME TypeInv, NEW s \in Sockets, NEW msg \in ClientFrames, HandleRequest(s, msg)
  PROVE  /\ Server!Next /\ SessionsKept /\ UNCHANGED readyState
         /\ msg.type # "hello" /\ peerId[s] # Null
<1> USE FrameFields DEF TypeInv
<1>1. CASE msg.type = "join-id" /\ Server!JoinById(s, msg.roomId)
  BY <1>1, JoinKeeps DEF Server!Next, Server!JoinById, Server!Authenticated
<1>2. CASE msg.type = "join-code" /\ Server!JoinByCode(s, msg.joinCode)
  BY <1>2, JoinCodeKeeps DEF Server!Next, Server!JoinByCode, Server!Authenticated
<1>3. ASSUME msg.type = "create", NEW r \in RoomIds, NEW c \in JoinCodes,
             Server!CreateRoom(s, r, c)
      PROVE  Server!Next /\ SessionsKept /\ UNCHANGED readyState /\ peerId[s] # Null
  BY <1>3, CreateKeeps DEF Server!Next, Server!CreateRoom, Server!Authenticated
<1>6. ASSUME msg.type = "create", NEW r \in RoomIds, Server!CreateCollides(s, r)
      PROVE  Server!Next /\ SessionsKept /\ UNCHANGED readyState /\ peerId[s] # Null
  BY <1>6, RefuseKeeps DEF Server!Next, Server!CreateCollides, Server!Authenticated, ErrorCodes
<1>4. CASE msg.type = "leave-room" /\ (Server!LeaveRoom(s) \/ Server!LeaveRefused(s))
  BY <1>4, LeaveKeeps DEF Server!Next, Server!LeaveRoom, Server!LeaveRefused,
    Server!Authenticated
<1>5. CASE msg.type = "relay" /\ msg.from = peerId[s] /\ Server!Relay(s, msg.to)
  BY <1>5, RelayKeeps DEF Server!Next, Server!Relay, Server!Authenticated
<1> QED
  BY <1>1, <1>2, <1>3, <1>4, <1>5, <1>6 DEF HandleRequest

LEMMA HelloServed ==
  ASSUME TypeInv, NEW s \in Sockets, NEW msg, HandleHello(s, msg)
  PROVE  Server!Next /\ Greets(s)
<1>1. CASE Resumable(s, msg) # {}
  <2>1. PICK old \in Resumable(s, msg), t \in Tokens : Server!HelloResume(s, old, t)
    BY <1>1 DEF HandleHello
  <2>2. old \in Sockets
    BY DEF Resumable, Server!Clients
  <2> QED
    BY <2>1, <2>2, ResumeGreets DEF Server!Next, TypeInv
<1>2. CASE Resumable(s, msg) = {}
  BY <1>2, FreshGreets DEF HandleHello, Server!Next, TypeInv
<1> QED
  BY <1>1, <1>2

(***************************************************************************)
(* A frame is a hello that is answered, a request that is served, or it    *)
(* closes the connection.                                                  *)
(***************************************************************************)
Served(s) ==
  LET msg == Head(toServer[s])
  IN \/ msg.type = "hello" /\ Greets(s)
     \/ msg.type # "hello" /\ peerId[s] # Null /\ SessionsKept /\ UNCHANGED readyState
     \/ /\ msg.type # "hello" /\ SessionsKept
        /\ readyState[s] = "open" /\ readyState' = [readyState EXCEPT ![s] = "closing"]

LEMMA ReceiveServes ==
  ASSUME TypeInv, NEW s \in Sockets, Receive(s)
  PROVE  /\ Server!Next /\ Served(s)
         /\ toServer[s] # <<>> /\ toServer' = [toServer EXCEPT ![s] = Tail(@)]
         /\ Deliver /\ UNCHANGED clientVars
<1> DEFINE msg == Head(toServer[s])
<1>1. /\ toServer[s] # <<>> /\ toServer' = [toServer EXCEPT ![s] = Tail(@)]
      /\ Deliver /\ UNCHANGED clientVars
      /\ \/ msg.type = "hello" /\ HandleHello(s, msg)
         \/ HandleRequest(s, msg)
         \/ Unauthorized(s, msg) /\ Server!BeginClose(s)
  BY DEF Receive
<1>2. msg \in ClientFrames
  BY <1>1, HeadFrame
<1>3. CASE msg.type = "hello" /\ HandleHello(s, msg)
  BY <1>1, <1>3, HelloServed DEF Served
<1>4. CASE HandleRequest(s, msg)
  BY <1>1, <1>2, <1>4, RequestServed DEF Served
<1>5. CASE Unauthorized(s, msg) /\ Server!BeginClose(s)
  <2>1. Server!Next
    BY <1>5 DEF Server!Next
  <2> QED
    BY <1>1, <1>5, <2>1, ConnectKeeps DEF Served, Unauthorized, Server!BeginClose
<1> QED
  BY <1>1, <1>3, <1>4, <1>5

-----------------------------------------------------------------------------
(* Types, and the server inside the composition.                           *)

\* A step of the composition is a step of the server or leaves it alone.
LEMMA StepServes == TypeInv /\ [Next]_vars => [Server!Next]_(Server!vars)
<1> SUFFICES ASSUME TypeInv, [Next]_vars, ~UNCHANGED serverVars PROVE Server!Next
  BY DEF serverVars, Server!vars
<1>1. ASSUME NEW s \in Sockets, Accept(s) PROVE Server!Next
  BY <1>1 DEF Accept, ServerStep, Server!Next
<1>2. ASSUME NEW s \in Sockets, Receive(s) PROVE Server!Next
  BY <1>2, ReceiveServes
<1>3. ASSUME NEW s \in Sockets, NoticeGone(s) PROVE Server!Next
  BY <1>3 DEF NoticeGone, ServerStep, Server!Next
<1>4. ASSUME NEW s \in Sockets, ServerClosed(s) PROVE Server!Next
  BY <1>4 DEF ServerClosed, Server!Next
<1>5. ASSUME NEW r \in RoomIds, ServerStep(Server!ExpireRoom(r)) PROVE Server!Next
  BY <1>5 DEF ServerStep, Server!Next
<1> QED
  BY <1>1, <1>2, <1>3, <1>4, <1>5 DEF Next, vars, Opened, ClientStep

\* The two instances of the server are the same.
LEMMA SameType == Proved!TypeOK <=> Server!TypeOK
BY DEF Proved!TypeOK, Server!TypeOK, Proved!ReadyStates, Server!ReadyStates, Proved!Room,
  Server!Room

LEMMA SameInit == Proved!Init <=> Server!Init
BY DEF Proved!Init, Server!Init

LEMMA SameNext == Proved!Next <=> Server!Next
BY DEF Proved!Next, Server!Next,
  Proved!Connect, Server!Connect, Proved!BeginClose, Server!BeginClose,
  Proved!HelloFresh, Server!HelloFresh, Proved!HelloResume, Server!HelloResume,
  Proved!JoinById, Server!JoinById, Proved!JoinByCode, Server!JoinByCode,
  Proved!CreateRoom, Server!CreateRoom, Proved!CreateCollides, Server!CreateCollides,
  Proved!LeaveRoom, Server!LeaveRoom, Proved!LeaveRefused, Server!LeaveRefused,
  Proved!Relay, Server!Relay, Proved!Close, Server!Close,
  Proved!ExpireRoom, Server!ExpireRoom, Proved!Stop, Server!Stop,
  Proved!socketVars, Server!socketVars, Proved!registryVars, Server!registryVars,
  Proved!roomVars, Server!roomVars, Proved!Clients, Server!Clients,
  Proved!Listening, Server!Listening, Proved!Authenticated, Server!Authenticated,
  Proved!IsMember, Server!IsMember, Proved!OverCap, Server!OverCap,
  Proved!Send, Server!Send, Proved!NoMessages, Server!NoMessages, Proved!To, Server!To,
  Proved!Reply, Server!Reply, Proved!Error, Server!Error,
  Proved!PeerIdMsg, Server!PeerIdMsg, Proved!RoomJoined, Server!RoomJoined,
  Proved!RoomLeft, Server!RoomLeft, Proved!RoomExpired, Server!RoomExpired,
  Proved!PeerEvent, Server!PeerEvent, Proved!Relayed, Server!Relayed,
  Proved!Registered, Server!Registered, Proved!NotifyMembers, Server!NotifyMembers,
  Proved!ResumedToken, Server!ResumedToken, Proved!JoinResult, Server!JoinResult,
  Proved!Refuse, Server!Refuse, Proved!AddPeerToRoom, Server!AddPeerToRoom,
  Proved!MapJoinCode, Server!MapJoinCode,
  Proved!ScheduleRoomExpiration, Server!ScheduleRoomExpiration,
  Proved!ClearRoomTimer, Server!ClearRoomTimer, Proved!CleanupRoom, Server!CleanupRoom,
  Proved!RemovePeerFromRoom, Server!RemovePeerFromRoom,
  Proved!Unregister, Server!Unregister, Proved!Cardinality, Server!Cardinality

LEMMA SameStep == [Proved!Next]_(Proved!vars) <=> [Server!Next]_(Server!vars)
BY SameNext DEF Proved!vars, Server!vars

LEMMA ServerType == Server!TypeOK /\ [Server!Next]_(Server!vars) => Server!TypeOK'
<1>1. Proved!TypeOK /\ [Proved!Next]_(Proved!vars) => Proved!TypeOK'
  BY Proved!NextType, Assumptions
  DEF Proved!NullAssumption, Proved!IdKindsAssumption, Proved!MaxPeersAssumption,
    Proved!MaxConnectionsAssumption
<1>2. Proved!TypeOK' <=> Server!TypeOK'
  BY DEF Proved!TypeOK, Server!TypeOK, Proved!ReadyStates, Server!ReadyStates, Proved!Room,
    Server!Room
<1> QED
  BY <1>1, <1>2, SameType, SameStep

\* What the server sends has its type.
LEMMA SentTyped ==
  ASSUME NoneNamed \/ \E s \in Sockets : Greets(s)
  PROVE  sent' \in [Sockets -> ServerFrames \cup {Null}]
<1>1. ASSUME NEW s \in Sockets, Greets(s)
      PROVE  sent' \in [Sockets -> ServerFrames \cup {Null}]
  <2>1. \A p \in PeerIds, t \in Tokens : Server!PeerIdMsg(p, t) \in ServerFrames
    BY DEF Server!PeerIdMsg, ServerFrames
  <2> QED
    BY <1>1, <2>1 DEF Greets
<1> QED
  BY <1>1 DEF NoneNamed

LEMMA DeliverTyped ==
  ASSUME TypeInv, sent' \in [Sockets -> ServerFrames \cup {Null}], Deliver
  PROVE  toClient' \in [Sockets -> Seq(ServerFrames)]
<1>1. ASSUME NEW s \in Sockets, sent'[s] # Null PROVE Append(toClient[s], sent'[s]) \in Seq(ServerFrames)
  BY <1>1, AppendProperties DEF TypeInv, FramesOK
<1> QED
  BY <1>1 DEF Deliver, TypeInv, FramesOK

ClientRooms == [roomId : RoomIds, members : SUBSET PeerIds]

LEMMA RoomAfterTyped ==
  ASSUME NEW room \in ClientRooms \cup {Null}, NEW msg \in ServerFrames
  PROVE  RoomAfter(room, msg) \in ClientRooms \cup {Null}
<1>1. CASE msg.type = "room-joined"
  BY <1>1 DEF RoomAfter, ServerFrames, ClientRooms
<1>2. CASE msg.type = "room-peer-joined" /\ room # Null
  BY <1>2 DEF RoomAfter, ServerFrames, ClientRooms
<1>3. CASE msg.type = "room-peer-left" /\ room # Null
  BY <1>3 DEF RoomAfter, ServerFrames, ClientRooms
<1>4. CASE msg.type \in {"room-expired", "room-left"}
  BY <1>4 DEF RoomAfter
<1> QED
  BY <1>1, <1>2, <1>3, <1>4 DEF RoomAfter

LEMMA PeerIdFields ==
  ASSUME NEW msg \in ServerFrames, IsPeerId(msg)
  PROVE  msg.peerId \in PeerIds /\ msg.sessionToken \in Tokens
BY DEF ServerFrames, IsPeerId

\* The messages of the client have their types.
LEMMA RequestsTyped ==
  /\ Requests \subseteq ClientFrames
  /\ LeaveRoomMsg \in ClientFrames
  /\ \A from, to \in PeerIds : RelayMsg(from, to) \in ClientFrames
  /\ \A c \in [peerId : PeerIds \cup {Null}, sessionToken : Tokens \cup {Null}] :
       Hello(c) \in ClientFrames
BY DEF Requests, JoinRoomById, JoinRoomByCode, JoinRoomCreate, LeaveRoomMsg, RelayMsg, Hello,
  ClientFrames

LEMMA AppendTyped ==
  ASSUME TypeInv, NEW s \in Sockets, NEW msg \in ClientFrames
  PROVE  [toServer EXCEPT ![s] = Append(@, msg)] \in [Sockets -> Seq(ClientFrames)]
<1>1. Append(toServer[s], msg) \in Seq(ClientFrames)
  BY AppendProperties DEF TypeInv, FramesOK
<1> QED
  BY <1>1 DEF TypeInv, FramesOK

LEMMA EmptyTyped == \A S : <<>> \in Seq(S)
OBVIOUS

LEMMA InitTypes == SystemInit => TypeInv
<1> SUFFICES ASSUME SystemInit PROVE TypeInv
  OBVIOUS
<1>1. Server!TypeOK
  BY Nulls DEF SystemInit, Server!Init, Server!TypeOK, Server!ReadyStates
<1>2. ClientTypeOK
  BY ApplicationAssumption DEF SystemInit, Init, ClientTypeOK, WsStates
<1>3. FramesOK
  BY EmptyTyped DEF SystemInit, Init, FramesOK, NoCredentials
<1> QED
  BY <1>1, <1>2, <1>3 DEF TypeInv

LEMMA RequestTypes ==
  ASSUME TypeInv, NEW u \in Users, NEW msg \in ClientFrames, Request(u, msg)
  PROVE  ClientTypeOK' /\ FramesOK'
<1>1. ws[u] \in Sockets /\ toServer' = [toServer EXCEPT ![ws[u]] = Append(@, msg)]
  BY DEF Request, CanSend, Send, TypeInv, ClientTypeOK
<1>2. toServer' \in [Sockets -> Seq(ClientFrames)]
  BY <1>1, AppendTyped
<1>3. /\ requests' = requests + 1 /\ requests < MaxRequests
      /\ UNCHANGED <<objectVars, browserVars, toClient>>
  BY DEF Request
<1> QED
  BY <1>2, <1>3, ApplicationAssumption
  DEF TypeInv, ClientTypeOK, FramesOK, objectVars, browserVars

LEMMA ConnectTypes ==
  ASSUME TypeInv, NEW u \in Users, NEW s \in Sockets,
         NEW c \in {NoCredentials, Credentials(u)}, Connect(u, s, c)
  PROVE  ClientTypeOK' /\ FramesOK'
<1>1. c \in [peerId : PeerIds \cup {Null}, sessionToken : Tokens \cup {Null}]
  BY DEF NoCredentials, Credentials, TypeInv, ClientTypeOK
<1>2. ClientTypeOK'
  <2>1. /\ ws' \in [Users -> Sockets \cup {Null}]
        /\ owner' \in [Sockets -> Users \cup {Null}]
        /\ listeners' \in [Users -> BOOLEAN]
    BY DEF Connect, TypeInv, ClientTypeOK
  <2>2. wsState' \in [Sockets -> WsStates]
    BY DEF Connect, Closing, TypeInv, ClientTypeOK, WsStates
  <2>3. handlers' \in [Sockets -> BOOLEAN]
    <3>1. \A t \in Sockets : handlers'[t] \in BOOLEAN
      BY DEF Connect, HandlersAfterTeardown, TypeInv, ClientTypeOK
    <3> QED
      BY <3>1 DEF Connect
  <2> QED
    BY <2>1, <2>2, <2>3 DEF Connect, TypeInv, ClientTypeOK
<1>3. FramesOK'
  BY <1>1, EmptyTyped DEF Connect, TypeInv, FramesOK
<1> QED
  BY <1>2, <1>3

LEMMA DisconnectTypes ==
  ASSUME TypeInv, NEW u \in Users, Disconnect(u)
  PROVE  ClientTypeOK' /\ FramesOK'
BY EmptyTyped DEF Disconnect, Closing, TypeInv, ClientTypeOK, FramesOK, WsStates

LEMMA OpenTypes ==
  ASSUME TypeInv, NEW s \in Sockets, OnOpen(s)
  PROVE  ClientTypeOK' /\ FramesOK'
<1>1. toServer' \in [Sockets -> Seq(ClientFrames)]
  <2>1. CASE UNCHANGED toServer
    BY <2>1 DEF TypeInv, FramesOK
  <2>2. CASE toServer' # toServer
    <3> DEFINE w == ws[owner[s]]
    <3>1. w # Null /\ toServer' = [toServer EXCEPT ![w] = Append(@, Hello(resume[s]))]
      BY <2>2 DEF OnOpen
    <3>2. CASE w \in Sockets
      <4>1. Hello(resume[s]) \in ClientFrames
        BY RequestsTyped DEF TypeInv, FramesOK
      <4> HIDE DEF w
      <4> QED
        BY <3>1, <3>2, <4>1, AppendTyped
    <3>3. CASE w \notin Sockets
      <4> HIDE DEF w
      <4> QED
        BY <3>1, <3>3 DEF TypeInv, FramesOK
    <3> QED
      BY <3>2, <3>3
  <2> QED
    BY <2>1, <2>2
<1> QED
  BY <1>1 DEF OnOpen, TypeInv, ClientTypeOK, FramesOK, objectVars, WsStates

LEMMA CloseTypes ==
  ASSUME TypeInv, NEW s \in Sockets, OnClose(s)
  PROVE  ClientTypeOK' /\ FramesOK'
<1>1. toClient' \in [Sockets -> Seq(ServerFrames)]
  BY EmptyTyped DEF OnClose, TypeInv, FramesOK
<1>2. ws' \in [Users -> Sockets \cup {Null}] /\ listeners' \in [Users -> BOOLEAN]
  BY DEF OnClose, TypeInv, ClientTypeOK
<1>3. wsState' \in [Sockets -> WsStates]
  BY DEF OnClose, TypeInv, ClientTypeOK, WsStates
<1> QED
  BY <1>1, <1>2, <1>3 DEF OnClose, TypeInv, ClientTypeOK, FramesOK

LEMMA CloseReconnectingTypes ==
  ASSUME TypeInv, NEW s \in Sockets, OnCloseReconnecting(s)
  PROVE  ClientTypeOK' /\ FramesOK'
<1> DEFINE u == owner[s]
<1>1. PICK t \in Sockets, c \in {NoCredentials, Credentials(u)} :
        /\ owner' = [owner EXCEPT ![t] = u]
        /\ resume' = [resume EXCEPT ![t] = c]
        /\ wsState' = [r \in Sockets |->
             IF r = t THEN "connecting" ELSE IF r = s THEN "closed"
             ELSE IF r \in TornDown(u) THEN Closing(r) ELSE wsState[r]]
        /\ handlers' = [r \in Sockets |->
             IF r = t THEN TRUE
             ELSE IF r \in TornDown(u) THEN HandlersAfterTeardown(r)[r] ELSE handlers[r]]
  BY DEF OnCloseReconnecting
<1>2. u \in Users
  BY DEF OnCloseReconnecting, TypeInv, ClientTypeOK
<1> HIDE DEF u
<1>3. c \in [peerId : PeerIds \cup {Null}, sessionToken : Tokens \cup {Null}]
  BY <1>2 DEF NoCredentials, Credentials, TypeInv, ClientTypeOK
<1>4. /\ owner' \in [Sockets -> Users \cup {Null}]
      /\ resume' \in [Sockets -> [peerId : PeerIds \cup {Null}, sessionToken : Tokens \cup {Null}]]
  BY <1>1, <1>2, <1>3 DEF TypeInv, ClientTypeOK, FramesOK
<1>5. wsState' \in [Sockets -> WsStates]
  BY <1>1 DEF Closing, TypeInv, ClientTypeOK, WsStates
<1>6. handlers' \in [Sockets -> BOOLEAN]
  <2>1. \A r \in Sockets : handlers'[r] \in BOOLEAN
    BY <1>1 DEF HandlersAfterTeardown, TypeInv, ClientTypeOK
  <2> QED
    BY <1>1, <2>1
<1>7. /\ ws' = [ws EXCEPT ![u] = Null] /\ listeners' = [listeners EXCEPT ![u] = FALSE]
      /\ toClient' = [r \in Sockets |->
           IF r \in TornDown(u) \cup {s} THEN <<>> ELSE toClient[r]]
      /\ UNCHANGED <<myPeerId, myToken, myRoom, requests, toServer>>
  BY DEF OnCloseReconnecting, u
<1>8. /\ ws' \in [Users -> Sockets \cup {Null}] /\ listeners' \in [Users -> BOOLEAN]
      /\ toClient' \in [Sockets -> Seq(ServerFrames)]
  BY <1>2, <1>7, EmptyTyped DEF TypeInv, ClientTypeOK, FramesOK
<1> QED
  BY <1>4, <1>5, <1>6, <1>7, <1>8 DEF TypeInv, ClientTypeOK, FramesOK

LEMMA MessageTypes ==
  ASSUME TypeInv, NEW s \in Sockets, OnMessage(s)
  PROVE  ClientTypeOK' /\ FramesOK'
<1> DEFINE u == owner[s]
           msg == Head(toClient[s])
<1>1. toClient[s] \in Seq(ServerFrames) /\ toClient[s] # <<>>
  BY DEF OnMessage, TypeInv, FramesOK
<1>2. msg \in ServerFrames /\ Tail(toClient[s]) \in Seq(ServerFrames)
  BY <1>1, HeadTailProperties
<1>3. toClient' \in [Sockets -> Seq(ServerFrames)]
  BY <1>2 DEF OnMessage, TypeInv, FramesOK
<1>4. /\ myPeerId' = IF msg.type = "peer-id" THEN [myPeerId EXCEPT ![u] = msg.peerId]
                     ELSE myPeerId
      /\ myToken' = [myToken EXCEPT ![u] = TokenAfter(@, msg)]
      /\ myRoom' = [myRoom EXCEPT ![u] = RoomAfter(@, msg)]
      /\ UNCHANGED <<ws, listeners, browserVars, requests, toServer>>
  BY DEF OnMessage
<1> HIDE DEF msg, u
<1>5. myPeerId' \in [Users -> PeerIds \cup {Null}] /\ myToken' \in [Users -> Tokens \cup {Null}]
  BY <1>2, <1>4, PeerIdFields DEF TypeInv, ClientTypeOK, IsPeerId, TokenAfter
<1>6. myRoom' \in [Users -> ClientRooms \cup {Null}]
  <2>1. myRoom \in [Users -> ClientRooms \cup {Null}]
    BY DEF TypeInv, FramesOK, ClientRooms
  <2> QED
    BY <1>2, <1>4, <2>1, RoomAfterTyped
<1> QED
  BY <1>3, <1>4, <1>5, <1>6 DEF TypeInv, ClientTypeOK, FramesOK, ClientRooms, browserVars

\* A step of the server leaves the clients alone; its messages arrive.
LEMMA ServerStepTypes ==
  ASSUME TypeInv, NoneNamed \/ \E s \in Sockets : Greets(s), Deliver, UNCHANGED clientVars,
         toServer' \in [Sockets -> Seq(ClientFrames)]
  PROVE  ClientTypeOK' /\ FramesOK'
<1>1. toClient' \in [Sockets -> Seq(ServerFrames)]
  BY SentTyped, DeliverTyped
<1> QED
  BY <1>1 DEF TypeInv, ClientTypeOK, FramesOK, clientVars, objectVars, browserVars

LEMMA NextTypes == TypeInv /\ [Next]_vars => TypeInv'
<1> SUFFICES ASSUME TypeInv, [Next]_vars PROVE TypeInv'
  OBVIOUS
<1>1. Server!TypeOK'
  BY StepServes, ServerType DEF TypeInv
<1>2. CASE UNCHANGED vars
  BY <1>2 DEF vars, clientVars, objectVars, browserVars, TypeInv, ClientTypeOK, FramesOK,
    serverVars, Server!TypeOK
<1>3. ASSUME NEW u \in Users, Calls(u) PROVE ClientTypeOK' /\ FramesOK'
  <2>1. ASSUME NEW msg \in Requests, SendJoinRoom(u, msg) PROVE ClientTypeOK' /\ FramesOK'
    BY <2>1, RequestsTyped, RequestTypes DEF SendJoinRoom
  <2>2. ASSUME SendLeaveRoom(u) PROVE ClientTypeOK' /\ FramesOK'
    BY <2>2, RequestsTyped, RequestTypes DEF SendLeaveRoom
  <2>3. ASSUME NEW to \in PeerIds, SendRelay(u, to) PROVE ClientTypeOK' /\ FramesOK'
    <3>1. myPeerId[u] \in PeerIds
      BY <2>3 DEF SendRelay, Request, TypeInv, ClientTypeOK
    <3> QED
      BY <2>3, <3>1, RequestsTyped, RequestTypes DEF SendRelay
  <2> QED
    BY <1>3, <2>1, <2>2, <2>3, ConnectTypes, DisconnectTypes DEF Calls
<1>4. ASSUME NEW s \in Sockets, Accept(s) PROVE ClientTypeOK' /\ FramesOK'
  <2>1. NoneNamed
    BY <1>4, ConnectKeeps DEF Accept, ServerStep, SessionsKept
  <2> QED
    BY <1>4, <2>1, ServerStepTypes DEF Accept, ServerStep, TypeInv, FramesOK
<1>5. ASSUME NEW s \in Sockets, NoticeGone(s) PROVE ClientTypeOK' /\ FramesOK'
  <2>1. NoneNamed
    BY <1>5, ConnectKeeps DEF NoticeGone, ServerStep, SessionsKept
  <2> QED
    BY <1>5, <2>1, ServerStepTypes DEF NoticeGone, ServerStep, TypeInv, FramesOK
<1>6. ASSUME NEW s \in Sockets, Receive(s) PROVE ClientTypeOK' /\ FramesOK'
  <2>1. NoneNamed \/ Greets(s)
    BY <1>6, ReceiveServes DEF Served, SessionsKept
  <2>2. toServer' \in [Sockets -> Seq(ClientFrames)]
    BY <1>6, ReceiveServes, HeadFrame DEF TypeInv, FramesOK
  <2> QED
    BY <1>6, <2>1, <2>2, ReceiveServes, ServerStepTypes
<1>7. ASSUME NEW s \in Sockets, ServerClosed(s) PROVE ClientTypeOK' /\ FramesOK'
  <2>1. NoneNamed
    BY <1>7, CloseKeeps DEF ServerClosed, SessionsKept, TypeInv
  <2>2. toServer' \in [Sockets -> Seq(ClientFrames)]
    BY <1>7, EmptyTyped DEF ServerClosed, TypeInv, FramesOK
  <2> QED
    BY <1>7, <2>1, <2>2, ServerStepTypes DEF ServerClosed
<1>8. ASSUME NEW r \in RoomIds, ServerStep(Server!ExpireRoom(r))
      PROVE  ClientTypeOK' /\ FramesOK'
  <2>1. NoneNamed
    BY <1>8, ExpireKeeps DEF ServerStep, SessionsKept
  <2> QED
    BY <1>8, <2>1, ServerStepTypes DEF ServerStep, TypeInv, FramesOK
<1>9. ClientTypeOK' /\ FramesOK'
  BY <1>2, <1>3, <1>4, <1>5, <1>6, <1>7, <1>8, OpenTypes, CloseTypes, CloseReconnectingTypes,
    MessageTypes
  DEF Next, ClientStep, Opened, SocketCloses, TypeInv
<1> QED
  BY <1>1, <1>9 DEF TypeInv

(***************************************************************************)
(* The variables of the clients keep their types: what the server sends is *)
(* what the handlers of the client expect.                                 *)
(***************************************************************************)
THEOREM ClientTypeCorrect == Spec => []ClientTypeOK
BY InitTypes, NextTypes, PTL DEF Spec, TypeInv

(***************************************************************************)
(* Whatever the clients do, the server inside the composition behaves as   *)
(* the server of SignalingServer: driven by frames in their order it takes *)
(* no step that the theorems about it do not cover.                        *)
(***************************************************************************)
THEOREM ServerRefined == Spec => Server!Spec
BY InitTypes, NextTypes, StepServes, PTL DEF Spec, SystemInit, Server!Spec

LEMMA SameSpec == Proved!Spec <=> Server!Spec
BY SameInit, SameStep, PTL DEF Proved!Spec, Server!Spec

(***************************************************************************)
(* So what is proved of the server alone holds of the server that these    *)
(* clients drive, for example that its registries lead to the right peer.  *)
(***************************************************************************)
THEOREM ComposedRegistries == Spec => []Server!RegistriesFaithful
<1>1. Proved!RegistriesFaithful <=> Server!RegistriesFaithful
  BY DEF Proved!RegistriesFaithful, Server!RegistriesFaithful, Proved!Listening,
    Server!Listening
<1>2. Proved!Spec => []Proved!RegistriesFaithful
  BY Proved!RegistriesStayFaithful, Assumptions
  DEF Proved!NullAssumption, Proved!IdKindsAssumption, Proved!MaxPeersAssumption,
    Proved!MaxConnectionsAssumption
<1> QED
  BY <1>1, <1>2, ServerRefined, SameSpec, PTL

-----------------------------------------------------------------------------
(* The sockets of the clients.                                             *)

\* The steps of the server.
ServerMove ==
  \/ \E s \in Sockets : Accept(s) \/ Receive(s) \/ NoticeGone(s) \/ ServerClosed(s)
  \/ \E r \in RoomIds : ServerStep(Server!ExpireRoom(r))

(***************************************************************************)
(* They leave the clients alone, greet only sockets that have sent a frame *)
(* and never take a connection back.                                       *)
(***************************************************************************)
LEMMA ServerMoves ==
  ASSUME TypeInv, ServerMove
  PROVE  /\ UNCHANGED clientVars /\ Deliver
         /\ \A x \in Sockets :
              /\ toServer[x] = <<>> => toServer'[x] = <<>> /\ peerId'[x] = peerId[x]
              /\ readyState'[x] = "none" => readyState[x] = "none"
<1> DEFINE Goal == /\ UNCHANGED clientVars /\ Deliver
                   /\ \A x \in Sockets :
                        /\ toServer[x] = <<>> => toServer'[x] = <<>> /\ peerId'[x] = peerId[x]
                        /\ readyState'[x] = "none" => readyState[x] = "none"
<1> SUFFICES Goal
  OBVIOUS
<1> USE DEF TypeInv
<1>1. ASSUME NEW s \in Sockets, Accept(s) PROVE Goal
  BY <1>1 DEF Accept, ServerStep, Server!Connect, Server!TypeOK
<1>2. ASSUME NEW s \in Sockets, Receive(s) PROVE Goal
  <2>1. /\ Served(s) /\ toServer[s] # <<>> /\ toServer' = [toServer EXCEPT ![s] = Tail(@)]
        /\ Deliver /\ UNCHANGED clientVars
    BY <1>2, ReceiveServes
  <2>2. CASE Greets(s)
    BY <2>1, <2>2 DEF Greets, Server!TypeOK, FramesOK
  <2>3. CASE SessionsKept /\ UNCHANGED readyState
    BY <2>1, <2>3 DEF SessionsKept, FramesOK
  <2>4. CASE SessionsKept /\ readyState' = [readyState EXCEPT ![s] = "closing"]
    BY <2>1, <2>4 DEF SessionsKept, FramesOK, Server!TypeOK
  <2> QED
    BY <2>1, <2>2, <2>3, <2>4 DEF Served
<1>3. ASSUME NEW s \in Sockets, NoticeGone(s) PROVE Goal
  BY <1>3 DEF NoticeGone, ServerStep, Server!BeginClose, Server!TypeOK
<1>4. ASSUME NEW s \in Sockets, ServerClosed(s) PROVE Goal
  <2>1. /\ readyState' = [readyState EXCEPT ![s] = "closed"] /\ UNCHANGED peerId
        /\ toServer' = [toServer EXCEPT ![s] = <<>>] /\ Deliver /\ UNCHANGED clientVars
    BY <1>4 DEF ServerClosed, Server!Close
  <2> QED
    BY <2>1 DEF Server!TypeOK, FramesOK
<1>5. ASSUME NEW r \in RoomIds, ServerStep(Server!ExpireRoom(r)) PROVE Goal
  BY <1>5 DEF ServerStep, Server!ExpireRoom, Server!socketVars
<1> QED
  BY <1>1, <1>2, <1>3, <1>4, <1>5 DEF ServerMove

\* The requests that join a room, and those that get an answer.
Joins == {"join-id", "join-code", "create"}
Answered == Joins \cup {"leave-room"}

\* The application waits for an answer before it asks again, and joins from no room.
Careful(u, msg) ==
  ~SwitchesRooms =>
    /\ msg.type \in Answered => ~Waiting(u)
    /\ msg.type \in Joins => myRoom[u] = Null

\* A step is one of the server or one of a client.
LEMMA StepKinds ==
  ASSUME Patient, [Next]_vars
  PROVE  \/ UNCHANGED vars
         \/ ServerMove
         \/ /\ UNCHANGED serverVars
            /\ \/ \E u \in Users : \E msg :
                    Request(u, msg) /\ msg.type # "hello" /\ Careful(u, msg)
               \/ \E u \in Users, s \in Sockets : \E c : Connect(u, s, c)
               \/ \E u \in Users : Disconnect(u)
               \/ \E s \in Sockets :
                    \/ readyState[s] # "none" /\ OnOpen(s)
                    \/ OnMessage(s)
                    \/ OnClose(s)
<1>1. ASSUME NEW u \in Users, Calls(u)
      PROVE  \/ \E msg : Request(u, msg) /\ msg.type # "hello" /\ Careful(u, msg)
             \/ \E s \in Sockets : \E c : Connect(u, s, c)
             \/ Disconnect(u)
  <2>1. ASSUME NEW msg \in Requests, SendJoinRoom(u, msg)
        PROVE  Request(u, msg) /\ msg.type # "hello" /\ Careful(u, msg)
    <3>1. msg.type \in Joins
      BY DEF Requests, JoinRoomById, JoinRoomByCode, JoinRoomCreate, Joins
    <3> QED
      BY <2>1, <3>1 DEF SendJoinRoom, Joins, Careful
  <2>2. SendLeaveRoom(u) => /\ Request(u, LeaveRoomMsg) /\ LeaveRoomMsg.type # "hello"
                            /\ Careful(u, LeaveRoomMsg)
    BY DEF SendLeaveRoom, LeaveRoomMsg, Careful, Joins
  <2>3. ASSUME NEW to \in PeerIds, SendRelay(u, to)
        PROVE  LET msg == RelayMsg(myPeerId[u], to)
               IN Request(u, msg) /\ msg.type # "hello" /\ Careful(u, msg)
    BY <2>3 DEF SendRelay, RelayMsg, Careful, Joins, Answered
  <2> QED
    BY <1>1, <2>1, <2>2, <2>3 DEF Calls
<1>2. CASE UNCHANGED vars
  BY <1>2
<1>3. CASE \E u \in Users : ClientStep(Calls(u))
  BY <1>1, <1>3 DEF ClientStep
<1>4. CASE \E s \in Sockets :
              Opened(s) \/ ClientStep(OnMessage(s)) \/ ClientStep(SocketCloses(s))
  BY <1>4 DEF Opened, ClientStep, SocketCloses, OnCloseReconnecting, Patient
<1> QED
  BY <1>2, <1>3, <1>4 DEF Next, ServerMove

LEMMA InitSockets == SystemInit => SocketInv /\ SoleSocket
BY DEF SystemInit, Init, Server!Init, SocketInv, SoleSocket

LEMMA NextSockets ==
  ASSUME Patient, TypeInv, SocketInv, SoleSocket, [Next]_vars
  PROVE  SocketInv' /\ SoleSocket'
<1>0. /\ ws \in [Users -> Sockets \cup {Null}]
      /\ owner \in [Sockets -> Users \cup {Null}]
      /\ wsState \in [Sockets -> WsStates]
      /\ handlers \in [Sockets -> BOOLEAN]
      /\ toServer \in [Sockets -> Seq(ClientFrames)]
      /\ Null \notin Users /\ Null \notin Sockets
  BY Nulls DEF TypeInv, ClientTypeOK, FramesOK
<1>1. CASE UNCHANGED vars
  BY <1>1 DEF vars, clientVars, objectVars, browserVars, serverVars, SocketInv, SoleSocket
<1>2. CASE ServerMove
  <2>1. /\ UNCHANGED <<ws, owner, wsState, handlers>>
        /\ \A x \in Sockets :
             /\ toServer[x] = <<>> => toServer'[x] = <<>> /\ peerId'[x] = peerId[x]
             /\ readyState'[x] = "none" => readyState[x] = "none"
    BY <1>2, ServerMoves DEF clientVars, objectVars, browserVars
  <2>2. SocketInv'
    BY <2>1 DEF SocketInv
  <2>3. SoleSocket'
    BY <2>1 DEF SoleSocket
  <2> QED
    BY <2>2, <2>3
<1>3. ASSUME UNCHANGED serverVars, NEW u \in Users, NEW msg, Request(u, msg)
      PROVE  SocketInv' /\ SoleSocket'
  <2>1. /\ ws[u] \in Sockets /\ wsState[ws[u]] = "open"
        /\ toServer' = [toServer EXCEPT ![ws[u]] = Append(@, msg)]
        /\ UNCHANGED <<ws, owner, wsState, handlers, readyState, peerId>>
    BY <1>0, <1>3 DEF Request, CanSend, Send, objectVars, browserVars, serverVars
  <2>2. \A t \in Sockets : t # ws[u] => toServer'[t] = toServer[t]
    BY <1>0, <2>1
  <2>3. SocketInv'
    BY <2>1, <2>2 DEF SocketInv
  <2>4. SoleSocket'
    BY <2>1 DEF SoleSocket
  <2> QED
    BY <2>3, <2>4
<1>4. ASSUME UNCHANGED serverVars, NEW u \in Users, NEW s \in Sockets, NEW c, Connect(u, s, c)
      PROVE  SocketInv' /\ SoleSocket'
  <2>1. /\ owner[s] = Null /\ UNCHANGED <<toServer, readyState, peerId>>
        /\ ws' = [ws EXCEPT ![u] = s]
        /\ owner' = [owner EXCEPT ![s] = u]
    BY <1>4 DEF Connect, serverVars
  <2>2. ws[u] # s /\ wsState'[s] = "connecting" /\ handlers'[s]
    BY <1>0, <1>4 DEF Connect, SocketInv
  <2>3. \A t \in Sockets \ {s} : t # ws[u] =>
          wsState'[t] = wsState[t] /\ handlers'[t] = handlers[t]
    BY <1>4 DEF Connect, TornDown
  <2>4. \A t \in Sockets \ {s} : t = ws[u] => wsState'[t] = "closing" /\ ~handlers'[t]
    <3>1. ws[u] \in Sockets => wsState[ws[u]] \in {"connecting", "open"}
      BY <1>0 DEF SocketInv
    <3>2. ASSUME NEW t \in Sockets \ {s}, t = ws[u] PROVE t \in TornDown(u)
      BY <1>0, <3>2 DEF TornDown
    <3> QED
      BY <1>0, <1>4, <3>1, <3>2 DEF Connect, Closing, HandlersAfterTeardown
  <2>5. \A t \in Sockets : owner[t] = u /\ t # ws[u] /\ handlers[t] => wsState[t] = "closed"
    <3>1. \A t \in Sockets : owner[t] = u /\ t # ws[u] /\ handlers[t] =>
            wsState[t] \notin {"closing", "none"}
      BY <1>0, <1>4 DEF Connect, Patient, SocketInv
    <3> QED
      BY <1>0, <3>1 DEF SoleSocket, WsStates
  <2>6. SocketInv'
    <3>1. \A t \in Sockets : ws[u] = t => wsState[t] \in {"connecting", "open"} /\ owner[t] = u
      BY <1>0 DEF SocketInv
    <3>2. \A t \in Sockets :
            /\ owner'[t] = Null <=> wsState'[t] = "none"
            /\ wsState'[t] \in {"none", "connecting"} => toServer[t] = <<>> /\ peerId[t] = Null
            /\ wsState'[t] = "open" \/ toServer[t] # <<>> \/ peerId[t] # Null =>
                 readyState[t] # "none"
            /\ handlers'[t] => owner'[t] # Null
      BY <1>0, <2>1, <2>2, <2>3, <2>4, <3>1 DEF SocketInv
    <3>3. \A v \in Users : ws'[v] # Null =>
            owner'[ws'[v]] = v /\ handlers'[ws'[v]] /\ wsState'[ws'[v]] \in {"connecting", "open"}
      BY <1>0, <2>1, <2>2, <2>3 DEF SocketInv
    <3> QED
      BY <2>1, <3>2, <3>3 DEF SocketInv
  <2>7. SoleSocket'
    <3> SUFFICES ASSUME NEW t \in Sockets, handlers'[t], wsState'[t] # "closed"
                 PROVE  /\ ws'[owner'[t]] \in {t, Null}
                        /\ wsState'[t] \in {"connecting", "open"} => ws'[owner'[t]] = t
      BY DEF SoleSocket
    <3>1. CASE t = s
      BY <1>0, <2>1, <3>1
    <3>2. CASE t # s
      <4>1. t # ws[u] /\ wsState[t] = wsState'[t] /\ handlers[t] /\ owner'[t] = owner[t]
        BY <1>0, <2>1, <2>3, <2>4, <3>2
      <4>2. owner[t] # u /\ owner[t] # Null
        BY <1>0, <2>5, <4>1 DEF SocketInv
      <4>3. ws'[owner[t]] = ws[owner[t]]
        BY <1>0, <2>1, <4>2
      <4> QED BY <4>1, <4>3 DEF SoleSocket
    <3> QED BY <3>1, <3>2
  <2> QED
    BY <2>6, <2>7
<1>5. ASSUME UNCHANGED serverVars, NEW u \in Users, Disconnect(u)
      PROVE  SocketInv' /\ SoleSocket'
  <2>1. /\ ws[u] # Null /\ ws' = [ws EXCEPT ![u] = Null]
        /\ wsState' = [wsState EXCEPT ![ws[u]] = Closing(ws[u])]
        /\ UNCHANGED <<owner, handlers, toServer, readyState, peerId>>
    BY <1>5 DEF Disconnect, serverVars
  <2>2. ws[u] \in Sockets /\ Closing(ws[u]) = "closing"
    BY <1>0, <2>1 DEF Closing, SocketInv
  <2>3. SocketInv'
    BY <1>0, <2>1, <2>2 DEF SocketInv
  <2>4. SoleSocket'
    BY <1>0, <2>1, <2>2 DEF SocketInv, SoleSocket
  <2> QED
    BY <2>3, <2>4
<1>6. ASSUME UNCHANGED serverVars, NEW s \in Sockets, readyState[s] # "none", OnOpen(s)
      PROVE  SocketInv' /\ SoleSocket'
  <2>1. /\ wsState[s] = "connecting" /\ wsState' = [wsState EXCEPT ![s] = "open"]
        /\ \/ UNCHANGED toServer
           \/ handlers[s] /\ toServer' = [toServer EXCEPT ![s] = Append(@, Hello(resume[s]))]
        /\ UNCHANGED <<ws, owner, handlers, readyState, peerId>>
    BY <1>6 DEF OnOpen, SoleSocket, objectVars, serverVars
  <2>2. \A t \in Sockets \ {s} : toServer'[t] = toServer[t]
    BY <1>0, <2>1
  <2>3. SocketInv'
    BY <1>0, <1>6, <2>1, <2>2 DEF SocketInv
  <2>4. SoleSocket'
    BY <1>0, <2>1 DEF SoleSocket
  <2> QED
    BY <2>3, <2>4
<1>7. ASSUME UNCHANGED serverVars, NEW s \in Sockets, OnMessage(s)
      PROVE  SocketInv' /\ SoleSocket'
  BY <1>7 DEF OnMessage, browserVars, serverVars, SocketInv, SoleSocket
<1>8. ASSUME UNCHANGED serverVars, NEW s \in Sockets, OnClose(s)
      PROVE  SocketInv' /\ SoleSocket'
  <2>1. /\ wsState[s] \in {"connecting", "open", "closing"}
        /\ wsState' = [wsState EXCEPT ![s] = "closed"]
        /\ ws' = IF handlers[s] THEN [ws EXCEPT ![owner[s]] = Null] ELSE ws
        /\ UNCHANGED <<owner, handlers, toServer, readyState, peerId>>
    BY <1>8 DEF OnClose, serverVars
  <2>2. handlers[s] => owner[s] \in Users /\ ws[owner[s]] \in {s, Null}
    BY <1>0, <2>1 DEF SocketInv, SoleSocket
  <2>3. SocketInv'
    BY <1>0, <2>1, <2>2 DEF SocketInv
  <2>4. SoleSocket'
    BY <1>0, <2>1, <2>2 DEF SocketInv, SoleSocket
  <2> QED
    BY <2>3, <2>4
<1> QED
  BY <1>1, <1>2, <1>3, <1>4, <1>5, <1>6, <1>7, <1>8, StepKinds

SocketsInv == TypeInv /\ SocketInv /\ SoleSocket

LEMMA InitSocketsInv == SystemInit => SocketsInv
BY InitTypes, InitSockets DEF SocketsInv

LEMMA NextSocketsInv ==
  ASSUME Patient PROVE SocketsInv /\ [Next]_vars => SocketsInv'
BY NextTypes, NextSockets DEF SocketsInv

-----------------------------------------------------------------------------
(* A client listens to one socket.                                         *)

\* One user of OneVoice.
HearsItsSocket(u) ==
  <<myPeerId[u], myToken[u], myRoom[u]>>' # <<myPeerId[u], myToken[u], myRoom[u]>> =>
    /\ ws[u] # Null
    /\ toClient'[ws[u]] # toClient[ws[u]]

\* A client that handles a message handles it from the socket in its ws.
LEMMA MessageFromCurrent ==
  ASSUME SocketsInv, NEW s \in Sockets, OnMessage(s)
  PROVE  owner[s] \in Users /\ ws[owner[s]] = s
BY Nulls DEF SocketsInv, TypeInv, ClientTypeOK, SocketInv, SoleSocket, OnMessage

LEMMA TailDiffers ==
  ASSUME NEW S, NEW q \in Seq(S), q # <<>> PROVE Tail(q) # q
BY HeadTailProperties

LEMMA StepHears ==
  ASSUME Patient PROVE SocketsInv /\ [Next]_vars => \A u \in Users : HearsItsSocket(u)
<1> SUFFICES ASSUME SocketsInv, [Next]_vars, NEW u \in Users PROVE HearsItsSocket(u)
  OBVIOUS
<1>1. CASE UNCHANGED <<myPeerId, myToken, myRoom>>
  BY <1>1 DEF HearsItsSocket
<1>2. ASSUME NEW s \in Sockets, OnMessage(s) PROVE HearsItsSocket(u)
  <2>1. /\ owner[s] # u => myPeerId'[u] = myPeerId[u] /\ myToken'[u] = myToken[u]
                           /\ myRoom'[u] = myRoom[u]
    BY <1>2 DEF OnMessage, SocketsInv, TypeInv, ClientTypeOK, FramesOK
  <2>2. toClient[s] \in Seq(ServerFrames) /\ toClient[s] # <<>>
        /\ toClient'[s] = Tail(toClient[s])
    BY <1>2 DEF OnMessage, SocketsInv, TypeInv, FramesOK
  <2>3. toClient'[s] # toClient[s]
    BY <2>2, TailDiffers
  <2>4. owner[s] = u => ws[u] = s /\ s # Null
    BY <1>2, MessageFromCurrent, Nulls
  <2> QED
    BY <2>1, <2>3, <2>4 DEF HearsItsSocket
<1>3. ASSUME ServerMove PROVE UNCHANGED <<myPeerId, myToken, myRoom>>
  BY <1>3, ServerMoves DEF SocketsInv, clientVars, objectVars
<1> QED
  BY <1>1, <1>2, <1>3, StepKinds
  DEF vars, clientVars, objectVars, Request, Connect, Disconnect, OnOpen, OnClose

(***************************************************************************)
(* The state of a client changes only by messages of the socket in its ws, *)
(* if the application is patient: connect() waits until the close event    *)
(* after a disconnect() is over, the handler of "disconnected" included.   *)
(***************************************************************************)
THEOREM OneVoiceHolds == ASSUME Patient PROVE Spec => OneVoice
<1>1. SocketsInv /\ [Next]_vars => [\A u \in Users : HearsItsSocket(u)]_vars
  BY StepHears
<1>2. SocketsInv /\ [Next]_vars => SocketsInv'
  BY NextSocketsInv
<1> QED
  BY <1>1, <1>2, InitSocketsInv, PTL DEF Spec, OneVoice, HearsItsSocket

\* One user of CurrentKept.
KeepsItsSocket(u) ==
  /\ ws[u] # Null
  /\ ws'[u] # ws[u] \/ (listeners[u] /\ ~listeners'[u])
  => wsState'[ws[u]] \in {"closing", "closed"}

LEMMA StepKeeps ==
  ASSUME Patient PROVE SocketsInv /\ [Next]_vars => \A u \in Users : KeepsItsSocket(u)
<1> SUFFICES ASSUME SocketsInv, [Next]_vars, NEW u \in Users, ws[u] # Null
             PROVE  KeepsItsSocket(u)
  BY DEF KeepsItsSocket
<1>0. /\ ws \in [Users -> Sockets \cup {Null}] /\ listeners \in [Users -> BOOLEAN]
      /\ wsState \in [Sockets -> WsStates]
      /\ ws[u] \in Sockets /\ owner[ws[u]] = u /\ handlers[ws[u]]
      /\ wsState[ws[u]] \in {"connecting", "open"}
  BY DEF SocketsInv, TypeInv, ClientTypeOK, SocketInv
<1>1. CASE UNCHANGED <<ws, listeners>>
  BY <1>1 DEF KeepsItsSocket
<1>2. ASSUME NEW v \in Users, NEW s \in Sockets, NEW c, Connect(v, s, c)
      PROVE  KeepsItsSocket(u)
  <2>1. ws[u] # s
    BY <1>0, <1>2, Nulls DEF Connect
  <2>2. v = u => wsState'[ws[u]] = "closing"
    BY <1>0, <1>2, <2>1 DEF Connect, TornDown, Closing
  <2>3. v # u => ws'[u] = ws[u] /\ listeners'[u] = listeners[u]
    BY <1>0, <1>2 DEF Connect
  <2> QED
    BY <2>2, <2>3 DEF KeepsItsSocket
<1>3. ASSUME NEW v \in Users, Disconnect(v) PROVE KeepsItsSocket(u)
  BY <1>0, <1>3 DEF Disconnect, Closing, KeepsItsSocket
<1>4. ASSUME NEW s \in Sockets, OnClose(s) PROVE KeepsItsSocket(u)
  <2>1. handlers[s] /\ owner[s] = u => ws[u] = s
    BY <1>0, <1>4 DEF OnClose, SocketsInv, SoleSocket
  <2>2. ws[u] = s => wsState'[ws[u]] = "closed"
    BY <1>0, <1>4 DEF OnClose
  <2>3. ~(handlers[s] /\ owner[s] = u) => ws'[u] = ws[u] /\ listeners'[u] = listeners[u]
    BY <1>0, <1>4 DEF OnClose
  <2> QED
    BY <2>1, <2>2, <2>3 DEF KeepsItsSocket
<1>5. ASSUME ServerMove PROVE UNCHANGED <<ws, listeners>>
  BY <1>5, ServerMoves DEF SocketsInv, clientVars, objectVars
<1> QED
  BY <1>1, <1>2, <1>3, <1>4, <1>5, StepKinds
  DEF vars, clientVars, objectVars, Request, OnOpen, OnMessage

(***************************************************************************)
(* Under the same condition a client gives up its socket or its listeners  *)
(* only when that very socket closes.                                      *)
(***************************************************************************)
THEOREM CurrentIsKept == ASSUME Patient PROVE Spec => CurrentKept
<1>1. SocketsInv /\ [Next]_vars => [\A u \in Users : KeepsItsSocket(u)]_vars
  BY StepKeeps
<1>2. SocketsInv /\ [Next]_vars => SocketsInv'
  BY NextSocketsInv
<1> QED
  BY <1>1, <1>2, InitSocketsInv, PTL DEF Spec, CurrentKept, KeepsItsSocket

-----------------------------------------------------------------------------
(* hello comes first, and once.                                            *)

\* One socket of HelloInv.
HelloAt(s) ==
  Server!Listening(s) =>
    /\ \A i \in DOMAIN toServer[s] :
         toServer[s][i].type = "hello" <=> i = 1 /\ peerId[s] = Null
    /\ wsState[s] = "open" /\ handlers[s] /\ peerId[s] = Null => toServer[s] # <<>>

LEMMA HelloKept ==
  ASSUME NEW s \in Sockets, HelloAt(s), Server!Listening(s)' => Server!Listening(s),
         toServer'[s] = toServer[s], peerId'[s] = peerId[s],
         wsState'[s] = "open" /\ handlers'[s] => wsState[s] = "open" /\ handlers[s]
  PROVE  HelloAt(s)'
BY DEF HelloAt

LEMMA TailIndex ==
  ASSUME NEW S, NEW q \in Seq(S), q # <<>>
  PROVE  /\ Head(q) = q[1] /\ 1 \in DOMAIN q
         /\ \A i \in DOMAIN Tail(q) : i \in Nat \ {0} /\ i + 1 \in DOMAIN q /\ Tail(q)[i] = q[i + 1]
BY HeadTailProperties, LenProperties

\* A frame of a socket is taken.
LEMMA ReceiveHello ==
  ASSUME SocketsInv, HelloInv, NEW s \in Sockets, Receive(s)
  PROVE  HelloInv'
<1> DEFINE q == toServer[s]
<1>1. /\ Served(s) /\ q # <<>> /\ toServer' = [toServer EXCEPT ![s] = Tail(q)]
      /\ UNCHANGED <<wsState, handlers>> /\ Server!Listening(s)
  BY ReceiveServes DEF SocketsInv, clientVars, browserVars, Receive
<1>2. /\ toServer \in [Sockets -> Seq(ClientFrames)]
      /\ peerId \in [Sockets -> PeerIds \cup {Null}]
      /\ readyState \in [Sockets -> Server!ReadyStates]
  BY DEF SocketsInv, TypeInv, FramesOK, Server!TypeOK
<1>3. q \in Seq(ClientFrames) /\ toServer'[s] = Tail(q)
  BY <1>1, <1>2
<1>4. /\ Head(q) = q[1] /\ 1 \in DOMAIN q
      /\ \A i \in DOMAIN Tail(q) : i \in Nat \ {0} /\ i + 1 \in DOMAIN q /\ Tail(q)[i] = q[i + 1]
  BY <1>1, <1>3, TailIndex
<1>5. \A i \in DOMAIN q : q[i].type = "hello" <=> i = 1 /\ peerId[s] = Null
  BY <1>1 DEF HelloInv
<1>6. /\ \A x \in Sockets \ {s} : peerId'[x] = peerId[x]
      /\ \A x \in Sockets : Server!Listening(x)' => Server!Listening(x)
      /\ peerId'[s] # Null
  <2>1. CASE Head(q).type = "hello" /\ Greets(s)
    BY <1>2, <2>1, Nulls DEF Greets, Server!Listening
  <2>2. CASE Head(q).type # "hello" /\ SessionsKept
    <3>1. peerId[s] # Null
      BY <2>2, <1>4, <1>5
    <3>2. \A x \in Sockets : Server!Listening(x)' => Server!Listening(x)
      BY <1>1, <1>2, <2>2 DEF Served, Server!Listening
    <3> QED
      BY <2>2, <3>1, <3>2 DEF SessionsKept
  <2> QED
    BY <1>1, <2>1, <2>2 DEF Served
<1>7. ASSUME NEW x \in Sockets \ {s} PROVE HelloAt(x)'
  BY <1>1, <1>2, <1>6, HelloKept DEF HelloInv, HelloAt
<1>8. \A i \in DOMAIN Tail(q) : Tail(q)[i].type # "hello"
  BY <1>4, <1>5
<1> HIDE DEF q
<1>9. HelloAt(s)'
  BY <1>3, <1>6, <1>8 DEF HelloAt
<1> QED
  BY <1>7, <1>9 DEF HelloInv, HelloAt

LEMMA ServerMoveHello ==
  ASSUME SocketsInv, HelloInv, ServerMove
  PROVE  HelloInv'
<1>0. /\ UNCHANGED <<wsState, handlers>>
      /\ toServer \in [Sockets -> Seq(ClientFrames)]
      /\ readyState \in [Sockets -> Server!ReadyStates]
  BY ServerMoves DEF SocketsInv, TypeInv, FramesOK, Server!TypeOK, clientVars, browserVars
<1>1. ASSUME NEW s \in Sockets, Accept(s) PROVE HelloInv'
  <2>1. /\ wsState[s] \in {"connecting", "closing"} /\ readyState[s] = "none"
        /\ UNCHANGED <<toServer, peerId>>
        /\ \A x \in Sockets \ {s} : readyState'[x] = readyState[x]
    BY <1>0, <1>1 DEF Accept, ServerStep, Server!Connect
  <2>2. toServer[s] = <<>> /\ peerId[s] = Null
    BY <2>1 DEF SocketsInv, SocketInv
  <2>3. \A x \in Sockets \ {s} : HelloAt(x)'
    BY <1>0, <2>1, HelloKept DEF HelloInv, HelloAt, Server!Listening
  <2>4. HelloAt(s)'
    BY <1>0, <2>1, <2>2 DEF HelloAt
  <2> QED
    BY <2>3, <2>4 DEF HelloInv, HelloAt
<1>2. ASSUME NEW s \in Sockets, NoticeGone(s) PROVE HelloInv'
  <2>1. /\ UNCHANGED <<toServer, peerId>> /\ readyState[s] = "open"
        /\ readyState' = [readyState EXCEPT ![s] = "closing"]
    BY <1>2 DEF NoticeGone, ServerStep, Server!BeginClose
  <2>2. \A x \in Sockets : Server!Listening(x)' => Server!Listening(x)
    BY <1>0, <2>1 DEF Server!Listening
  <2> QED
    BY <1>0, <2>1, <2>2, HelloKept DEF HelloInv, HelloAt
<1>3. ASSUME NEW s \in Sockets, ServerClosed(s) PROVE HelloInv'
  <2>1. /\ readyState' = [readyState EXCEPT ![s] = "closed"] /\ UNCHANGED peerId
        /\ toServer' = [toServer EXCEPT ![s] = <<>>]
    BY <1>3 DEF ServerClosed, Server!Close
  <2>2. \A x \in Sockets : Server!Listening(x)' => x # s /\ Server!Listening(x)
    BY <1>0, <2>1 DEF Server!Listening
  <2>3. \A x \in Sockets \ {s} : HelloAt(x)'
    BY <1>0, <2>1, <2>2, HelloKept DEF HelloInv, HelloAt
  <2>4. HelloAt(s)'
    BY <2>2 DEF HelloAt
  <2> QED
    BY <2>3, <2>4 DEF HelloInv, HelloAt
<1>4. ASSUME NEW r \in RoomIds, ServerStep(Server!ExpireRoom(r)) PROVE HelloInv'
  <2>1. UNCHANGED <<toServer, peerId, readyState>>
    BY <1>4 DEF ServerStep, Server!ExpireRoom, Server!socketVars
  <2> QED
    BY <1>0, <2>1 DEF HelloInv, Server!Listening
<1> QED
  BY <1>1, <1>2, <1>3, <1>4, ReceiveHello DEF ServerMove

LEMMA InitHello == SystemInit => HelloInv
BY DEF SystemInit, Init, Server!Init, HelloInv, Server!Listening

LEMMA AppendIndex ==
  ASSUME NEW S, NEW q \in Seq(S), NEW e
  PROVE  /\ Append(q, e) # <<>>
         /\ \A i \in DOMAIN Append(q, e) :
              \/ i \in DOMAIN q /\ Append(q, e)[i] = q[i]
              \/ i = Len(q) + 1 /\ Append(q, e)[i] = e
         /\ q # <<>> => Len(q) + 1 # 1
<1>1. q \in Seq(S \cup {e})
  BY SeqDef
<1>2. /\ Append(q, e) \in Seq(S \cup {e}) /\ Len(Append(q, e)) = Len(q) + 1
      /\ \A i \in 1 .. Len(q) : Append(q, e)[i] = q[i]
      /\ Append(q, e)[Len(q) + 1] = e
  BY <1>1, AppendProperties
<1>3. Len(q) \in Nat /\ DOMAIN q = 1 .. Len(q) /\ DOMAIN Append(q, e) = 1 .. Len(q) + 1
  BY <1>2, LenProperties
<1>4. Append(q, e) # <<>>
  BY <1>2, <1>3
<1>5. q # <<>> => Len(q) # 0
  BY EmptySeq, <1>3
<1> QED
  BY <1>2, <1>3, <1>4, <1>5

\* A request goes behind the hello of its socket.
LEMMA RequestHello ==
  ASSUME SocketsInv, HelloInv, NEW s \in Sockets, NEW msg, msg.type # "hello",
         wsState[s] = "open", handlers[s],
         toServer' = [toServer EXCEPT ![s] = Append(@, msg)],
         UNCHANGED <<wsState, handlers, readyState, peerId>>
  PROVE  HelloInv'
<1> DEFINE q == toServer[s]
<1>1. toServer \in [Sockets -> Seq(ClientFrames)]
  BY DEF SocketsInv, TypeInv, FramesOK
<1>2. /\ q \in Seq(ClientFrames) /\ toServer'[s] = Append(q, msg)
      /\ \A x \in Sockets \ {s} : toServer'[x] = toServer[x]
  BY <1>1
<1>3. /\ toServer'[s] # <<>>
      /\ \A i \in DOMAIN toServer'[s] :
           \/ i \in DOMAIN q /\ toServer'[s][i] = q[i]
           \/ i = Len(q) + 1 /\ toServer'[s][i] = msg
      /\ q # <<>> => Len(q) + 1 # 1
  BY <1>2, AppendIndex
<1>4. HelloAt(s)
  BY DEF HelloInv, HelloAt
<1>5. HelloAt(s)'
  <2> SUFFICES ASSUME Server!Listening(s)
               PROVE  /\ \A i \in DOMAIN toServer'[s] :
                           toServer'[s][i].type = "hello" <=> i = 1 /\ peerId[s] = Null
                      /\ toServer'[s] # <<>>
    BY DEF HelloAt, Server!Listening
  <2>1. /\ \A i \in DOMAIN q : q[i].type = "hello" <=> i = 1 /\ peerId[s] = Null
        /\ peerId[s] = Null => q # <<>>
    BY <1>4 DEF HelloAt
  <2> QED
    BY <1>3, <2>1
<1>6. \A x \in Sockets \ {s} : HelloAt(x)'
  BY <1>2, HelloKept DEF HelloInv, HelloAt, Server!Listening
<1> QED
  BY <1>5, <1>6 DEF HelloInv, HelloAt

LEMMA NextHello ==
  ASSUME Patient, SocketsInv, HelloInv, [Next]_vars
  PROVE  HelloInv'
<1>0. /\ ws \in [Users -> Sockets \cup {Null}] /\ Null \notin Sockets
      /\ wsState \in [Sockets -> WsStates]
      /\ toServer \in [Sockets -> Seq(ClientFrames)]
  BY Nulls DEF SocketsInv, TypeInv, ClientTypeOK, FramesOK
<1>1. CASE UNCHANGED <<toServer, peerId, readyState, wsState, handlers>>
  BY <1>1 DEF HelloInv, Server!Listening
<1>2. CASE ServerMove
  BY <1>2, ServerMoveHello
<1>3. ASSUME UNCHANGED serverVars, NEW u \in Users, NEW msg, Request(u, msg),
             msg.type # "hello"
      PROVE  HelloInv'
  <2>1. /\ ws[u] \in Sockets /\ wsState[ws[u]] = "open" /\ handlers[ws[u]]
        /\ toServer' = [toServer EXCEPT ![ws[u]] = Append(@, msg)]
        /\ UNCHANGED <<wsState, handlers, readyState, peerId>>
    BY <1>0, <1>3
    DEF Request, CanSend, Send, objectVars, browserVars, serverVars, SocketsInv, SocketInv
  <2> QED
    BY <1>3, <2>1, RequestHello
<1>4. ASSUME UNCHANGED serverVars, UNCHANGED toServer,
             \A x \in Sockets : wsState'[x] = "open" /\ handlers'[x] =>
               wsState[x] = "open" /\ handlers[x]
      PROVE  HelloInv'
  BY <1>4, HelloKept DEF serverVars, HelloInv, HelloAt, Server!Listening
<1>5. ASSUME UNCHANGED serverVars, NEW u \in Users, NEW s \in Sockets, NEW c, Connect(u, s, c)
      PROVE  HelloInv'
  <2>1. UNCHANGED toServer
    BY <1>5 DEF Connect
  <2>2. \A x \in Sockets : wsState'[x] = "open" /\ handlers'[x] =>
          wsState[x] = "open" /\ handlers[x]
    BY <1>5 DEF Connect, TornDown, Closing, HandlersAfterTeardown
  <2> QED
    BY <1>4, <1>5, <2>1, <2>2
<1>6. ASSUME UNCHANGED serverVars, NEW u \in Users, Disconnect(u) PROVE HelloInv'
  BY <1>0, <1>4, <1>6 DEF Disconnect, Closing
<1>7. ASSUME UNCHANGED serverVars, NEW s \in Sockets, OnOpen(s) PROVE HelloInv'
  <2> DEFINE hello == Hello(resume[s])
  <2>1. /\ toServer[s] = <<>> /\ peerId[s] = Null
        /\ wsState[s] = "connecting" /\ wsState' = [wsState EXCEPT ![s] = "open"]
        /\ UNCHANGED <<handlers, readyState, peerId>>
    BY <1>7 DEF OnOpen, serverVars, SocketsInv, SocketInv
  <2>2. CASE handlers[s]
    <3>1. ws[owner[s]] = s /\ s # Null
      BY <1>0, <2>1, <2>2 DEF SocketsInv, SoleSocket
    <3>2. toServer' = [toServer EXCEPT ![s] = Append(@, hello)]
      BY <1>7, <2>2, <3>1 DEF OnOpen
    <3>3. toServer'[s] = <<hello>> /\ \A x \in Sockets \ {s} : toServer'[x] = toServer[x]
      BY <1>0, <2>1, <3>2
    <3>4. hello.type = "hello"
      BY DEF Hello
    <3> HIDE DEF hello
    <3>5. HelloAt(s)'
      BY <2>1, <3>3, <3>4 DEF HelloAt
    <3>6. \A x \in Sockets \ {s} : HelloAt(x)'
      BY <1>0, <2>1, <3>3, HelloKept DEF HelloInv, HelloAt, Server!Listening
    <3> QED
      BY <3>5, <3>6 DEF HelloInv, HelloAt
  <2>3. CASE ~handlers[s]
    BY <1>0, <1>4, <1>7, <2>1, <2>3 DEF OnOpen
  <2> QED
    BY <2>2, <2>3
<1>8. ASSUME UNCHANGED serverVars, NEW s \in Sockets, OnMessage(s) PROVE HelloInv'
  BY <1>1, <1>8 DEF OnMessage, serverVars, browserVars
<1>9. ASSUME UNCHANGED serverVars, NEW s \in Sockets, OnClose(s) PROVE HelloInv'
  BY <1>0, <1>4, <1>8, <1>9 DEF OnClose
<1> QED
  BY <1>1, <1>2, <1>3, <1>5, <1>6, <1>7, <1>8, <1>9, StepKinds
  DEF vars, clientVars, browserVars, serverVars

(***************************************************************************)
(* hello is the first and the only hello the server sees of a connection,  *)
(* however often the clients connect and disconnect, as long as their      *)
(* applications are patient.                                               *)
(***************************************************************************)
THEOREM HelloIsFirst == ASSUME Patient PROVE Spec => []HelloFirst
<1>1. SocketsInv /\ HelloInv /\ [Next]_vars => SocketsInv' /\ HelloInv'
  BY NextSocketsInv, NextHello
<1>2. SocketsInv /\ HelloInv => HelloFirst
  <2> SUFFICES ASSUME SocketsInv, HelloInv, NEW s \in Sockets, Server!Listening(s),
                      toServer[s] # <<>>
               PROVE  Head(toServer[s]).type = "hello" <=> peerId[s] = Null
    BY DEF HelloFirst
  <2>1. Head(toServer[s]) = toServer[s][1] /\ 1 \in DOMAIN toServer[s]
    BY TailIndex DEF SocketsInv, TypeInv, FramesOK
  <2> QED
    BY <2>1 DEF HelloInv
<1> QED
  BY <1>1, <1>2, InitSocketsInv, InitHello, PTL DEF Spec

-----------------------------------------------------------------------------
(* The credentials of a client.                                            *)

\* One socket and one user of CredentialsInv.
TruePeerIds(s) ==
  \A i \in DOMAIN toClient[s] : IsPeerId(toClient[s][i]) =>
    peerId[s] # Null /\ toClient[s][i] = Server!PeerIdMsg(peerId[s], sessionToken[s])

Informed(u) ==
  /\ ws[u] # Null
  /\ wsState[ws[u]] = "open" /\ readyState[ws[u]] = "open" /\ peerId[ws[u]] # Null
  => \/ \E i \in DOMAIN toClient[ws[u]] : IsPeerId(toClient[ws[u]][i])
     \/ myPeerId[u] = peerId[ws[u]] /\ myToken[u] = sessionToken[ws[u]]

LEMMA CredentialsParts ==
  CredentialsInv <=> (\A s \in Sockets : TruePeerIds(s)) /\ (\A u \in Users : Informed(u))
BY DEF CredentialsInv, TruePeerIds, Informed

\* What is in the channel of a socket after a step of the server.
LEMMA Delivered ==
  ASSUME TypeInv, Deliver, NEW s \in Sockets, sent'[s] \in ServerFrames \cup {Null}
  PROVE  /\ \A i \in DOMAIN toClient[s] :
              i \in DOMAIN toClient'[s] /\ toClient'[s][i] = toClient[s][i]
         /\ \A i \in DOMAIN toClient'[s] :
              \/ i \in DOMAIN toClient[s] /\ toClient'[s][i] = toClient[s][i]
              \/ sent'[s] # Null /\ toClient'[s][i] = sent'[s]
         /\ sent'[s] # Null /\ wsState[s] = "open" =>
              \E i \in DOMAIN toClient'[s] : toClient'[s][i] = sent'[s]
<1> DEFINE q == toClient[s]
           e == sent'[s]
<1>1. /\ q \in Seq(ServerFrames)
      /\ toClient'[s] = IF e # Null /\ wsState[s] = "open" THEN Append(q, e) ELSE q
  BY DEF TypeInv, FramesOK, Deliver
<1>2. CASE e # Null /\ wsState[s] = "open"
  <2>1. e \in ServerFrames /\ toClient'[s] = Append(q, e)
    BY <1>1, <1>2
  <2> HIDE DEF q, e
  <2>2. /\ Append(q, e) \in Seq(ServerFrames) /\ Len(Append(q, e)) = Len(q) + 1
        /\ \A i \in 1 .. Len(q) : Append(q, e)[i] = q[i]
        /\ Append(q, e)[Len(q) + 1] = e
    BY <1>1, <2>1, AppendProperties
  <2>3. Len(q) \in Nat /\ DOMAIN q = 1 .. Len(q) /\ DOMAIN Append(q, e) = 1 .. Len(q) + 1
    BY <1>1, <2>2, LenProperties
  <2>4. /\ \A i \in DOMAIN q : i \in DOMAIN Append(q, e) /\ Append(q, e)[i] = q[i]
        /\ \A i \in DOMAIN Append(q, e) :
             (i \in DOMAIN q /\ Append(q, e)[i] = q[i]) \/ Append(q, e)[i] = e
        /\ \E i \in DOMAIN Append(q, e) : Append(q, e)[i] = e
    BY <2>2, <2>3
  <2> QED
    BY <1>2, <2>1, <2>4 DEF q, e
<1>3. CASE ~(e # Null /\ wsState[s] = "open")
  BY <1>1, <1>3
<1> QED
  BY <1>2, <1>3

\* A step of the server that greets nobody.
LEMMA KeptCredentials ==
  ASSUME SocketsInv, CredentialsInv, SessionsKept, Deliver, UNCHANGED clientVars,
         \A s \in Sockets : readyState'[s] = "open" => readyState[s] = "open" \/ peerId[s] = Null
  PROVE  CredentialsInv'
<1>1. /\ UNCHANGED <<peerId, sessionToken, ws, myPeerId, myToken, wsState>>
      /\ \A s \in Sockets : sent'[s] \in ServerFrames \cup {Null}
      /\ \A s \in Sockets : sent'[s] # Null => ~IsPeerId(sent'[s])
      /\ ws \in [Users -> Sockets \cup {Null}]
  BY DEF SessionsKept, NoneNamed, clientVars, objectVars, browserVars, SocketsInv, TypeInv,
    ClientTypeOK
<1>2. ASSUME NEW s \in Sockets PROVE TruePeerIds(s)'
  <2>1. \A i \in DOMAIN toClient'[s] : IsPeerId(toClient'[s][i]) =>
          i \in DOMAIN toClient[s] /\ toClient'[s][i] = toClient[s][i]
    BY <1>1, Delivered DEF SocketsInv
  <2>2. TruePeerIds(s)
    BY CredentialsParts
  <2> QED
    BY <1>1, <2>1, <2>2 DEF TruePeerIds
<1>3. ASSUME NEW u \in Users PROVE Informed(u)'
  <2>1. SUFFICES ASSUME NEW s \in Sockets, ws[u] = s, wsState[s] = "open",
                        readyState'[s] = "open", peerId[s] # Null
                 PROVE  \/ \E i \in DOMAIN toClient'[s] : IsPeerId(toClient'[s][i])
                        \/ myPeerId[u] = peerId[s] /\ myToken[u] = sessionToken[s]
    BY <1>1 DEF Informed
  <2>2. \/ \E i \in DOMAIN toClient[s] : IsPeerId(toClient[s][i])
        \/ myPeerId[u] = peerId[s] /\ myToken[u] = sessionToken[s]
    <3>1. readyState[s] = "open" /\ s # Null
      BY <2>1, Nulls
    <3>2. Informed(u)
      BY CredentialsParts
    <3> QED
      BY <2>1, <3>1, <3>2 DEF Informed
  <2> QED
    BY <1>1, <2>2, Delivered DEF SocketsInv
<1> QED
  BY <1>2, <1>3 DEF CredentialsInv, TruePeerIds, Informed

\* hello tells the client its credentials.
LEMMA GreetedCredentials ==
  ASSUME SocketsInv, CredentialsInv, NEW s \in Sockets, Greets(s), Deliver,
         UNCHANGED clientVars
  PROVE  CredentialsInv'
<1>1. PICK p \in PeerIds, t \in Tokens :
        /\ peerId[s] = Null
        /\ peerId' = [peerId EXCEPT ![s] = p]
        /\ sessionToken' = [sessionToken EXCEPT ![s] = t]
        /\ sent' = [x \in Sockets |->
             IF x = s /\ readyState[s] = "open" THEN Server!PeerIdMsg(p, t) ELSE Null]
        /\ \A x \in Sockets : readyState'[x] # readyState[x] =>
             x # s /\ readyState'[x] = "closing"
  BY DEF Greets
<1>2. /\ UNCHANGED <<ws, myPeerId, myToken, wsState>>
      /\ ws \in [Users -> Sockets \cup {Null}]
      /\ peerId'[s] = p /\ sessionToken'[s] = t
      /\ \A x \in Sockets \ {s} :
           peerId'[x] = peerId[x] /\ sessionToken'[x] = sessionToken[x] /\ sent'[x] = Null
      /\ p # Null
  BY <1>1, Nulls DEF clientVars, objectVars, browserVars, SocketsInv, TypeInv, ClientTypeOK,
    Server!TypeOK
<1>3. /\ Server!PeerIdMsg(p, t) \in ServerFrames /\ IsPeerId(Server!PeerIdMsg(p, t))
      /\ Server!PeerIdMsg(p, t) # Null
  <2>1. Server!PeerIdMsg(p, t) \in ServerFrames /\ IsPeerId(Server!PeerIdMsg(p, t))
    BY DEF Server!PeerIdMsg, ServerFrames, IsPeerId
  <2> QED
    BY <2>1, Nulls
<1>4. /\ \A x \in Sockets : sent'[x] \in ServerFrames \cup {Null}
      /\ sent'[s] # Null => sent'[s] = Server!PeerIdMsg(p, t)
      /\ readyState[s] = "open" => sent'[s] = Server!PeerIdMsg(p, t)
  BY <1>1, <1>3
<1>5. TruePeerIds(s)'
  <2>1. \A i \in DOMAIN toClient[s] : ~IsPeerId(toClient[s][i])
    BY <1>1, CredentialsParts DEF TruePeerIds
  <2>2. \A i \in DOMAIN toClient'[s] : IsPeerId(toClient'[s][i]) =>
          toClient'[s][i] = Server!PeerIdMsg(p, t)
    BY <1>4, <2>1, Delivered DEF SocketsInv
  <2> QED
    BY <1>2, <2>2 DEF TruePeerIds, Server!PeerIdMsg
<1>6. ASSUME NEW x \in Sockets \ {s} PROVE TruePeerIds(x)'
  <2>1. \A i \in DOMAIN toClient'[x] :
          i \in DOMAIN toClient[x] /\ toClient'[x][i] = toClient[x][i]
    BY <1>2, <1>4, Delivered DEF SocketsInv
  <2>2. TruePeerIds(x)
    BY CredentialsParts
  <2> QED
    BY <1>2, <2>1, <2>2 DEF TruePeerIds, Server!PeerIdMsg
<1>7. ASSUME NEW u \in Users PROVE Informed(u)'
  <2>1. SUFFICES ASSUME NEW x \in Sockets, ws[u] = x, wsState[x] = "open",
                        readyState'[x] = "open", peerId'[x] # Null
                 PROVE  \/ \E i \in DOMAIN toClient'[x] : IsPeerId(toClient'[x][i])
                        \/ myPeerId[u] = peerId'[x] /\ myToken[u] = sessionToken'[x]
    BY <1>2 DEF Informed
  <2>2. readyState[x] = "open" /\ x # Null
    BY <1>1, <2>1, Nulls
  <2>3. CASE x = s
    BY <1>3, <1>4, <2>1, <2>2, <2>3, Delivered DEF SocketsInv
  <2>4. CASE x # s
    <3>1. \/ \E i \in DOMAIN toClient[x] : IsPeerId(toClient[x][i])
          \/ myPeerId[u] = peerId[x] /\ myToken[u] = sessionToken[x]
      BY <1>2, <2>1, <2>2, <2>4, CredentialsParts DEF Informed
    <3> QED
      BY <1>2, <1>4, <2>4, <3>1, Delivered DEF SocketsInv
  <2> QED
    BY <2>3, <2>4
<1> QED
  BY <1>5, <1>6, <1>7 DEF CredentialsInv, TruePeerIds, Informed

LEMMA ServerMoveCredentials ==
  ASSUME SocketsInv, CredentialsInv, ServerMove
  PROVE  CredentialsInv'
<1>0. UNCHANGED clientVars /\ Deliver /\ readyState \in [Sockets -> Server!ReadyStates]
  BY ServerMoves DEF SocketsInv, TypeInv, Server!TypeOK
<1>1. ASSUME NEW s \in Sockets, Accept(s) PROVE CredentialsInv'
  <2>1. SessionsKept /\ readyState[s] = "none"
        /\ \A x \in Sockets \ {s} : readyState'[x] = readyState[x]
    BY <1>0, <1>1, ConnectKeeps DEF Accept, ServerStep, Server!Connect
  <2>2. peerId[s] = Null
    BY <2>1 DEF SocketsInv, SocketInv
  <2> QED
    BY <1>0, <2>1, <2>2, KeptCredentials
<1>2. ASSUME NEW s \in Sockets, NoticeGone(s) PROVE CredentialsInv'
  <2>1. SessionsKept /\ readyState' = [readyState EXCEPT ![s] = "closing"]
    BY <1>2, ConnectKeeps DEF NoticeGone, ServerStep, Server!BeginClose
  <2> QED
    BY <1>0, <2>1, KeptCredentials
<1>3. ASSUME NEW s \in Sockets, ServerClosed(s) PROVE CredentialsInv'
  <2>1. SessionsKept /\ readyState' = [readyState EXCEPT ![s] = "closed"]
    BY <1>3, CloseKeeps DEF ServerClosed, Server!Close, SocketsInv, TypeInv
  <2> QED
    BY <1>0, <2>1, KeptCredentials
<1>4. ASSUME NEW r \in RoomIds, ServerStep(Server!ExpireRoom(r)) PROVE CredentialsInv'
  BY <1>0, <1>4, ExpireKeeps, KeptCredentials DEF ServerStep
<1>5. ASSUME NEW s \in Sockets, Receive(s) PROVE CredentialsInv'
  <2>1. Served(s)
    BY <1>5, ReceiveServes DEF SocketsInv
  <2>2. CASE Greets(s)
    BY <1>0, <2>2, GreetedCredentials
  <2>3. CASE SessionsKept /\ UNCHANGED readyState
    BY <1>0, <2>3, KeptCredentials
  <2>4. CASE SessionsKept /\ readyState' = [readyState EXCEPT ![s] = "closing"]
    BY <1>0, <2>4, KeptCredentials
  <2> QED
    BY <2>1, <2>2, <2>3, <2>4 DEF Served
<1> QED
  BY <1>1, <1>2, <1>3, <1>4, <1>5 DEF ServerMove

LEMMA InitCredentials == SystemInit => CredentialsInv
BY DEF SystemInit, Init, Server!Init, CredentialsInv

\* A client whose socket and channel stay as they are.
LEMMA SameCredentials ==
  ASSUME CredentialsInv, UNCHANGED serverVars, NEW u \in Users,
         ws'[u] # Null => ws'[u] = ws[u] /\ toClient'[ws[u]] = toClient[ws[u]],
         wsState'[ws[u]] = "open" => wsState[ws[u]] = "open",
         myPeerId'[u] = myPeerId[u], myToken'[u] = myToken[u]
  PROVE  Informed(u)'
BY CredentialsParts DEF Informed, serverVars

\* A client handles a message.
LEMMA MessageCredentials ==
  ASSUME SocketsInv, CredentialsInv, UNCHANGED serverVars, NEW s \in Sockets, OnMessage(s)
  PROVE  CredentialsInv'
<1> DEFINE u == owner[s]
           q == toClient[s]
           msg == Head(q)
<1>1. /\ q \in Seq(ServerFrames) /\ q # <<>>
      /\ toClient' = [toClient EXCEPT ![s] = Tail(q)]
      /\ myPeerId' = IF msg.type = "peer-id" THEN [myPeerId EXCEPT ![u] = msg.peerId]
                     ELSE myPeerId
      /\ myToken' = [myToken EXCEPT ![u] = TokenAfter(@, msg)]
      /\ UNCHANGED <<ws, wsState, peerId, sessionToken, readyState>>
  BY DEF OnMessage, SocketsInv, TypeInv, FramesOK, browserVars, serverVars
<1>2. u \in Users /\ ws[u] = s
  BY MessageFromCurrent
<1>3. /\ ws \in [Users -> Sockets \cup {Null}]
      /\ toClient \in [Sockets -> Seq(ServerFrames)]
      /\ myPeerId \in [Users -> PeerIds \cup {Null}]
      /\ myToken \in [Users -> Tokens \cup {Null}]
      /\ \A v \in Users : ws[v] = s => v = u
  <2>1. \A v \in Users : ws[v] = s => v = u
    BY Nulls DEF SocketsInv, SocketInv
  <2> QED
    BY <2>1 DEF SocketsInv, TypeInv, ClientTypeOK, FramesOK
<1>4. /\ msg = q[1] /\ 1 \in DOMAIN q
      /\ \A i \in DOMAIN Tail(q) : i \in Nat \ {0} /\ i + 1 \in DOMAIN q /\ Tail(q)[i] = q[i + 1]
      /\ \A i \in DOMAIN q : i # 1 => i - 1 \in DOMAIN Tail(q) /\ Tail(q)[i - 1] = q[i]
  <2>1. Head(q) = q[1] /\ Tail(q) \in Seq(ServerFrames) /\ Len(Tail(q)) = Len(q) - 1
        /\ \A i \in 1 .. Len(Tail(q)) : Tail(q)[i] = q[i + 1]
    BY <1>1, HeadTailProperties
  <2>2. Len(q) \in Nat /\ DOMAIN q = 1 .. Len(q) /\ DOMAIN Tail(q) = 1 .. Len(q) - 1
    BY <1>1, <2>1, LenProperties
  <2>3. \A i \in 1 .. Len(q) : i # 1 => i - 1 \in 1 .. Len(q) - 1 /\ i = (i - 1) + 1
    BY <2>2
  <2>4. \A i \in DOMAIN q : i # 1 => i - 1 \in DOMAIN Tail(q) /\ Tail(q)[i - 1] = q[i]
    BY <2>1, <2>2, <2>3
  <2> QED
    BY <1>1, <2>4, TailIndex
<1>5. toClient'[s] = Tail(q) /\ \A x \in Sockets \ {s} : toClient'[x] = toClient[x]
  BY <1>1, <1>3
<1>6. \A x \in Sockets : TruePeerIds(x)'
  <2>1. \A x \in Sockets : TruePeerIds(x)
    BY CredentialsParts
  <2>2. ASSUME NEW i \in DOMAIN Tail(q), IsPeerId(Tail(q)[i])
        PROVE  peerId[s] # Null /\ Tail(q)[i] = Server!PeerIdMsg(peerId[s], sessionToken[s])
    BY <1>4, <2>1, <2>2 DEF TruePeerIds
  <2>3. TruePeerIds(s)'
    BY <1>1, <1>5, <2>2 DEF TruePeerIds
  <2>4. \A x \in Sockets \ {s} : TruePeerIds(x)'
    BY <1>1, <1>5, <2>1 DEF TruePeerIds
  <2> QED
    BY <2>3, <2>4
<1>7. ASSUME NEW v \in Users, v # u PROVE Informed(v)'
  <2>1. myPeerId'[v] = myPeerId[v] /\ myToken'[v] = myToken[v]
    BY <1>1, <1>2, <1>3, <1>7
  <2>2. ws'[v] # Null => toClient'[ws[v]] = toClient[ws[v]]
    BY <1>1, <1>3, <1>5, <1>7
  <2> QED
    BY <1>1, <2>1, <2>2, SameCredentials
<1>8. /\ ws'[u] = s
      /\ wsState[s] = "open" /\ readyState[s] = "open" /\ peerId[s] # Null =>
         \/ \E i \in DOMAIN toClient'[s] : IsPeerId(toClient'[s][i])
         \/ myPeerId'[u] = peerId[s] /\ myToken'[u] = sessionToken[s]
  <2>0. SUFFICES ASSUME wsState[s] = "open", readyState[s] = "open", peerId[s] # Null
                 PROVE  \/ \E i \in DOMAIN toClient'[s] : IsPeerId(toClient'[s][i])
                        \/ myPeerId'[u] = peerId[s] /\ myToken'[u] = sessionToken[s]
    BY <1>1, <1>2
  <2>1. CASE IsPeerId(msg)
    <3>1. msg = Server!PeerIdMsg(peerId[s], sessionToken[s])
      BY <1>4, <2>1, CredentialsParts DEF TruePeerIds
    <3>2. msg.peerId = peerId[s] /\ msg.sessionToken = sessionToken[s]
      BY <3>1 DEF Server!PeerIdMsg
    <3> HIDE DEF msg, u
    <3> QED
      BY <1>1, <1>2, <1>3, <2>1, <3>2 DEF IsPeerId, TokenAfter
  <2>2. CASE ~IsPeerId(msg)
    <3>1. \/ \E i \in DOMAIN q : IsPeerId(q[i])
          \/ myPeerId[u] = peerId[s] /\ myToken[u] = sessionToken[s]
      BY <1>2, <2>0, CredentialsParts, Nulls DEF Informed
    <3>2. CASE \E i \in DOMAIN q : IsPeerId(q[i])
      <4>1. PICK i \in DOMAIN q : IsPeerId(q[i])
        BY <3>2
      <4>2. i # 1
        BY <1>4, <2>2, <4>1
      <4>3. i - 1 \in DOMAIN Tail(q) /\ IsPeerId(Tail(q)[i - 1])
        BY <1>4, <4>1, <4>2
      <4> QED
        BY <1>5, <4>3
    <3>3. CASE myPeerId[u] = peerId[s] /\ myToken[u] = sessionToken[s]
      <4> HIDE DEF msg, u
      <4> QED
        BY <1>1, <1>2, <1>3, <2>2, <3>3 DEF IsPeerId, TokenAfter
    <3> QED
      BY <3>1, <3>2, <3>3
  <2> QED
    BY <2>1, <2>2
<1>9. ASSUME NEW v \in Users, v = u PROVE Informed(v)'
  BY <1>1, <1>8, <1>9 DEF Informed
<1> QED
  BY <1>6, <1>7, <1>9 DEF CredentialsInv, TruePeerIds, Informed

LEMMA NextCredentials ==
  ASSUME Patient, SocketsInv, CredentialsInv, [Next]_vars
  PROVE  CredentialsInv'
<1>0. /\ ws \in [Users -> Sockets \cup {Null}] /\ Null \notin Sockets
      /\ wsState \in [Sockets -> WsStates]
      /\ toClient \in [Sockets -> Seq(ServerFrames)]
      /\ \A u, v \in Users : ws[u] # Null /\ ws[v] = ws[u] => v = u
  BY Nulls DEF SocketsInv, TypeInv, ClientTypeOK, FramesOK, SocketInv
<1>1. CASE UNCHANGED <<serverVars, toClient, ws, wsState, myPeerId, myToken>>
  BY <1>1 DEF CredentialsInv, serverVars
<1>2. CASE ServerMove
  BY <1>2, ServerMoveCredentials
<1>3. ASSUME UNCHANGED <<serverVars, myPeerId, myToken>>,
             \A x \in Sockets : toClient'[x] \in {toClient[x], <<>>},
             \A u \in Users : ws'[u] # Null =>
               \/ /\ ws'[u] = ws[u] /\ toClient'[ws[u]] = toClient[ws[u]]
                  /\ wsState'[ws[u]] = "open" => wsState[ws[u]] = "open"
               \/ wsState'[ws'[u]] # "open"
      PROVE  CredentialsInv'
  <2>1. ASSUME NEW x \in Sockets PROVE TruePeerIds(x)'
    BY <1>3, CredentialsParts DEF TruePeerIds, serverVars
  <2>2. ASSUME NEW u \in Users PROVE Informed(u)'
    BY <1>3, CredentialsParts DEF Informed, serverVars
  <2> QED
    BY <2>1, <2>2 DEF CredentialsInv, TruePeerIds, Informed
<1>4. ASSUME UNCHANGED serverVars, NEW u \in Users, NEW s \in Sockets, NEW c, Connect(u, s, c)
      PROVE  CredentialsInv'
  <2>1. /\ UNCHANGED <<serverVars, myPeerId, myToken>>
        /\ ws' = [ws EXCEPT ![u] = s]
        /\ owner[s] = Null
        /\ wsState'[s] = "connecting"
        /\ \A x \in Sockets : toClient'[x] \in {toClient[x], <<>>}
        /\ \A x \in Sockets \ {s} : x # ws[u] =>
             toClient'[x] = toClient[x] /\ wsState'[x] = wsState[x]
    BY <1>4 DEF Connect, TornDown
  <2>2. \A v \in Users : ws[v] # s
    BY <2>1, Nulls DEF SocketsInv, SocketInv
  <2>3. \A v \in Users \ {u} : ws[v] # Null => ws[v] # ws[u] /\ ws[v] \in Sockets
    BY <1>0
  <2>4. \A v \in Users : ws'[v] # Null =>
          \/ /\ ws'[v] = ws[v] /\ toClient'[ws[v]] = toClient[ws[v]]
             /\ wsState'[ws[v]] = "open" => wsState[ws[v]] = "open"
          \/ wsState'[ws'[v]] # "open"
    BY <1>0, <2>1, <2>2, <2>3
  <2> QED
    BY <1>3, <2>1, <2>4
<1>5. ASSUME UNCHANGED serverVars, NEW u \in Users, Disconnect(u) PROVE CredentialsInv'
  <2>1. /\ UNCHANGED <<serverVars, myPeerId, myToken>>
        /\ ws[u] # Null /\ ws' = [ws EXCEPT ![u] = Null]
        /\ toClient' = [toClient EXCEPT ![ws[u]] = <<>>]
        /\ wsState' = [wsState EXCEPT ![ws[u]] = Closing(ws[u])]
    BY <1>5 DEF Disconnect
  <2>2. \A v \in Users \ {u} : ws[v] # Null => ws[v] # ws[u] /\ ws[v] \in Sockets
    BY <1>0
  <2> QED
    BY <1>0, <1>3, <2>1, <2>2
<1>6. ASSUME UNCHANGED serverVars, NEW s \in Sockets, OnOpen(s) PROVE CredentialsInv'
  <2>1. /\ UNCHANGED <<serverVars, myPeerId, myToken, ws, toClient>>
        /\ peerId[s] = Null /\ wsState' = [wsState EXCEPT ![s] = "open"]
    BY <1>6 DEF OnOpen, objectVars, SocketsInv, SocketInv
  <2>2. \A u \in Users : Informed(u)'
    BY <1>0, <2>1, CredentialsParts DEF Informed, serverVars
  <2>3. \A x \in Sockets : TruePeerIds(x)'
    BY <2>1, CredentialsParts DEF TruePeerIds, serverVars
  <2> QED
    BY <2>2, <2>3 DEF CredentialsInv, TruePeerIds, Informed
<1>7. ASSUME UNCHANGED serverVars, NEW s \in Sockets, OnClose(s) PROVE CredentialsInv'
  <2>1. /\ UNCHANGED <<serverVars, myPeerId, myToken>>
        /\ toClient' = [toClient EXCEPT ![s] = <<>>]
        /\ wsState' = [wsState EXCEPT ![s] = "closed"]
        /\ ws' = IF handlers[s] THEN [ws EXCEPT ![owner[s]] = Null] ELSE ws
    BY <1>7 DEF OnClose
  <2>2. \A v \in Users : ws'[v] # Null => ws'[v] = ws[v] /\ ws[v] \in Sockets
    BY <1>0, <2>1
  <2> QED
    BY <1>0, <1>3, <2>1, <2>2
<1> QED
  BY <1>1, <1>2, <1>4, <1>5, <1>6, <1>7, StepKinds, MessageCredentials
  DEF vars, clientVars, objectVars, browserVars, Request

(***************************************************************************)
(* The credentials of a client that has handled all frames of its open     *)
(* connection are those the server has for it, after any number of fresh   *)
(* and resumed sessions, under the same condition as HelloIsFirst.         *)
(***************************************************************************)
THEOREM CredentialsStayCurrent ==
  ASSUME Patient PROVE Spec => []CredentialsCurrent
<1>1. SocketsInv /\ CredentialsInv /\ [Next]_vars => SocketsInv' /\ CredentialsInv'
  BY NextSocketsInv, NextCredentials
<1>2. SocketsInv /\ CredentialsInv => CredentialsCurrent
  <2>1. ASSUME SocketsInv, NEW u \in Users, Informed(u), UpToDate(u)
        PROVE  myPeerId[u] = peerId[ws[u]] /\ myToken[u] = sessionToken[ws[u]]
    <3>1. DOMAIN toClient[ws[u]] = {}
      BY <2>1 DEF UpToDate
    <3> QED
      BY <2>1, <3>1 DEF UpToDate, Informed
  <2> QED
    BY <2>1, CredentialsParts DEF CredentialsCurrent
<1> QED
  BY <1>1, <1>2, InitSocketsInv, InitCredentials, PTL DEF Spec

-----------------------------------------------------------------------------
(* What a client knows of its room.                                        *)

Views == ClientRooms \cup {Null}

In(rs, p, r) == rs[r] # Null /\ p \in rs[r].members

\* The view v of peer p agrees with the rooms rs, and p is in no second room.
Sees(rs, v, p) ==
  IF v = Null
  THEN \A r \in RoomIds : ~In(rs, p, r)
  ELSE /\ rs[v.roomId] # Null
       /\ rs[v.roomId].members = v.members
       /\ p \in v.members
       /\ \A r \in RoomIds : In(rs, p, r) => r = v.roomId

\* Messages that are not about rooms.
NotOfRooms(msg) == msg.type \in {"error", "relay", "peer-id"}

LEMMA RoomAfterOther ==
  ASSUME NEW v, NEW msg, NotOfRooms(msg) PROVE RoomAfter(v, msg) = v
BY DEF RoomAfter, NotOfRooms

LEMMA NoneJoined ==
  ASSUME NEW msg, msg.type # "room-joined" PROVE RoomAfter(Null, msg) = Null
BY DEF RoomAfter

\* A room that p neither is in nor comes into.
LEMMA SeesElsewhere ==
  ASSUME NEW rs, NEW rs1, NEW v \in Views, NEW p, NEW r \in RoomIds, Sees(rs, v, p),
         \A q \in RoomIds \ {r} : rs1[q] = rs[q], ~In(rs, p, r), ~In(rs1, p, r)
  PROVE  Sees(rs1, v, p)
<1>1. v # Null => v.roomId \in RoomIds
  BY DEF Views, ClientRooms
<1> QED
  BY <1>1 DEF Sees, In

\* The room p is in gets or loses another member, and p is told.
LEMMA SeesEvent ==
  ASSUME NEW rs, NEW rs1, NEW v \in Views, NEW p, NEW r \in RoomIds, Sees(rs, v, p),
         In(rs, p, r), \A q \in RoomIds \ {r} : rs1[q] = rs[q],
         rs1[r] \in Server!Room, p \in rs1[r].members,
         NEW msg,
         \/ /\ msg.type = "room-peer-joined"
            /\ rs1[r].members = rs[r].members \cup {msg.peerId}
         \/ /\ msg.type = "room-peer-left"
            /\ rs1[r].members = rs[r].members \ {msg.peerId}
  PROVE  Sees(rs1, RoomAfter(v, msg), p)
<1>1. v # Null /\ v.roomId = r /\ v.members = rs[r].members /\ v \in ClientRooms
  BY DEF Sees, In, Views
<1>2. PICK v1 : v1 = RoomAfter(v, msg)
  OBVIOUS
<1>3. v1.roomId = r /\ v1.members = rs1[r].members /\ v1 \in ClientRooms
  <2>1. /\ rs1[r].members \in SUBSET PeerIds
        /\ v \in [roomId : RoomIds, members : SUBSET PeerIds]
    BY <1>1 DEF Server!Room, ClientRooms
  <2>2. CASE msg.type = "room-peer-joined"
    <3>1. v1 = [v EXCEPT !.members = @ \cup {msg.peerId}]
      BY <1>1, <1>2, <2>2 DEF RoomAfter
    <3> QED
      BY <1>1, <2>1, <2>2, <3>1 DEF ClientRooms
  <2>3. CASE msg.type = "room-peer-left"
    <3>1. v1 = [v EXCEPT !.members = @ \ {msg.peerId}]
      BY <1>1, <1>2, <2>3 DEF RoomAfter
    <3> QED
      BY <1>1, <2>1, <2>3, <3>1 DEF ClientRooms
  <2> QED
    BY <2>2, <2>3
<1>4. v1 # Null /\ rs1[r] # Null
  BY <1>3, ClientNullAssumption, Nulls DEF ClientRooms
<1>5. \A q \in RoomIds : In(rs, p, q) => q = r
  BY <1>1 DEF Sees
<1>6. Sees(rs1, v1, p)
  BY <1>3, <1>4, <1>5 DEF Sees, In
<1> QED
  BY <1>2, <1>6

\* The room p is in is gone, or p is out of it, and p is told.
LEMMA SeesLeaving ==
  ASSUME NEW rs, NEW rs1, NEW v \in Views, NEW p, NEW r \in RoomIds, Sees(rs, v, p),
         In(rs, p, r), \A q \in RoomIds \ {r} : rs1[q] = rs[q], ~In(rs1, p, r),
         NEW msg, msg.type \in {"room-left", "room-expired"}
  PROVE  Sees(rs1, RoomAfter(v, msg), p)
<1>1. RoomAfter(v, msg) = Null
  BY DEF RoomAfter
<1>2. Sees(rs1, Null, p)
  BY DEF Sees, In
<1> QED
  BY <1>1, <1>2

\* p, which was in no room, is in one, and is told.
LEMMA SeesJoining ==
  ASSUME NEW rs, NEW rs1, NEW p, NEW r \in RoomIds, Sees(rs, Null, p),
         \A q \in RoomIds \ {r} : rs1[q] = rs[q], rs1[r] \in Server!Room,
         p \in rs1[r].members,
         NEW msg, msg.type = "room-joined", msg.roomId = r, msg.members = rs1[r].members
  PROVE  Sees(rs1, RoomAfter(Null, msg), p)
<1>1. PICK v1 : v1 = RoomAfter(Null, msg)
  OBVIOUS
<1>2. v1 = [roomId |-> r, members |-> rs1[r].members]
  BY <1>1 DEF RoomAfter
<1>3. v1 \in ClientRooms /\ v1.roomId = r /\ v1.members = rs1[r].members
  BY <1>2 DEF ClientRooms, Server!Room
<1>4. v1 # Null /\ rs1[r] # Null
  BY <1>3, ClientNullAssumption, Nulls DEF ClientRooms
<1>5. Sees(rs1, v1, p)
  BY <1>3, <1>4 DEF Sees, In
<1> QED
  BY <1>1, <1>5

(***************************************************************************)
(* What is known of the server in every state: its registries lead to the  *)
(* right sockets, ids in use are issued, and a peer's only socket is found.*)
(***************************************************************************)
ServerFacts ==
  /\ Server!TypeOK
  /\ Server!RegistriesFaithful
  /\ \A s \in Sockets : peerId[s] # Null => peerId[s] \in issued
  /\ \A r \in RoomIds : rooms[r] # Null => r \in issued /\ rooms[r].members \subseteq issued
  /\ \A s \in Sockets : Server!Listening(s) /\ peerId[s] # Null =>
       peerMap[peerId[s]] = s \/ \E x \in Sockets \ {s} : peerId[x] = peerId[s]

LEMMA AlwaysServerFacts == Spec => []ServerFacts
<1>1. Proved!IssuedInv => ServerFacts
  <2>1. Proved!RegistriesFaithful => Server!RegistriesFaithful
    BY DEF Proved!RegistriesFaithful, Server!RegistriesFaithful, Proved!Listening,
      Server!Listening
  <2> QED
    BY <2>1, SameType
    DEF Proved!IssuedInv, Proved!SessionInv, Proved!PeersIssued, Proved!LoneSocketFound,
      Proved!LiveRooms, Proved!Listening, Server!Listening, ServerFacts
<1>2. Proved!Spec => []Proved!IssuedInv
  BY Proved!AlwaysIssued, Assumptions
  DEF Proved!NullAssumption, Proved!IdKindsAssumption, Proved!MaxPeersAssumption,
    Proved!MaxConnectionsAssumption
<1> QED
  BY <1>1, <1>2, ServerRefined, SameSpec, PTL

\* An open socket that is the only one of its peer.
Alone(s) ==
  /\ readyState[s] = "open" /\ peerId[s] # Null
  /\ \A x \in Sockets \ {s} : peerId[x] # peerId[s]

\* The view after the step, which may send a message to s.
NewView(v, s) == IF sent'[s] = Null THEN v ELSE RoomAfter(v, sent'[s])

\* The step keeps the view v of s right.
Shows(s, v) == Sees(rooms, v, peerId[s]) => Sees(rooms', NewView(v, s), peerId[s])

\* Only peers are sent anything; and s is not told that it has joined.
KnownOnly == \A w \in Sockets : sent'[w] # Null => peerId[w] # Null
NotJoined(s) == sent'[s] # Null => sent'[s].type # "room-joined"

LEMMA AloneFound ==
  ASSUME ServerFacts, NEW s \in Sockets, Alone(s)
  PROVE  peerId[s] \in PeerIds /\ peerMap[peerId[s]] = s
BY DEF ServerFacts, Alone, Server!TypeOK, Server!Listening

\* Registered sockets are those of the peers asked for.
LEMMA RegisteredKnown ==
  ASSUME ServerFacts, NEW ms \in SUBSET PeerIds, NEW w \in Server!Registered(ms)
  PROVE  w \in Sockets /\ peerId[w] \in ms /\ peerId[w] # Null
BY Nulls DEF ServerFacts, Server!Registered, Server!TypeOK, Server!RegistriesFaithful

LEMMA RegisteredAlone ==
  ASSUME ServerFacts, NEW s \in Sockets, Alone(s), NEW ms \in SUBSET PeerIds
  PROVE  s \in Server!Registered(ms) <=> peerId[s] \in ms
<1>1. peerId[s] \in PeerIds /\ peerMap[peerId[s]] = s /\ s # Null
  BY AloneFound, Nulls
<1>2. peerId[s] \in ms => s \in Server!Registered(ms)
  BY <1>1 DEF Server!Registered
<1> QED
  BY <1>2, RegisteredKnown

\* A step that leaves the rooms alone and sends nothing about them.
LEMMA QuietShows ==
  ASSUME NEW s \in Sockets, rooms' = rooms, sent'[s] # Null => NotOfRooms(sent'[s])
  PROVE  NotJoined(s) /\ \A v : Shows(s, v)
<1>1. \A v : NewView(v, s) = v
  BY RoomAfterOther DEF NewView
<1> QED
  BY <1>1 DEF Shows, NotJoined, NotOfRooms

\* The members are told of the peer of socket x, which may get a reply of its own.
LEMMA Notified ==
  ASSUME ServerFacts, NEW x \in Sockets, peerId[x] # Null, NEW r \in RoomIds,
         rooms[r] # Null, NEW event,
         \/ Server!Send(Server!NotifyMembers(event, r, peerId[x]))
         \/ \E msg :
              Server!Send(Server!Reply(x, msg, Server!NotifyMembers(event, r, peerId[x])))
  PROVE  /\ KnownOnly
         /\ \A s \in Sockets \ {x} : Alone(s) =>
              sent'[s] = IF In(rooms, peerId[s], r)
                         THEN Server!PeerEvent(event, r, peerId[x]) ELSE Null
<1> DEFINE others == Server!NotifyMembers(event, r, peerId[x])
           ms == rooms[r].members \ {peerId[x]}
<1>1. ms \in SUBSET PeerIds /\ DOMAIN others = Server!Registered(ms)
      /\ \A w \in DOMAIN others : others[w] = Server!PeerEvent(event, r, peerId[x])
  BY DEF ServerFacts, Server!TypeOK, Server!Room, Server!NotifyMembers
<1>2. \A w \in Sockets : w # x =>
        sent'[w] = IF w \in DOMAIN others /\ readyState[w] = "open" THEN others[w] ELSE Null
  <2> HIDE DEF others
  <2>1. CASE Server!Send(others)
    BY <2>1 DEF Server!Send
  <2>2. ASSUME NEW msg, Server!Send(Server!Reply(x, msg, others))
        PROVE  \A w \in Sockets : w # x =>
                 sent'[w] = IF w \in DOMAIN others /\ readyState[w] = "open" THEN others[w]
                            ELSE Null
    BY <2>2 DEF Server!Send, Server!Reply
  <2> QED
    BY <2>1, <2>2 DEF others
<1> HIDE DEF others, ms
<1>3. KnownOnly
  BY <1>1, <1>2, RegisteredKnown DEF KnownOnly
<1>4. ASSUME NEW s \in Sockets \ {x}, Alone(s)
      PROVE  sent'[s] = IF In(rooms, peerId[s], r)
                        THEN Server!PeerEvent(event, r, peerId[x]) ELSE Null
  <2>1. s \in DOMAIN others <=> peerId[s] \in ms
    BY <1>1, <1>4, RegisteredAlone
  <2>2. peerId[s] \in ms <=> In(rooms, peerId[s], r)
    BY <1>4 DEF ms, Alone, In
  <2> QED
    BY <1>1, <1>2, <1>4, <2>1, <2>2 DEF Alone
<1> QED
  BY <1>3, <1>4

\* The step keeps every view right ...
AllShow == KnownOnly /\ \A s \in Sockets : Alone(s) => NotJoined(s) /\ \A v \in Views : Shows(s, v)

\* ... and that of x, whose own join it is, if x was in no room.
AllShowBut(x) ==
  /\ KnownOnly
  /\ \A s \in Sockets : Alone(s) =>
       /\ s # x => NotJoined(s)
       /\ \A v \in Views : s # x \/ v = Null => Shows(s, v)

LEMMA SilenceShows ==
  ASSUME rooms' = rooms, NEW msgs, Server!Send(msgs),
         \A w \in DOMAIN msgs : peerId[w] # Null /\ NotOfRooms(msgs[w])
  PROVE  AllShow
<1>1. \A w \in Sockets : sent'[w] # Null => peerId[w] # Null /\ NotOfRooms(sent'[w])
  BY DEF Server!Send
<1> QED
  BY <1>1, QuietShows DEF AllShow, KnownOnly

LEMMA RefuseShows ==
  ASSUME NEW x \in Sockets, peerId[x] # Null, NEW code, Server!Refuse(x, code)
  PROVE  AllShow
<1>1. \A w \in DOMAIN Server!To(x, Server!Error(code)) :
        peerId[w] # Null /\ NotOfRooms(Server!To(x, Server!Error(code))[w])
  BY DEF Server!To, Server!Error, NotOfRooms
<1> QED
  BY <1>1, SilenceShows DEF Server!Refuse, Server!roomVars

LEMMA RelayShows ==
  ASSUME ServerFacts, NEW x \in Sockets, NEW to \in PeerIds, Server!Relay(x, to)
  PROVE  AllShow
<1> DEFINE msgs == [w \in Server!Registered({to}) |-> Server!Relayed(peerId[x], to)]
<1>1. \A w \in DOMAIN msgs : peerId[w] # Null /\ NotOfRooms(msgs[w])
  BY RegisteredKnown DEF Server!Relayed, NotOfRooms
<1>2. Server!Send(msgs) /\ rooms' = rooms
  BY DEF Server!Relay, Server!roomVars
<1> HIDE DEF msgs
<1> QED
  BY <1>1, <1>2, SilenceShows

LEMMA ConnectShows ==
  ASSUME NEW x \in Sockets, Server!Connect(x) \/ Server!BeginClose(x)
  PROVE  AllShow
<1>1. \A w \in DOMAIN Server!NoMessages :
        peerId[w] # Null /\ NotOfRooms(Server!NoMessages[w])
  BY DEF Server!NoMessages
<1>2. rooms' = rooms /\ Server!Send(Server!NoMessages)
  BY DEF Server!Connect, Server!BeginClose, Server!roomVars
<1> QED
  BY <1>1, <1>2, SilenceShows

\* A peer joins: the members see it come, and it sees them.
LEMMA JoinShows ==
  ASSUME ServerFacts, NEW x \in Sockets, NEW r \in RoomIds, Server!JoinById(x, r)
  PROVE  AllShowBut(x)
<1>1. CASE Server!JoinResult(peerId[x], r) # "success"
  BY <1>1, RefuseShows DEF Server!JoinById, Server!Authenticated, AllShow, AllShowBut
<1>2. CASE Server!JoinResult(peerId[x], r) = "success"
  <2> DEFINE q == peerId[x]
             room == [rooms[r] EXCEPT !.members = @ \cup {q}]
             reply == Server!RoomJoined(r, room.joinCode, room.hostPeerId, room.members)
             others == Server!NotifyMembers("room-peer-joined", r, q)
             news == Server!PeerEvent("room-peer-joined", r, q)
  <2>1. /\ q \in PeerIds /\ q # Null /\ rooms[r] \in Server!Room /\ rooms[r] # Null
        /\ q \notin rooms[r].members
    BY <1>2, Nulls DEF Server!JoinById, Server!Authenticated, Server!JoinResult, ServerFacts,
      Server!TypeOK
  <2>2. rooms' = [rooms EXCEPT ![r] = room] /\ Server!Send(Server!Reply(x, reply, others))
    BY <1>2 DEF Server!JoinById, Server!AddPeerToRoom
  <2>3. room \in Server!Room /\ room.members = rooms[r].members \cup {q}
    BY <2>1 DEF Server!Room
  <2>4. rooms'[r] = room /\ \A o \in RoomIds \ {r} : rooms'[o] = rooms[o]
    BY <2>2 DEF ServerFacts, Server!TypeOK
  <2>5. /\ KnownOnly
        /\ \A s \in Sockets \ {x} : Alone(s) =>
             sent'[s] = IF In(rooms, peerId[s], r) THEN news ELSE Null
    <3>1. \E msg : Server!Send(Server!Reply(x, msg, others))
      BY <2>2
    <3> HIDE DEF room, reply
    <3> QED
      BY <2>1, <3>1, Notified
  <2>6. readyState[x] = "open" => sent'[x] = reply
    <3> HIDE DEF reply, others
    <3> QED
      BY <2>2 DEF Server!Send, Server!Reply
  <2>7. /\ reply \in ServerFrames /\ reply.type = "room-joined" /\ reply.roomId = r
        /\ reply.members = room.members
        /\ news \in ServerFrames /\ news.type = "room-peer-joined" /\ news.peerId = q
    BY <2>1, <2>3 DEF Server!RoomJoined, Server!PeerEvent, ServerFrames, Server!Room
  <2> HIDE DEF room, reply, others, news, q
  <2>8. ASSUME NEW s \in Sockets \ {x}, Alone(s)
        PROVE  NotJoined(s) /\ \A v \in Views : Shows(s, v)
    <3>1. PICK p : p = peerId[s]
      OBVIOUS
    <3>2. p # q
      BY <2>8, <3>1 DEF Alone, q
    <3>3. CASE ~In(rooms, p, r)
      <4>1. sent'[s] = Null
        BY <2>5, <2>8, <3>1, <3>3
      <4>2. ~In(rooms', p, r)
        BY <2>1, <2>3, <2>4, <3>2, <3>3 DEF In
      <4> QED
        BY <2>4, <3>1, <3>3, <4>1, <4>2, SeesElsewhere DEF Shows, NewView, NotJoined
    <3>4. CASE In(rooms, p, r)
      <4>1. sent'[s] = news /\ news # Null
        BY <2>5, <2>7, <2>8, <3>1, <3>4, Nulls
      <4>2. p \in room.members
        BY <2>3, <3>4 DEF In
      <4>3. \A v \in Views : Sees(rooms, v, p) => Sees(rooms', RoomAfter(v, news), p)
        BY <2>3, <2>4, <2>7, <3>4, <4>2, SeesEvent
      <4> QED
        BY <2>7, <3>1, <4>1, <4>3 DEF Shows, NewView, NotJoined
    <3> QED
      BY <3>3, <3>4
  <2>9. ASSUME Alone(x) PROVE Shows(x, Null)
    <3>1. sent'[x] = reply /\ reply # Null
      BY <2>6, <2>7, <2>9, Nulls DEF Alone
    <3>2. Sees(rooms, Null, q) => Sees(rooms', RoomAfter(Null, reply), q)
      BY <2>3, <2>4, <2>7, SeesJoining
    <3> QED
      BY <3>1, <3>2 DEF Shows, NewView, q
  <2> QED
    BY <2>5, <2>8, <2>9 DEF AllShowBut
<1> QED
  BY <1>1, <1>2

LEMMA JoinCodeShows ==
  ASSUME ServerFacts, NEW x \in Sockets, NEW c \in JoinCodes, Server!JoinByCode(x, c)
  PROVE  AllShowBut(x)
<1>1. CASE joinCodeToRoomId[c] = Null
  BY <1>1, RefuseShows DEF Server!JoinByCode, Server!Authenticated, AllShow, AllShowBut
<1>2. CASE joinCodeToRoomId[c] # Null
  BY <1>2, JoinShows DEF Server!JoinByCode, ServerFacts, Server!TypeOK
<1> QED
  BY <1>1, <1>2

LEMMA CreateShows ==
  ASSUME ServerFacts, NEW x \in Sockets, NEW r \in RoomIds,
         Server!CreateCollides(x, r) \/ \E c \in JoinCodes : Server!CreateRoom(x, r, c)
  PROVE  AllShowBut(x)
<1>1. CASE Server!CreateCollides(x, r)
  BY <1>1, RefuseShows DEF Server!CreateCollides, Server!Authenticated, AllShow, AllShowBut
<1>2. ASSUME NEW c \in JoinCodes, Server!CreateRoom(x, r, c) PROVE AllShowBut(x)
  <2> DEFINE q == peerId[x]
             room == [joinCode |-> c, hostPeerId |-> q, members |-> {q}]
             reply == Server!RoomJoined(r, c, q, {q})
  <2>1. /\ q \in PeerIds /\ q # Null /\ r \notin issued
        /\ rooms' = [rooms EXCEPT ![r] = room] /\ Server!Send(Server!To(x, reply))
    BY <1>2 DEF Server!CreateRoom, Server!Authenticated, ServerFacts, Server!TypeOK
  <2>2. room \in Server!Room /\ room.members = {q} /\ rooms[r] = Null
    BY <2>1 DEF Server!Room, ServerFacts
  <2>3. rooms'[r] = room /\ \A o \in RoomIds \ {r} : rooms'[o] = rooms[o]
    BY <2>1 DEF ServerFacts, Server!TypeOK
  <2>4. /\ reply \in ServerFrames /\ reply.type = "room-joined" /\ reply.roomId = r
        /\ reply.members = {q}
    BY <2>1 DEF Server!RoomJoined, ServerFrames
  <2> HIDE DEF room, reply, q
  <2>5. \A w \in Sockets : sent'[w] = IF w = x /\ readyState[w] = "open" THEN reply ELSE Null
    BY <2>1 DEF Server!Send, Server!To
  <2>6. KnownOnly
    BY <2>1, <2>5 DEF KnownOnly, q
  <2>7. ASSUME NEW s \in Sockets \ {x}, Alone(s)
        PROVE  NotJoined(s) /\ \A v \in Views : Shows(s, v)
    <3>1. PICK p : p = peerId[s]
      OBVIOUS
    <3>2. p # q /\ sent'[s] = Null
      BY <2>5, <2>7, <3>1 DEF Alone, q
    <3>3. ~In(rooms, p, r) /\ ~In(rooms', p, r)
      BY <2>2, <2>3, <3>2 DEF In
    <3> QED
      BY <2>3, <3>1, <3>2, <3>3, SeesElsewhere DEF Shows, NewView, NotJoined
  <2>8. ASSUME Alone(x) PROVE Shows(x, Null)
    <3>1. sent'[x] = reply /\ reply # Null
      BY <2>4, <2>5, <2>8, Nulls DEF Alone
    <3>2. Sees(rooms, Null, q) => Sees(rooms', RoomAfter(Null, reply), q)
      BY <2>2, <2>3, <2>4, SeesJoining
    <3> QED
      BY <3>1, <3>2 DEF Shows, NewView, q
  <2> QED
    BY <2>6, <2>7, <2>8 DEF AllShowBut
<1> QED
  BY <1>1, <1>2

\* Member q leaves room r, which is gone if q was the last.
Removed(r, q) ==
  /\ rooms'[r] \in Server!Room \cup {Null}
  /\ rooms'[r] # Null => rooms'[r].members = rooms[r].members \ {q}
  /\ rooms'[r] = Null => rooms[r].members = {q}
  /\ \A o \in RoomIds \ {r} : rooms'[o] = rooms[o]

LEMMA RemovePeerRemoves ==
  ASSUME Server!TypeOK, NEW x, NEW r \in RoomIds, rooms[r] # Null,
         Server!RemovePeerFromRoom(x, r)
  PROVE  Removed(r, peerId[x])
<1> DEFINE q == peerId[x]
<1>1. rooms[r] \in Server!Room
  BY DEF Server!TypeOK
<1>2. CASE rooms[r].members = {q}
  <2>1. rooms' = [rooms EXCEPT ![r] = Null]
    BY <1>2 DEF Server!RemovePeerFromRoom, Server!CleanupRoom
  <2> QED
    BY <1>2, <2>1 DEF Removed, Server!TypeOK
<1>3. CASE rooms[r].members # {q}
  <2> DEFINE room == [rooms[r] EXCEPT !.members = @ \ {q}]
  <2>1. rooms' = [rooms EXCEPT ![r] = room]
    BY <1>3 DEF Server!RemovePeerFromRoom
  <2>2. room \in Server!Room /\ room.members = rooms[r].members \ {q} /\ room # Null
    BY <1>1, Nulls DEF Server!Room
  <2> HIDE DEF room
  <2> QED
    BY <2>1, <2>2 DEF Removed, Server!TypeOK
<1> QED
  BY <1>2, <1>3

\* The other members see the peer go.
LEMMA OthersSeeLeaving ==
  ASSUME ServerFacts, NEW x \in Sockets, peerId[x] # Null, NEW r \in RoomIds,
         In(rooms, peerId[x], r), Removed(r, peerId[x]), NEW s \in Sockets \ {x}, Alone(s),
         sent'[s] = IF In(rooms, peerId[s], r)
                    THEN Server!PeerEvent("room-peer-left", r, peerId[x]) ELSE Null
  PROVE  NotJoined(s) /\ \A v \in Views : Shows(s, v)
<1> DEFINE news == Server!PeerEvent("room-peer-left", r, peerId[x])
<1>1. PICK p, q : p = peerId[s] /\ q = peerId[x]
  OBVIOUS
<1>2. p # q /\ q \in PeerIds
  BY <1>1 DEF Alone, ServerFacts, Server!TypeOK
<1>3. news \in ServerFrames /\ news.type = "room-peer-left" /\ news.peerId = q
  BY <1>1, <1>2 DEF Server!PeerEvent, ServerFrames
<1>4. sent'[s] = IF In(rooms, p, r) THEN news ELSE Null
  BY <1>1
<1> HIDE DEF news
<1>5. CASE ~In(rooms, p, r)
  <2>1. ~In(rooms', p, r)
    BY <1>1, <1>5 DEF In, Removed
  <2> QED
    BY <1>1, <1>4, <1>5, <2>1, SeesElsewhere DEF Shows, NewView, NotJoined, Removed
<1>6. CASE In(rooms, p, r)
  <2>1. sent'[s] = news /\ news # Null
    BY <1>3, <1>4, <1>6, Nulls
  <2>2. /\ rooms'[r] \in Server!Room /\ p \in rooms'[r].members
        /\ rooms'[r].members = rooms[r].members \ {q}
    BY <1>1, <1>2, <1>6 DEF In, Removed
  <2>3. \A v \in Views : Sees(rooms, v, p) => Sees(rooms', RoomAfter(v, news), p)
    BY <1>3, <1>6, <2>2, SeesEvent DEF Removed
  <2> QED
    BY <1>1, <1>3, <2>1, <2>3 DEF Shows, NewView, NotJoined
<1> QED
  BY <1>5, <1>6

LEMMA LeaveShows ==
  ASSUME ServerFacts, NEW x \in Sockets, Server!LeaveRoom(x) \/ Server!LeaveRefused(x)
  PROVE  AllShow
<1>1. CASE Server!LeaveRefused(x)
  BY <1>1, RefuseShows DEF Server!LeaveRefused, Server!Authenticated
<1>2. CASE Server!LeaveRoom(x)
  <2>1. PICK r, q : r = roomId[x] /\ q = peerId[x]
    OBVIOUS
  <2> DEFINE reply == Server!RoomLeft(r, q)
             others == Server!NotifyMembers("room-peer-left", r, q)
  <2>2. /\ r \in RoomIds /\ q # Null /\ q \in PeerIds /\ In(rooms, q, r)
        /\ Server!RemovePeerFromRoom(x, r) /\ Server!Send(Server!Reply(x, reply, others))
    BY <1>2, <2>1 DEF Server!LeaveRoom, Server!Authenticated, Server!IsMember, In, ServerFacts,
      Server!TypeOK
  <2>3. reply \in ServerFrames /\ reply.type = "room-left"
    BY <2>2 DEF Server!RoomLeft, ServerFrames
  <2>4. Removed(r, q)
    BY <2>1, <2>2, RemovePeerRemoves DEF ServerFacts, In
  <2>5. /\ KnownOnly
        /\ \A s \in Sockets \ {x} : Alone(s) =>
             sent'[s] = IF In(rooms, peerId[s], r)
                        THEN Server!PeerEvent("room-peer-left", r, q) ELSE Null
    <3>1. \E msg : Server!Send(Server!Reply(x, msg, others))
      BY <2>2
    <3> HIDE DEF reply
    <3> QED
      BY <2>1, <2>2, <3>1, Notified DEF In
  <2>6. readyState[x] = "open" => sent'[x] = reply
    <3> HIDE DEF reply, others
    <3> QED
      BY <2>2 DEF Server!Send, Server!Reply
  <2> HIDE DEF reply, others
  <2>7. ASSUME NEW s \in Sockets \ {x}, Alone(s)
        PROVE  NotJoined(s) /\ \A v \in Views : Shows(s, v)
    BY <2>1, <2>2, <2>4, <2>5, <2>7, OthersSeeLeaving
  <2>8. ASSUME Alone(x) PROVE NotJoined(x) /\ \A v \in Views : Shows(x, v)
    <3>1. sent'[x] = reply /\ reply # Null
      BY <2>3, <2>6, <2>8, Nulls DEF Alone
    <3>2. ~In(rooms', q, r) /\ \A o \in RoomIds \ {r} : rooms'[o] = rooms[o]
      BY <2>4 DEF In, Removed
    <3>3. \A v \in Views : Sees(rooms, v, q) => Sees(rooms', RoomAfter(v, reply), q)
      BY <2>2, <2>3, <3>2, SeesLeaving
    <3> QED
      BY <2>1, <2>3, <3>1, <3>3 DEF Shows, NewView, NotJoined
  <2> QED
    BY <2>5, <2>7, <2>8 DEF AllShow
<1> QED
  BY <1>1, <1>2

\* The socket that closes is not open, so it is nobody's only open one.
LEMMA CloseShows ==
  ASSUME ServerFacts, NEW x \in Sockets, Server!Close(x) PROVE AllShow
<1>1. PICK r, q : r = roomId[x] /\ q = peerId[x]
  OBVIOUS
<1>2. CASE r # Null /\ Server!IsMember(q, r)
  <2>1. /\ r \in RoomIds /\ In(rooms, q, r) /\ ~Alone(x)
        /\ Server!RemovePeerFromRoom(x, r)
        /\ Server!Send(Server!NotifyMembers("room-peer-left", r, q))
    BY <1>1, <1>2 DEF Server!Close, Server!IsMember, In, ServerFacts, Server!TypeOK, Alone
  <2>2. q # Null
    BY <2>1, Nulls DEF In, ServerFacts, Server!TypeOK, Server!Room
  <2>3. Removed(r, q)
    BY <1>1, <2>1, RemovePeerRemoves DEF ServerFacts, In
  <2>4. /\ KnownOnly
        /\ \A s \in Sockets \ {x} : Alone(s) =>
             sent'[s] = IF In(rooms, peerId[s], r)
                        THEN Server!PeerEvent("room-peer-left", r, q) ELSE Null
    BY <1>1, <2>1, <2>2, Notified DEF In
  <2>5. ASSUME NEW s \in Sockets \ {x}, Alone(s)
        PROVE  NotJoined(s) /\ \A v \in Views : Shows(s, v)
    BY <1>1, <2>1, <2>2, <2>3, <2>4, <2>5, OthersSeeLeaving
  <2> QED
    BY <2>1, <2>4, <2>5 DEF AllShow
<1>3. CASE ~(r # Null /\ Server!IsMember(q, r))
  <2>1. rooms' = rooms /\ Server!Send(Server!NoMessages)
    BY <1>1, <1>3 DEF Server!Close, Server!roomVars
  <2> QED
    BY <2>1, SilenceShows DEF Server!NoMessages
<1> QED
  BY <1>2, <1>3

\* A room expires, and its members are told.
LEMMA ExpireShows ==
  ASSUME ServerFacts, NEW r \in RoomIds, Server!ExpireRoom(r) PROVE AllShow
<1> DEFINE ms == rooms[r].members
           news == Server!RoomExpired(r)
           told == Server!Registered(ms)
<1>1. /\ rooms[r] # Null /\ ms \in SUBSET PeerIds
      /\ Server!Send([s \in told |-> news]) /\ rooms' = [rooms EXCEPT ![r] = Null]
  BY DEF Server!ExpireRoom, Server!CleanupRoom, ServerFacts, Server!TypeOK, Server!Room
<1>2. ~(\E p : In(rooms', p, r)) /\ \A o \in RoomIds \ {r} : rooms'[o] = rooms[o]
  BY <1>1 DEF In, ServerFacts, Server!TypeOK
<1>3. news \in ServerFrames /\ news.type = "room-expired"
  BY DEF Server!RoomExpired, ServerFrames
<1> HIDE DEF news
<1>4. \A w \in Sockets : sent'[w] = IF w \in told /\ readyState[w] = "open" THEN news ELSE Null
  BY <1>1 DEF Server!Send
<1>5. KnownOnly
  BY <1>1, <1>4, RegisteredKnown DEF KnownOnly
<1>6. ASSUME NEW s \in Sockets, Alone(s)
      PROVE  NotJoined(s) /\ \A v \in Views : Shows(s, v)
  <2>1. PICK p : p = peerId[s]
    OBVIOUS
  <2>2. s \in told <=> In(rooms, p, r)
    BY <1>1, <1>6, <2>1, RegisteredAlone DEF In
  <2>3. CASE ~In(rooms, p, r)
    <3>1. sent'[s] = Null
      BY <1>4, <2>2, <2>3
    <3> QED
      BY <1>2, <2>1, <2>3, <3>1, SeesElsewhere DEF Shows, NewView, NotJoined
  <2>4. CASE In(rooms, p, r)
    <3>1. sent'[s] = news /\ news # Null
      BY <1>3, <1>4, <1>6, <2>2, <2>4, Nulls DEF Alone
    <3>2. \A v \in Views : Sees(rooms, v, p) => Sees(rooms', RoomAfter(v, news), p)
      BY <1>2, <1>3, <2>4, SeesLeaving
    <3> QED
      BY <1>3, <2>1, <3>1, <3>2 DEF Shows, NewView, NotJoined
  <2> QED
    BY <2>3, <2>4
<1> QED
  BY <1>5, <1>6 DEF AllShow

-----------------------------------------------------------------------------
(* The ids of a user's sockets stay with the user.                         *)

(***************************************************************************)
(* Two connections with one peer id are connections of one user, because a *)
(* client has credentials only from a connection of its own; and before    *)
(* its hello is answered it has heard nothing and is in no room.           *)
(***************************************************************************)
IdsInv ==
  /\ \A x, y \in Sockets : peerId[x] # Null /\ peerId[y] = peerId[x] => owner[y] = owner[x]
  /\ \A u \in Users : myPeerId[u] # Null =>
       \E y \in Sockets : owner[y] = u /\ peerId[y] = myPeerId[u]
  /\ \A x \in Sockets : resume[x].peerId # Null =>
       \E y \in Sockets \ {x} : owner[y] = owner[x] /\ peerId[y] = resume[x].peerId
  /\ \A x \in Sockets : \A i \in DOMAIN toServer[x] :
       toServer[x][i].type = "hello" => toServer[x][i] = Hello(resume[x])
  /\ \A x \in Sockets : toClient[x] # <<>> => peerId[x] # Null
  /\ \A u \in Users : myRoom[u] # Null => \E y \in Sockets : owner[y] = u /\ peerId[y] # Null

\* hello gives socket s the id p: a new one, or that of the credentials s was opened with.
GivesId(s, p) ==
  /\ Greets(s)
  /\ p \in PeerIds /\ peerId[s] = Null /\ peerId' = [peerId EXCEPT ![s] = p]
  /\ \A x \in Sockets \ {s} : sent'[x] = Null
  /\ sent'[s] # Null => IsPeerId(sent'[s])
  /\ UNCHANGED rooms
  /\ p \notin issued \/ (p = resume[s].peerId /\ \E x \in Sockets \ {s} : peerId[x] = p)

LEMMA HelloGives ==
  ASSUME TypeInv, NEW s \in Sockets, HandleHello(s, Hello(resume[s]))
  PROVE  \E p \in PeerIds : GivesId(s, p)
<1> DEFINE msg == Hello(resume[s])
<1>1. msg.from = resume[s].peerId
  BY DEF Hello
<1>2. Greets(s)
  BY HelloServed
<1>3. PICK q \in PeerIds, k \in Tokens :
        /\ peerId[s] = Null
        /\ peerId' = [peerId EXCEPT ![s] = q]
        /\ sent' = [x \in Sockets |->
             IF x = s /\ readyState[s] = "open" THEN Server!PeerIdMsg(q, k) ELSE Null]
  BY <1>2 DEF Greets
<1>4. /\ \A x \in Sockets \ {s} : sent'[x] = Null
      /\ sent'[s] # Null => IsPeerId(sent'[s])
  <2>1. IsPeerId(Server!PeerIdMsg(q, k))
    BY DEF IsPeerId, Server!PeerIdMsg
  <2> QED
    BY <1>3, <2>1
<1> HIDE DEF msg
<1>5. CASE Resumable(s, msg) # {}
  <2>1. PICK old \in Resumable(s, msg), t \in Tokens : Server!HelloResume(s, old, t)
    BY <1>5 DEF HandleHello, msg
  <2>2. old \in Sockets \ {s} /\ peerId[old] = resume[s].peerId /\ peerId[old] \in PeerIds
    BY <1>1, <2>1 DEF Resumable, Server!Clients, TypeInv, Server!TypeOK
  <2>3. peerId' = [peerId EXCEPT ![s] = peerId[old]] /\ UNCHANGED rooms
    BY <2>1 DEF Server!HelloResume, Server!roomVars
  <2> QED
    BY <1>2, <1>3, <1>4, <2>2, <2>3 DEF GivesId
<1>6. CASE Resumable(s, msg) = {}
  <2>1. PICK p \in PeerIds, t \in Tokens : Server!HelloFresh(s, p, t)
    BY <1>6 DEF HandleHello, msg
  <2>2. peerId' = [peerId EXCEPT ![s] = p] /\ UNCHANGED rooms /\ p \notin issued
    BY <2>1 DEF Server!HelloFresh, Server!roomVars
  <2> QED
    BY <1>2, <1>3, <1>4, <2>2 DEF GivesId
<1> QED
  BY <1>5, <1>6

\* The frames of socket s stay, are lost, or the first is taken.
Taken(s) ==
  \/ toServer'[s] \in {toServer[s], <<>>}
  \/ toServer[s] # <<>> /\ toServer'[s] = Tail(toServer[s])

(***************************************************************************)
(* A step of the server is the answer to a hello, the join of the socket   *)
(* whose frame is taken, or a step that keeps every view right.            *)
(***************************************************************************)
ServerKinds ==
  \/ \E x \in Sockets, p \in PeerIds : GivesId(x, p)
  \/ SessionsKept /\ AllShow
  \/ /\ SessionsKept
     /\ \E x \in Sockets :
          /\ AllShowBut(x)
          /\ toServer[x] # <<>> /\ Head(toServer[x]).type \in Joins
          /\ toServer'[x] = Tail(toServer[x])

LEMMA RequestKinds ==
  ASSUME TypeInv, ServerFacts, NEW s \in Sockets, NEW msg \in ClientFrames,
         HandleRequest(s, msg)
  PROVE  SessionsKept /\ (AllShow \/ (AllShowBut(s) /\ msg.type \in Joins))
<1>0. SessionsKept
  BY RequestServed
<1>1. CASE msg.type = "join-id" /\ Server!JoinById(s, msg.roomId)
  BY <1>0, <1>1, FrameFields, JoinShows DEF Joins
<1>2. CASE msg.type = "join-code" /\ Server!JoinByCode(s, msg.joinCode)
  BY <1>0, <1>2, FrameFields, JoinCodeShows DEF Joins
<1>3. ASSUME msg.type = "create", NEW r \in RoomIds,
             Server!CreateCollides(s, r) \/ \E c \in JoinCodes : Server!CreateRoom(s, r, c)
      PROVE  AllShowBut(s) /\ msg.type \in Joins
  BY <1>3, CreateShows DEF Joins
<1>4. CASE Server!LeaveRoom(s) \/ Server!LeaveRefused(s)
  BY <1>0, <1>4, LeaveShows
<1>5. CASE msg.type = "relay" /\ Server!Relay(s, msg.to)
  BY <1>0, <1>5, FrameFields, RelayShows
<1> QED
  BY <1>0, <1>1, <1>2, <1>3, <1>4, <1>5 DEF HandleRequest

LEMMA ServerMoveKinds ==
  ASSUME SocketsInv, ServerFacts, IdsInv, ServerMove
  PROVE  /\ ServerKinds
         /\ \A x \in Sockets : Taken(x)
         /\ \A x \in Sockets : readyState'[x] = "open" =>
              readyState[x] = "open" \/ peerId'[x] = Null
<1> DEFINE Goal == /\ ServerKinds
                   /\ \A x \in Sockets : Taken(x)
                   /\ \A x \in Sockets : readyState'[x] = "open" =>
                        readyState[x] = "open" \/ peerId'[x] = Null
<1>0. /\ TypeInv
      /\ readyState \in [Sockets -> Server!ReadyStates]
      /\ toServer \in [Sockets -> Seq(ClientFrames)]
  BY DEF SocketsInv, TypeInv, Server!TypeOK, FramesOK
<1>1. ASSUME NEW s \in Sockets, Accept(s) PROVE Goal
  <2>1. SessionsKept /\ readyState[s] = "none" /\ UNCHANGED toServer
        /\ \A x \in Sockets \ {s} : readyState'[x] = readyState[x]
    BY <1>0, <1>1, ConnectKeeps DEF Accept, ServerStep, Server!Connect
  <2>2. peerId'[s] = Null
    BY <2>1 DEF SessionsKept, SocketsInv, SocketInv
  <2>3. AllShow
    BY <1>1, ConnectShows DEF Accept, ServerStep
  <2> QED
    BY <2>1, <2>2, <2>3 DEF ServerKinds, Taken
<1>2. ASSUME NEW s \in Sockets, NoticeGone(s) PROVE Goal
  <2>1. SessionsKept /\ readyState' = [readyState EXCEPT ![s] = "closing"] /\ UNCHANGED toServer
    BY <1>2, ConnectKeeps DEF NoticeGone, ServerStep, Server!BeginClose
  <2>2. AllShow
    BY <1>2, ConnectShows DEF NoticeGone, ServerStep
  <2> QED
    BY <1>0, <2>1, <2>2 DEF ServerKinds, Taken
<1>3. ASSUME NEW s \in Sockets, ServerClosed(s) PROVE Goal
  <2>1. SessionsKept /\ readyState' = [readyState EXCEPT ![s] = "closed"]
        /\ toServer' = [toServer EXCEPT ![s] = <<>>]
    BY <1>0, <1>3, CloseKeeps DEF ServerClosed, Server!Close, TypeInv
  <2>2. AllShow
    BY <1>3, CloseShows DEF ServerClosed
  <2> QED
    BY <1>0, <2>1, <2>2 DEF ServerKinds, Taken
<1>4. ASSUME NEW r \in RoomIds, ServerStep(Server!ExpireRoom(r)) PROVE Goal
  <2>1. SessionsKept /\ UNCHANGED <<readyState, toServer>>
    BY <1>0, <1>4, ExpireKeeps DEF ServerStep
  <2>2. AllShow
    BY <1>4, ExpireShows DEF ServerStep
  <2> QED
    BY <2>1, <2>2 DEF ServerKinds, Taken
<1>5. ASSUME NEW s \in Sockets, Receive(s) PROVE Goal
  <2> DEFINE msg == Head(toServer[s])
  <2>1. /\ Served(s) /\ toServer[s] # <<>> /\ toServer' = [toServer EXCEPT ![s] = Tail(@)]
        /\ \/ msg.type = "hello" /\ HandleHello(s, msg)
           \/ HandleRequest(s, msg)
           \/ Unauthorized(s, msg) /\ Server!BeginClose(s)
    BY <1>0, <1>5, ReceiveServes DEF Receive
  <2>2. msg \in ClientFrames /\ msg = toServer[s][1] /\ 1 \in DOMAIN toServer[s]
    BY <1>0, <2>1, HeadFrame, TailIndex
  <2>3. (\A x \in Sockets : Taken(x)) /\ toServer'[s] = Tail(toServer[s])
    BY <1>0, <2>1 DEF Taken
  <2>4. \A x \in Sockets : readyState'[x] = "open" => readyState[x] = "open"
    <3>1. CASE Greets(s)
      BY <3>1 DEF Greets
    <3>2. CASE UNCHANGED readyState
      BY <3>2
    <3>3. CASE readyState' = [readyState EXCEPT ![s] = "closing"]
      BY <1>0, <3>3
    <3> QED
      BY <2>1, <3>1, <3>2, <3>3 DEF Served
  <2>5. ServerKinds
    <3>1. CASE msg.type = "hello" /\ HandleHello(s, msg)
      <4>1. msg = Hello(resume[s])
        BY <2>2, <3>1 DEF IdsInv
      <4> QED
        BY <1>0, <3>1, <4>1, HelloGives DEF ServerKinds
    <3>2. CASE HandleRequest(s, msg)
      BY <1>0, <2>1, <2>2, <2>3, <3>2, RequestKinds DEF ServerKinds
    <3>3. CASE Server!BeginClose(s)
      BY <3>3, ConnectKeeps, ConnectShows DEF ServerKinds
    <3> QED
      BY <2>1, <3>1, <3>2, <3>3
  <2> QED
    BY <2>3, <2>4, <2>5
<1> QED
  BY <1>1, <1>2, <1>3, <1>4, <1>5 DEF ServerMove

\* What is left of the frames of a socket is a part of them.
LEMMA TakenFrames ==
  ASSUME TypeInv, NEW s \in Sockets, Taken(s)
  PROVE  \E d \in {0, 1} : \A i \in DOMAIN toServer'[s] :
           i \in Nat /\ i + d \in DOMAIN toServer[s] /\ toServer'[s][i] = toServer[s][i + d]
<1>1. toServer[s] \in Seq(ClientFrames)
  BY DEF TypeInv, FramesOK
<1>2. CASE toServer'[s] = toServer[s]
  <2>1. \A i \in DOMAIN toServer[s] : i \in Nat /\ i + 0 = i
    BY <1>1, LenProperties
  <2> QED
    BY <1>2, <2>1
<1>3. CASE toServer'[s] = <<>>
  <2>1. DOMAIN toServer'[s] = {}
    BY <1>3
  <2> QED
    BY <2>1
<1>4. CASE toServer[s] # <<>> /\ toServer'[s] = Tail(toServer[s])
  BY <1>1, <1>4, TailIndex
<1> QED
  BY <1>2, <1>3, <1>4 DEF Taken

\* The ids of the sockets and the users of the sockets stay.
LEMMA IdsSame ==
  ASSUME IdsInv, UNCHANGED peerId,
         \A x \in Sockets : peerId[x] # Null => owner'[x] = owner[x],
         \A u \in Users : myPeerId'[u] = myPeerId[u] /\ myRoom'[u] = myRoom[u],
         \A x \in Sockets : resume'[x].peerId # Null =>
           \/ resume'[x] = resume[x] /\ owner'[x] = owner[x]
           \/ \E u \in Users : owner'[x] = u /\ resume'[x].peerId = myPeerId[u]
                               /\ peerId[x] = Null,
         \A x \in Sockets : \A i \in DOMAIN toServer'[x] : toServer'[x][i].type = "hello" =>
           toServer'[x][i] = Hello(resume'[x]),
         \A x \in Sockets : toClient'[x] # <<>> => peerId[x] # Null
  PROVE  IdsInv'
<1>1. \A x, y \in Sockets :
        peerId'[x] # Null /\ peerId'[y] = peerId'[x] => owner'[y] = owner'[x]
  BY DEF IdsInv
<1>2. \A u \in Users : myPeerId'[u] # Null =>
        \E y \in Sockets : owner'[y] = u /\ peerId'[y] = myPeerId'[u]
  BY DEF IdsInv
<1>3. ASSUME NEW x \in Sockets, resume'[x].peerId # Null
      PROVE  \E y \in Sockets \ {x} : owner'[y] = owner'[x] /\ peerId'[y] = resume'[x].peerId
  BY <1>3 DEF IdsInv
<1>4. \A u \in Users : myRoom'[u] # Null =>
        \E y \in Sockets : owner'[y] = u /\ peerId'[y] # Null
  BY DEF IdsInv
<1> QED
  BY <1>1, <1>2, <1>3, <1>4 DEF IdsInv

\* An answer to hello: a new id, or one of the user's own.
LEMMA GivenIds ==
  ASSUME SocketsInv, ServerFacts, IdsInv, NEW s \in Sockets, NEW p \in PeerIds, GivesId(s, p),
         UNCHANGED <<owner, myPeerId, myRoom, resume>>,
         \A x \in Sockets : \A i \in DOMAIN toServer'[x] : toServer'[x][i].type = "hello" =>
           toServer'[x][i] = Hello(resume[x]),
         \A x \in Sockets : toClient'[x] # <<>> => peerId'[x] # Null
  PROVE  IdsInv'
<1>1. /\ peerId[s] = Null /\ peerId'[s] = p /\ p # Null
      /\ \A x \in Sockets \ {s} : peerId'[x] = peerId[x]
      /\ p \notin issued \/ (p = resume[s].peerId /\ \E x \in Sockets \ {s} : peerId[x] = p)
  BY Nulls DEF GivesId, SocketsInv, TypeInv, Server!TypeOK
<1>2. \A x \in Sockets \ {s} : peerId[x] = p => owner[x] = owner[s]
  <2>1. CASE p \notin issued
    BY <1>1, <2>1 DEF ServerFacts
  <2>2. CASE p = resume[s].peerId
    <3>1. PICK y \in Sockets \ {s} : owner[y] = owner[s] /\ peerId[y] = p
      BY <1>1, <2>2 DEF IdsInv
    <3> QED
      BY <1>1, <3>1 DEF IdsInv
  <2> QED
    BY <1>1, <2>1, <2>2
<1>3. \A x, y \in Sockets :
        peerId'[x] # Null /\ peerId'[y] = peerId'[x] => owner[y] = owner[x]
  BY <1>1, <1>2 DEF IdsInv
<1>4. \A u \in Users : myPeerId[u] # Null =>
        \E y \in Sockets : owner[y] = u /\ peerId'[y] = myPeerId[u]
  BY <1>1 DEF IdsInv
<1>5. ASSUME NEW x \in Sockets, resume[x].peerId # Null
      PROVE  \E y \in Sockets \ {x} : owner[y] = owner[x] /\ peerId'[y] = resume[x].peerId
  <2>1. PICK y \in Sockets \ {x} : owner[y] = owner[x] /\ peerId[y] = resume[x].peerId
    BY <1>5 DEF IdsInv
  <2> QED
    BY <1>1, <1>5, <2>1
<1>6. \A u \in Users : myRoom[u] # Null => \E y \in Sockets : owner[y] = u /\ peerId'[y] # Null
  BY <1>1 DEF IdsInv
<1> QED
  BY <1>3, <1>4, <1>5, <1>6 DEF IdsInv

LEMMA InitIds == SystemInit => IdsInv
BY DEF SystemInit, Init, Server!Init, IdsInv, NoCredentials

LEMMA ServerMoveIds ==
  ASSUME SocketsInv, ServerFacts, IdsInv, ServerMove
  PROVE  IdsInv'
<1>1. /\ UNCHANGED <<owner, myPeerId, myRoom, resume, wsState>> /\ Deliver
      /\ ServerKinds /\ \A x \in Sockets : Taken(x)
  BY ServerMoves, ServerMoveKinds DEF SocketsInv, clientVars, objectVars, browserVars
<1>2. \A x \in Sockets : \A i \in DOMAIN toServer'[x] : toServer'[x][i].type = "hello" =>
        toServer'[x][i] = Hello(resume[x])
  <2> SUFFICES ASSUME NEW x \in Sockets, NEW i \in DOMAIN toServer'[x],
                      toServer'[x][i].type = "hello"
               PROVE  toServer'[x][i] = Hello(resume[x])
    OBVIOUS
  <2>1. PICK d \in {0, 1} : i + d \in DOMAIN toServer[x] /\ toServer'[x][i] = toServer[x][i + d]
    BY <1>1, TakenFrames DEF SocketsInv
  <2> QED
    BY <2>1 DEF IdsInv
<1>3. \A x \in Sockets : toClient'[x] # <<>> => toClient[x] # <<>> \/ sent'[x] # Null
  BY <1>1 DEF Deliver
<1>4. ASSUME SessionsKept, KnownOnly PROVE IdsInv'
  <2>1. \A x \in Sockets : toClient'[x] # <<>> => peerId[x] # Null
    BY <1>3, <1>4 DEF KnownOnly, IdsInv
  <2>2. UNCHANGED peerId
    BY <1>4 DEF SessionsKept
  <2> QED
    BY <1>1, <1>2, <2>1, <2>2, IdsSame
<1>5. ASSUME NEW s \in Sockets, NEW p \in PeerIds, GivesId(s, p) PROVE IdsInv'
  <2>1. p # Null /\ peerId'[s] = p /\ \A x \in Sockets \ {s} : peerId'[x] = peerId[x]
    BY <1>5, Nulls DEF GivesId, SocketsInv, TypeInv, Server!TypeOK
  <2>2. \A x \in Sockets : toClient'[x] # <<>> => peerId'[x] # Null
    BY <1>3, <1>5, <2>1 DEF GivesId, IdsInv
  <2> QED
    BY <1>1, <1>2, <1>5, <2>2, GivenIds
<1> QED
  BY <1>1, <1>4, <1>5 DEF ServerKinds, AllShow, AllShowBut

LEMMA NextIds ==
  ASSUME Patient, SocketsInv, ServerFacts, CredentialsInv, IdsInv, [Next]_vars
  PROVE  IdsInv'
<1>0. /\ ws \in [Users -> Sockets \cup {Null}] /\ Null \notin Sockets
      /\ owner \in [Sockets -> Users \cup {Null}]
      /\ toServer \in [Sockets -> Seq(ClientFrames)]
      /\ toClient \in [Sockets -> Seq(ServerFrames)]
      /\ resume \in [Sockets -> [peerId : PeerIds \cup {Null}, sessionToken : Tokens \cup {Null}]]
      /\ myPeerId \in [Users -> PeerIds \cup {Null}]
      /\ \A x \in Sockets : \A i \in DOMAIN toServer[x] : toServer[x][i].type = "hello" =>
           toServer[x][i] = Hello(resume[x])
      /\ \A x \in Sockets : toClient[x] # <<>> => peerId[x] # Null
  BY Nulls DEF SocketsInv, TypeInv, ClientTypeOK, FramesOK, IdsInv
<1>1. CASE UNCHANGED vars
  BY <1>1 DEF vars, clientVars, objectVars, browserVars, serverVars, IdsInv
<1>2. CASE ServerMove
  BY <1>2, ServerMoveIds
<1>3. ASSUME UNCHANGED <<peerId, owner, myPeerId, myRoom, resume>>,
             NEW s \in Sockets, NEW msg, msg.type = "hello" => msg = Hello(resume[s]),
             \/ toServer' = [toServer EXCEPT ![s] = Append(@, msg)]
             \/ UNCHANGED toServer,
             \A x \in Sockets : toClient'[x] \in {toClient[x], <<>>}
      PROVE  IdsInv'
  <2>1. ASSUME NEW x \in Sockets, NEW i \in DOMAIN toServer'[x], toServer'[x][i].type = "hello"
        PROVE  toServer'[x][i] = Hello(resume[x])
    <3>1. CASE toServer'[x] = toServer[x]
      BY <1>0, <2>1, <3>1
    <3>2. CASE x = s /\ toServer'[s] = Append(toServer[s], msg)
      <4>1. \/ i \in DOMAIN toServer[s] /\ toServer'[s][i] = toServer[s][i]
            \/ toServer'[s][i] = msg
        BY <1>0, <2>1, <3>2, AppendIndex
      <4> QED
        BY <1>0, <1>3, <2>1, <3>2, <4>1
    <3> QED
      BY <1>0, <1>3, <3>1, <3>2
  <2> QED
    BY <1>0, <1>3, <2>1, IdsSame
<1>4. ASSUME UNCHANGED serverVars, NEW u \in Users, NEW msg, Request(u, msg),
             msg.type # "hello"
      PROVE  IdsInv'
  <2>1. /\ UNCHANGED <<peerId, owner, myPeerId, myRoom, resume, toClient>>
        /\ ws[u] \in Sockets /\ toServer' = [toServer EXCEPT ![ws[u]] = Append(@, msg)]
    BY <1>0, <1>4 DEF Request, CanSend, Send, objectVars, browserVars, serverVars
  <2> QED
    BY <1>3, <1>4, <2>1
<1>5. ASSUME UNCHANGED serverVars, NEW u \in Users, NEW s \in Sockets, NEW c, Connect(u, s, c)
      PROVE  IdsInv'
  <2>1. /\ UNCHANGED <<peerId, myPeerId, myRoom, toServer>>
        /\ owner[s] = Null /\ owner' = [owner EXCEPT ![s] = u]
        /\ resume' = [resume EXCEPT ![s] = c] /\ c \in {NoCredentials, Credentials(u)}
        /\ \A x \in Sockets : toClient'[x] \in {toClient[x], <<>>}
    BY <1>5 DEF Connect, serverVars
  <2>2. peerId[s] = Null /\ toServer[s] = <<>>
    BY <1>0, <2>1 DEF SocketsInv, SocketInv
  <2>3. c.peerId \in {Null, myPeerId[u]}
    BY <2>1 DEF NoCredentials, Credentials
  <2>4. \A x \in Sockets \ {s} : owner'[x] = owner[x] /\ resume'[x] = resume[x]
    BY <1>0, <2>1
  <2>5. owner'[s] = u /\ resume'[s] = c
    BY <1>0, <2>1
  <2>6. \A x \in Sockets : resume'[x].peerId # Null =>
           \/ resume'[x] = resume[x] /\ owner'[x] = owner[x]
           \/ \E v \in Users : owner'[x] = v /\ resume'[x].peerId = myPeerId[v]
                               /\ peerId[x] = Null
    BY <2>2, <2>3, <2>4, <2>5
  <2>7. \A x \in Sockets : \A i \in DOMAIN toServer'[x] : toServer'[x][i].type = "hello" =>
           toServer'[x][i] = Hello(resume'[x])
    <3>1. DOMAIN toServer[s] = {}
      BY <2>2
    <3> QED
      BY <1>0, <2>1, <2>4, <3>1
  <2>8. \A x \in Sockets : toClient'[x] # <<>> => peerId[x] # Null
    BY <1>0, <2>1
  <2>9. \A x \in Sockets : peerId[x] # Null => owner'[x] = owner[x]
    BY <2>2, <2>4
  <2> QED
    BY <2>1, <2>6, <2>7, <2>8, <2>9, IdsSame
<1>6. ASSUME UNCHANGED serverVars, NEW u \in Users, Disconnect(u) PROVE IdsInv'
  <2>1. /\ UNCHANGED <<peerId, owner, myPeerId, myRoom, resume, toServer>>
        /\ \A x \in Sockets : toClient'[x] \in {toClient[x], <<>>}
    BY <1>0, <1>6 DEF Disconnect, serverVars
  <2> QED
    BY <1>0, <2>1, IdsSame
<1>7. ASSUME UNCHANGED serverVars, NEW s \in Sockets, OnOpen(s) PROVE IdsInv'
  <2>1. /\ UNCHANGED <<peerId, owner, myPeerId, myRoom, resume, toClient>>
        /\ wsState[s] = "connecting"
    BY <1>7 DEF OnOpen, objectVars, serverVars
  <2>2. handlers[s] => ws[owner[s]] = s /\ s # Null
    BY <1>0, <2>1 DEF SocketsInv, SoleSocket
  <2>3. \/ toServer' = [toServer EXCEPT ![s] = Append(@, Hello(resume[s]))]
        \/ UNCHANGED toServer
    BY <1>7, <2>2 DEF OnOpen
  <2> HIDE DEF Hello
  <2> QED
    BY <1>3, <2>1, <2>3
<1>8. ASSUME UNCHANGED serverVars, NEW s \in Sockets, OnMessage(s) PROVE IdsInv'
  <2> DEFINE u == owner[s]
             q == toClient[s]
             msg == Head(q)
  <2>1. /\ q # <<>> /\ q \in Seq(ServerFrames)
        /\ toClient' = [toClient EXCEPT ![s] = Tail(q)]
        /\ myPeerId' = IF msg.type = "peer-id" THEN [myPeerId EXCEPT ![u] = msg.peerId]
                       ELSE myPeerId
        /\ \A v \in Users : v # u => myRoom'[v] = myRoom[v]
        /\ UNCHANGED <<peerId, owner, resume, toServer>>
    BY <1>0, <1>8 DEF OnMessage, browserVars, serverVars, SocketsInv, TypeInv, FramesOK
  <2>2. peerId[s] # Null /\ u \in Users
    BY <1>0, <1>8, <2>1, MessageFromCurrent
  <2>3. msg.type = "peer-id" => msg.peerId = peerId[s]
    <3>1. msg = q[1] /\ 1 \in DOMAIN q
      BY <2>1, TailIndex
    <3>2. IsPeerId(msg) => msg = Server!PeerIdMsg(peerId[s], sessionToken[s])
      BY <3>1, CredentialsParts DEF TruePeerIds
    <3> QED
      BY <3>2 DEF IsPeerId, Server!PeerIdMsg
  <2> HIDE DEF msg, q
  <2>4. \A v \in Users : myPeerId'[v] # Null =>
          \E y \in Sockets : owner[y] = v /\ peerId[y] = myPeerId'[v]
    <3>1. \A v \in Users : myPeerId'[v] = myPeerId[v] \/ (v = u /\ myPeerId'[v] = peerId[s])
      BY <1>0, <2>1, <2>2, <2>3
    <3> QED
      BY <3>1 DEF IdsInv
  <2>5. \A v \in Users : myRoom'[v] # Null => \E y \in Sockets : owner[y] = v /\ peerId[y] # Null
    BY <2>1, <2>2 DEF IdsInv
  <2>6. \A x \in Sockets : toClient'[x] # <<>> => peerId[x] # Null
    BY <1>0, <2>1, <2>2
  <2> QED
    BY <2>1, <2>4, <2>5, <2>6 DEF IdsInv
<1>9. ASSUME UNCHANGED serverVars, NEW s \in Sockets, OnClose(s) PROVE IdsInv'
  <2>1. /\ UNCHANGED <<peerId, owner, myPeerId, myRoom, resume, toServer>>
        /\ \A x \in Sockets : toClient'[x] \in {toClient[x], <<>>}
    BY <1>0, <1>9 DEF OnClose, serverVars
  <2> QED
    BY <1>0, <2>1, IdsSame
<1> QED
  BY <1>1, <1>2, <1>4, <1>5, <1>6, <1>7, <1>8, <1>9, StepKinds

-----------------------------------------------------------------------------
(* One request at a time.                                                  *)

OneRequest(s) ==
  \A i, j \in DOMAIN toServer[s] :
    toServer[s][i].type \in Answered /\ toServer[s][j].type \in Answered => i = j

LEMMA OneRequestKept ==
  ASSUME TypeInv, NEW s \in Sockets, OneRequest(s), Taken(s) PROVE OneRequest(s)'
<1>1. PICK d \in {0, 1} : \A i \in DOMAIN toServer'[s] :
        i \in Nat /\ i + d \in DOMAIN toServer[s] /\ toServer'[s][i] = toServer[s][i + d]
  BY TakenFrames
<1>2. ASSUME NEW i \in DOMAIN toServer'[s], NEW j \in DOMAIN toServer'[s],
             toServer'[s][i].type \in Answered, toServer'[s][j].type \in Answered
      PROVE  i = j
  <2>1. i + d = j + d
    BY <1>1, <1>2 DEF OneRequest
  <2> QED
    BY <1>1, <2>1
<1> QED
  BY <1>2 DEF OneRequest

\* A frame goes behind the others; if it asks for an answer, none of them does.
LEMMA OneRequestAppended ==
  ASSUME TypeInv, NEW s \in Sockets, OneRequest(s), NEW msg,
         toServer'[s] = Append(toServer[s], msg),
         msg.type \in Answered =>
           \A i \in DOMAIN toServer[s] : toServer[s][i].type \notin Answered
  PROVE  OneRequest(s)'
<1>1. toServer[s] \in Seq(ClientFrames)
  BY DEF TypeInv, FramesOK
<1>2. \A i \in DOMAIN toServer'[s] :
        \/ i \in DOMAIN toServer[s] /\ toServer'[s][i] = toServer[s][i]
        \/ i = Len(toServer[s]) + 1 /\ toServer'[s][i] = msg
  BY <1>1, AppendIndex
<1> QED
  BY <1>2 DEF OneRequest

LEMMA InitRequests == SystemInit => \A s \in Sockets : OneRequest(s)
BY DEF SystemInit, Init, OneRequest

LEMMA NextRequests ==
  ASSUME Patient, ~SwitchesRooms, SocketsInv, ServerFacts, IdsInv,
         \A s \in Sockets : OneRequest(s), [Next]_vars
  PROVE  \A s \in Sockets : OneRequest(s)'
<1>0. /\ TypeInv
      /\ ws \in [Users -> Sockets \cup {Null}] /\ Null \notin Sockets
      /\ toServer \in [Sockets -> Seq(ClientFrames)]
  BY Nulls DEF SocketsInv, TypeInv, ClientTypeOK, FramesOK
<1>1. CASE UNCHANGED toServer
  BY <1>1 DEF OneRequest
<1>2. CASE ServerMove
  BY <1>0, <1>2, ServerMoveKinds, OneRequestKept
<1>3. ASSUME NEW s \in Sockets, NEW msg, toServer' = [toServer EXCEPT ![s] = Append(@, msg)],
             msg.type \in Answered =>
               \A i \in DOMAIN toServer[s] : toServer[s][i].type \notin Answered
      PROVE  \A x \in Sockets : OneRequest(x)'
  <2>1. toServer'[s] = Append(toServer[s], msg)
        /\ \A x \in Sockets \ {s} : toServer'[x] = toServer[x]
    BY <1>0, <1>3
  <2>2. OneRequest(s)'
    BY <1>0, <1>3, <2>1, OneRequestAppended
  <2>3. \A x \in Sockets \ {s} : OneRequest(x)'
    BY <2>1 DEF OneRequest
  <2> QED
    BY <2>2, <2>3
<1>4. ASSUME NEW u \in Users, NEW msg, Request(u, msg), Careful(u, msg)
      PROVE  \A x \in Sockets : OneRequest(x)'
  <2>1. ws[u] \in Sockets /\ toServer' = [toServer EXCEPT ![ws[u]] = Append(@, msg)]
    BY <1>0, <1>4 DEF Request, CanSend, Send
  <2>2. msg.type \in Answered =>
          \A i \in DOMAIN toServer[ws[u]] : toServer[ws[u]][i].type \notin Answered
    BY <1>0, <1>4, <2>1 DEF Careful, Waiting, Answered, Joins
  <2> QED
    BY <1>3, <2>1, <2>2
<1>5. ASSUME NEW s \in Sockets, OnOpen(s) PROVE \A x \in Sockets : OneRequest(x)'
  <2>1. wsState[s] = "connecting" /\ (handlers[s] => ws[owner[s]] = s)
    BY <1>5 DEF OnOpen, SocketsInv, SoleSocket
  <2>2. \/ toServer' = [toServer EXCEPT ![s] = Append(@, Hello(resume[s]))]
        \/ UNCHANGED toServer
    BY <1>5, <2>1 DEF OnOpen
  <2>3. Hello(resume[s]).type \notin Answered
    BY DEF Hello, Answered, Joins
  <2> HIDE DEF Hello
  <2> QED
    BY <1>1, <1>3, <2>2, <2>3
<1> QED
  BY <1>1, <1>2, <1>4, <1>5, StepKinds
  DEF vars, Connect, Disconnect, OnMessage, OnClose

-----------------------------------------------------------------------------
(* The view of a client follows the rooms of the server.                   *)

Joined(msg) == msg.type = "room-joined"

(***************************************************************************)
(* A client with view v0 that handles the frames q has view v1 in the end: *)
(* f[i] is its view after i frames.  A view that is empty and meets no     *)
(* room-joined any more stays empty.                                       *)
(***************************************************************************)
Follows(v0, q, v1) ==
  \E f \in [0 .. Len(q) -> Views] :
    /\ f[0] = v0 /\ f[Len(q)] = v1
    /\ \A i \in 1 .. Len(q) : f[i] = RoomAfter(f[i - 1], q[i])
    /\ \A i \in 0 .. Len(q) :
         f[i] = Null /\ (\A j \in i + 1 .. Len(q) : ~Joined(q[j])) => v1 = Null

LEMMA FollowsNone ==
  ASSUME NEW v0, NEW v1 PROVE (v0 \in Views /\ v0 = v1) <=> Follows(v0, <<>>, v1)
<1>1. Len(<<>>) = 0
  OBVIOUS
<1>2. ASSUME v0 \in Views, v0 = v1 PROVE Follows(v0, <<>>, v1)
  <2> DEFINE f == [i \in 0 .. 0 |-> v0]
  <2>1. f \in [0 .. 0 -> Views] /\ f[0] = v0
    BY <1>2
  <2> HIDE DEF f
  <2>2. /\ 0 .. Len(<<>>) = 0 .. 0 /\ 1 .. Len(<<>>) = {}
    BY <1>1
  <2>3. f \in [0 .. Len(<<>>) -> Views] /\ f[0] = v0 /\ f[Len(<<>>)] = v1
    BY <1>1, <1>2, <2>1, <2>2
  <2> QED
    BY <1>2, <2>2, <2>3 DEF Follows
<1>3. Follows(v0, <<>>, v1) => v0 \in Views /\ v0 = v1
  BY <1>1 DEF Follows
<1> QED
  BY <1>2, <1>3

LEMMA FollowsAppend ==
  ASSUME NEW v0, NEW v1 \in Views, NEW q \in Seq(ServerFrames), NEW msg \in ServerFrames,
         Follows(v0, q, v1), RoomAfter(v1, msg) \in Views
  PROVE  Follows(v0, Append(q, msg), RoomAfter(v1, msg))
<1> DEFINE n == Len(q)
           q1 == Append(q, msg)
<1>1. PICK f \in [0 .. n -> Views] :
        /\ f[0] = v0 /\ f[n] = v1
        /\ \A i \in 1 .. n : f[i] = RoomAfter(f[i - 1], q[i])
        /\ \A i \in 0 .. n :
             f[i] = Null /\ (\A j \in i + 1 .. n : ~Joined(q[j])) => v1 = Null
  BY DEF Follows
<1>2. PICK v2 : v2 = RoomAfter(v1, msg)
  OBVIOUS
<1>3. /\ n \in Nat /\ Len(q1) = n + 1 /\ q1[n + 1] = msg
      /\ \A i \in 1 .. n : q1[i] = q[i]
  BY AppendProperties, LenProperties
<1> HIDE DEF n, q1
<1> DEFINE g == [i \in 0 .. n + 1 |-> IF i = n + 1 THEN v2 ELSE f[i]]
<1>4. /\ g \in [0 .. n + 1 -> Views] /\ g[n + 1] = v2
      /\ \A i \in 0 .. n : g[i] = f[i]
  BY <1>1, <1>2, <1>3
<1> HIDE DEF g
<1>5. g[0] = v0
  BY <1>1, <1>3, <1>4
<1>6. ASSUME NEW i \in 1 .. n + 1 PROVE g[i] = RoomAfter(g[i - 1], q1[i])
  <2>1. CASE i = n + 1
    BY <1>1, <1>2, <1>3, <1>4, <2>1
  <2>2. CASE i # n + 1
    <3>1. i \in 1 .. n /\ i \in 0 .. n /\ i - 1 \in 0 .. n
      BY <1>3, <1>6, <2>2
    <3> QED
      BY <1>1, <1>3, <1>4, <3>1
  <2> QED
    BY <2>1, <2>2
<1>7. ASSUME NEW i \in 0 .. n + 1, g[i] = Null, \A j \in i + 1 .. n + 1 : ~Joined(q1[j])
      PROVE  v2 = Null
  <2>1. CASE i = n + 1
    BY <1>4, <1>7, <2>1
  <2>2. CASE i # n + 1
    <3>1. i \in 0 .. n /\ n + 1 \in i + 1 .. n + 1
      BY <1>3, <1>7, <2>2
    <3>2. \A j \in i + 1 .. n : j \in 1 .. n /\ j \in i + 1 .. n + 1
      BY <1>3, <3>1
    <3>3. ~Joined(msg) /\ \A j \in i + 1 .. n : ~Joined(q[j])
      BY <1>3, <1>7, <3>1, <3>2
    <3>4. v1 = Null
      BY <1>1, <1>4, <1>7, <3>1, <3>3
    <3> QED
      BY <1>2, <3>3, <3>4, NoneJoined DEF Joined
  <2> QED
    BY <2>1, <2>2
<1> QED
  BY <1>2, <1>3, <1>4, <1>5, <1>6, <1>7 DEF Follows, q1

LEMMA FollowsTail ==
  ASSUME NEW v0, NEW v1, NEW q \in Seq(ServerFrames), q # <<>>, Follows(v0, q, v1)
  PROVE  Follows(RoomAfter(v0, Head(q)), Tail(q), v1)
<1> DEFINE n == Len(q)
           q1 == Tail(q)
<1>1. PICK f \in [0 .. n -> Views] :
        /\ f[0] = v0 /\ f[n] = v1
        /\ \A i \in 1 .. n : f[i] = RoomAfter(f[i - 1], q[i])
        /\ \A i \in 0 .. n :
             f[i] = Null /\ (\A j \in i + 1 .. n : ~Joined(q[j])) => v1 = Null
  BY DEF Follows
<1>2. /\ n \in Nat /\ n # 0 /\ Len(q1) = n - 1 /\ Head(q) = q[1]
      /\ \A i \in 1 .. n - 1 : q1[i] = q[i + 1]
  BY HeadTailProperties, LenProperties, EmptySeq
<1> HIDE DEF n, q1
<1> DEFINE g == [i \in 0 .. n - 1 |-> f[i + 1]]
<1>3. /\ g \in [0 .. n - 1 -> Views]
      /\ \A i \in 0 .. n - 1 : g[i] = f[i + 1]
  BY <1>1, <1>2
<1> HIDE DEF g
<1>4. g[0] = RoomAfter(v0, Head(q))
  <2>1. g[0] = f[1] /\ f[1] = RoomAfter(f[1 - 1], q[1]) /\ 1 - 1 = 0
    BY <1>1, <1>2, <1>3
  <2> QED
    BY <1>1, <1>2, <2>1
<1>5. g[n - 1] = v1
  BY <1>1, <1>2, <1>3
<1>6. ASSUME NEW i \in 1 .. n - 1 PROVE g[i] = RoomAfter(g[i - 1], q1[i])
  <2>1. g[i] = f[i + 1] /\ g[i - 1] = f[i] /\ i + 1 \in 1 .. n /\ (i + 1) - 1 = i
    BY <1>2, <1>3, <1>6
  <2> QED
    BY <1>1, <1>2, <1>6, <2>1
<1>7. ASSUME NEW i \in 0 .. n - 1, g[i] = Null, \A j \in i + 1 .. n - 1 : ~Joined(q1[j])
      PROVE  v1 = Null
  <2>1. g[i] = f[i + 1] /\ i + 1 \in 0 .. n
    BY <1>2, <1>3, <1>7
  <2>2. ASSUME NEW j \in (i + 1) + 1 .. n PROVE ~Joined(q[j])
    <3>1. j - 1 \in i + 1 .. n - 1 /\ j - 1 \in 1 .. n - 1 /\ (j - 1) + 1 = j
      BY <1>2, <1>7, <2>2
    <3> QED
      BY <1>2, <1>7, <3>1
  <2> QED
    BY <1>1, <1>7, <2>1, <2>2
<1>8. Follows(RoomAfter(v0, Head(q)), q1, v1)
  BY <1>2, <1>3, <1>4, <1>5, <1>6, <1>7 DEF Follows
<1> QED
  BY <1>8 DEF q1

\* From an empty view and without a room-joined, the view is empty in the end.
LEMMA FollowsNothing ==
  ASSUME NEW q \in Seq(ServerFrames), NEW v1, Follows(Null, q, v1),
         \A i \in DOMAIN q : ~Joined(q[i])
  PROVE  v1 = Null
<1>1. PICK f \in [0 .. Len(q) -> Views] :
        /\ f[0] = Null
        /\ \A i \in 0 .. Len(q) :
             f[i] = Null /\ (\A j \in i + 1 .. Len(q) : ~Joined(q[j])) => v1 = Null
  BY DEF Follows
<1>2. Len(q) \in Nat /\ DOMAIN q = 1 .. Len(q)
  BY LenProperties
<1>3. 0 \in 0 .. Len(q) /\ \A j \in 0 + 1 .. Len(q) : ~Joined(q[j])
  BY <1>2
<1> QED
  BY <1>1, <1>3

\* s is the first connection of user u, and up.
Watches(u, s) ==
  /\ \A x \in Sockets : owner[x] = u <=> x = s
  /\ ws[u] = s /\ wsState[s] = "open"
  /\ readyState[s] = "open" /\ peerId[s] # Null

JoinPending(s) == \E i \in DOMAIN toServer[s] : toServer[s][i].type \in Joins

(***************************************************************************)
(* When the client has handled the frames on their way, it will see its    *)
(* room as the server has it now; while it asks to join, that is no room.  *)
(***************************************************************************)
ViewRight(u, s, v) ==
  /\ Follows(myRoom[u], toClient[s], v)
  /\ Sees(rooms, v, peerId[s])
  /\ JoinPending(s) => v = Null

ViewInv ==
  \A u \in Users, s \in Sockets : Watches(u, s) => \E v \in Views : ViewRight(u, s, v)

LEMMA WatchedAlone ==
  ASSUME IdsInv, NEW u \in Users, NEW s \in Sockets, Watches(u, s) PROVE Alone(s)
BY DEF IdsInv, Watches, Alone

\* What a step sends to an open socket comes into its channel.
LEMMA DeliveredView ==
  ASSUME TypeInv, Deliver, NEW s \in Sockets, wsState[s] = "open",
         sent'[s] \in ServerFrames \cup {Null},
         NEW v0, NEW v \in Views, Follows(v0, toClient[s], v)
  PROVE  NewView(v, s) \in Views /\ Follows(v0, toClient'[s], NewView(v, s))
<1>1. toClient[s] \in Seq(ServerFrames)
  BY DEF TypeInv, FramesOK
<1>2. CASE sent'[s] = Null
  BY <1>2 DEF Deliver, NewView
<1>3. CASE sent'[s] # Null
  <2>1. PICK msg \in ServerFrames : msg = sent'[s]
    BY <1>3
  <2>2. toClient'[s] = Append(toClient[s], msg) /\ NewView(v, s) = RoomAfter(v, msg)
    BY <1>3, <2>1 DEF Deliver, NewView
  <2>3. RoomAfter(v, msg) \in Views
    BY RoomAfterTyped DEF Views
  <2> QED
    BY <1>1, <2>2, <2>3, FollowsAppend
<1> QED
  BY <1>2, <1>3

LEMMA PendingTaken ==
  ASSUME TypeInv, NEW s \in Sockets, Taken(s), JoinPending(s)' PROVE JoinPending(s)
BY TakenFrames DEF JoinPending

\* The only request of a socket is taken.
LEMMA PendingServed ==
  ASSUME TypeInv, NEW s \in Sockets, OneRequest(s), toServer[s] # <<>>,
         Head(toServer[s]).type \in Joins, toServer'[s] = Tail(toServer[s])
  PROVE  JoinPending(s) /\ ~JoinPending(s)'
<1> DEFINE q == toServer[s]
<1>1. q \in Seq(ClientFrames)
  BY DEF TypeInv, FramesOK
<1>2. /\ Head(q) = q[1] /\ 1 \in DOMAIN q
      /\ \A i \in DOMAIN Tail(q) : i \in Nat \ {0} /\ i + 1 \in DOMAIN q /\ Tail(q)[i] = q[i + 1]
  BY <1>1, TailIndex
<1>3. ASSUME NEW i \in DOMAIN Tail(q), Tail(q)[i].type \in Joins PROVE FALSE
  <2>1. i + 1 = 1
    BY <1>2, <1>3 DEF OneRequest, Answered
  <2> QED
    BY <1>2, <2>1
<1> QED
  BY <1>2, <1>3 DEF JoinPending

\* A step that keeps the view of s right, whether or not s is waiting to join.
LEMMA ShownView ==
  ASSUME SocketsInv, Deliver, NEW u \in Users, NEW s \in Sockets, NEW v \in Views,
         ViewRight(u, s, v), wsState[s] = "open", sent'[s] \in ServerFrames \cup {Null},
         UNCHANGED <<myRoom, peerId>>, Shows(s, v),
         JoinPending(s)' => JoinPending(s) /\ NotJoined(s)
  PROVE  \E v1 \in Views : ViewRight(u, s, v1)'
<1>1. PICK v1 : v1 = NewView(v, s)
  OBVIOUS
<1>2. v1 \in Views /\ Follows(myRoom[u], toClient'[s], v1)
  BY <1>1, DeliveredView DEF ViewRight, SocketsInv
<1>3. Sees(rooms', v1, peerId[s])
  BY <1>1 DEF ViewRight, Shows
<1>4. JoinPending(s)' => v1 = Null
  BY <1>1, NoneJoined DEF ViewRight, NotJoined, NewView
<1> QED
  BY <1>2, <1>3, <1>4 DEF ViewRight

LEMMA ServerMoveView ==
  ASSUME SocketsInv, ServerFacts, IdsInv, \A s \in Sockets : OneRequest(s), ViewInv, ServerMove
  PROVE  ViewInv'
<1>0. /\ TypeInv
      /\ UNCHANGED <<owner, ws, wsState, myRoom>> /\ Deliver
      /\ ServerKinds /\ \A x \in Sockets : Taken(x)
      /\ \A x \in Sockets : readyState'[x] = "open" => readyState[x] = "open" \/ peerId'[x] = Null
  BY ServerMoves, ServerMoveKinds DEF SocketsInv, clientVars, objectVars, browserVars
<1> SUFFICES ASSUME NEW u \in Users, NEW s \in Sockets, Watches(u, s)'
             PROVE  \E v \in Views : ViewRight(u, s, v)'
  BY DEF ViewInv
<1>1. /\ readyState[s] = "open" /\ wsState[s] = "open"
      /\ peerId'[s] # Null /\ \A x \in Sockets : owner[x] = u <=> x = s
  BY <1>0 DEF Watches
<1>2. ASSUME SessionsKept
      PROVE  /\ Watches(u, s) /\ Alone(s) /\ UNCHANGED <<myRoom, peerId>>
             /\ sent'[s] \in ServerFrames \cup {Null}
             /\ \E v \in Views : ViewRight(u, s, v)
  <2>1. UNCHANGED peerId /\ sent'[s] \in ServerFrames \cup {Null}
    BY <1>2 DEF SessionsKept, NoneNamed
  <2>2. Watches(u, s)
    BY <1>0, <1>1, <2>1 DEF Watches
  <2> QED
    BY <1>0, <2>1, <2>2, WatchedAlone DEF ViewInv
<1>3. ASSUME SessionsKept, NotJoined(s), \A v \in Views : Shows(s, v)
      PROVE  \E v \in Views : ViewRight(u, s, v)'
  BY <1>0, <1>1, <1>2, <1>3, ShownView, PendingTaken
<1>4. ASSUME SessionsKept, AllShowBut(s), toServer[s] # <<>>,
             Head(toServer[s]).type \in Joins, toServer'[s] = Tail(toServer[s])
      PROVE  \E v \in Views : ViewRight(u, s, v)'
  <2>1. JoinPending(s) /\ ~JoinPending(s)'
    BY <1>0, <1>4, PendingServed
  <2>2. PICK v \in Views : ViewRight(u, s, v)
    BY <1>2, <1>4
  <2>3. Shows(s, v)
    BY <1>2, <1>4, <2>1, <2>2 DEF ViewRight, AllShowBut
  <2> QED
    BY <1>0, <1>1, <1>2, <1>4, <2>1, <2>2, <2>3, ShownView
<1>5. ASSUME NEW x \in Sockets, NEW p \in PeerIds, GivesId(x, p), s # x
      PROVE  \E v \in Views : ViewRight(u, s, v)'
  <2>1. /\ peerId'[s] = peerId[s] /\ sent'[s] = Null /\ UNCHANGED rooms
    BY <1>5 DEF GivesId
  <2>2. Watches(u, s) /\ toClient'[s] = toClient[s]
    BY <1>0, <1>1, <2>1 DEF Watches, Deliver
  <2>3. PICK v \in Views : ViewRight(u, s, v)
    BY <2>2 DEF ViewInv
  <2>4. JoinPending(s)' => JoinPending(s)
    BY <1>0, PendingTaken
  <2>5. ViewRight(u, s, v)'
    BY <1>0, <2>1, <2>2, <2>3, <2>4 DEF ViewRight
  <2> QED
    BY <2>5
<1>6. ASSUME NEW p \in PeerIds, GivesId(s, p)
      PROVE  \E v \in Views : ViewRight(u, s, v)'
  <2>1. /\ peerId[s] = Null /\ peerId'[s] = p /\ UNCHANGED rooms
        /\ p \notin issued \/ (p = resume[s].peerId /\ \E x \in Sockets \ {s} : peerId[x] = p)
        /\ sent'[s] # Null => IsPeerId(sent'[s])
        /\ sent'[s] \in ServerFrames \cup {Null}
    <3>1. sent'[s] \in ServerFrames \cup {Null}
      <4>1. \A k \in Tokens, q \in PeerIds : Server!PeerIdMsg(q, k) \in ServerFrames
        BY DEF Server!PeerIdMsg, ServerFrames
      <4> QED
        BY <1>6, <4>1 DEF GivesId, Greets
    <3> QED
      BY <1>6, <3>1 DEF GivesId, SocketsInv, TypeInv, Server!TypeOK
  <2>2. p \notin issued
    <3>1. ASSUME p = resume[s].peerId PROVE FALSE
      <4>1. PICK y \in Sockets \ {s} : owner[y] = owner[s]
        BY <3>1, Nulls DEF IdsInv
      <4> QED
        BY <1>1, <4>1
    <3> QED
      BY <2>1, <3>1
  <2>3. toClient[s] = <<>> /\ myRoom[u] = Null
    BY <1>1, <2>1 DEF IdsInv
  <2>4. Follows(Null, toClient[s], Null)
    BY <2>3, FollowsNone DEF Views
  <2>5. NewView(Null, s) = Null
    BY <2>1, RoomAfterOther DEF NewView, IsPeerId, NotOfRooms
  <2>6. Follows(myRoom[u], toClient'[s], Null)
    <3>1. Null \in Views
      BY DEF Views
    <3>2. Follows(Null, toClient'[s], NewView(Null, s))
      BY <1>0, <1>1, <2>1, <2>4, <3>1, DeliveredView
    <3> QED
      BY <2>3, <2>5, <3>2
  <2>7. Sees(rooms, Null, p)
    BY <2>2 DEF Sees, In, ServerFacts
  <2> QED
    BY <1>0, <2>1, <2>6, <2>7 DEF ViewRight, Views
<1>7. CASE SessionsKept /\ AllShow
  BY <1>2, <1>3, <1>7 DEF AllShow
<1>8. ASSUME NEW x \in Sockets, AllShowBut(x), SessionsKept, toServer[x] # <<>>,
             Head(toServer[x]).type \in Joins, toServer'[x] = Tail(toServer[x])
      PROVE  \E v \in Views : ViewRight(u, s, v)'
  BY <1>2, <1>3, <1>4, <1>8 DEF AllShowBut
<1> QED
  BY <1>0, <1>5, <1>6, <1>7, <1>8 DEF ServerKinds

\* A step of a client that does not concern s.
LEMMA ViewStays ==
  ASSUME ViewInv, UNCHANGED serverVars, NEW u \in Users, NEW s \in Sockets, Watches(u, s),
         myRoom'[u] = myRoom[u], toClient'[s] = toClient[s],
         JoinPending(s)' => JoinPending(s)
  PROVE  \E v \in Views : ViewRight(u, s, v)'
<1>1. PICK v \in Views : ViewRight(u, s, v)
  BY DEF ViewInv
<1>2. ViewRight(u, s, v)'
  BY <1>1 DEF ViewRight, serverVars
<1> QED
  BY <1>2

\* A request: to join, only from no room and with no answer to come.
LEMMA RequestView ==
  ASSUME ~SwitchesRooms, SocketsInv, ViewInv, UNCHANGED serverVars,
         NEW w \in Users, NEW msg, Request(w, msg), Careful(w, msg)
  PROVE  ViewInv'
<1>0. /\ UNCHANGED <<ws, owner, wsState, myRoom, toClient>>
      /\ ws \in [Users -> Sockets \cup {Null}] /\ Null \notin Sockets
      /\ toServer \in [Sockets -> Seq(ClientFrames)]
      /\ toClient \in [Sockets -> Seq(ServerFrames)]
  BY Nulls DEF Request, objectVars, browserVars, SocketsInv, TypeInv, ClientTypeOK, FramesOK
<1>1. ws[w] \in Sockets /\ toServer' = [toServer EXCEPT ![ws[w]] = Append(@, msg)]
  BY <1>0 DEF Request, CanSend, Send
<1> SUFFICES ASSUME NEW u \in Users, NEW s \in Sockets, Watches(u, s)'
             PROVE  \E v \in Views : ViewRight(u, s, v)'
  BY DEF ViewInv
<1>2. Watches(u, s)
  BY <1>0 DEF Watches, serverVars
<1>3. CASE s # ws[w]
  <2>1. JoinPending(s)' => JoinPending(s)
    BY <1>0, <1>1, <1>3 DEF JoinPending
  <2> QED
    BY <1>0, <1>2, <2>1, ViewStays
<1>4. CASE s = ws[w]
  <2>1. u = w /\ ws[u] = s /\ s # Null
    BY <1>0, <1>1, <1>2, <1>4 DEF Watches, SocketsInv, SocketInv
  <2>2. CASE msg.type \notin Joins
    <3>1. \A i \in DOMAIN toServer'[s] :
            (i \in DOMAIN toServer[s] /\ toServer'[s][i] = toServer[s][i]) \/ toServer'[s][i] = msg
      BY <1>0, <1>1, <1>4, AppendIndex
    <3>2. JoinPending(s)' => JoinPending(s)
      BY <2>2, <3>1 DEF JoinPending
    <3> QED
      BY <1>0, <1>2, <3>2, ViewStays
  <2>3. CASE msg.type \in Joins
    <3>1. ~Waiting(u) /\ myRoom[u] = Null
      BY <2>1, <2>3 DEF Careful, Answered
    <3>2. \A i \in DOMAIN toClient[s] : ~Joined(toClient[s][i])
      BY <2>1, <3>1 DEF Waiting, Joined
    <3>3. PICK v \in Views : ViewRight(u, s, v)
      BY <1>2 DEF ViewInv
    <3>4. v = Null
      BY <1>0, <3>1, <3>2, <3>3, FollowsNothing DEF ViewRight
    <3>5. ViewRight(u, s, v)'
      BY <1>0, <3>3, <3>4 DEF ViewRight, serverVars
    <3> QED
      BY <3>5
  <2> QED
    BY <2>2, <2>3
<1> QED
  BY <1>3, <1>4

\* A message is handled.
LEMMA MessageView ==
  ASSUME SocketsInv, ViewInv, UNCHANGED serverVars, NEW x \in Sockets, OnMessage(x)
  PROVE  ViewInv'
<1>0. /\ UNCHANGED <<ws, owner, wsState, toServer>> /\ owner[x] \in Users /\ ws[owner[x]] = x
      /\ toClient[x] \in Seq(ServerFrames) /\ toClient[x] # <<>>
      /\ toClient' = [toClient EXCEPT ![x] = Tail(@)]
      /\ myRoom' = [myRoom EXCEPT ![owner[x]] = RoomAfter(@, Head(toClient[x]))]
      /\ toClient \in [Sockets -> Seq(ServerFrames)]
      /\ myRoom \in [Users -> ClientRooms \cup {Null}]
  BY MessageFromCurrent
  DEF OnMessage, browserVars, SocketsInv, TypeInv, FramesOK, ClientRooms
<1> SUFFICES ASSUME NEW u \in Users, NEW s \in Sockets, Watches(u, s)'
             PROVE  \E v \in Views : ViewRight(u, s, v)'
  BY DEF ViewInv
<1>1. Watches(u, s) /\ (JoinPending(s)' => JoinPending(s))
  BY <1>0 DEF Watches, serverVars, JoinPending
<1>2. CASE s # x
  <2>1. myRoom'[u] = myRoom[u] /\ toClient'[s] = toClient[s]
    BY <1>0, <1>1, <1>2 DEF Watches
  <2> QED
    BY <1>1, <2>1, ViewStays
<1>3. CASE s = x
  <2>1. u = owner[s]
    BY <1>1 DEF Watches
  <2>2. PICK v \in Views : ViewRight(u, s, v)
    BY <1>1 DEF ViewInv
  <2>3. /\ toClient'[s] = Tail(toClient[s])
        /\ myRoom'[u] = RoomAfter(myRoom[u], Head(toClient[s]))
    BY <1>0, <1>3, <2>1
  <2>4. Follows(myRoom'[u], toClient'[s], v)
    BY <1>0, <1>3, <2>2, <2>3, FollowsTail DEF ViewRight
  <2>5. ViewRight(u, s, v)'
    BY <1>1, <2>2, <2>4 DEF ViewRight, serverVars
  <2> QED
    BY <2>5
<1> QED
  BY <1>2, <1>3

LEMMA InitView == SystemInit => ViewInv
BY DEF SystemInit, Init, Server!Init, ViewInv, Watches

LEMMA NextView ==
  ASSUME Patient, ~SwitchesRooms, SocketsInv, ServerFacts, IdsInv,
         \A s \in Sockets : OneRequest(s), ViewInv, [Next]_vars
  PROVE  ViewInv'
<1>0. /\ ws \in [Users -> Sockets \cup {Null}] /\ Null \notin Sockets
      /\ owner \in [Sockets -> Users \cup {Null}] /\ Null \notin Users
      /\ toServer \in [Sockets -> Seq(ClientFrames)]
      /\ toClient \in [Sockets -> Seq(ServerFrames)]
      /\ wsState \in [Sockets -> WsStates]
      /\ \A u \in Users : ws[u] # Null => owner[ws[u]] = u
  BY Nulls DEF SocketsInv, TypeInv, ClientTypeOK, FramesOK, SocketInv
<1>1. CASE UNCHANGED vars
  <2>1. UNCHANGED <<ws, owner, wsState, myRoom, toClient, toServer, readyState, peerId, rooms>>
    BY <1>1 DEF vars, clientVars, objectVars, browserVars, serverVars
  <2> QED
    BY <2>1 DEF ViewInv, Watches, ViewRight, JoinPending
<1>2. CASE ServerMove
  BY <1>2, ServerMoveView
<1>3. ASSUME NEW w \in Users, NEW msg, Request(w, msg), Careful(w, msg), UNCHANGED serverVars
      PROVE  ViewInv'
  BY <1>3, RequestView
<1>4. ASSUME UNCHANGED serverVars, UNCHANGED myRoom,
             \A u \in Users, s \in Sockets : Watches(u, s)' =>
               /\ Watches(u, s) /\ toClient'[s] = toClient[s]
               /\ toServer'[s] = toServer[s]
      PROVE  ViewInv'
  <2> SUFFICES ASSUME NEW u \in Users, NEW s \in Sockets, Watches(u, s)'
               PROVE  \E v \in Views : ViewRight(u, s, v)'
    BY DEF ViewInv
  <2>1. Watches(u, s) /\ toClient'[s] = toClient[s] /\ (JoinPending(s)' => JoinPending(s))
    BY <1>4 DEF JoinPending
  <2> QED
    BY <1>4, <2>1, ViewStays
<1>5. ASSUME UNCHANGED serverVars, NEW w \in Users, NEW x \in Sockets, NEW c, Connect(w, x, c)
      PROVE  ViewInv'
  <2>1. /\ owner[x] = Null /\ UNCHANGED <<myRoom, toServer, readyState, peerId>>
        /\ ws' = [ws EXCEPT ![w] = x] /\ owner' = [owner EXCEPT ![x] = w]
        /\ \A t \in Sockets \ {x} : t # ws[w] =>
             wsState'[t] = wsState[t] /\ toClient'[t] = toClient[t]
    BY <1>5 DEF Connect, TornDown, serverVars
  <2>2. peerId[x] = Null
    BY <1>0, <2>1 DEF SocketsInv, SocketInv
  <2>3. ASSUME NEW u \in Users, NEW s \in Sockets, Watches(u, s)'
        PROVE  Watches(u, s) /\ toClient'[s] = toClient[s]
    <3>1. s # x /\ u # w /\ ws[u] = s
      BY <1>0, <2>1, <2>2, <2>3 DEF Watches
    <3>2. \A t \in Sockets : owner[t] = u <=> t = s
      BY <1>0, <2>1, <2>3, <3>1 DEF Watches
    <3>3. s # ws[w]
      BY <1>0, <3>1
    <3> QED
      BY <2>1, <2>3, <3>1, <3>2, <3>3 DEF Watches
  <2> QED
    BY <1>4, <1>5, <2>1, <2>3
<1>6. ASSUME UNCHANGED serverVars, NEW w \in Users, Disconnect(w) PROVE ViewInv'
  <2>1. /\ UNCHANGED <<owner, myRoom, toServer, readyState, peerId>>
        /\ ws[w] # Null /\ ws' = [ws EXCEPT ![w] = Null]
        /\ \A t \in Sockets : t # ws[w] =>
             wsState'[t] = wsState[t] /\ toClient'[t] = toClient[t]
    BY <1>0, <1>6 DEF Disconnect, serverVars
  <2>2. ASSUME NEW u \in Users, NEW s \in Sockets, Watches(u, s)'
        PROVE  Watches(u, s) /\ toClient'[s] = toClient[s]
    <3>1. u # w /\ ws[u] = s
      BY <1>0, <2>1, <2>2 DEF Watches
    <3>2. s # ws[w]
      BY <1>0, <3>1
    <3> QED
      BY <2>1, <2>2, <3>1, <3>2 DEF Watches
  <2> QED
    BY <1>4, <1>6, <2>1, <2>2
<1>7. ASSUME UNCHANGED serverVars, NEW x \in Sockets, OnOpen(x) PROVE ViewInv'
  <2>1. /\ UNCHANGED <<ws, owner, myRoom, toClient, readyState, peerId>>
        /\ wsState[x] = "connecting" /\ wsState' = [wsState EXCEPT ![x] = "open"]
    BY <1>7 DEF OnOpen, objectVars, serverVars
  <2>2. peerId[x] = Null /\ (handlers[x] => ws[owner[x]] = x)
    BY <2>1 DEF SocketsInv, SocketInv, SoleSocket
  <2>3. \A t \in Sockets \ {x} : toServer'[t] = toServer[t]
    BY <1>0, <1>7, <2>2 DEF OnOpen
  <2>4. ASSUME NEW u \in Users, NEW s \in Sockets, Watches(u, s)'
        PROVE  Watches(u, s) /\ toServer'[s] = toServer[s]
    <3>1. s # x
      BY <2>1, <2>2, <2>4 DEF Watches
    <3> QED
      BY <1>0, <2>1, <2>3, <2>4, <3>1 DEF Watches
  <2> QED
    BY <1>4, <1>7, <2>1, <2>4
<1>8. ASSUME UNCHANGED serverVars, NEW x \in Sockets, OnMessage(x) PROVE ViewInv'
  BY <1>8, MessageView
<1>9. ASSUME UNCHANGED serverVars, NEW x \in Sockets, OnClose(x) PROVE ViewInv'
  <2>1. /\ UNCHANGED <<owner, myRoom, toServer, readyState, peerId>>
        /\ wsState' = [wsState EXCEPT ![x] = "closed"]
        /\ toClient' = [toClient EXCEPT ![x] = <<>>]
        /\ ws' = IF handlers[x] THEN [ws EXCEPT ![owner[x]] = Null] ELSE ws
    BY <1>9 DEF OnClose, serverVars
  <2>2. ASSUME NEW u \in Users, NEW s \in Sockets, Watches(u, s)'
        PROVE  Watches(u, s) /\ toClient'[s] = toClient[s]
    <3>1. s # x /\ ws[u] = s
      BY <1>0, <2>1, <2>2 DEF Watches
    <3> QED
      BY <1>0, <2>1, <2>2, <3>1 DEF Watches
  <2> QED
    BY <1>4, <1>9, <2>1, <2>2
<1> QED
  BY <1>1, <1>2, <1>3, <1>5, <1>6, <1>7, <1>8, <1>9, StepKinds

(***************************************************************************)
(* On its first connection, a client that has handled all frames knows its *)
(* room and the members, whatever the other users and its own earlier      *)
(* rooms were: if it waits for the answer to a request before the next one *)
(* and for the end of a room before it joins another, and if it is patient *)
(* with its connections.                                                   *)
(***************************************************************************)
THEOREM ViewStaysRight ==
  ASSUME Patient, ~SwitchesRooms PROVE Spec => []ViewFollowsServer
<1> DEFINE RequestsInv == \A s \in Sockets : OneRequest(s)
           Inv == SocketsInv /\ CredentialsInv /\ IdsInv /\ RequestsInv /\ ViewInv
<1>1. SystemInit => Inv
  BY InitSocketsInv, InitCredentials, InitIds, InitRequests, InitView
<1>2. Inv /\ ServerFacts /\ [Next]_vars => Inv'
  BY NextSocketsInv, NextCredentials, NextIds, NextRequests, NextView
<1>3. Inv => ViewFollowsServer
  <2> SUFFICES ASSUME Inv, NEW u \in Users, UpToDate(u), FirstConnection(u)
               PROVE  SeesItsRoom(u)
    BY DEF ViewFollowsServer
  <2>1. PICK s : s = ws[u]
    OBVIOUS
  <2>2. /\ s \in Sockets /\ owner[s] = u /\ wsState[s] = "open" /\ readyState[s] = "open"
        /\ peerId[s] # Null /\ toClient[s] = <<>>
    BY <2>1 DEF UpToDate, SocketsInv, TypeInv, ClientTypeOK, SocketInv
  <2>3. \A x \in Sockets : owner[x] = u <=> x = s
    <3> DEFINE own == {x \in Sockets : owner[x] = u}
    <3>1. IsFiniteSet(own) /\ Cardinality(own) = 1
      BY ServerAssumption, FS_Subset
      DEF FirstConnection, Server!MaxConnectionsAssumption, Server!IsFiniteSet, IsFiniteSet
    <3>2. \E x : own = {x}
      BY <3>1, FS_Singleton
    <3> QED
      BY <2>2, <3>2
  <2>4. PICK v \in Views : ViewRight(u, s, v)
    BY <2>1, <2>2, <2>3 DEF ViewInv, Watches
  <2>5. v = myRoom[u]
    BY <2>2, <2>4, FollowsNone DEF ViewRight
  <2>6. v # Null => v.roomId \in RoomIds
    BY DEF Views, ClientRooms
  <2> QED
    BY <2>1, <2>4, <2>5, <2>6 DEF ViewRight, Sees, In, SeesItsRoom, Server!IsMember
<1> HIDE DEF Inv
<1> QED
  BY <1>1, <1>2, <1>3, AlwaysServerFacts, PTL DEF Spec
=============================================================================
