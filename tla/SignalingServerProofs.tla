-------------------------- MODULE SignalingServerProofs --------------------------
(***************************************************************************)
(* Proofs about SignalingServer, for any sets of sockets, ids and codes.   *)
(***************************************************************************)
EXTENDS SignalingServer, FiniteSetTheorems, TLAPS

(***************************************************************************)
(* The steps that change the state, apart from what they send.             *)
(***************************************************************************)
Quiet == UNCHANGED <<socketVars, registryVars, roomVars, issued, stopped>>

Join(s, r) == Authenticated(s) /\ JoinResult(peerId[s], r) = "success" /\ AddPeerToRoom(s, r)

Changes ==
  \/ Quiet
  \/ \E s \in Sockets :
       \/ Connect(s)
       \/ BeginClose(s)
       \/ \E p \in PeerIds, t \in Tokens : HelloFresh(s, p, t)
       \/ \E old \in Sockets, t \in Tokens : HelloResume(s, old, t)
       \/ \E r \in RoomIds : Join(s, r)
       \/ \E r \in RoomIds, c \in JoinCodes : CreateRoom(s, r, c)
       \/ LeaveRoom(s)
       \/ Close(s)
  \/ \E r \in RoomIds : ExpireRoom(r)
  \/ Stop

\* A refusal and a relay change nothing but what is sent.
LEMMA NextChanges == TypeOK /\ [Next]_vars => Changes
<1> SUFFICES ASSUME TypeOK, [Next]_vars PROVE Changes
  OBVIOUS
<1>1. CASE UNCHANGED vars
  BY <1>1 DEF vars, Quiet, Changes, socketVars, registryVars, roomVars
<1>2. ASSUME NEW s \in Sockets, NEW r \in RoomIds, JoinById(s, r)
      PROVE Quiet \/ Join(s, r)
  BY <1>2 DEF JoinById, Join, Refuse, Quiet
<1>3. ASSUME NEW s \in Sockets, NEW c \in JoinCodes, JoinByCode(s, c)
      PROVE Quiet \/ \E r \in RoomIds : Join(s, r)
  <2>1. CASE joinCodeToRoomId[c] = Null
    BY <1>3, <2>1 DEF JoinByCode, Refuse, Quiet
  <2>2. CASE joinCodeToRoomId[c] # Null
    <3>1. joinCodeToRoomId[c] \in RoomIds
      BY <2>2 DEF TypeOK
    <3>2. JoinById(s, joinCodeToRoomId[c])
      BY <1>3, <2>2 DEF JoinByCode
    <3> QED
      BY <3>1, <3>2, <1>2
  <2> QED
    BY <2>1, <2>2
<1>4. ASSUME NEW s \in Sockets, NEW r \in RoomIds, CreateCollides(s, r) PROVE Quiet
  BY <1>4 DEF CreateCollides, Refuse, Quiet
<1>5. ASSUME NEW s \in Sockets, LeaveRefused(s) PROVE Quiet
  BY <1>5 DEF LeaveRefused, Refuse, Quiet
<1>6. ASSUME NEW s \in Sockets, NEW to \in PeerIds, Relay(s, to) PROVE Quiet
  BY <1>6 DEF Relay, Quiet
<1> QED
  BY <1>1, <1>2, <1>3, <1>4, <1>5, <1>6 DEF Next, Changes

-----------------------------------------------------------------------------
(* Types.                                                                  *)

\* The initial state is well typed.
LEMMA InitType == Init => TypeOK
BY NullAssumption DEF Init, TypeOK, ReadyStates

\* removePeerFromRoom keeps the room variables within their types.
LEMMA RemoveType ==
  ASSUME TypeOK, NEW s \in Sockets, NEW r \in RoomIds,
         IsMember(peerId[s], r), RemovePeerFromRoom(s, r)
  PROVE  /\ roomId' \in [Sockets -> RoomIds \cup {Null}]
         /\ rooms' \in [RoomIds -> Room \cup {Null}]
         /\ joinCodeToRoomId' \in [JoinCodes -> RoomIds \cup {Null}]
         /\ roomTimers' \subseteq RoomIds
BY NullAssumption DEF TypeOK, IsMember, RemovePeerFromRoom, CleanupRoom, ClearRoomTimer, Room

(***************************************************************************)
(* Each handler keeps every variable within its type.                      *)
(***************************************************************************)
LEMMA NextType == TypeOK /\ [Next]_vars => TypeOK'
<1> SUFFICES ASSUME TypeOK, Changes PROVE TypeOK'
  BY NextChanges
<1> USE NullAssumption DEF ReadyStates, socketVars, registryVars, roomVars
<1>1. CASE Quiet
  BY <1>1 DEF Quiet, TypeOK
<1>2. ASSUME NEW s \in Sockets, Connect(s) PROVE TypeOK'
  BY <1>2 DEF Connect, TypeOK
<1>3. ASSUME NEW s \in Sockets, BeginClose(s) PROVE TypeOK'
  BY <1>3 DEF BeginClose, TypeOK
<1>4. ASSUME NEW s \in Sockets, NEW p \in PeerIds, NEW t \in Tokens, HelloFresh(s, p, t)
      PROVE TypeOK'
  BY <1>4 DEF HelloFresh, TypeOK
<1>5. ASSUME NEW s \in Sockets, NEW old \in Sockets, NEW t \in Tokens,
             HelloResume(s, old, t)
      PROVE TypeOK'
  <2>1. peerId[old] \in PeerIds
    BY <1>5 DEF HelloResume, Authenticated, TypeOK
  <2> QED
    BY <1>5, <2>1 DEF HelloResume, ResumedToken, TypeOK
<1>6. ASSUME NEW s \in Sockets, NEW r \in RoomIds, Join(s, r) PROVE TypeOK'
  <2>1. rooms[r] \in Room /\ peerId[s] \in PeerIds
    BY <1>6 DEF Join, JoinResult, Authenticated, TypeOK
  <2>2. [rooms[r] EXCEPT !.members = @ \cup {peerId[s]}] \in Room
    BY <2>1 DEF Room
  <2> QED
    BY <1>6, <2>2 DEF Join, AddPeerToRoom, TypeOK
<1>7. ASSUME NEW s \in Sockets, NEW r \in RoomIds, NEW c \in JoinCodes, CreateRoom(s, r, c)
      PROVE TypeOK'
  <2>1. peerId[s] \in PeerIds
    BY <1>7 DEF CreateRoom, ScheduleRoomExpiration, Authenticated, TypeOK
  <2>2. [joinCode |-> c, hostPeerId |-> peerId[s], members |-> {peerId[s]}] \in Room
    BY <2>1 DEF Room
  <2> QED
    BY <1>7, <2>2 DEF CreateRoom, ScheduleRoomExpiration, MapJoinCode, TypeOK
<1>8. ASSUME NEW s \in Sockets, LeaveRoom(s) PROVE TypeOK'
  <2>1. roomId[s] \in RoomIds
    BY <1>8 DEF LeaveRoom, TypeOK
  <2> QED
    BY <1>8, <2>1, RemoveType DEF LeaveRoom, TypeOK
<1>9. ASSUME NEW s \in Sockets, Close(s) PROVE TypeOK'
  <2>1. peerMap' \in [PeerIds -> Sockets \cup {Null}]
        /\ sessionMap' \in [Tokens -> Sockets \cup {Null}]
    BY <1>9 DEF Close, Unregister, TypeOK
  <2>2. /\ roomId' \in [Sockets -> RoomIds \cup {Null}]
        /\ rooms' \in [RoomIds -> Room \cup {Null}]
        /\ joinCodeToRoomId' \in [JoinCodes -> RoomIds \cup {Null}]
        /\ roomTimers' \subseteq RoomIds
    <3>1. CASE roomId[s] # Null /\ IsMember(peerId[s], roomId[s])
      BY <1>9, <3>1, RemoveType DEF Close, TypeOK
    <3>2. CASE ~(roomId[s] # Null /\ IsMember(peerId[s], roomId[s]))
      BY <1>9, <3>2 DEF Close, TypeOK
    <3> QED
      BY <3>1, <3>2
  <2> QED
    BY <1>9, <2>1, <2>2 DEF Close, TypeOK
<1>10. ASSUME NEW r \in RoomIds, ExpireRoom(r) PROVE TypeOK'
  BY <1>10 DEF ExpireRoom, CleanupRoom, ClearRoomTimer, TypeOK
<1>11. ASSUME Stop PROVE TypeOK'
  BY <1>11 DEF Stop, TypeOK
<1> QED
  BY <1>1, <1>2, <1>3, <1>4, <1>5, <1>6, <1>7, <1>8, <1>9, <1>10, <1>11 DEF Changes

(***************************************************************************)
(* Type correctness of the server.                                         *)
(***************************************************************************)
THEOREM TypeCorrect == Spec => []TypeOK
BY InitType, NextType, PTL DEF Spec

-----------------------------------------------------------------------------
(* Sessions.                                                               *)

(***************************************************************************)
(* A socket has neither token nor peer id before it connects, and gets the *)
(* two together; a token is issued once and belongs to one socket: what    *)
(* makes the registries right.                                             *)
(***************************************************************************)
TokensOwned ==
  /\ \A s \in Sockets : readyState[s] = "none" => peerId[s] = Null
  /\ \A s \in Sockets : peerId[s] = Null <=> sessionToken[s] = Null
  /\ \A s \in Sockets : sessionToken[s] # Null => sessionToken[s] \in issued
  /\ \A s1, s2 \in Sockets :
       sessionToken[s1] = sessionToken[s2] /\ sessionToken[s1] # Null => s1 = s2

SessionInv == TypeOK /\ TokensOwned /\ RegistriesFaithful /\ OpenSessionsRegistered

\* No session exists before the first connection.
LEMMA InitSession == Init => SessionInv
BY InitType DEF Init, SessionInv, TokensOwned, RegistriesFaithful, OpenSessionsRegistered

\* A fresh identity is filed under a token nobody has.
LEMMA FreshSession ==
  ASSUME SessionInv, NEW s \in Sockets, NEW p \in PeerIds, NEW t \in Tokens,
         HelloFresh(s, p, t)
  PROVE  TokensOwned' /\ RegistriesFaithful' /\ OpenSessionsRegistered'
<1> USE NullAssumption DEF SessionInv
<1>1. TokensOwned'
  BY DEF HelloFresh, Listening, TokensOwned, TypeOK
<1>2. RegistriesFaithful'
  BY DEF HelloFresh, TokensOwned, RegistriesFaithful, Listening, TypeOK
<1>3. OpenSessionsRegistered'
  BY DEF HelloFresh, TokensOwned, OpenSessionsRegistered, TypeOK
<1> QED
  BY <1>1, <1>2, <1>3

\* A resumption closes the old socket before its registry entries go.
LEMMA ResumedSession ==
  ASSUME SessionInv, NEW s \in Sockets, NEW old \in Sockets, NEW t \in Tokens,
         HelloResume(s, old, t)
  PROVE  TokensOwned' /\ RegistriesFaithful' /\ OpenSessionsRegistered'
<1> USE NullAssumption DEF SessionInv
<1>1. /\ s # old /\ peerId[s] = Null /\ peerId[old] \in PeerIds
      /\ sessionToken[old] \in Tokens /\ t # sessionToken[old]
      /\ sessionToken[s] = Null /\ Listening(s) /\ Listening(old)
  BY DEF HelloResume, Authenticated, TokensOwned, TypeOK
<1>2. TokensOwned'
  BY <1>1 DEF HelloResume, ResumedToken, Listening, TokensOwned, TypeOK
<1>3. RegistriesFaithful'
  <2>1. \A w \in Sockets : Listening(w) => Listening(w)'
    BY <1>1 DEF HelloResume, Listening, TypeOK
  <2>2. ASSUME NEW p \in PeerIds, peerMap'[p] # Null
        PROVE  Listening(peerMap[p])' /\ peerId'[peerMap'[p]] = p
    BY <1>1, <2>1, <2>2 DEF HelloResume, RegistriesFaithful, TypeOK
  <2>3. ASSUME NEW u \in Tokens, sessionMap'[u] # Null
        PROVE  Listening(sessionMap[u])' /\ sessionToken'[sessionMap'[u]] = u
    BY <1>1, <2>1, <2>3 DEF HelloResume, ResumedToken, RegistriesFaithful, TypeOK
  <2> QED
    BY <2>2, <2>3 DEF RegistriesFaithful
<1>4. OpenSessionsRegistered'
  <2> SUFFICES ASSUME NEW w \in Sockets, readyState'[w] = "open", peerId'[w] # Null
               PROVE  sessionMap'[sessionToken'[w]] = w
    BY DEF OpenSessionsRegistered
  <2>1. CASE w = s
    BY <1>1, <2>1 DEF HelloResume, ResumedToken, TypeOK
  <2>2. CASE w # s
    <3>1. /\ w # old /\ readyState[w] = "open" /\ peerId[w] # Null
          /\ sessionToken'[w] = sessionToken[w]
      BY <2>2 DEF HelloResume, TypeOK
    <3>2. sessionToken[w] # t /\ sessionToken[w] # sessionToken[old]
          /\ sessionToken[w] \in Tokens
      BY <1>1, <3>1 DEF HelloResume, TokensOwned, TypeOK
    <3>3. sessionMap[sessionToken[w]] = w
      BY <3>1 DEF OpenSessionsRegistered
    <3> QED
      BY <3>1, <3>2, <3>3 DEF HelloResume, ResumedToken, TypeOK
  <2> QED
    BY <2>1, <2>2
<1> QED
  BY <1>2, <1>3, <1>4

\* The close event removes the entries of its own socket and no other.
LEMMA ClosedSession ==
  ASSUME SessionInv, NEW s \in Sockets, Close(s)
  PROVE  TokensOwned' /\ RegistriesFaithful' /\ OpenSessionsRegistered'
<1> USE NullAssumption DEF SessionInv
<1>1. /\ UNCHANGED <<peerId, sessionToken, issued>>
      /\ readyState' = [readyState EXCEPT ![s] = "closed"]
      /\ readyState[s] # "open"
      /\ Unregister(s)
  BY DEF Close
<1>2. TokensOwned'
  BY <1>1 DEF TokensOwned
<1>3. RegistriesFaithful'
  BY <1>1 DEF Unregister, RegistriesFaithful, Listening, TypeOK
<1>4. OpenSessionsRegistered'
  BY <1>1 DEF Unregister, TokensOwned, OpenSessionsRegistered, TypeOK
<1> QED
  BY <1>2, <1>3, <1>4

(***************************************************************************)
(* The session invariant is inductive.                                     *)
(***************************************************************************)
LEMMA NextSession == SessionInv /\ [Next]_vars => SessionInv'
<1> SUFFICES ASSUME SessionInv, [Next]_vars
             PROVE  TokensOwned' /\ RegistriesFaithful' /\ OpenSessionsRegistered'
  BY NextType DEF SessionInv
<1>1. Changes
  BY NextChanges DEF SessionInv
<1> USE DEF SessionInv, TokensOwned, RegistriesFaithful, OpenSessionsRegistered, Listening,
            TypeOK
<1>2. CASE UNCHANGED <<socketVars, registryVars, issued>>
  BY <1>2 DEF socketVars, registryVars
<1>3. ASSUME NEW s \in Sockets, Connect(s)
      PROVE  TokensOwned' /\ RegistriesFaithful' /\ OpenSessionsRegistered'
  BY <1>3 DEF Connect, registryVars
<1>4. ASSUME NEW s \in Sockets, BeginClose(s)
      PROVE  TokensOwned' /\ RegistriesFaithful' /\ OpenSessionsRegistered'
  BY <1>4 DEF BeginClose, registryVars
<1>5. ASSUME Stop
      PROVE  TokensOwned' /\ RegistriesFaithful' /\ OpenSessionsRegistered'
  BY <1>5 DEF Stop, registryVars
<1>6. ASSUME NEW s \in Sockets, NEW r \in RoomIds, NEW c \in JoinCodes, CreateRoom(s, r, c)
      PROVE  TokensOwned' /\ RegistriesFaithful' /\ OpenSessionsRegistered'
  <2>1. UNCHANGED <<socketVars, registryVars>> /\ issued \subseteq issued'
    BY <1>6 DEF CreateRoom
  <2> QED
    BY <2>1 DEF socketVars, registryVars
<1>7. \/ Quiet
      \/ \E s \in Sockets, r \in RoomIds : Join(s, r)
      \/ \E s \in Sockets : LeaveRoom(s)
      \/ \E r \in RoomIds : ExpireRoom(r)
      => UNCHANGED <<socketVars, registryVars, issued>>
  BY DEF Quiet, Join, AddPeerToRoom, LeaveRoom, ExpireRoom
<1> QED
  BY <1>1, <1>2, <1>3, <1>4, <1>5, <1>6, <1>7, FreshSession, ResumedSession, ClosedSession
  DEF Changes

(***************************************************************************)
(* However sockets resume, replace one another and close, a registry entry *)
(* leads to the peer or session it is filed under.                         *)
(***************************************************************************)
THEOREM RegistriesStayFaithful == Spec => []RegistriesFaithful
BY InitSession, NextSession, PTL DEF Spec, SessionInv

(***************************************************************************)
(* An open, authenticated socket keeps its session entry until it closes.  *)
(***************************************************************************)
THEOREM OpenSessionsStayRegistered == Spec => []OpenSessionsRegistered
BY InitSession, NextSession, PTL DEF Spec, SessionInv

-----------------------------------------------------------------------------
(* Rooms.                                                                  *)

(***************************************************************************)
(* Room ids are used once: a live room and the room a socket points to     *)
(* have been issued, so a new room has no member and no delegate yet.      *)
(***************************************************************************)
RoomIdsIssued ==
  /\ \A r \in RoomIds : rooms[r] # Null => r \in issued
  /\ \A s \in Sockets : roomId[s] # Null => roomId[s] \in issued

\* Only finite sets have a Cardinality to reason about.
MembersFinite == \A r \in LiveRooms : IsFiniteSet(rooms[r].members)

RoomInv ==
  /\ TypeOK
  /\ RoomIdsIssued
  /\ RoomIdsAgree
  /\ SoleDelegate
  /\ MembersFinite
  /\ RoomSizes
  /\ JoinCodesResolve
  /\ TimersMatchRooms

\* What a step has to preserve besides the types.
RoomGoal ==
  /\ RoomIdsIssued
  /\ RoomIdsAgree
  /\ SoleDelegate
  /\ MembersFinite
  /\ RoomSizes
  /\ JoinCodesResolve
  /\ TimersMatchRooms

\* There are no rooms at first.
LEMMA InitRooms == Init => RoomInv
BY InitType DEF Init, RoomInv, RoomIdsIssued, RoomIdsAgree, SoleDelegate, MembersFinite,
  RoomSizes, JoinCodesResolve, TimersMatchRooms, LiveRooms

\* A peer joins a room it is not in, through the one socket that does so.
LEMMA JoinRooms ==
  ASSUME RoomInv, NEW s \in Sockets, NEW r \in RoomIds, Join(s, r)
  PROVE  RoomGoal'
<1> USE NullAssumption DEF RoomInv
<1> DEFINE p == peerId[s]
           room == [rooms[r] EXCEPT !.members = @ \cup {p}]
<1>1. /\ rooms[r] \in Room
      /\ ~(Cardinality(rooms[r].members) >= MaxPeers)
      /\ p \notin rooms[r].members
      /\ r \in LiveRooms
  BY DEF Join, JoinResult, TypeOK, LiveRooms
<1>2. /\ rooms' = [rooms EXCEPT ![r] = room]
      /\ roomId' = [roomId EXCEPT ![s] = r]
      /\ UNCHANGED <<peerId, joinCodeToRoomId, roomTimers, issued, stopped>>
  BY DEF Join, AddPeerToRoom, socketVars
<1>3. /\ room.members = rooms[r].members \cup {p}
      /\ room.joinCode = rooms[r].joinCode
      /\ room # Null
  <2>1. /\ room.members = rooms[r].members \cup {p}
        /\ room.joinCode = rooms[r].joinCode
    BY <1>1 DEF Room
  <2>2. p \in PeerIds
    BY DEF Join, Authenticated, TypeOK
  <2>3. room \in Room
    BY <1>1, <2>2 DEF Room
  <2> QED
    BY <2>1, <2>3
<1>4. /\ LiveRooms' = LiveRooms
      /\ rooms'[r] = room
      /\ \A q \in RoomIds : q # r => rooms'[q] = rooms[q]
  BY <1>1, <1>2, <1>3 DEF LiveRooms, TypeOK
<1> HIDE DEF room
<1>5. RoomIdsIssued'
  BY <1>1, <1>2, <1>4 DEF RoomIdsIssued, LiveRooms, TypeOK
<1>6. RoomIdsAgree'
  BY <1>1, <1>2, <1>3, <1>4 DEF RoomIdsAgree, LiveRooms, TypeOK
<1>7. SoleDelegate'
  <2>1. \A w \in Sockets : roomId[w] = r => peerId[w] # p
    BY <1>1 DEF RoomIdsAgree, LiveRooms
  <2> QED
    BY <1>2, <1>4, <2>1 DEF SoleDelegate, TypeOK
<1>8. MembersFinite' /\ RoomSizes'
  <2>1. IsFiniteSet(rooms[r].members)
    BY <1>1 DEF MembersFinite
  <2>2. /\ IsFiniteSet(room.members)
        /\ Cardinality(room.members) = Cardinality(rooms[r].members) + 1
        /\ Cardinality(rooms[r].members) \in Nat
    BY <1>1, <1>3, <2>1, FS_AddElement, FS_CardinalityType
  <2>3. Cardinality(room.members) <= MaxPeers /\ room.members # {}
    BY <1>1, <1>3, <2>2, MaxPeersAssumption
  <2> QED
    BY <1>4, <2>2, <2>3 DEF MembersFinite, RoomSizes, LiveRooms
<1>9. JoinCodesResolve'
  BY <1>1, <1>2, <1>3, <1>4 DEF JoinCodesResolve, LiveRooms, TypeOK
<1>10. TimersMatchRooms'
  BY <1>2, <1>4 DEF TimersMatchRooms
<1> QED
  BY <1>5, <1>6, <1>7, <1>8, <1>9, <1>10 DEF RoomGoal

\* A new room holds its creator, and nothing points to it yet.
LEMMA CreateRooms ==
  ASSUME RoomInv, NEW s \in Sockets, NEW r \in RoomIds, NEW c \in JoinCodes,
         CreateRoom(s, r, c)
  PROVE  RoomGoal'
<1> USE NullAssumption DEF RoomInv
<1> DEFINE p == peerId[s]
           room == [joinCode |-> c, hostPeerId |-> p, members |-> {p}]
<1>1. /\ r \notin issued /\ issued' = issued \cup {r}
      /\ rooms' = [rooms EXCEPT ![r] = room]
      /\ joinCodeToRoomId' = [joinCodeToRoomId EXCEPT ![c] = r]
      /\ roomTimers' = roomTimers \cup {r}
      /\ roomId' = [roomId EXCEPT ![s] = r]
      /\ UNCHANGED <<peerId, stopped>>
      /\ p \in PeerIds
  BY DEF CreateRoom, ScheduleRoomExpiration, MapJoinCode, socketVars, Authenticated, TypeOK
<1>2. room.members = {p} /\ room.joinCode = c /\ room \in Room /\ room # Null
  BY <1>1 DEF Room
<1>3. rooms[r] = Null /\ \A w \in Sockets : roomId[w] # r
  BY <1>1 DEF RoomIdsIssued
<1> HIDE DEF room
<1>4. /\ LiveRooms' = LiveRooms \cup {r} /\ r \notin LiveRooms
      /\ rooms'[r] = room
      /\ \A q \in RoomIds : q # r => rooms'[q] = rooms[q]
  BY <1>1, <1>2, <1>3 DEF LiveRooms, TypeOK
<1>5. RoomIdsIssued'
  BY <1>1, <1>4 DEF RoomIdsIssued, TypeOK
<1>6. RoomIdsAgree'
  BY <1>1, <1>2, <1>3, <1>4 DEF RoomIdsAgree, TypeOK
<1>7. SoleDelegate'
  BY <1>1, <1>3, <1>4 DEF SoleDelegate, TypeOK
<1>8. MembersFinite' /\ RoomSizes'
  <2>1. IsFiniteSet({p}) /\ Cardinality({p}) = 1
    BY FS_Singleton
  <2>2. 1 <= MaxPeers
    BY MaxPeersAssumption
  <2>3. \A q \in LiveRooms' : q # r => q \in LiveRooms /\ rooms'[q] = rooms[q]
    BY <1>4 DEF LiveRooms
  <2> HIDE DEF p
  <2>4. MembersFinite'
    BY <1>2, <1>4, <2>1, <2>3 DEF MembersFinite
  <2>5. RoomSizes'
    BY <1>2, <1>4, <2>1, <2>2, <2>3 DEF RoomSizes
  <2> QED
    BY <2>4, <2>5
<1>9. JoinCodesResolve'
  BY <1>1, <1>2, <1>3, <1>4 DEF JoinCodesResolve, TypeOK
<1>10. TimersMatchRooms'
  BY <1>1, <1>4 DEF TimersMatchRooms
<1> QED
  BY <1>5, <1>6, <1>7, <1>8, <1>9, <1>10 DEF RoomGoal

\* A room that is cleaned up takes its join code and its timer with it.
LEMMA CleanupRooms ==
  ASSUME RoomInv, NEW r \in RoomIds, rooms[r] # Null, CleanupRoom(r),
         UNCHANGED <<peerId, issued, stopped>>,
         \A s \in Sockets : roomId'[s] \in {roomId[s], Null}
  PROVE  RoomGoal'
<1> USE NullAssumption DEF RoomInv
<1>1. /\ rooms' = [rooms EXCEPT ![r] = Null]
      /\ joinCodeToRoomId' = [joinCodeToRoomId EXCEPT ![rooms[r].joinCode] = Null]
      /\ roomTimers' = roomTimers \ {r}
  BY DEF CleanupRoom, ClearRoomTimer
<1>2. /\ LiveRooms' = LiveRooms \ {r}
      /\ rooms'[r] = Null
      /\ \A q \in RoomIds : q # r => rooms'[q] = rooms[q]
  BY <1>1 DEF LiveRooms, TypeOK
<1>3. RoomIdsIssued'
  BY <1>2 DEF RoomIdsIssued
<1>4. RoomIdsAgree'
  BY <1>2 DEF RoomIdsAgree
<1>5. SoleDelegate'
  BY <1>2 DEF SoleDelegate, LiveRooms
<1>6. MembersFinite' /\ RoomSizes'
  BY <1>2 DEF MembersFinite, RoomSizes, LiveRooms
<1>7. JoinCodesResolve'
  BY <1>1, <1>2 DEF JoinCodesResolve, TypeOK
<1>8. TimersMatchRooms'
  BY <1>1, <1>2 DEF TimersMatchRooms
<1> QED
  BY <1>3, <1>4, <1>5, <1>6, <1>7, <1>8 DEF RoomGoal

\* A peer is taken out of its room by the only socket that points there.
LEMMA RemoveRooms ==
  ASSUME RoomInv, NEW s \in Sockets, NEW r \in RoomIds, roomId[s] = r,
         IsMember(peerId[s], r), RemovePeerFromRoom(s, r),
         UNCHANGED <<peerId, issued, stopped>>
  PROVE  RoomGoal'
<1> USE NullAssumption DEF RoomInv
<1> DEFINE p == peerId[s]
           room == [rooms[r] EXCEPT !.members = @ \ {p}]
<1>1. rooms[r] # Null /\ rooms[r] \in Room /\ p \in rooms[r].members /\ r \in LiveRooms
  BY DEF IsMember, TypeOK, LiveRooms
<1>2. roomId' = [roomId EXCEPT ![s] = Null]
  BY DEF RemovePeerFromRoom
<1>3. CASE rooms[r].members = {p}
  <2>1. CleanupRoom(r)
    BY <1>3 DEF RemovePeerFromRoom
  <2>2. \A w \in Sockets : roomId'[w] \in {roomId[w], Null}
    BY <1>2 DEF TypeOK
  <2> QED
    BY <1>1, <2>1, <2>2, CleanupRooms
<1>4. CASE rooms[r].members # {p}
  <2>1. rooms' = [rooms EXCEPT ![r] = room] /\ UNCHANGED <<joinCodeToRoomId, roomTimers>>
    BY <1>4 DEF RemovePeerFromRoom
  <2>2. /\ room.members = rooms[r].members \ {p}
        /\ room.joinCode = rooms[r].joinCode
        /\ room # Null
    <3>1. /\ room.members = rooms[r].members \ {p}
          /\ room.joinCode = rooms[r].joinCode
      BY <1>1 DEF Room
    <3>2. room \in Room
      BY <1>1 DEF Room
    <3> QED
      BY <3>1, <3>2
  <2>3. /\ LiveRooms' = LiveRooms
        /\ rooms'[r] = room
        /\ \A q \in RoomIds : q # r => rooms'[q] = rooms[q]
    BY <1>1, <2>1, <2>2 DEF LiveRooms, TypeOK
  <2> HIDE DEF room
  <2>4. \A w \in Sockets : roomId[w] = r /\ w # s => peerId[w] # p
    BY <1>1 DEF SoleDelegate
  <2>5. RoomIdsIssued'
    BY <1>1, <1>2, <2>3 DEF RoomIdsIssued, LiveRooms, TypeOK
  <2>6. RoomIdsAgree'
    BY <1>1, <1>2, <2>2, <2>3, <2>4 DEF RoomIdsAgree, TypeOK
  <2>7. SoleDelegate'
    BY <1>2, <2>3 DEF SoleDelegate, LiveRooms, TypeOK
  <2>8. MembersFinite' /\ RoomSizes'
    <3>1. /\ IsFiniteSet(rooms[r].members)
          /\ Cardinality(rooms[r].members) <= MaxPeers
      BY <1>1 DEF MembersFinite, RoomSizes
    <3>2. /\ IsFiniteSet(room.members)
          /\ Cardinality(room.members) = Cardinality(rooms[r].members) - 1
          /\ Cardinality(rooms[r].members) \in Nat
      BY <1>1, <2>2, <3>1, FS_RemoveElement, FS_CardinalityType
    <3>3. Cardinality(room.members) <= MaxPeers /\ room.members # {}
      BY <1>1, <1>4, <2>2, <3>1, <3>2, MaxPeersAssumption
    <3> QED
      BY <2>3, <3>2, <3>3 DEF MembersFinite, RoomSizes, LiveRooms
  <2>9. JoinCodesResolve'
    BY <1>1, <2>1, <2>2, <2>3 DEF JoinCodesResolve, LiveRooms, TypeOK
  <2>10. TimersMatchRooms'
    BY <2>1, <2>3 DEF TimersMatchRooms
  <2> QED
    BY <2>5, <2>6, <2>7, <2>8, <2>9, <2>10 DEF RoomGoal
<1> QED
  BY <1>3, <1>4

(***************************************************************************)
(* A hello names a socket that is a member of nothing: a live room has no  *)
(* member Null, and ws.roomId of that socket therefore names no live room. *)
(***************************************************************************)
LEMMA HelloRooms ==
  ASSUME RoomInv, NEW s \in Sockets, NEW p, peerId[s] = Null,
         peerId' = [peerId EXCEPT ![s] = p], issued \subseteq issued',
         UNCHANGED <<roomVars, stopped>>
  PROVE  RoomGoal'
<1> USE NullAssumption DEF RoomInv
<1>1. UNCHANGED <<roomId, rooms, joinCodeToRoomId, roomTimers, LiveRooms>>
  BY DEF roomVars, LiveRooms
<1>2. \A r \in LiveRooms : roomId[s] # r
  <2>1. \A r \in LiveRooms : Null \notin rooms[r].members
    BY DEF LiveRooms, TypeOK, Room
  <2> QED
    BY <2>1 DEF RoomIdsAgree, LiveRooms
<1>3. RoomIdsIssued'
  BY <1>1 DEF RoomIdsIssued
<1>4. RoomIdsAgree'
  BY <1>1, <1>2 DEF RoomIdsAgree, LiveRooms, TypeOK
<1>5. SoleDelegate'
  BY <1>1, <1>2 DEF SoleDelegate, TypeOK
<1>6. MembersFinite' /\ RoomSizes' /\ JoinCodesResolve' /\ TimersMatchRooms'
  BY <1>1 DEF MembersFinite, RoomSizes, JoinCodesResolve, TimersMatchRooms
<1> QED
  BY <1>3, <1>4, <1>5, <1>6 DEF RoomGoal

(***************************************************************************)
(* The room invariant is inductive.                                        *)
(***************************************************************************)
LEMMA NextRooms == RoomInv /\ [Next]_vars => RoomInv'
<1> SUFFICES ASSUME RoomInv, [Next]_vars PROVE RoomGoal'
  BY NextType DEF RoomInv, RoomGoal
<1> USE NullAssumption
<1>1. Changes
  BY NextChanges DEF RoomInv
<1>2. CASE UNCHANGED <<peerId, roomVars, issued, stopped>>
  BY <1>2 DEF RoomInv, RoomGoal, roomVars, RoomIdsIssued, RoomIdsAgree, SoleDelegate,
    MembersFinite, RoomSizes, JoinCodesResolve, TimersMatchRooms, LiveRooms
<1>3. \/ Quiet
      \/ \E s \in Sockets : Connect(s) \/ BeginClose(s)
      => UNCHANGED <<peerId, roomVars, issued, stopped>>
  BY DEF Quiet, Connect, BeginClose, socketVars
<1>4. ASSUME NEW s \in Sockets, NEW p \in PeerIds, NEW t \in Tokens, HelloFresh(s, p, t)
      PROVE  RoomGoal'
  <2>1. /\ peerId[s] = Null /\ peerId' = [peerId EXCEPT ![s] = p]
        /\ issued \subseteq issued' /\ UNCHANGED <<roomVars, stopped>>
    BY <1>4 DEF HelloFresh
  <2> QED
    BY <2>1, HelloRooms
<1>5. ASSUME NEW s \in Sockets, NEW old \in Sockets, NEW t \in Tokens,
             HelloResume(s, old, t)
      PROVE  RoomGoal'
  <2>1. /\ peerId[s] = Null /\ peerId' = [peerId EXCEPT ![s] = peerId[old]]
        /\ issued \subseteq issued' /\ UNCHANGED <<roomVars, stopped>>
    BY <1>5 DEF HelloResume
  <2> QED
    BY <2>1, HelloRooms
<1>6. ASSUME NEW s \in Sockets, LeaveRoom(s) PROVE RoomGoal'
  <2>1. /\ roomId[s] \in RoomIds /\ IsMember(peerId[s], roomId[s])
        /\ RemovePeerFromRoom(s, roomId[s])
        /\ UNCHANGED <<peerId, issued, stopped>>
    BY <1>6 DEF LeaveRoom, socketVars, RoomInv, TypeOK
  <2> QED
    BY <2>1, RemoveRooms
<1>7. ASSUME NEW s \in Sockets, Close(s) PROVE RoomGoal'
  <2>1. CASE roomId[s] # Null /\ IsMember(peerId[s], roomId[s])
    <3>1. /\ roomId[s] \in RoomIds /\ RemovePeerFromRoom(s, roomId[s])
          /\ UNCHANGED <<peerId, issued, stopped>>
      BY <1>7, <2>1 DEF Close, RoomInv, TypeOK
    <3> QED
      BY <2>1, <3>1, RemoveRooms
  <2>2. CASE ~(roomId[s] # Null /\ IsMember(peerId[s], roomId[s]))
    BY <1>7, <2>2, <1>2 DEF Close
  <2> QED
    BY <2>1, <2>2
<1>8. ASSUME NEW r \in RoomIds, ExpireRoom(r) PROVE RoomGoal'
  <2>1. /\ rooms[r] # Null /\ CleanupRoom(r) /\ UNCHANGED <<peerId, issued, stopped>>
        /\ \A s \in Sockets : roomId'[s] \in {roomId[s], Null}
    BY <1>8 DEF ExpireRoom, socketVars
  <2> QED
    BY <2>1, CleanupRooms
<1>9. ASSUME Stop PROVE RoomGoal'
  BY <1>9 DEF Stop, RoomInv, RoomGoal, RoomIdsIssued, RoomIdsAgree, SoleDelegate,
    MembersFinite, RoomSizes, JoinCodesResolve, TimersMatchRooms, LiveRooms
<1> QED
  BY <1>1, <1>2, <1>3, <1>4, <1>5, <1>6, <1>7, <1>8, <1>9, JoinRooms, CreateRooms
  DEF Changes

(***************************************************************************)
(* A socket whose roomId names a live room is a member of it, however its  *)
(* peer joins, leaves, resumes and closes.                                 *)
(***************************************************************************)
THEOREM RoomIdsAlwaysAgree == Spec => []RoomIdsAgree
BY InitRooms, NextRooms, PTL DEF Spec, RoomInv

\* No two sockets act for the same peer in a live room.
THEOREM AlwaysSoleDelegate == Spec => []SoleDelegate
BY InitRooms, NextRooms, PTL DEF Spec, RoomInv

\* A live room is never empty and never holds more than MaxPeers peers.
THEOREM RoomSizesHold == Spec => []RoomSizes
BY InitRooms, NextRooms, PTL DEF Spec, RoomInv

\* A join code never leads to a dead room or to a room with another code.
THEOREM JoinCodesAlwaysResolve == Spec => []JoinCodesResolve
BY InitRooms, NextRooms, PTL DEF Spec, RoomInv

\* Until the server stops, exactly the live rooms have a pending timer.
THEOREM TimersAlwaysMatch == Spec => []TimersMatchRooms
BY InitRooms, NextRooms, PTL DEF Spec, RoomInv

-----------------------------------------------------------------------------
(* The rooms implement the room directory.                                 *)

Used == issued \cap RoomIds
Occupants == [r \in RoomIds |-> IF rooms[r] = Null THEN {} ELSE rooms[r].members]

\* The instance has its own copy of the definition of Cardinality.
LEMMA SameCardinality == \A S : Directory!Cardinality(S) = Cardinality(S)
BY DEF Directory!Cardinality, Cardinality

\* The directory does not move when neither the rooms nor their ids do.
LEMMA DirectoryStutters ==
  ASSUME UNCHANGED rooms, Used' = Used
  PROVE  UNCHANGED Directory!vars
BY DEF Directory!vars, Used

\* A removal is an exit, also when it empties the room and cleans it up.
LEMMA RemoveExits ==
  ASSUME RoomInv, NEW s \in Sockets, roomId[s] \in RoomIds, IsMember(peerId[s], roomId[s]),
         RemovePeerFromRoom(s, roomId[s]), UNCHANGED issued
  PROVE  Directory!Next
<1> USE NullAssumption
<1> PICK r \in RoomIds : r = roomId[s]
  OBVIOUS
<1> PICK p \in PeerIds : p = peerId[s]
  BY DEF IsMember, RoomInv, TypeOK, Room
<1>1. rooms[r] \in Room /\ p \in rooms[r].members /\ RemovePeerFromRoom(s, r)
  BY DEF IsMember, RoomInv, TypeOK
<1>2. Occupants' = [Occupants EXCEPT ![r] = @ \ {p}]
  <2>1. CASE rooms[r].members = {p}
    <3>1. rooms' = [rooms EXCEPT ![r] = Null]
      BY <1>1, <2>1 DEF RemovePeerFromRoom, CleanupRoom, ClearRoomTimer
    <3> QED
      BY <1>1, <2>1, <3>1 DEF Occupants, RoomInv, TypeOK
  <2>2. CASE rooms[r].members # {p}
    <3> DEFINE room == [rooms[r] EXCEPT !.members = @ \ {p}]
    <3>1. rooms' = [rooms EXCEPT ![r] = room]
      BY <1>1, <2>2 DEF RemovePeerFromRoom
    <3>2. room \in Room /\ room.members = rooms[r].members \ {p}
      BY <1>1 DEF Room
    <3> HIDE DEF room
    <3> QED
      BY <1>1, <3>1, <3>2 DEF Occupants, RoomInv, TypeOK
  <2> QED
    BY <2>1, <2>2
<1>3. Directory!Exit(r, p)
  BY <1>1, <1>2 DEF Directory!Exit, Occupants
<1> QED
  BY <1>3 DEF Directory!Next

(***************************************************************************)
(* Every step of the server is a step of the room directory or leaves it   *)
(* as it is.                                                               *)
(***************************************************************************)
LEMMA StepImplements == RoomInv /\ [Next]_vars => [Directory!Next]_(Directory!vars)
<1> SUFFICES ASSUME RoomInv, [Next]_vars
             PROVE  Directory!Next \/ UNCHANGED Directory!vars
  OBVIOUS
<1> USE NullAssumption
<1>1. Changes
  BY NextChanges DEF RoomInv
<1>2. TypeOK
  BY DEF RoomInv
<1>3. \/ Quiet
      \/ \E s \in Sockets : Connect(s) \/ BeginClose(s)
      \/ Stop
      => UNCHANGED <<rooms, issued>>
  BY DEF Quiet, Connect, BeginClose, Stop, roomVars
<1>4. ASSUME UNCHANGED <<rooms, issued>> PROVE UNCHANGED Directory!vars
  BY <1>4, DirectoryStutters DEF Used
<1>5. ASSUME NEW s \in Sockets, NEW p \in PeerIds, NEW t \in Tokens, HelloFresh(s, p, t)
      PROVE  UNCHANGED Directory!vars
  BY <1>5, DirectoryStutters, IdKindsAssumption DEF HelloFresh, roomVars, Used
<1>6. ASSUME NEW s \in Sockets, NEW old \in Sockets, NEW t \in Tokens,
             HelloResume(s, old, t)
      PROVE  UNCHANGED Directory!vars
  BY <1>6, DirectoryStutters, IdKindsAssumption DEF HelloResume, roomVars, Used
<1>7. ASSUME NEW s \in Sockets, NEW r \in RoomIds, Join(s, r)
      PROVE  Directory!Next
  <2> PICK p \in PeerIds : p = peerId[s]
    BY <1>2, <1>7 DEF Join, Authenticated, TypeOK
  <2> DEFINE room == [rooms[r] EXCEPT !.members = @ \cup {p}]
  <2>1. /\ rooms' = [rooms EXCEPT ![r] = room] /\ issued' = issued
        /\ rooms[r] \in Room /\ p \notin rooms[r].members
        /\ ~(Cardinality(rooms[r].members) >= MaxPeers)
    BY <1>2, <1>7 DEF Join, JoinResult, AddPeerToRoom, Authenticated, TypeOK
  <2>2. room \in Room /\ room.members = rooms[r].members \cup {p}
    BY <2>1 DEF Room
  <2>3. rooms[r].members # {} /\ Cardinality(rooms[r].members) < MaxPeers
    <3>1. r \in LiveRooms
      BY <2>1 DEF LiveRooms
    <3>2. Cardinality(rooms[r].members) \in Nat
      BY <3>1, FS_CardinalityType DEF RoomInv, MembersFinite
    <3> QED
      BY <2>1, <3>1, <3>2, MaxPeersAssumption DEF RoomInv, RoomSizes
  <2> HIDE DEF room
  <2>4. Occupants' = [Occupants EXCEPT ![r] = @ \cup {p}]
    BY <1>2, <2>1, <2>2 DEF Occupants, TypeOK
  <2>5. Occupants[r] = rooms[r].members
    BY <2>1 DEF Occupants
  <2>6. /\ Occupants[r] # {} /\ p \notin Occupants[r]
        /\ Cardinality(Occupants[r]) < MaxPeers
    BY <2>1, <2>3, <2>5
  <2>7. Used' = Used
    BY <2>1 DEF Used
  <2>8. Directory!Cardinality(Occupants[r]) < MaxPeers
    BY <2>6, SameCardinality
  <2>9. Directory!Enter(r, p)
    BY <2>4, <2>6, <2>7, <2>8, Zenon DEF Directory!Enter, Occupants, Used
  <2> QED
    BY <2>9 DEF Directory!Next
<1>8. ASSUME NEW s \in Sockets, NEW r \in RoomIds, NEW c \in JoinCodes, CreateRoom(s, r, c)
      PROVE  Directory!Next
  <2> PICK p \in PeerIds : p = peerId[s]
    BY <1>2, <1>8 DEF CreateRoom, ScheduleRoomExpiration, Authenticated, TypeOK
  <2> DEFINE room == [joinCode |-> c, hostPeerId |-> p, members |-> {p}]
  <2>1. /\ rooms' = [rooms EXCEPT ![r] = room]
        /\ r \notin issued /\ issued' = issued \cup {r}
    BY <1>2, <1>8 DEF CreateRoom, ScheduleRoomExpiration, Authenticated, TypeOK
  <2>2. room \in Room /\ room.members = {p}
    BY <2>1 DEF Room
  <2> HIDE DEF room
  <2>3. Occupants' = [Occupants EXCEPT ![r] = {p}]
    BY <1>2, <2>1, <2>2 DEF Occupants, TypeOK
  <2>4. Directory!Open(r, p)
    BY <2>1, <2>3 DEF Directory!Open, Occupants
  <2> QED
    BY <2>4 DEF Directory!Next
<1>9. ASSUME NEW s \in Sockets, LeaveRoom(s) PROVE Directory!Next
  <2>1. roomId[s] \in RoomIds
    BY <1>2, <1>9 DEF LeaveRoom, TypeOK
  <2> QED
    BY <1>9, <2>1, RemoveExits DEF LeaveRoom
<1>10. ASSUME NEW s \in Sockets, Close(s)
       PROVE  Directory!Next \/ UNCHANGED Directory!vars
  <2>1. CASE roomId[s] # Null /\ IsMember(peerId[s], roomId[s])
    <3>1. roomId[s] \in RoomIds
      BY <1>2, <2>1 DEF TypeOK
    <3> QED
      BY <1>10, <2>1, <3>1, RemoveExits DEF Close
  <2>2. CASE ~(roomId[s] # Null /\ IsMember(peerId[s], roomId[s]))
    BY <1>4, <1>10, <2>2 DEF Close, roomVars
  <2> QED
    BY <2>1, <2>2
<1>11. ASSUME NEW r \in RoomIds, ExpireRoom(r) PROVE Directory!Next
  <2>1. /\ rooms[r] # Null /\ rooms' = [rooms EXCEPT ![r] = Null] /\ issued' = issued
    BY <1>11 DEF ExpireRoom, CleanupRoom, ClearRoomTimer
  <2>2. rooms[r].members # {}
    BY <2>1 DEF RoomInv, RoomSizes, LiveRooms
  <2>3. Occupants' = [Occupants EXCEPT ![r] = {}]
    BY <1>2, <2>1 DEF Occupants, TypeOK
  <2>4. Directory!Expire(r)
    BY <2>1, <2>2, <2>3 DEF Directory!Expire, Occupants
  <2> QED
    BY <2>4 DEF Directory!Next
<1> QED
  BY <1>1, <1>3, <1>4, <1>5, <1>6, <1>7, <1>8, <1>9, <1>10, <1>11 DEF Changes

(***************************************************************************)
(* The server's rooms implement the room directory: ids are used once, one *)
(* peer moves at a time, capacity holds, and a dead room stays dead.       *)
(***************************************************************************)
THEOREM DirectoryImplemented == Spec => ImplementsDirectory
<1>1. Init => Directory!Init
  BY DEF Init, Directory!Init
<1> QED
  BY <1>1, InitRooms, NextRooms, StepImplements, PTL
  DEF Spec, ImplementsDirectory, Directory!Spec

-----------------------------------------------------------------------------
(* The connection cap.                                                     *)

Listeners == {s \in Sockets : Listening(s)}

CapInv == TypeOK /\ ConnectionCap

LEMMA FewerListeners ==
  ASSUME ConnectionCap, Listeners' \subseteq Listeners
  PROVE  ConnectionCap'
<1>1. IsFiniteSet(Listeners)
  BY MaxConnectionsAssumption, FS_Subset DEF Listeners
<1>2. IsFiniteSet(Listeners') /\ Cardinality(Listeners') <= Cardinality(Listeners)
  BY <1>1, FS_Subset
<1>3. Cardinality(Listeners) \in Nat /\ Cardinality(Listeners') \in Nat
  BY <1>1, <1>2, FS_CardinalityType
<1> QED
  BY <1>2, <1>3, MaxConnectionsAssumption DEF ConnectionCap, Listeners

LEMMA NextCap == CapInv /\ [Next]_vars => CapInv'
<1> SUFFICES ASSUME CapInv, [Next]_vars PROVE CapInv'
  OBVIOUS
<1>1. TypeOK /\ TypeOK' /\ ConnectionCap
  BY NextType DEF CapInv
<1>2. Changes
  BY <1>1, NextChanges
<1>3. readyState \in [Sockets -> ReadyStates]
  BY <1>1 DEF TypeOK
<1>4. ASSUME NEW s \in Sockets, Connect(s) PROVE ConnectionCap'
  <2>1. CASE OverCap(s)
    <3>1. Listeners' \subseteq Listeners
      BY <1>3, <1>4, <2>1 DEF Connect, Listeners, Listening
    <3> QED
      BY <1>1, <3>1, FewerListeners
  <2>2. CASE ~OverCap(s)
    <3>1. Listeners' \subseteq Clients \cup {s}
      BY <1>3, <1>4, <2>2 DEF Connect, Listeners, Listening, Clients
    <3>2. IsFiniteSet(Clients \cup {s})
      BY MaxConnectionsAssumption, FS_Subset DEF Clients
    <3>3. IsFiniteSet(Listeners') /\ Cardinality(Listeners') <= Cardinality(Clients \cup {s})
      BY <3>1, <3>2, FS_Subset
    <3>4. Cardinality(Listeners') \in Nat /\ Cardinality(Clients \cup {s}) \in Nat
      BY <3>2, <3>3, FS_CardinalityType
    <3> QED
      BY <2>2, <3>3, <3>4, MaxConnectionsAssumption DEF OverCap, ConnectionCap, Listeners
  <2> QED
    BY <2>1, <2>2
<1>5. ASSUME \A s \in Sockets : ~Connect(s) PROVE ConnectionCap'
  <2>1. \/ readyState' = readyState
        \/ \E s \in Sockets, state \in {"closing", "closed"} :
             /\ readyState[s] \in {"open", "closing", "rejected"}
             /\ state = "closing" => Listening(s)
             /\ readyState' = [readyState EXCEPT ![s] = state]
        \/ Stop
    <3>1. CASE Quiet
      BY <3>1 DEF Quiet, socketVars
    <3>2. ASSUME NEW s \in Sockets, BeginClose(s) \/ Close(s)
          PROVE \E state \in {"closing", "closed"} :
                  /\ readyState[s] \in {"open", "closing", "rejected"}
                  /\ state = "closing" => Listening(s)
                  /\ readyState' = [readyState EXCEPT ![s] = state]
      BY <3>2 DEF BeginClose, Close, Listening
    <3>3. ASSUME NEW s \in Sockets, NEW old \in Sockets, NEW t \in Tokens, HelloResume(s, old, t)
          PROVE /\ readyState[old] \in {"open", "closing", "rejected"}
                /\ Listening(old)
                /\ readyState' = [readyState EXCEPT ![old] = "closing"]
      BY <3>3 DEF HelloResume, Authenticated, Listening
    <3>4. ASSUME NEW s \in Sockets,
                 \/ \E p \in PeerIds, t \in Tokens : HelloFresh(s, p, t)
                 \/ \E r \in RoomIds : Join(s, r)
                 \/ \E r \in RoomIds, c \in JoinCodes : CreateRoom(s, r, c)
                 \/ LeaveRoom(s)
          PROVE readyState' = readyState
      BY <3>4 DEF HelloFresh, Join, AddPeerToRoom, CreateRoom, ScheduleRoomExpiration,
         LeaveRoom, socketVars
    <3>5. ASSUME NEW r \in RoomIds, ExpireRoom(r) PROVE readyState' = readyState
      BY <3>5 DEF ExpireRoom, socketVars
    <3> QED
      BY <1>2, <1>5, <3>1, <3>2, <3>3, <3>4, <3>5 DEF Changes
  <2>2. Listeners' \subseteq Listeners
    <3>1. CASE Stop
      BY <1>3, <3>1 DEF Stop, Listeners, Listening
    <3> QED
      BY <1>3, <2>1, <3>1 DEF Listeners, Listening
  <2> QED
    BY <1>1, <2>2, FewerListeners
<1> QED
  BY <1>1, <1>4, <1>5 DEF CapInv

\* The server never listens to more connections than its cap, however they come and go.
THEOREM ConnectionCapHolds == Spec => []ConnectionCap
<1>1. Init => CapInv
  <2> SUFFICES ASSUME Init PROVE CapInv
    OBVIOUS
  <2>1. {s \in Sockets : Listening(s)} = {}
    BY DEF Init, Listening
  <2>2. Cardinality({s \in Sockets : Listening(s)}) = 0
    BY <2>1, FS_EmptySet
  <2> QED
    BY <2>2, InitType, MaxConnectionsAssumption DEF CapInv, ConnectionCap
<1>2. CapInv => ConnectionCap
  BY DEF CapInv
<1> QED
  BY <1>1, <1>2, NextCap, PTL DEF Spec

-----------------------------------------------------------------------------
(* What a step tells the members of a room it changes.                     *)

\* One room of ChangesAnnounced.
Announced(r) ==
  LET before == rooms[r].members
      after == IF rooms'[r] = Null THEN {} ELSE rooms'[r].members
  IN /\ \A p \in after \ before, q \in before :
          Told(q, PeerEvent("room-peer-joined", r, p))
     /\ \A p \in before \ after, q \in before \cap after :
          Told(q, PeerEvent("room-peer-left", r, p))
     /\ Cardinality(before) > 1 /\ after = {} =>
          \A q \in before : Told(q, RoomExpired(r))

\* The open socket of a member other than p gets what the members are notified of.
LEMMA NotifiedMember ==
  ASSUME SessionInv, NEW r \in LiveRooms, NEW event, NEW p, NEW q \in rooms[r].members,
         q # p, peerMap[q] # Null, readyState[peerMap[q]] = "open"
  PROVE  /\ peerMap[q] \in Sockets /\ peerId[peerMap[q]] = q
         /\ peerMap[q] \in DOMAIN NotifyMembers(event, r, p)
         /\ NotifyMembers(event, r, p)[peerMap[q]] = PeerEvent(event, r, p)
<1>1. q \in PeerIds
  BY DEF SessionInv, TypeOK, Room, LiveRooms
<1>2. peerMap[q] \in Sockets /\ peerId[peerMap[q]] = q
  BY <1>1 DEF SessionInv, TypeOK, RegistriesFaithful
<1>3. peerMap[q] \in Registered(rooms[r].members \ {p})
  BY DEF Registered
<1> QED
  BY <1>2, <1>3 DEF NotifyMembers

\* Members are told when nothing else is sent ...
LEMMA MembersTold ==
  ASSUME SessionInv, NEW r \in LiveRooms, NEW event, NEW p,
         Send(NotifyMembers(event, r, p)), NEW q \in rooms[r].members, q # p
  PROVE  Told(q, PeerEvent(event, r, p))
BY NotifiedMember DEF Send, Told

\* ... and when the peer that causes the change gets a reply of its own.
LEMMA MembersToldBeside ==
  ASSUME SessionInv, NEW r \in LiveRooms, NEW event, NEW s \in Sockets, NEW msg,
         Send(Reply(s, msg, NotifyMembers(event, r, peerId[s]))),
         NEW q \in rooms[r].members, q # peerId[s]
  PROVE  Told(q, PeerEvent(event, r, peerId[s]))
<1> SUFFICES ASSUME peerMap[q] # Null, readyState[peerMap[q]] = "open"
             PROVE  sent'[peerMap[q]] = PeerEvent(event, r, peerId[s])
  BY DEF Told
<1> DEFINE w == peerMap[q]
           others == NotifyMembers(event, r, peerId[s])
<1>1. /\ w \in Sockets /\ peerId[w] = q /\ w \in DOMAIN others
      /\ others[w] = PeerEvent(event, r, peerId[s])
  BY NotifiedMember
<1>2. w # s
  BY <1>1
<1> HIDE DEF others, w
<1>3. w \in DOMAIN Reply(s, msg, others) /\ Reply(s, msg, others)[w] = others[w]
  BY <1>1, <1>2 DEF Reply
<1>4. readyState[w] = "open" /\ Send(Reply(s, msg, others))
  BY DEF w, others
<1>5. sent'[w] = others[w]
  BY <1>1, <1>3, <1>4 DEF Send
<1> QED
  BY <1>1, <1>5 DEF w

\* A room that keeps its members has nothing to announce.
LEMMA NothingToAnnounce ==
  ASSUME RoomInv, NEW r \in LiveRooms, rooms'[r] = rooms[r]
  PROVE  Announced(r)
<1>1. rooms[r] # Null /\ rooms[r].members # {}
  BY DEF RoomInv, RoomSizes, LiveRooms
<1> QED
  BY <1>1 DEF Announced

\* A peer of one of its sockets leaves the room: the others are told.
LEMMA LeavingAnnounced ==
  ASSUME SessionInv, RoomInv, NEW r \in LiveRooms, NEW s \in Sockets,
         NEW room \in RoomIds, IsMember(peerId[s], room), RemovePeerFromRoom(s, room),
         \A q \in rooms[room].members \ {peerId[s]} :
           Told(q, PeerEvent("room-peer-left", room, peerId[s]))
  PROVE  Announced(r)
<1>1. CASE r # room
  <2>1. rooms'[r] = rooms[r]
    BY <1>1 DEF RemovePeerFromRoom, CleanupRoom, RoomInv, TypeOK, LiveRooms
  <2> QED
    BY <2>1, NothingToAnnounce
<1>2. CASE r = room /\ rooms[r].members = {peerId[s]}
  <2>1. rooms'[r] = Null
    BY <1>2 DEF RemovePeerFromRoom, CleanupRoom, RoomInv, TypeOK, LiveRooms
  <2>2. Cardinality(rooms[r].members) = 1
    BY <1>2, FS_Singleton
  <2> QED
    BY <1>2, <2>1, <2>2 DEF Announced
<1>3. CASE r = room /\ rooms[r].members # {peerId[s]}
  <2> DEFINE after == rooms[r].members \ {peerId[s]}
  <2>1. rooms[r] \in Room /\ rooms[r] # Null /\ r \in RoomIds
    BY DEF RoomInv, TypeOK, LiveRooms
  <2>2. rooms' = [rooms EXCEPT ![r].members = @ \ {peerId[s]}]
    BY <1>3 DEF RemovePeerFromRoom
  <2>3. rooms'[r] = [rooms[r] EXCEPT !.members = @ \ {peerId[s]}]
    BY <2>1, <2>2 DEF RoomInv, TypeOK
  <2>4. rooms'[r] \in Room /\ rooms'[r].members = after
    BY <2>1, <2>3 DEF Room
  <2>5. rooms'[r] # Null
    BY <2>4, NullAssumption
  <2>6. after # {}
    BY <1>3 DEF IsMember
  <2> QED
    BY <1>3, <2>4, <2>5, <2>6 DEF Announced
<1> QED
  BY <1>1, <1>2, <1>3

LEMMA StepAnnounces ==
  SessionInv /\ RoomInv /\ [Next]_vars => \A r \in LiveRooms : Announced(r)
<1> SUFFICES ASSUME SessionInv, RoomInv, [Next]_vars, NEW r \in LiveRooms
             PROVE  Announced(r)
  OBVIOUS
<1>0. /\ TypeOK /\ Changes
      /\ r \in RoomIds /\ rooms[r] # Null /\ rooms[r] \in Room
  BY NextChanges DEF RoomInv, TypeOK, LiveRooms
<1>1. CASE UNCHANGED rooms
  BY <1>1, NothingToAnnounce
<1>2. ASSUME NEW s \in Sockets, NEW room \in RoomIds, Join(s, room) PROVE Announced(r)
  <2> DEFINE p == peerId[s]
             joined == [rooms[room] EXCEPT !.members = @ \cup {p}]
  <2>1. /\ rooms[room] # Null /\ p \notin rooms[room].members /\ p \in PeerIds
        /\ rooms' = [rooms EXCEPT ![room] = joined]
    BY <1>2, <1>0 DEF Join, JoinResult, AddPeerToRoom, Authenticated, TypeOK
  <2>2. joined \in Room /\ joined.members = rooms[room].members \cup {p}
    BY <1>0, <2>1 DEF TypeOK, Room
  <2>3. CASE r # room
    <3>1. rooms'[r] = rooms[r]
      BY <2>1, <2>3, <1>0 DEF TypeOK
    <3> QED
      BY <3>1, NothingToAnnounce
  <2>4. CASE r = room
    <3>1. rooms'[r] = joined /\ joined # Null
      BY <2>1, <2>2, <2>4, <1>0, NullAssumption DEF TypeOK
    <3>2. \A q \in rooms[r].members : Told(q, PeerEvent("room-peer-joined", r, p))
      <4>1. \E msg : Send(Reply(s, msg, NotifyMembers("room-peer-joined", r, peerId[s])))
        BY <1>2, <2>4 DEF Join, AddPeerToRoom
      <4> QED
        BY <4>1, <2>1, <2>4, MembersToldBeside
    <3> QED
      BY <2>2, <2>4, <3>1, <3>2 DEF Announced
  <2> QED
    BY <2>3, <2>4
<1>3. ASSUME NEW s \in Sockets, NEW room \in RoomIds, NEW c \in JoinCodes,
             CreateRoom(s, room, c)
      PROVE  Announced(r)
  <2>1. r # room /\ rooms'[r] = rooms[r]
    BY <1>3, <1>0 DEF CreateRoom, RoomInv, RoomIdsIssued, TypeOK
  <2> QED
    BY <2>1, NothingToAnnounce
<1>4. ASSUME NEW s \in Sockets, LeaveRoom(s) PROVE Announced(r)
  <2> DEFINE room == roomId[s]
             p == peerId[s]
  <2>1. /\ room \in RoomIds /\ IsMember(p, room) /\ RemovePeerFromRoom(s, room)
        /\ Send(Reply(s, RoomLeft(room, p), NotifyMembers("room-peer-left", room, p)))
    BY <1>4, <1>0 DEF LeaveRoom, TypeOK
  <2>2. \A q \in rooms[room].members \ {p} : Told(q, PeerEvent("room-peer-left", room, p))
    BY <2>1, MembersToldBeside DEF LiveRooms, IsMember
  <2> QED
    BY <2>1, <2>2, LeavingAnnounced
<1>5. ASSUME NEW s \in Sockets, Close(s) PROVE Announced(r)
  <2> DEFINE room == roomId[s]
             p == peerId[s]
  <2>1. CASE room # Null /\ IsMember(p, room)
    <3>1. /\ room \in RoomIds /\ RemovePeerFromRoom(s, room)
          /\ Send(NotifyMembers("room-peer-left", room, p))
      BY <1>5, <1>0, <2>1 DEF Close, TypeOK
    <3>2. \A q \in rooms[room].members \ {p} :
            Told(q, PeerEvent("room-peer-left", room, p))
      BY <2>1, <3>1, MembersTold DEF LiveRooms, IsMember
    <3> QED
      BY <2>1, <3>1, <3>2, LeavingAnnounced
  <2>2. CASE ~(room # Null /\ IsMember(p, room))
    BY <1>5, <2>2, <1>1 DEF Close, roomVars
  <2> QED
    BY <2>1, <2>2
<1>6. ASSUME NEW room \in RoomIds, ExpireRoom(room) PROVE Announced(r)
  <2>1. CASE r # room
    <3>1. rooms'[r] = rooms[r]
      BY <1>6, <2>1, <1>0 DEF ExpireRoom, CleanupRoom, TypeOK
    <3> QED
      BY <3>1, NothingToAnnounce
  <2>2. CASE r = room
    <3>1. rooms'[r] = Null
      BY <1>6, <2>2, <1>0 DEF ExpireRoom, CleanupRoom, TypeOK
    <3>2. ASSUME NEW q \in rooms[r].members PROVE Told(q, RoomExpired(r))
      <4> SUFFICES ASSUME peerMap[q] # Null, readyState[peerMap[q]] = "open"
                   PROVE  sent'[peerMap[q]] = RoomExpired(r)
        BY DEF Told
      <4>1. peerMap[q] \in Registered(rooms[r].members) /\ peerMap[q] \in Sockets
        BY <1>0 DEF Registered, TypeOK, Room
      <4> QED
        BY <1>6, <2>2, <4>1 DEF ExpireRoom, Send
    <3> QED
      BY <3>1, <3>2 DEF Announced
  <2> QED
    BY <2>1, <2>2
<1> QED
  BY <1>0, <1>1, <1>2, <1>3, <1>4, <1>5, <1>6
  DEF Changes, Quiet, roomVars, Connect, BeginClose, HelloFresh, HelloResume, Stop

(***************************************************************************)
(* Whichever handler changes a room, in the same step every member that    *)
(* stays and has an open registered socket is told.                        *)
(***************************************************************************)
THEOREM ChangesAreAnnounced == Spec => ChangesAnnounced
<1>1. SessionInv /\ RoomInv /\ [Next]_vars => [\A r \in LiveRooms : Announced(r)]_vars
  BY StepAnnounces
<1> QED
  BY <1>1, InitSession, NextSession, InitRooms, NextRooms, PTL
  DEF Spec, ChangesAnnounced, Announced
-----------------------------------------------------------------------------
(* Finding a peer.                                                         *)

\* Peer ids in use have been issued, so a fresh one is in no room.
PeersIssued ==
  /\ \A s \in Sockets : peerId[s] # Null => peerId[s] \in issued
  /\ \A r \in LiveRooms : r \in issued /\ rooms[r].members \subseteq issued

\* A socket that listens is found under its peer id, unless its peer has another one.
LoneSocketFound ==
  \A s \in Sockets : Listening(s) /\ peerId[s] # Null =>
    peerMap[peerId[s]] = s \/ \E x \in Sockets \ {s} : peerId[x] = peerId[s]

IssuedInv == SessionInv /\ PeersIssued /\ LoneSocketFound

\* Steps that change rooms only by adding or removing peers in sight.
LEMMA PeersStayIssued ==
  ASSUME SessionInv, PeersIssued, [Next]_vars
  PROVE  PeersIssued'
<1>0. /\ TypeOK /\ Changes
      /\ rooms \in [RoomIds -> Room \cup {Null}]
      /\ peerId \in [Sockets -> PeerIds \cup {Null}]
  BY NextChanges DEF SessionInv, TypeOK
<1> USE DEF PeersIssued, LiveRooms
<1>1. CASE UNCHANGED <<peerId, rooms>> /\ issued \subseteq issued'
  BY <1>1
<1>2. ASSUME NEW s \in Sockets, NEW p, UNCHANGED rooms, p \in issued',
             issued \subseteq issued', peerId' = [peerId EXCEPT ![s] = p]
      PROVE  PeersIssued'
  BY <1>0, <1>2
<1>3. ASSUME NEW s \in Sockets, NEW r \in RoomIds, IsMember(peerId[s], r),
             RemovePeerFromRoom(s, r), UNCHANGED <<peerId, issued>>
      PROVE  PeersIssued'
  <2>1. rooms[r] \in Room /\ rooms[r] # Null
    BY <1>0, <1>3 DEF IsMember
  <2>2. \/ rooms' = [rooms EXCEPT ![r] = Null]
        \/ rooms' = [rooms EXCEPT ![r] = [rooms[r] EXCEPT !.members = @ \ {peerId[s]}]]
    BY <1>3 DEF RemovePeerFromRoom, CleanupRoom
  <2>3. [rooms[r] EXCEPT !.members = @ \ {peerId[s]}].members \subseteq rooms[r].members
    BY <2>1 DEF Room
  <2> DEFINE room == [rooms[r] EXCEPT !.members = @ \ {peerId[s]}]
  <2> HIDE DEF room
  <2> QED
    BY <1>0, <1>3, <2>1, <2>2, <2>3 DEF room
<1>4. ASSUME NEW s \in Sockets, NEW r \in RoomIds, Join(s, r) PROVE PeersIssued'
  <2> DEFINE room == [rooms[r] EXCEPT !.members = @ \cup {peerId[s]}]
  <2>1. /\ rooms[r] \in Room /\ rooms[r] # Null /\ peerId[s] # Null
        /\ rooms' = [rooms EXCEPT ![r] = room] /\ UNCHANGED <<peerId, issued>>
    BY <1>0, <1>4 DEF Join, JoinResult, Authenticated, AddPeerToRoom, socketVars
  <2>2. room.members = rooms[r].members \cup {peerId[s]}
    BY <2>1 DEF Room
  <2> HIDE DEF room
  <2> QED
    BY <1>0, <2>1, <2>2
<1>5. ASSUME NEW s \in Sockets, NEW r \in RoomIds, NEW c \in JoinCodes, CreateRoom(s, r, c)
      PROVE  PeersIssued'
  <2> DEFINE room == [joinCode |-> c, hostPeerId |-> peerId[s], members |-> {peerId[s]}]
  <2>1. /\ peerId[s] # Null /\ rooms' = [rooms EXCEPT ![r] = room] /\ UNCHANGED peerId
        /\ issued' = issued \cup {r} /\ room.members = {peerId[s]}
    BY <1>5 DEF CreateRoom, Authenticated, socketVars
  <2> HIDE DEF room
  <2> QED
    BY <1>0, <2>1
<1>6. ASSUME NEW s \in Sockets, LeaveRoom(s) \/ Close(s) PROVE PeersIssued'
  <2>1. UNCHANGED <<peerId, issued>>
    BY <1>6 DEF LeaveRoom, Close, socketVars
  <2>2. \/ UNCHANGED rooms
        \/ roomId[s] # Null /\ IsMember(peerId[s], roomId[s]) /\ RemovePeerFromRoom(s, roomId[s])
    BY <1>6 DEF LeaveRoom, Close, roomVars
  <2>3. roomId[s] # Null => roomId[s] \in RoomIds
    BY <1>0 DEF TypeOK
  <2> QED
    BY <1>1, <1>3, <2>1, <2>2, <2>3
<1>7. ASSUME NEW r \in RoomIds, ExpireRoom(r) PROVE PeersIssued'
  BY <1>0, <1>7 DEF ExpireRoom, CleanupRoom, socketVars
<1>8. ASSUME NEW s \in Sockets, NEW p \in PeerIds, NEW t \in Tokens, HelloFresh(s, p, t)
      PROVE  PeersIssued'
  BY <1>2, <1>8 DEF HelloFresh, roomVars
<1>9. ASSUME NEW s \in Sockets, NEW old \in Sockets, NEW t \in Tokens, HelloResume(s, old, t)
      PROVE  PeersIssued'
  BY <1>2, <1>9 DEF HelloResume, Authenticated, roomVars
<1> QED
  BY <1>0, <1>1, <1>4, <1>5, <1>6, <1>7, <1>8, <1>9
  DEF Changes, Quiet, Connect, BeginClose, Stop, socketVars, roomVars

LEMMA LoneSocketStays ==
  ASSUME SessionInv, PeersIssued, LoneSocketFound, [Next]_vars
  PROVE  LoneSocketFound'
<1>0. /\ TypeOK /\ Changes /\ RegistriesFaithful
      /\ peerId \in [Sockets -> PeerIds \cup {Null}]
      /\ peerMap \in [PeerIds -> Sockets \cup {Null}]
      /\ readyState \in [Sockets -> ReadyStates]
      /\ \A s \in Sockets : readyState[s] = "none" => peerId[s] = Null
  BY NextChanges DEF SessionInv, TypeOK, TokensOwned
<1> USE NullAssumption DEF LoneSocketFound, Listening
<1>1. CASE /\ UNCHANGED <<peerId, peerMap>>
           /\ \A s \in Sockets : Listening(s)' => Listening(s) \/ readyState[s] = "none"
  BY <1>0, <1>1
<1>2. ASSUME NEW s \in Sockets, NEW p \in PeerIds, NEW t \in Tokens, HelloFresh(s, p, t)
      PROVE  LoneSocketFound'
  <2>1. /\ p \notin issued /\ UNCHANGED readyState
        /\ peerId' = [peerId EXCEPT ![s] = p] /\ peerMap' = [peerMap EXCEPT ![p] = s]
    BY <1>2 DEF HelloFresh
  <2>2. \A x \in Sockets \ {s} : peerId[x] # p
    BY <2>1 DEF PeersIssued
  <2>3. /\ peerId'[s] = p /\ peerMap'[p] = s
        /\ \A x \in Sockets \ {s} : peerId'[x] = peerId[x]
        /\ \A q \in PeerIds \ {p} : peerMap'[q] = peerMap[q]
    BY <1>0, <2>1
  <2>4. ASSUME NEW x \in Sockets, Listening(x)', peerId'[x] # Null
        PROVE  peerMap'[peerId'[x]] = x \/ \E y \in Sockets \ {x} : peerId'[y] = peerId'[x]
    <3>1. CASE x = s
      BY <2>3, <3>1
    <3>2. CASE x # s
      <4>1. Listening(x) /\ peerId[x] \in PeerIds \ {p} /\ peerId'[x] = peerId[x]
        BY <1>0, <2>1, <2>2, <2>3, <2>4, <3>2
      <4>2. peerMap[peerId[x]] = x \/ \E y \in Sockets \ {x} : peerId[y] = peerId[x]
        BY <4>1
      <4>3. \A y \in Sockets : peerId[y] # Null => peerId'[y] = peerId[y]
        BY <1>2, <2>3 DEF HelloFresh
      <4> QED
        BY <2>3, <4>1, <4>2, <4>3
    <3> QED
      BY <3>1, <3>2
  <2> QED
    BY <2>4
<1>3. ASSUME NEW s \in Sockets, NEW old \in Sockets, NEW t \in Tokens, HelloResume(s, old, t)
      PROVE  LoneSocketFound'
  <2> DEFINE p == peerId[old]
  <2>1. /\ old # s /\ Listening(old) /\ p \in PeerIds /\ peerId[s] = Null
        /\ readyState' = [readyState EXCEPT ![old] = "closing"]
        /\ peerId' = [peerId EXCEPT ![s] = p] /\ peerMap' = [peerMap EXCEPT ![p] = s]
    BY <1>0, <1>3 DEF HelloResume, Authenticated
  <2>2. \A x \in Sockets : Listening(x)' => Listening(x)
    BY <1>0, <2>1
  <2>3. peerId'[s] = p /\ peerId'[old] = p /\ peerMap'[p] = s
    BY <1>0, <2>1
  <2>4. \A x \in Sockets \ {s} : peerId'[x] = peerId[x]
    BY <1>0, <2>1
  <2>5. \A q \in PeerIds \ {p} : peerMap'[q] = peerMap[q]
    BY <1>0, <2>1
  <2> HIDE DEF p
  <2>6. ASSUME NEW x \in Sockets, Listening(x)', peerId'[x] # Null
        PROVE  peerMap'[peerId'[x]] = x \/ \E y \in Sockets \ {x} : peerId'[y] = peerId'[x]
    <3>1. CASE peerId'[x] = p
      BY <2>1, <2>3, <3>1
    <3>2. CASE peerId'[x] # p
      <4>1. /\ x # s /\ Listening(x) /\ peerId'[x] = peerId[x]
            /\ peerId[x] \in PeerIds \ {p}
        BY <1>0, <2>2, <2>3, <2>4, <2>6, <3>2
      <4>2. peerMap[peerId[x]] = x \/ \E y \in Sockets \ {x} : peerId[y] = peerId[x]
        BY <4>1
      <4>3. \A y \in Sockets : peerId[y] # Null => peerId'[y] = peerId[y]
        BY <2>1, <2>4
      <4> QED
        BY <2>5, <4>1, <4>2, <4>3
    <3> QED
      BY <3>1, <3>2
  <2> QED
    BY <2>6
<1>4. ASSUME NEW s \in Sockets, Close(s) PROVE LoneSocketFound'
  <2>1. /\ UNCHANGED peerId /\ readyState' = [readyState EXCEPT ![s] = "closed"]
        /\ \A p \in PeerIds : peerMap'[p] = IF p = peerId[s] /\ peerMap[p] = s THEN Null
                                            ELSE peerMap[p]
    BY <1>4 DEF Close, Unregister
  <2>2. ASSUME NEW x \in Sockets, Listening(x)', peerId[x] # Null
        PROVE  peerMap'[peerId[x]] = x \/ \E y \in Sockets \ {x} : peerId[y] = peerId[x]
    <3>1. x # s /\ Listening(x) /\ peerId[x] \in PeerIds
      BY <1>0, <2>1, <2>2
    <3> QED
      BY <2>1, <3>1
  <2> QED
    BY <2>1, <2>2
<1>5. CASE UNCHANGED <<socketVars, registryVars>>
  BY <1>1, <1>5 DEF socketVars, registryVars
<1>6. ASSUME NEW s \in Sockets, Connect(s) \/ BeginClose(s) PROVE LoneSocketFound'
  <2>1. UNCHANGED <<peerId, peerMap>>
    BY <1>6 DEF Connect, BeginClose, registryVars
  <2>2. \A x \in Sockets : Listening(x)' => Listening(x) \/ readyState[x] = "none"
    BY <1>0, <1>6 DEF Connect, BeginClose
  <2> QED
    BY <1>1, <2>1, <2>2
<1>7. ASSUME Stop PROVE LoneSocketFound'
  BY <1>0, <1>1, <1>7 DEF Stop, registryVars
<1> QED
  BY <1>0, <1>2, <1>3, <1>4, <1>5, <1>6, <1>7
  DEF Changes, Quiet, Join, AddPeerToRoom, CreateRoom, LeaveRoom, ExpireRoom

LEMMA InitIssued == Init => IssuedInv
BY InitSession DEF Init, IssuedInv, PeersIssued, LoneSocketFound, LiveRooms, Listening

LEMMA NextIssued == IssuedInv /\ [Next]_vars => IssuedInv'
BY NextSession, PeersStayIssued, LoneSocketStays DEF IssuedInv

LEMMA AlwaysIssued == Spec => []IssuedInv
BY InitIssued, NextIssued, PTL DEF Spec

(***************************************************************************)
(* A relay finds every peer that has one socket, as long as that socket    *)
(* listens: a peer with an open socket is unreachable (the disagreement    *)
(* with peer.ts that PeerMapHoldsConnected shows) only when it has         *)
(* resumed, so that two sockets carry its id.                              *)
(***************************************************************************)
THEOREM LoneSocketsFound == Spec => []LoneSocketFound
BY AlwaysIssued, PTL DEF IssuedInv
=============================================================================
