----------------------------- MODULE MCClientServer -----------------------------
(***************************************************************************)
(* ClientServer for TLC.  The view drops `sent', which is delivered in the *)
(* step that writes it.                                                    *)
(***************************************************************************)
EXTENDS ClientServer

Symmetry ==
  Permutations(Users) \cup Permutations(Sockets) \cup Permutations(PeerIds)
    \cup Permutations(Tokens) \cup Permutations(RoomIds) \cup Permutations(JoinCodes)

\* Bound of ClientView: no connection ends.
NobodyGoes == \A s \in Sockets : wsState[s] \notin {"closing", "closed"}

StateView == <<clientVars, toServer, toClient, readyState, peerId, sessionToken, roomId,
               peerMap, sessionMap, rooms, joinCodeToRoomId, roomTimers, issued>>
=============================================================================
