--------------------------- MODULE MCSignalingServer ---------------------------
(***************************************************************************)
(* SignalingServer for TLC.  The view drops `sent', which no handler       *)
(* reads: it is what the last step said, and only the action properties    *)
(* look at it, in the step that writes it.                                 *)
(***************************************************************************)
EXTENDS SignalingServer

Symmetry ==
  Permutations(Sockets) \cup Permutations(PeerIds) \cup Permutations(Tokens)
    \cup Permutations(RoomIds) \cup Permutations(JoinCodes)

StateView == <<readyState, peerId, sessionToken, roomId, peerMap, sessionMap, rooms,
               joinCodeToRoomId, roomTimers, issued, stopped>>
=============================================================================
