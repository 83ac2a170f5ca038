----------------------------- MODULE RoomDirectory -----------------------------
(***************************************************************************)
(* What the rooms of the signaling server promise, without sockets, codes, *)
(* timers or messages.  A room id is used once: the room opens with its    *)
(* creator, is entered and left one peer at a time, never holds more than  *)
(* MaxPeers peers, and is gone for good when its last peer leaves or when  *)
(* it expires.                                                             *)
(***************************************************************************)
EXTENDS Naturals, FiniteSets

CONSTANTS RoomIds, PeerIds, MaxPeers

VARIABLES
  used,      \* ids of the rooms opened so far
  occupants  \* room id -> the peers in it; none for a room that is not live

vars == <<used, occupants>>

Init ==
  /\ used = {}
  /\ occupants = [r \in RoomIds |-> {}]

Open(r, p) ==
  /\ r \notin used
  /\ used' = used \cup {r}
  /\ occupants' = [occupants EXCEPT ![r] = {p}]

Enter(r, p) ==
  /\ occupants[r] # {}
  /\ p \notin occupants[r]
  /\ Cardinality(occupants[r]) < MaxPeers
  /\ occupants' = [occupants EXCEPT ![r] = @ \cup {p}]
  /\ UNCHANGED used

Exit(r, p) ==
  /\ p \in occupants[r]
  /\ occupants' = [occupants EXCEPT ![r] = @ \ {p}]
  /\ UNCHANGED used

Expire(r) ==
  /\ occupants[r] # {}
  /\ occupants' = [occupants EXCEPT ![r] = {}]
  /\ UNCHANGED used

Next == \E r \in RoomIds :
  \/ Expire(r)
  \/ \E p \in PeerIds : Open(r, p) \/ Enter(r, p) \/ Exit(r, p)

Spec == Init /\ [][Next]_vars
=============================================================================
