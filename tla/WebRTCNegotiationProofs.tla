------------------------ MODULE WebRTCNegotiationProofs ------------------------
(***************************************************************************)
(* For any two peers and any bounds: the types of WebRTCNegotiation, and   *)
(* that a readiness flag has an open channel behind it, or a late call.    *)
(***************************************************************************)
EXTENDS WebRTCNegotiation, SequenceTheorems, TLAPS

-----------------------------------------------------------------------------
(* The browser's connection.                                               *)

LEMMA RollbackType ==
  ASSUME NEW c \in Connection
  PROVE  /\ Rollback(c) \in Connection
         /\ Rollback(c).remote = c.settled.remote
         /\ Rollback(c).settled = c.settled
<1> DEFINE regather == c.signalingState = "have-local-offer" /\ c.settled.local = Null
           g == IF regather THEN c.generation + 1 ELSE c.generation
           n == IF regather THEN 0 ELSE c.gathered
           s == IF c.settled.remote = Null THEN {} ELSE c.added
           d == [c EXCEPT !.signalingState = "stable",
                          !.local = c.settled.local, !.remote = c.settled.remote,
                          !.generation = g, !.gathered = n, !.added = s]
<1>1. /\ c.settled \in [local : MaybeDescription, remote : MaybeDescription]
      /\ c.generation \in Nat /\ c.gathered \in 0..MaxCandidates
      /\ c.added \in SUBSET Candidates
  BY DEF Connection
<1>2. g \in Nat /\ n \in 0..MaxCandidates /\ s \in SUBSET Candidates
  BY <1>1, NegotiationBounds
<1>3. Rollback(c) = d
  BY DEF Rollback
<1> HIDE DEF g, n, s
<1>4. d \in Connection /\ d.remote = c.settled.remote /\ d.settled = c.settled
  BY <1>1, <1>2 DEF Connection
<1> QED BY <1>3, <1>4

LEMMA SettleType ==
  ASSUME NEW c \in Connection
  PROVE  /\ Settle(c) \in Connection
         /\ Settle(c).remote = c.remote
         /\ Settle(c).settled.remote = c.remote
BY DEF Connection, Settle

LEMMA AppliedType ==
  ASSUME NEW c \in Connection, NEW op \in CallsMade
  PROVE  /\ Applied(c, op) \in Connection
         /\ op.call # "setRemote" =>
              {Applied(c, op).remote, Applied(c, op).settled.remote}
                \subseteq {c.remote, c.settled.remote}
<1>1. CASE op.call = "rollback"
  BY <1>1, RollbackType DEF Applied
<1>2. CASE op.call = "setLocal"
  <2>1. op.arg \in Descriptions
    BY <1>2 DEF CallsMade
  <2> DEFINE d == [c EXCEPT !.local = op.arg]
             e == [c EXCEPT !.signalingState = "have-local-offer", !.local = op.arg]
  <2>2. /\ d \in Connection /\ d.remote = c.remote
        /\ e \in Connection /\ e.remote = c.remote /\ e.settled = c.settled
    BY <2>1 DEF Connection, MaybeDescription
  <2>3. Applied(c, op) \in {e, Settle(d)}
    BY <1>2 DEF Applied
  <2> HIDE DEF d, e
  <2> QED BY <2>2, <2>3, SettleType
<1>3. CASE op.call = "setRemote"
  <2>1. op.arg \in Descriptions
    BY <1>3 DEF CallsMade
  <2>2. CASE op.arg.type = "answer"
    <3> DEFINE d == [c EXCEPT !.remote = op.arg]
    <3>1. d \in Connection
      BY <2>1 DEF Connection, MaybeDescription
    <3>2. Applied(c, op) = Settle(d)
      BY <1>3, <2>2 DEF Applied
    <3> HIDE DEF d
    <3> QED BY <1>3, <3>1, <3>2, SettleType
  <2>3. CASE op.arg.type # "answer"
    <3> DEFINE d == IF c.signalingState = "have-local-offer" THEN Rollback(c) ELSE c
    <3>1. d \in Connection
      BY RollbackType
    <3>2. Applied(c, op) =
            [d EXCEPT !.signalingState = "have-remote-offer", !.remote = op.arg]
      BY <1>3, <2>3 DEF Applied
    <3> HIDE DEF d
    <3> QED BY <1>3, <2>1, <3>1, <3>2 DEF Connection, MaybeDescription
  <2> QED BY <2>2, <2>3
<1>4. CASE op.call \in {"addCandidate", "addQueued"}
  <2>1. op.arg \in Candidates
    BY <1>4 DEF CallsMade
  <2>2. Applied(c, op) = [c EXCEPT !.added = @ \cup {op.arg}]
    BY <1>4 DEF Applied
  <2> QED BY <2>1, <2>2 DEF Connection
<1>5. CASE op.call \in {"createOffer", "createAnswer"}
  BY <1>5 DEF Applied
<1> QED BY <1>1, <1>2, <1>3, <1>4, <1>5 DEF CallsMade

-----------------------------------------------------------------------------
(* The inductive invariant.                                                *)

NegotiationTypes ==
  /\ toPeer \in [Peers -> Seq(Descriptions \cup Candidates)]
  /\ pc \in [Peers -> Connection]
  /\ chain \in [Peers -> Seq(CallsMade)]
  /\ remoteDescriptionSet \in [Peers -> BOOLEAN]
  /\ pendingIceCandidates \in [Peers -> Seq(Candidates)]
  /\ errors \in [Peers -> SUBSET ErrorCodes]

ChannelTypes ==
  /\ connectionState \in
       [Peers -> {"new", "connected", "disconnected", "failed", "closed"}]
  /\ channelState \in [Peers -> [Channels -> {"none", "connecting", "open", "closed"}]]
  /\ channel \in [Peers -> [Kinds -> Channels \cup {Null}]]
  /\ ready \in [Peers -> [Kinds -> BOOLEAN]]

OtherTypes ==
  /\ {online, subscribed} \subseteq [Peers -> BOOLEAN]
  /\ initiations \in [Peers -> 0..MaxEvents]
  /\ renegotiations \in Nat
  /\ disturbances \in 0..MaxEvents

\* What p's connection has of a remote description, now or to roll back to.
Remotes(p) == {pc[p].remote, pc[p].settled.remote}

\* A remote description is known to the code before anything that rests on it.
RemoteKnown == \A p \in Peers : Remotes(p) \subseteq {Null} \/ remoteDescriptionSet[p]

\* A path, and a readiness flag, come after the remote description: an initiateConnection
\* that finds a flag set counts as a renegotiation.
PathAfterRemote ==
  \A p \in Peers :
    connectionState[p] \in {"connected", "disconnected", "failed"} => remoteDescriptionSet[p]
ReadyAfterRemote ==
  \A p \in Peers, k \in Kinds : ready[p][k] => remoteDescriptionSet[p]

\* The fields hold channels of their kind.
ChannelKinds ==
  \A p \in Peers, k \in Kinds : channel[p][k] # Null => channel[p][k].kind = k

\* Only channels a peer has made itself are connecting.
OwnConnecting ==
  \A p \in Peers, c \in Channels :
    channelState[p][c] = "connecting" => c.by = p /\ c.n <= initiations[p]

HasOpen(p, k) == channel[p][k] # Null /\ channelState[p][channel[p][k]] = "open"

Awaits(p, k) == channel[p][k] # Null /\ channelState[p][channel[p][k]] = "connecting"

\* p has called initiateConnection again, or on top of a remote description.
Late(p) == initiations[p] > 1 \/ ~FirstNegotiation

\* A flag has an open channel behind it, or a connecting one that a late call has put in
\* its place; and while a channel may still open and set the flag, the field holds one
\* that is open or connecting.
FlagsBacked ==
  \A p \in Peers, k \in Kinds :
    /\ ready[p][k] => HasOpen(p, k) \/ (Late(p) /\ Awaits(p, k))
    /\ \A c \in Channels :
         c.kind = k /\ channelState[p][c] = "connecting" => Awaits(p, k) \/ HasOpen(p, k)

NegotiationInv == NegotiationTypes /\ RemoteKnown
ChannelInv ==
  /\ ChannelTypes /\ OtherTypes
  /\ PathAfterRemote /\ ReadyAfterRemote
  /\ ChannelKinds /\ OwnConnecting /\ FlagsBacked

IInv == NegotiationInv /\ ChannelInv

-----------------------------------------------------------------------------
LEMMA OtherIsPeer ==
  ASSUME NEW p \in Peers
  PROVE  Other(p) \in Peers /\ Other(p) # p
<1>1. \E q \in Peers : q # p
  BY TwoPeers
<1> QED BY <1>1 DEF Other

LEMMA TotalBounds ==
  ASSUME OtherTypes, NEW p \in Peers
  PROVE  initiations[p] <= TotalInitiations
<1> DEFINE a == CHOOSE q \in Peers : TRUE
<1>1. a \in Peers
  OBVIOUS
<1>2. Other(a) \in Peers /\ Other(a) # a
  BY <1>1, OtherIsPeer
<1> HIDE DEF a
<1>3. p = a \/ p = Other(a)
  BY <1>1, <1>2, TwoPeers
<1>4. initiations[a] \in Nat /\ initiations[Other(a)] \in Nat
  BY <1>1, <1>2, NegotiationBounds DEF OtherTypes
<1>5. TotalInitiations = initiations[a] + initiations[Other(a)]
  BY DEF TotalInitiations, a
<1> QED BY <1>3, <1>4, <1>5

LEMMA TotalTypes ==
  ASSUME OtherTypes
  PROVE  TotalInitiations \in Nat
<1> DEFINE a == CHOOSE q \in Peers : TRUE
<1>1. a \in Peers /\ Other(a) \in Peers
  BY TwoPeers, OtherIsPeer
<1> HIDE DEF a
<1> QED BY <1>1, NegotiationBounds DEF TotalInitiations, OtherTypes, a

LEMMA DisturbTypes ==
  ASSUME OtherTypes, Disturbs
  PROVE  disturbances' \in 0..MaxEvents
BY TotalTypes, NegotiationBounds DEF OtherTypes, Disturbs, MoreEvents

LEMMA SendTypes ==
  ASSUME NegotiationTypes, NEW p \in Peers, NEW msg \in Descriptions \cup Candidates,
         SendMessage(p, msg)
  PROVE  toPeer' \in [Peers -> Seq(Descriptions \cup Candidates)]
<1>1. Other(p) \in Peers
  BY OtherIsPeer
<1> DEFINE M == Descriptions \cup Candidates
<1>2. toPeer[Other(p)] \in Seq(M) /\ msg \in M
  BY <1>1 DEF NegotiationTypes
<1> HIDE DEF M
<1>3. Append(toPeer[Other(p)], msg) \in Seq(M)
  BY <1>2
<1> QED BY <1>1, <1>3 DEF SendMessage, NegotiationTypes, M

LEMMA SendErrorTypes ==
  ASSUME NegotiationTypes, NEW p \in Peers, NEW codes \in SUBSET ErrorCodes,
         SendErrors(p, codes)
  PROVE  errors' \in [Peers -> SUBSET ErrorCodes]
BY DEF SendErrors, NegotiationTypes

LEMMA CallTypes ==
  ASSUME NegotiationTypes, NEW p \in Peers, NEW op \in CallsMade, Calls(p, op)
  PROVE  chain' \in [Peers -> Seq(CallsMade)]
<1>1. Append(chain[p], op) \in Seq(CallsMade)
  BY DEF NegotiationTypes
<1> QED BY <1>1 DEF Calls, NegotiationTypes

LEMMA HeadTypes ==
  ASSUME NegotiationTypes, NEW p \in Peers, chain[p] # <<>>
  PROVE  Head(chain[p]) \in CallsMade /\ Tail(chain[p]) \in Seq(CallsMade)
<1>1. chain[p] \in Seq(CallsMade)
  BY DEF NegotiationTypes
<1> QED BY <1>1, HeadTailProperties

LEMMA ResolveTypes ==
  ASSUME NegotiationTypes, NEW p \in Peers, NEW name, NEW ops \in Seq(CallsMade),
         Resolves(p, name, ops)
  PROVE  /\ Head(chain[p]) \in CallsMade
         /\ Head(chain[p]).call = name
         /\ pc' \in [Peers -> Connection]
         /\ chain' \in [Peers -> Seq(CallsMade)]
         /\ \A q \in Peers : q # p \/ name # "setRemote" =>
              Remotes(q)' \subseteq Remotes(q)
<1> DEFINE op == Head(chain[p])
<1>1. op \in CallsMade /\ op.call = name /\ Tail(chain[p]) \in Seq(CallsMade)
  BY HeadTypes DEF Resolves
<1>2. pc[p] \in Connection
  BY DEF NegotiationTypes
<1>3. /\ Applied(pc[p], op) \in Connection
      /\ name # "setRemote" =>
           {Applied(pc[p], op).remote, Applied(pc[p], op).settled.remote} \subseteq Remotes(p)
  BY <1>1, <1>2, AppliedType DEF Remotes
<1>4. Tail(chain[p]) \o ops \in Seq(CallsMade)
  BY <1>1, ConcatProperties
<1>5. /\ pc' = [pc EXCEPT ![p] = Applied(pc[p], op)]
      /\ chain' = [chain EXCEPT ![p] = Tail(chain[p]) \o ops]
  BY DEF Resolves
<1> HIDE DEF op
<1>6. pc' \in [Peers -> Connection] /\ chain' \in [Peers -> Seq(CallsMade)]
  BY <1>3, <1>4, <1>5 DEF NegotiationTypes
<1>7. \A q \in Peers : q # p \/ name # "setRemote" => Remotes(q)' \subseteq Remotes(q)
  BY <1>3, <1>5 DEF NegotiationTypes, Remotes
<1> QED BY <1>1, <1>6, <1>7 DEF op

\* A step of the negotiation leaves the channels alone.
LEMMA ChannelsKept ==
  ASSUME IInv, UNCHANGED channelVars, UNCHANGED <<initiations, renegotiations>>, OtherTypes',
         NegotiationTypes',
         \A p \in Peers : remoteDescriptionSet[p] => remoteDescriptionSet'[p]
  PROVE  ChannelInv'
BY DEF IInv, ChannelInv, ChannelTypes, PathAfterRemote, ReadyAfterRemote, ChannelKinds,
       OwnConnecting, FlagsBacked, HasOpen, Awaits, Late, FirstNegotiation, channelVars

\* A step that leaves pc and remoteDescriptionSet alone.
LEMMA RemoteKept ==
  ASSUME IInv, UNCHANGED <<pc, remoteDescriptionSet>>
  PROVE  RemoteKnown'
BY DEF IInv, NegotiationInv, RemoteKnown, Remotes

-----------------------------------------------------------------------------
(* One lemma per group of actions.                                         *)

LEMMA InitHolds == Init => IInv
<1> SUFFICES ASSUME Init PROVE IInv
  OBVIOUS
<1>1. Fresh \in Connection /\ Fresh.remote = Null /\ Fresh.settled.remote = Null
  BY NegotiationBounds DEF Fresh, Connection, MaybeDescription
<1>2. NegotiationTypes
  BY <1>1 DEF Init, NegotiationTypes
<1>3. RemoteKnown
  BY <1>1 DEF Init, RemoteKnown, Remotes
<1>4. ChannelTypes /\ OtherTypes
  BY NegotiationBounds DEF Init, ChannelTypes, OtherTypes
<1>5. PathAfterRemote /\ ReadyAfterRemote /\ ChannelKinds /\ OwnConnecting /\ FlagsBacked
  BY DEF Init, PathAfterRemote, ReadyAfterRemote, ChannelKinds, OwnConnecting, FlagsBacked
<1> QED BY <1>2, <1>3, <1>4, <1>5 DEF IInv, NegotiationInv, ChannelInv

LEMMA DeliveryKeeps ==
  ASSUME IInv, NEW p \in Peers, Delivery(p)
  PROVE  IInv'
<1> DEFINE msg == Head(toPeer[p])
           M == Descriptions \cup Candidates
<1>1. /\ NegotiationTypes
      /\ toPeer[p] \in Seq(M) /\ pc[p] \in Connection
      /\ pendingIceCandidates[p] \in Seq(Candidates)
  BY DEF IInv, NegotiationInv, NegotiationTypes
<1>2. toPeer[p] # <<>> /\ toPeer' = [toPeer EXCEPT ![p] = Tail(@)]
  BY DEF Delivery, HandleOffer, HandleAnswer, HandleIceCandidate, Unheard, Receives
<1>3. msg \in M /\ Tail(toPeer[p]) \in Seq(M)
  <2> HIDE DEF M
  <2> QED BY <1>1, <1>2, HeadTailProperties
<1>4. toPeer' \in [Peers -> Seq(M)]
  BY <1>1, <1>2, <1>3 DEF NegotiationTypes
<1>5. UNCHANGED <<sessionVars, pc, remoteDescriptionSet, channelVars, countVars>>
  BY DEF Delivery, HandleOffer, HandleAnswer, HandleIceCandidate, Unheard, Receives
<1>6. /\ chain' \in [Peers -> Seq(CallsMade)]
      /\ pendingIceCandidates' \in [Peers -> Seq(Candidates)]
      /\ errors' \in [Peers -> SUBSET ErrorCodes]
  <2>1. CASE HandleOffer(p)
    <3>1. msg \in Descriptions
      BY <1>3, <2>1 DEF HandleOffer, Receives, Candidates
    <3>2. CASE Glare(p) /\ SendErrors(p, {"GLARE_CONFLICT"}) /\ UNCHANGED chain
      <4>1. errors' \in [Peers -> SUBSET ErrorCodes]
        BY <1>1, <3>2, SendErrorTypes DEF ErrorCodes
      <4> QED BY <1>1, <2>1, <3>2, <4>1 DEF HandleOffer, NegotiationTypes
    <3>3. CASE \E name \in {"setRemote", "rollback"} : Calls(p, Call(name, msg))
               /\ UNCHANGED errors
      <4>1. \A name \in {"setRemote", "rollback"} : Call(name, msg) \in CallsMade
        BY <3>1 DEF Call, CallsMade
      <4> HIDE DEF msg
      <4>2. chain' \in [Peers -> Seq(CallsMade)]
        BY <1>1, <3>3, <4>1, CallTypes
      <4> QED BY <1>1, <2>1, <3>3, <4>2 DEF HandleOffer, NegotiationTypes
    <3> QED BY <2>1, <3>2, <3>3 DEF HandleOffer
  <2>2. CASE HandleAnswer(p)
    <3>1. msg \in Descriptions
      BY <1>3, <2>2 DEF HandleAnswer, Receives, Candidates
    <3>2. Call("setRemote", msg) \in CallsMade
      BY <3>1 DEF Call, CallsMade
    <3>3. chain' \in [Peers -> Seq(CallsMade)]
      BY <1>1, <2>2, <3>2, CallTypes DEF HandleAnswer
    <3> QED BY <1>1, <2>2, <3>3 DEF HandleAnswer, NegotiationTypes
  <2>3. CASE HandleIceCandidate(p)
    <3>1. msg \in Candidates
      BY <1>3, <2>3 DEF HandleIceCandidate, Receives, Descriptions
    <3>2. CASE remoteDescriptionSet[p]
      <4>1. Call("addCandidate", msg) \in CallsMade
        BY <3>1 DEF Call, CallsMade
      <4>2. chain' \in [Peers -> Seq(CallsMade)]
        BY <1>1, <2>3, <3>2, <4>1, CallTypes DEF HandleIceCandidate
      <4> QED BY <1>1, <2>3, <3>2, <4>2 DEF HandleIceCandidate, NegotiationTypes
    <3>3. CASE ~remoteDescriptionSet[p]
      <4>1. Append(pendingIceCandidates[p], msg) \in Seq(Candidates)
        BY <1>1, <3>1
      <4>2. /\ pendingIceCandidates' =
                 [pendingIceCandidates EXCEPT ![p] = Append(pendingIceCandidates[p], msg)]
            /\ UNCHANGED <<chain, errors>>
        BY <2>3, <3>3 DEF HandleIceCandidate
      <4> HIDE DEF msg
      <4> QED BY <1>1, <4>1, <4>2 DEF NegotiationTypes
    <3> QED BY <3>2, <3>3
  <2>4. CASE Unheard(p)
    BY <1>1, <2>4 DEF Unheard, NegotiationTypes
  <2> QED BY <2>1, <2>2, <2>3, <2>4 DEF Delivery
<1>7. NegotiationTypes'
  BY <1>1, <1>4, <1>5, <1>6 DEF NegotiationTypes
<1>8. OtherTypes'
  BY <1>5 DEF IInv, ChannelInv, OtherTypes, sessionVars, countVars
<1>9. ChannelInv'
  BY <1>5, <1>7, <1>8, ChannelsKept DEF countVars
<1> QED
  BY <1>5, <1>7, <1>9, RemoteKept DEF IInv, NegotiationInv

\* A call settles, other than setRemoteDescription.
LEMMA SettledKeeps ==
  ASSUME IInv, NEW p \in Peers, NEW name \in {"createOffer", "createAnswer", "setLocal",
                                              "rollback", "addCandidate", "addQueued"},
         NEW ops \in Seq(CallsMade), Resolves(p, name, ops),
         UNCHANGED <<sessionVars, pendingIceCandidates, remoteDescriptionSet, errors,
                     channelVars, countVars>>,
         toPeer' \in [Peers -> Seq(Descriptions \cup Candidates)]
  PROVE  IInv'
<1>1. NegotiationTypes
  BY DEF IInv, NegotiationInv
<1>2. /\ pc' \in [Peers -> Connection]
      /\ chain' \in [Peers -> Seq(CallsMade)]
      /\ \A q \in Peers : Remotes(q)' \subseteq Remotes(q)
  BY <1>1, ResolveTypes
<1>3. NegotiationTypes'
  BY <1>1, <1>2 DEF NegotiationTypes
<1>4. RemoteKnown'
  BY <1>2 DEF IInv, NegotiationInv, RemoteKnown
<1>5. OtherTypes'
  BY DEF IInv, ChannelInv, OtherTypes, sessionVars, countVars
<1>6. ChannelInv'
  BY <1>3, <1>5, ChannelsKept DEF countVars
<1> QED BY <1>3, <1>4, <1>6 DEF IInv, NegotiationInv

LEMMA SettlesKeeps ==
  ASSUME IInv, NEW p \in Peers, Settles(p)
  PROVE  IInv'
<1>1. NegotiationTypes /\ pc[p] \in Connection /\ pc[p].generation \in Nat
  BY DEF IInv, NegotiationInv, NegotiationTypes, Connection
<1>2. <<>> \in Seq(CallsMade)
  OBVIOUS
<1>3. CASE OfferCreated(p)
  <2> DEFINE call == Call("setLocal", OfferMessage(p, pc[p].generation))
  <2>1. call \in CallsMade
    BY <1>1 DEF Call, CallsMade, OfferMessage, Descriptions, Senders
  <2> HIDE DEF call
  <2>2. <<call>> \in Seq(CallsMade)
    BY <2>1
  <2> QED BY <1>1, <1>3, <2>2, SettledKeeps DEF OfferCreated, call, NegotiationTypes
<1>4. CASE AnswerCreated(p)
  <2> DEFINE call == Call("setLocal", AnswerMessage(p, pc[p].generation))
  <2>1. call \in CallsMade
    BY <1>1 DEF Call, CallsMade, AnswerMessage, Descriptions, Senders
  <2> HIDE DEF call
  <2>2. <<call>> \in Seq(CallsMade)
    BY <2>1
  <2> QED BY <1>1, <1>4, <2>2, SettledKeeps DEF AnswerCreated, call, NegotiationTypes
<1>5. CASE LocalDescriptionSet(p)
  <2>1. Resolves(p, "setLocal", <<>>) /\ SendMessage(p, Head(chain[p]).arg)
    BY <1>5 DEF LocalDescriptionSet
  <2>2. Head(chain[p]) \in CallsMade /\ Head(chain[p]).call = "setLocal"
    BY <1>1, <1>2, <2>1, ResolveTypes
  <2>3. Head(chain[p]).arg \in Descriptions
    BY <2>2 DEF CallsMade
  <2>4. toPeer' \in [Peers -> Seq(Descriptions \cup Candidates)]
    BY <1>1, <2>1, <2>3, SendTypes
  <2> QED BY <1>2, <1>5, <2>1, <2>4, SettledKeeps DEF LocalDescriptionSet
<1>6. CASE RolledBack(p)
  <2> DEFINE call == Call("setRemote", Head(chain[p]).arg)
  <2>1. Head(chain[p]) \in CallsMade /\ Head(chain[p]).call = "rollback"
    BY <1>1, <1>6, HeadTypes DEF RolledBack, Resolves
  <2>2. call \in CallsMade
    BY <2>1 DEF Call, CallsMade
  <2> HIDE DEF call
  <2>3. <<call>> \in Seq(CallsMade)
    BY <2>2
  <2> QED BY <1>1, <1>6, <2>3, SettledKeeps DEF RolledBack, call, NegotiationTypes
<1>7. CASE RemoteDescriptionSet(p)
  <2> DEFINE flush == FlushPendingIceCandidates(p)
             next == IF Head(chain[p]).arg.type = "offer"
                     THEN <<Call("createAnswer", Null)>> ELSE <<>>
  <2>1. flush \in Seq(CallsMade)
    <3> DEFINE pending == pendingIceCandidates[p]
    <3>1. pending \in Seq(Candidates)
      BY <1>1 DEF NegotiationTypes
    <3>2. Len(pending) \in Nat /\ DOMAIN pending = 1..Len(pending)
          /\ \A i \in 1..Len(pending) : pending[i] \in Candidates
      BY <3>1, LenProperties, ElementOfSeq
    <3>3. \A e \in Candidates : Call("addQueued", e) \in CallsMade
      BY DEF Call, CallsMade
    <3>4. flush = [i \in 1..Len(pending) |-> Call("addQueued", pending[i])]
      BY <3>2 DEF FlushPendingIceCandidates
    <3> HIDE DEF flush, pending
    <3>5. flush \in [1..Len(pending) -> CallsMade]
      BY <3>2, <3>3, <3>4
    <3> QED BY <3>2, <3>5, SeqDef
  <2>2. next \in Seq(CallsMade)
    <3>1. Call("createAnswer", Null) \in CallsMade
      BY DEF Call, CallsMade
    <3> DEFINE call == Call("createAnswer", Null)
    <3> HIDE DEF call
    <3>2. <<call>> \in Seq(CallsMade)
      BY <3>1 DEF call
    <3> QED BY <1>2, <3>2 DEF call
  <2>3. flush \o next \in Seq(CallsMade)
    BY <2>1, <2>2, ConcatProperties
  <2>4. /\ Resolves(p, "setRemote", flush \o next)
        /\ remoteDescriptionSet' = [remoteDescriptionSet EXCEPT ![p] = TRUE]
        /\ pendingIceCandidates' = [pendingIceCandidates EXCEPT ![p] = <<>>]
        /\ UNCHANGED <<sessionVars, toPeer, errors, channelVars, countVars>>
    BY <1>7 DEF RemoteDescriptionSet
  <2> HIDE DEF flush, next
  <2>5. /\ pc' \in [Peers -> Connection]
        /\ chain' \in [Peers -> Seq(CallsMade)]
        /\ \A q \in Peers : q # p => Remotes(q)' \subseteq Remotes(q)
    BY <1>1, <2>3, <2>4, ResolveTypes
  <2>6. NegotiationTypes'
    <3>1. <<>> \in Seq(Candidates)
      OBVIOUS
    <3>2. /\ pendingIceCandidates' \in [Peers -> Seq(Candidates)]
          /\ remoteDescriptionSet' \in [Peers -> BOOLEAN]
      BY <1>1, <2>4, <3>1 DEF NegotiationTypes
    <3> QED BY <1>1, <2>4, <2>5, <3>2 DEF NegotiationTypes
  <2>7. \A q \in Peers : remoteDescriptionSet[q] => remoteDescriptionSet'[q]
    BY <1>1, <2>4 DEF NegotiationTypes
  <2>8. remoteDescriptionSet'[p]
    BY <1>1, <2>4 DEF NegotiationTypes
  <2>9. RemoteKnown'
    BY <2>5, <2>7, <2>8 DEF IInv, NegotiationInv, RemoteKnown
  <2>10. OtherTypes'
    BY <2>4 DEF IInv, ChannelInv, OtherTypes, sessionVars, countVars
  <2>11. ChannelInv'
    BY <2>4, <2>6, <2>7, <2>10, ChannelsKept DEF countVars
  <2> QED BY <2>6, <2>9, <2>11 DEF IInv, NegotiationInv
<1>8. CASE CandidateAdded(p)
  BY <1>1, <1>2, <1>8, SettledKeeps DEF CandidateAdded, NegotiationTypes
<1>9. CASE CallRejected(p)
  <2>1. Tail(chain[p]) \in Seq(CallsMade)
    BY <1>1, <1>9, HeadTypes DEF CallRejected
  <2> DEFINE codes == RejectionErrors(Head(chain[p]))
  <2>2. codes \in SUBSET ErrorCodes /\ SendErrors(p, codes)
    BY <1>9 DEF CallRejected, RejectionErrors, ErrorCodes
  <2> HIDE DEF codes
  <2>3. errors' \in [Peers -> SUBSET ErrorCodes]
    BY <1>1, <2>2, SendErrorTypes
  <2>4. chain' = [chain EXCEPT ![p] = Tail(chain[p])]
        /\ UNCHANGED <<sessionVars, toPeer, pc, pendingIceCandidates, remoteDescriptionSet,
                       channelVars, countVars>>
    BY <1>9 DEF CallRejected
  <2>5. NegotiationTypes'
    BY <1>1, <2>1, <2>3, <2>4 DEF NegotiationTypes
  <2>6. OtherTypes'
    BY <2>4 DEF IInv, ChannelInv, OtherTypes, sessionVars, countVars
  <2>7. ChannelInv'
    BY <2>4, <2>5, <2>6, ChannelsKept DEF countVars
  <2> QED BY <2>4, <2>5, <2>7, RemoteKept DEF IInv, NegotiationInv
<1> QED BY <1>3, <1>4, <1>5, <1>6, <1>7, <1>8, <1>9 DEF Settles

\* Steps that leave the negotiation alone.
LEMMA NegotiationKept ==
  ASSUME IInv, UNCHANGED negotiationVars
  PROVE  NegotiationInv'
BY DEF IInv, NegotiationInv, NegotiationTypes, RemoteKnown, Remotes, negotiationVars

LEMMA OnIceCandidateKeeps ==
  ASSUME IInv, NEW p \in Peers, OnIceCandidate(p)
  PROVE  IInv'
<1> DEFINE more == pc[p].gathered < MaxCandidates
           candidate == IF more
                        THEN IceCandidateMessage(p, pc[p].generation, pc[p].gathered + 1)
                        ELSE Null
           n == IF more THEN pc[p].gathered + 1 ELSE pc[p].gathered
           c == [pc[p] EXCEPT !.gathered = n]
<1>1. /\ NegotiationTypes /\ pc[p] \in Connection
      /\ pc[p].generation \in Nat /\ pc[p].gathered \in 0..MaxCandidates
  BY DEF IInv, NegotiationInv, NegotiationTypes, Connection
<1>2. n \in 0..MaxCandidates
  BY <1>1, NegotiationBounds
<1>3. candidate = Null \/ candidate \in Candidates
  BY <1>1, NegotiationBounds DEF IceCandidateMessage, Candidates, Senders
<1>4. /\ pc' = [pc EXCEPT ![p] = c]
      /\ IF Forwards(candidate) THEN SendMessage(p, candidate) ELSE UNCHANGED toPeer
      /\ UNCHANGED <<sessionVars, chain, pendingIceCandidates, remoteDescriptionSet, errors,
                     channelVars, countVars>>
  BY <1>1 DEF OnIceCandidate, NegotiationTypes, Connection
<1> HIDE DEF n, candidate
<1>5. c \in Connection /\ c.remote = pc[p].remote /\ c.settled = pc[p].settled
  BY <1>1, <1>2 DEF Connection
<1> HIDE DEF c
<1>6. toPeer' \in [Peers -> Seq(Descriptions \cup Candidates)]
  <2>1. CASE Forwards(candidate)
    <3>1. candidate \in Descriptions \cup Candidates
      BY <1>3, <2>1 DEF Forwards
    <3> QED BY <1>1, <1>4, <2>1, <3>1, SendTypes
  <2>2. CASE ~Forwards(candidate)
    BY <1>1, <1>4, <2>2 DEF NegotiationTypes
  <2> QED BY <2>1, <2>2
<1>7. NegotiationTypes'
  BY <1>1, <1>4, <1>5, <1>6 DEF NegotiationTypes
<1>8. \A q \in Peers : Remotes(q)' = Remotes(q)
  BY <1>1, <1>4, <1>5 DEF NegotiationTypes, Remotes
<1>9. RemoteKnown'
  BY <1>4, <1>8 DEF IInv, NegotiationInv, RemoteKnown
<1>10. OtherTypes'
  BY <1>4 DEF IInv, ChannelInv, OtherTypes, sessionVars, countVars
<1>11. ChannelInv'
  BY <1>4, <1>7, <1>10, ChannelsKept DEF countVars
<1> QED BY <1>7, <1>9, <1>11 DEF IInv, NegotiationInv

LEMMA InitiateConnectionKeeps ==
  ASSUME IInv, NEW p \in Peers, InitiateConnection(p)
  PROVE  IInv'
<1> DEFINE created(k) == [by |-> p, n |-> initiations[p] + 1, kind |-> k]
<1>1. NegotiationTypes /\ RemoteKnown /\ ChannelTypes /\ OtherTypes
  BY DEF IInv, NegotiationInv, ChannelInv
<1>2. /\ initiations[p] \in Nat /\ initiations[p] + 1 \in 1..MaxEvents
      /\ initiations' = [initiations EXCEPT ![p] = initiations[p] + 1]
  <2>1. initiations[p] \in Nat /\ initiations[p] <= TotalInitiations
    BY <1>1, TotalBounds, NegotiationBounds DEF OtherTypes
  <2>2. initiations[Other(p)] \in Nat /\ Other(p) \in Peers
    BY <1>1, OtherIsPeer, NegotiationBounds DEF OtherTypes
  <2>3. TotalInitiations \in Nat
    BY <1>1, TotalTypes
  <2>4. TotalInitiations + disturbances < MaxEvents /\ disturbances \in Nat
    BY <1>1, NegotiationBounds DEF InitiateConnection, MoreEvents, OtherTypes
  <2> QED BY <2>1, <2>3, <2>4, NegotiationBounds DEF InitiateConnection
<1>3. \A k \in Kinds : created(k) \in Channels /\ created(k).kind = k
                         /\ created(k).by = p /\ created(k).n = initiations[p] + 1
  BY <1>2 DEF Channels
<1>4. /\ channel' = [channel EXCEPT ![p] = [k \in Kinds |-> created(k)]]
      /\ channelState' = [channelState EXCEPT ![p] =
           [c \in Channels |-> IF \E k \in Kinds : c = created(k) THEN "connecting"
                               ELSE channelState[p][c]]]
      /\ UNCHANGED <<sessionVars, toPeer, pc, pendingIceCandidates, remoteDescriptionSet,
                     errors, connectionState, ready, disturbances>>
      /\ renegotiations' = IF remoteDescriptionSet[p] THEN renegotiations + 1
                           ELSE renegotiations
  BY DEF InitiateConnection
<1> HIDE DEF created
<1>5. NegotiationTypes'
  <2> DEFINE op == Call("createOffer", Null)
  <2>1. op \in CallsMade /\ Calls(p, op)
    BY DEF Call, CallsMade, InitiateConnection
  <2> HIDE DEF op
  <2>2. chain' \in [Peers -> Seq(CallsMade)]
    BY <1>1, <2>1, CallTypes
  <2> QED BY <1>1, <1>4, <2>2 DEF NegotiationTypes
<1>6. NegotiationInv'
  BY <1>4, <1>5, RemoteKept DEF NegotiationInv
<1>7. ChannelTypes'
  <2>1. channelState'[p] \in [Channels -> {"none", "connecting", "open", "closed"}]
        /\ channel'[p] \in [Kinds -> Channels \cup {Null}]
    BY <1>1, <1>3, <1>4 DEF ChannelTypes
  <2> QED BY <1>1, <1>4, <2>1 DEF ChannelTypes
<1>8. OtherTypes'
  BY <1>1, <1>2, <1>4, NegotiationBounds DEF OtherTypes, sessionVars
<1>9. PathAfterRemote' /\ ReadyAfterRemote'
  BY <1>4 DEF IInv, ChannelInv, PathAfterRemote, ReadyAfterRemote
<1>10. ChannelKinds'
  BY <1>1, <1>3, <1>4 DEF IInv, ChannelInv, ChannelTypes, ChannelKinds
<1>11. \A c \in Channels :
         channelState'[p][c] = IF \E k \in Kinds : c = created(k) THEN "connecting"
                               ELSE channelState[p][c]
  BY <1>1, <1>4 DEF ChannelTypes
<1>12. \A q \in Peers : q # p => /\ channelState'[q] = channelState[q]
                                 /\ channel'[q] = channel[q]
                                 /\ initiations'[q] = initiations[q]
  BY <1>1, <1>2, <1>4 DEF ChannelTypes, OtherTypes
<1>13. initiations'[p] = initiations[p] + 1
       /\ \A k \in Kinds : channel'[p][k] = created(k)
  BY <1>1, <1>2, <1>4 DEF ChannelTypes, OtherTypes
<1>14. OwnConnecting'
  <2> SUFFICES ASSUME NEW q \in Peers, NEW c \in Channels,
                      channelState'[q][c] = "connecting"
               PROVE  c.by = q /\ c.n <= initiations'[q]
    BY DEF OwnConnecting
  <2>1. CASE q # p
    BY <1>12, <2>1 DEF IInv, ChannelInv, OwnConnecting
  <2>2. CASE q = p /\ \E k \in Kinds : c = created(k)
    BY <1>2, <1>3, <1>13, <2>2
  <2>3. CASE q = p /\ ~\E k \in Kinds : c = created(k)
    <3>1. c.by = q /\ c.n <= initiations[q]
      BY <1>11, <2>3 DEF IInv, ChannelInv, OwnConnecting
    <3>2. c.n \in Nat
      BY DEF Channels
    <3> QED BY <1>2, <1>13, <2>3, <3>1, <3>2
  <2> QED BY <2>1, <2>2, <2>3
<1>15. /\ renegotiations \in Nat
       /\ \A q \in Peers : initiations[q] \in Nat /\ initiations'[q] \in Nat
       /\ \A q \in Peers : Late(q) => Late(q)'
  BY <1>1, <1>2, <1>4, <1>8, <1>12, NegotiationBounds DEF OtherTypes, Late, FirstNegotiation
<1>16. FlagsBacked'
  <2> SUFFICES ASSUME NEW q \in Peers, NEW k \in Kinds
               PROVE  /\ ready'[q][k] => HasOpen(q, k)' \/ (Late(q)' /\ Awaits(q, k)')
                      /\ \A c \in Channels :
                           c.kind = k /\ channelState'[q][c] = "connecting"
                             => Awaits(q, k)' \/ HasOpen(q, k)'
    BY DEF FlagsBacked, HasOpen, Awaits
  <2>1. CASE q # p
    BY <1>4, <1>12, <1>15, <2>1 DEF IInv, ChannelInv, FlagsBacked, HasOpen, Awaits
  <2>2. CASE q = p
    <3>1. Awaits(p, k)'
      BY <1>3, <1>11, <1>13, NullIsNoChannel DEF Awaits
    <3>2. ready'[p][k] => Late(p)'
      BY <1>4, <1>15 DEF IInv, ChannelInv, ReadyAfterRemote, Late, FirstNegotiation
    <3> QED BY <2>2, <3>1, <3>2
  <2> QED BY <2>1, <2>2
<1> QED BY <1>6, <1>7, <1>8, <1>9, <1>10, <1>14, <1>16 DEF IInv, ChannelInv

LEMMA CloseKeeps ==
  ASSUME IInv, NEW p \in Peers, Close(p)
  PROVE  IInv'
<1> DEFINE c == [pc[p] EXCEPT !.signalingState = "closed"]
<1>1. /\ NegotiationTypes /\ RemoteKnown /\ ChannelTypes /\ OtherTypes
      /\ pc[p] \in Connection
  BY DEF IInv, NegotiationInv, ChannelInv, NegotiationTypes
<1>2. /\ pc' = [pc EXCEPT ![p] = c]
      /\ chain' = [chain EXCEPT ![p] = <<>>]
      /\ UNCHANGED <<toPeer, pendingIceCandidates, remoteDescriptionSet, errors>>
  BY DEF Close
<1>3. c \in Connection /\ c.remote = pc[p].remote /\ c.settled = pc[p].settled
  BY <1>1 DEF Connection
<1> HIDE DEF c
<1>4. NegotiationTypes'
  BY <1>1, <1>2, <1>3 DEF NegotiationTypes
<1>5. \A q \in Peers : Remotes(q)' = Remotes(q)
  BY <1>1, <1>2, <1>3 DEF NegotiationTypes, Remotes
<1>6. RemoteKnown'
  BY <1>1, <1>2, <1>5 DEF RemoteKnown
<1>7. /\ ready' = [ready EXCEPT ![p] = [k \in Kinds |-> FALSE]]
      /\ connectionState' = [connectionState EXCEPT ![p] = "closed"]
      /\ channelState' = [channelState EXCEPT ![p] =
           [e \in Channels |-> IF channelState[p][e] = "none" THEN "none" ELSE "closed"]]
      /\ UNCHANGED <<remoteDescriptionSet, channel, initiations, renegotiations, online>>
  BY DEF Close
<1>8. ChannelTypes'
  BY <1>1, <1>7 DEF ChannelTypes
<1>9. OtherTypes'
  BY <1>1, <1>7, DisturbTypes DEF OtherTypes, Close
<1>10. PathAfterRemote' /\ ReadyAfterRemote'
  BY <1>1, <1>7 DEF IInv, ChannelInv, ChannelTypes, PathAfterRemote, ReadyAfterRemote
<1>11. /\ \A q \in Peers : q = p \/ (channelState'[q] = channelState[q] /\ ready'[q] = ready[q])
       /\ \A k \in Kinds : ~ready'[p][k]
       /\ \A e \in Channels : channelState'[p][e] # "connecting"
  BY <1>1, <1>7 DEF ChannelTypes
<1>12. ChannelKinds' /\ OwnConnecting'
  BY <1>7, <1>11 DEF IInv, ChannelInv, ChannelKinds, OwnConnecting
<1>13. FlagsBacked'
  BY <1>7, <1>11
  DEF IInv, ChannelInv, FlagsBacked, HasOpen, Awaits, Late, FirstNegotiation
<1> QED BY <1>4, <1>6, <1>8, <1>9, <1>10, <1>12, <1>13 DEF IInv, NegotiationInv, ChannelInv

\* A step of the path only.
LEMMA PathKeeps ==
  ASSUME IInv, NEW p \in Peers, Connected(p) \/ Disconnected(p) \/ Failed(p)
  PROVE  IInv'
<1>1. /\ NegotiationTypes /\ RemoteKnown /\ ChannelTypes /\ OtherTypes
  BY DEF IInv, NegotiationInv, ChannelInv
<1>2. UNCHANGED <<sessionVars, toPeer, pc, chain, pendingIceCandidates, remoteDescriptionSet,
                  channelState, channel, initiations, renegotiations>>
  BY DEF Connected, Disconnected, Failed, negotiationVars, countVars
<1>3. NegotiationTypes'
  <2>1. CASE Failed(p)
    <3> DEFINE codes == {"CONNECTION_FAILED", "ICE_CONNECTION_FAILED"}
    <3>1. codes \in SUBSET ErrorCodes /\ SendErrors(p, codes)
      BY <2>1 DEF Failed, ErrorCodes
    <3> HIDE DEF codes
    <3>2. errors' \in [Peers -> SUBSET ErrorCodes]
      BY <1>1, <3>1, SendErrorTypes
    <3> QED BY <1>1, <1>2, <3>2 DEF NegotiationTypes
  <2>2. CASE Connected(p) \/ Disconnected(p)
    BY <1>1, <1>2, <2>2 DEF NegotiationTypes, Connected, Disconnected, negotiationVars
  <2> QED BY <2>1, <2>2
<1>4. RemoteKnown'
  BY <1>2, RemoteKept
<1>5. \/ UNCHANGED ready
      \/ ready' = [ready EXCEPT ![p] = [k \in Kinds |-> FALSE]]
  BY DEF Connected, Disconnected, Failed
<1>6. ready' \in [Peers -> [Kinds -> BOOLEAN]]
      /\ \A q \in Peers, k \in Kinds : ready'[q][k] => ready[q][k]
  <2>1. ready \in [Peers -> [Kinds -> BOOLEAN]]
    BY <1>1 DEF ChannelTypes
  <2>2. CASE UNCHANGED ready
    BY <2>1, <2>2
  <2>3. CASE ready' = [ready EXCEPT ![p] = [k \in Kinds |-> FALSE]]
    <3>1. \A k \in Kinds : ~ready'[p][k]
      BY <2>1, <2>3
    <3>2. \A q \in Peers : q # p => ready'[q] = ready[q]
      BY <2>1, <2>3
    <3>3. ready' \in [Peers -> [Kinds -> BOOLEAN]]
      BY <2>1, <2>3
    <3> QED BY <3>1, <3>2, <3>3
  <2> QED BY <1>5, <2>2, <2>3
<1>7. \E s \in {"connected", "disconnected", "failed"} :
        connectionState' = [connectionState EXCEPT ![p] = s]
  BY DEF Connected, Disconnected, Failed
<1>8. ChannelTypes'
  BY <1>1, <1>2, <1>6, <1>7 DEF ChannelTypes
<1>9. OtherTypes'
  <2>1. disturbances' \in 0..MaxEvents
    BY <1>1, DisturbTypes DEF OtherTypes, Connected, Disconnected, Failed, countVars
  <2> QED BY <1>1, <1>2, <2>1 DEF OtherTypes, sessionVars
<1>10. remoteDescriptionSet[p]
  <2>1. CASE connectionState[p] \in {"connected", "disconnected"}
    BY <2>1 DEF IInv, ChannelInv, PathAfterRemote
  <2>2. CASE Matched(p)
    BY <1>1, <2>2 DEF Matched, RemoteKnown, Remotes
  <2> QED BY <2>1, <2>2 DEF Connected, Disconnected, Failed
<1>11. PathAfterRemote'
  BY <1>1, <1>2, <1>7, <1>10 DEF IInv, ChannelInv, ChannelTypes, PathAfterRemote
<1>12. ReadyAfterRemote'
  BY <1>2, <1>6 DEF IInv, ChannelInv, ReadyAfterRemote
<1>13. ChannelKinds' /\ OwnConnecting' /\ FlagsBacked'
  BY <1>2, <1>6
  DEF IInv, ChannelInv, ChannelKinds, OwnConnecting, FlagsBacked, HasOpen, Awaits, Late,
      FirstNegotiation
<1> QED BY <1>3, <1>4, <1>8, <1>9, <1>11, <1>12, <1>13 DEF IInv, NegotiationInv, ChannelInv

LEMMA ChannelsOpenKeeps ==
  ASSUME IInv, NEW p \in Peers, ChannelsOpen(p)
  PROVE  IInv'
<1> DEFINE opened == Connecting(p)
<1>1. ChannelTypes /\ OtherTypes /\ opened \subseteq Channels
  BY DEF IInv, ChannelInv, Connecting
<1>2. NegotiationInv'
  BY NegotiationKept DEF ChannelsOpen
<1>3. /\ channelState' = [channelState EXCEPT ![p] =
           [c \in Channels |-> IF c \in opened THEN "open" ELSE channelState[p][c]]]
      /\ ready' = [ready EXCEPT ![p] =
           [k \in Kinds |-> ready[p][k] \/ \E c \in opened : c.kind = k]]
      /\ UNCHANGED <<sessionVars, remoteDescriptionSet, connectionState, channel, countVars>>
      /\ remoteDescriptionSet[p]
  BY DEF ChannelsOpen, ReadyAfterOpen, negotiationVars, IInv, ChannelInv, PathAfterRemote
<1>4. \A c \in opened : channelState[p][c] = "connecting"
  BY DEF Connecting
<1>5. \A c \in Channels \ opened : channelState[p][c] # "connecting"
  BY DEF Connecting
<1> HIDE DEF opened
<1>6. ChannelTypes'
  <2>1. [k \in Kinds |-> ready[p][k] \/ \E c \in opened : c.kind = k] \in [Kinds -> BOOLEAN]
    BY <1>1 DEF ChannelTypes
  <2>2. [c \in Channels |-> IF c \in opened THEN "open" ELSE channelState[p][c]]
          \in [Channels -> {"none", "connecting", "open", "closed"}]
    BY <1>1 DEF ChannelTypes
  <2> QED BY <1>1, <1>3, <2>1, <2>2 DEF ChannelTypes
<1>7. OtherTypes'
  BY <1>1, <1>3 DEF OtherTypes, sessionVars, countVars
<1>8. /\ \A q \in Peers : q = p \/ (channelState'[q] = channelState[q] /\ ready'[q] = ready[q])
      /\ \A c \in Channels :
           channelState'[p][c] = IF c \in opened THEN "open" ELSE channelState[p][c]
      /\ \A k \in Kinds : ready'[p][k] => ready[p][k] \/ \E c \in opened : c.kind = k
  BY <1>1, <1>3 DEF ChannelTypes
<1>9. PathAfterRemote' /\ ReadyAfterRemote' /\ ChannelKinds'
  BY <1>3, <1>8 DEF IInv, ChannelInv, PathAfterRemote, ReadyAfterRemote, ChannelKinds
<1>10. OwnConnecting'
  BY <1>3, <1>5, <1>8 DEF IInv, ChannelInv, OwnConnecting, countVars
<1>11. FlagsBacked'
  <2> SUFFICES ASSUME NEW q \in Peers, NEW k \in Kinds
               PROVE  /\ ready'[q][k] => HasOpen(q, k)' \/ (Late(q) /\ Awaits(q, k)')
                      /\ \A e \in Channels :
                           e.kind = k /\ channelState'[q][e] = "connecting"
                             => Awaits(q, k)' \/ HasOpen(q, k)'
    BY <1>3 DEF FlagsBacked, HasOpen, Awaits, Late, FirstNegotiation, countVars
  <2>1. CASE q # p
    BY <1>3, <1>8, <2>1 DEF IInv, ChannelInv, FlagsBacked, HasOpen, Awaits
  <2>2. CASE q = p
    <3>1. \A c \in Channels : channelState'[p][c] # "connecting"
      BY <1>5, <1>8
    <3>2. HasOpen(p, k) => HasOpen(p, k)'
      BY <1>1, <1>3, <1>4, <1>8 DEF HasOpen, ChannelTypes
    <3>3. Awaits(p, k) => HasOpen(p, k)'
      BY <1>1, <1>3, <1>5, <1>8 DEF HasOpen, Awaits, ChannelTypes
    <3>4. ASSUME NEW c \in opened, c.kind = k
          PROVE  HasOpen(p, k)'
      BY <1>1, <1>4, <3>2, <3>3, <3>4 DEF IInv, ChannelInv, FlagsBacked
    <3>5. ready[p][k] => HasOpen(p, k) \/ Awaits(p, k)
      BY DEF IInv, ChannelInv, FlagsBacked
    <3> QED BY <1>8, <2>2, <3>1, <3>2, <3>3, <3>4, <3>5
  <2> QED BY <2>1, <2>2
<1> QED BY <1>2, <1>6, <1>7, <1>9, <1>10, <1>11 DEF IInv, ChannelInv

LEMMA OnDataChannelKeeps ==
  ASSUME IInv, NEW p \in Peers, NEW c \in Channels, OnDataChannel(p, c)
  PROVE  IInv'
<1>1. ChannelTypes /\ OtherTypes /\ c.kind \in Kinds /\ c # Null
  BY NullIsNoChannel DEF IInv, ChannelInv, Channels
<1>2. NegotiationInv'
  BY NegotiationKept DEF OnDataChannel
<1>3. /\ channel' = [channel EXCEPT ![p] = [channel[p] EXCEPT ![c.kind] = c]]
      /\ channelState' = [channelState EXCEPT ![p] = [channelState[p] EXCEPT ![c] = "open"]]
      /\ ready' = [ready EXCEPT ![p] =
           [k \in Kinds |-> ready[p][k] \/ \E e \in {c} : e.kind = k]]
      /\ UNCHANGED <<sessionVars, remoteDescriptionSet, connectionState, countVars>>
      /\ remoteDescriptionSet[p]
  BY <1>1 DEF OnDataChannel, ReadyAfterOpen, negotiationVars, IInv, ChannelInv, ChannelTypes,
              PathAfterRemote
<1>4. ChannelTypes'
  <2>1. [k \in Kinds |-> ready[p][k] \/ \E e \in {c} : e.kind = k] \in [Kinds -> BOOLEAN]
    BY <1>1 DEF ChannelTypes
  <2>2. [channelState[p] EXCEPT ![c] = "open"]
          \in [Channels -> {"none", "connecting", "open", "closed"}]
    BY <1>1 DEF ChannelTypes
  <2>3. [channel[p] EXCEPT ![c.kind] = c] \in [Kinds -> Channels \cup {Null}]
    BY <1>1 DEF ChannelTypes
  <2> QED BY <1>1, <1>3, <2>1, <2>2, <2>3 DEF ChannelTypes
<1>5. OtherTypes'
  BY <1>1, <1>3 DEF OtherTypes, sessionVars, countVars
<1>6. \A q \in Peers : q = p \/ /\ channelState'[q] = channelState[q]
                                /\ channel'[q] = channel[q]
                                /\ ready'[q] = ready[q]
  BY <1>1, <1>3 DEF ChannelTypes
<1>7. /\ \A e \in Channels : channelState'[p][e] = IF e = c THEN "open" ELSE channelState[p][e]
      /\ \A k \in Kinds : channel'[p][k] = IF k = c.kind THEN c ELSE channel[p][k]
      /\ \A k \in Kinds : ready'[p][k] => ready[p][k] \/ k = c.kind
  BY <1>1, <1>3 DEF ChannelTypes
<1>8. PathAfterRemote' /\ ReadyAfterRemote'
  BY <1>3, <1>6 DEF IInv, ChannelInv, PathAfterRemote, ReadyAfterRemote
<1>9. ChannelKinds'
  BY <1>6, <1>7 DEF IInv, ChannelInv, ChannelKinds
<1>10. OwnConnecting'
  BY <1>3, <1>6, <1>7 DEF IInv, ChannelInv, OwnConnecting, countVars
<1>11. FlagsBacked'
  <2> SUFFICES ASSUME NEW q \in Peers, NEW k \in Kinds
               PROVE  /\ ready'[q][k] => HasOpen(q, k)' \/ (Late(q) /\ Awaits(q, k)')
                      /\ \A e \in Channels :
                           e.kind = k /\ channelState'[q][e] = "connecting"
                             => Awaits(q, k)' \/ HasOpen(q, k)'
    BY <1>3 DEF FlagsBacked, HasOpen, Awaits, Late, FirstNegotiation, countVars
  <2>1. CASE q # p
    BY <1>3, <1>6, <2>1 DEF IInv, ChannelInv, FlagsBacked, HasOpen, Awaits
  <2>2. CASE q = p /\ k = c.kind
    BY <1>1, <1>7, <2>2 DEF HasOpen
  <2>3. CASE q = p /\ k # c.kind
    <3>1. HasOpen(p, k) => HasOpen(p, k)'
      BY <1>1, <1>7, <2>3 DEF HasOpen, ChannelTypes
    <3>2. Awaits(p, k) => Awaits(p, k)' \/ HasOpen(p, k)'
      BY <1>1, <1>7, <2>3 DEF HasOpen, Awaits, ChannelTypes
    <3>3. ready'[p][k] => ready[p][k]
      BY <1>7, <2>3
    <3>4. \A e \in Channels : channelState'[p][e] = "connecting"
                                => channelState[p][e] = "connecting"
      BY <1>7
    <3> QED BY <2>3, <3>1, <3>2, <3>3, <3>4 DEF IInv, ChannelInv, FlagsBacked
  <2> QED BY <2>1, <2>2, <2>3
<1> QED BY <1>2, <1>4, <1>5, <1>8, <1>9, <1>10, <1>11 DEF IInv, ChannelInv

LEMMA ChannelsCloseKeeps ==
  ASSUME IInv, NEW p \in Peers, ChannelsClose(p)
  PROVE  IInv'
<1> DEFINE gone == Closable(p)
<1>1. ChannelTypes /\ OtherTypes /\ gone \subseteq Channels
  BY DEF IInv, ChannelInv, Closable
<1>2. NegotiationInv'
  BY NegotiationKept DEF ChannelsClose
<1>3. /\ channelState' = [channelState EXCEPT ![p] =
           [c \in Channels |-> IF c \in gone THEN "closed" ELSE channelState[p][c]]]
      /\ ready' = [ready EXCEPT ![p] =
           [k \in Kinds |-> ready[p][k] /\ ~\E c \in gone : c.kind = k]]
      /\ UNCHANGED <<sessionVars, remoteDescriptionSet, connectionState, channel, countVars>>
  BY DEF ChannelsClose, ReadyAfterClose, negotiationVars
<1>4. \A c \in Channels : channelState[p][c] \in {"connecting", "open"} => c \in gone
  BY DEF Closable
<1> HIDE DEF gone
<1>5. ChannelTypes'
  <2>1. [k \in Kinds |-> ready[p][k] /\ ~\E c \in gone : c.kind = k] \in [Kinds -> BOOLEAN]
    BY <1>1 DEF ChannelTypes
  <2>2. [c \in Channels |-> IF c \in gone THEN "closed" ELSE channelState[p][c]]
          \in [Channels -> {"none", "connecting", "open", "closed"}]
    BY <1>1 DEF ChannelTypes
  <2> QED BY <1>1, <1>3, <2>1, <2>2 DEF ChannelTypes
<1>6. OtherTypes'
  BY <1>1, <1>3 DEF OtherTypes, sessionVars, countVars
<1>7. /\ \A q \in Peers : q = p \/ (channelState'[q] = channelState[q] /\ ready'[q] = ready[q])
      /\ \A c \in Channels :
           channelState'[p][c] = IF c \in gone THEN "closed" ELSE channelState[p][c]
      /\ \A k \in Kinds : ready'[p][k] => ready[p][k] /\ ~\E c \in gone : c.kind = k
  BY <1>1, <1>3 DEF ChannelTypes
<1>8. \A c \in Channels : channelState'[p][c] # "connecting"
  BY <1>4, <1>7
<1>9. PathAfterRemote' /\ ReadyAfterRemote' /\ ChannelKinds' /\ OwnConnecting'
  BY <1>3, <1>7, <1>8
  DEF IInv, ChannelInv, PathAfterRemote, ReadyAfterRemote, ChannelKinds, OwnConnecting,
      countVars
<1>10. FlagsBacked'
  <2> SUFFICES ASSUME NEW q \in Peers, NEW k \in Kinds
               PROVE  /\ ready'[q][k] => HasOpen(q, k)' \/ (Late(q) /\ Awaits(q, k)')
                      /\ \A e \in Channels :
                           e.kind = k /\ channelState'[q][e] = "connecting"
                             => Awaits(q, k)' \/ HasOpen(q, k)'
    BY <1>3 DEF FlagsBacked, HasOpen, Awaits, Late, FirstNegotiation, countVars
  <2>1. CASE q # p
    BY <1>3, <1>7, <2>1 DEF IInv, ChannelInv, FlagsBacked, HasOpen, Awaits
  <2>2. CASE q = p
    <3>1. ~ready'[p][k]
      <4> SUFFICES ASSUME ready'[p][k] PROVE FALSE
        OBVIOUS
      <4>1. HasOpen(p, k) \/ Awaits(p, k)
        BY <1>7 DEF IInv, ChannelInv, FlagsBacked
      <4>2. channel[p][k] \in Channels /\ channel[p][k].kind = k
        BY <1>1, <4>1 DEF HasOpen, Awaits, ChannelTypes, IInv, ChannelInv, ChannelKinds
      <4> QED BY <1>4, <1>7, <4>1, <4>2 DEF HasOpen, Awaits
    <3> QED BY <1>8, <2>2, <3>1
  <2> QED BY <2>1, <2>2
<1> QED BY <1>2, <1>5, <1>6, <1>9, <1>10 DEF IInv, ChannelInv

LEMMA SignalingKeeps ==
  ASSUME IInv, NEW p \in Peers, LoseSignaling(p) \/ ReturnToSignaling(p)
  PROVE  IInv'
<1>1. NegotiationTypes /\ OtherTypes
  BY DEF IInv, NegotiationInv, ChannelInv
<1>2. /\ UNCHANGED <<pc, chain, pendingIceCandidates, remoteDescriptionSet, errors,
                     channelVars, initiations, renegotiations>>
      /\ UNCHANGED toPeer \/ toPeer' = [toPeer EXCEPT ![p] = <<>>]
  BY DEF LoseSignaling, ReturnToSignaling, negotiationVars, countVars
<1>3. NegotiationTypes'
  <2>1. <<>> \in Seq(Descriptions \cup Candidates)
    OBVIOUS
  <2> QED BY <1>1, <1>2, <2>1 DEF NegotiationTypes
<1>4. OtherTypes'
  <2>1. CASE LoseSignaling(p)
    <3>1. /\ online' = [online EXCEPT ![p] = FALSE]
          /\ subscribed' = [subscribed EXCEPT ![p] = FALSE]
      BY <2>1 DEF LoseSignaling
    <3>2. online' \in [Peers -> BOOLEAN] /\ subscribed' \in [Peers -> BOOLEAN]
      BY <1>1, <3>1 DEF OtherTypes
    <3>3. disturbances' \in 0..MaxEvents
      BY <1>1, <2>1, DisturbTypes DEF LoseSignaling
    <3> QED BY <1>1, <1>2, <3>2, <3>3 DEF OtherTypes
  <2>2. CASE ReturnToSignaling(p)
    <3>1. online' = [online EXCEPT ![p] = TRUE] /\ UNCHANGED <<subscribed, countVars>>
      BY <2>2 DEF ReturnToSignaling
    <3>2. online' \in [Peers -> BOOLEAN]
      BY <1>1, <3>1 DEF OtherTypes
    <3> QED BY <1>1, <1>2, <3>1, <3>2 DEF OtherTypes, countVars
  <2> QED BY <2>1, <2>2
<1>5. ChannelInv'
  BY <1>2, <1>3, <1>4, ChannelsKept
<1> QED BY <1>2, <1>3, <1>5, RemoteKept DEF IInv, NegotiationInv

LEMMA StrangerSendsKeeps ==
  ASSUME IInv, NEW p \in Peers, StrangerSends(p)
  PROVE  IInv'
<1> DEFINE M == Descriptions \cup Candidates
<1>1. NegotiationTypes /\ OtherTypes
  BY DEF IInv, NegotiationInv, ChannelInv
<1>2. /\ UNCHANGED <<sessionVars, pc, chain, pendingIceCandidates, remoteDescriptionSet, errors,
                     channelVars, initiations, renegotiations>>
      /\ Disturbs
  BY DEF StrangerSends
<1>3. PICK msg \in M : toPeer' = [toPeer EXCEPT ![p] = Append(toPeer[p], msg)]
  <2>1. OfferMessage(Stranger, 0) \in M /\ AnswerMessage(Stranger, 0) \in M
    BY DEF OfferMessage, AnswerMessage, Descriptions, Senders
  <2>2. \A n \in 1..MaxCandidates : IceCandidateMessage(Stranger, 0, n) \in M
    BY DEF IceCandidateMessage, Candidates, Senders
  <2> HIDE DEF M
  <2> QED BY <2>1, <2>2 DEF StrangerSends
<1>4. toPeer' \in [Peers -> Seq(M)]
  <2>1. toPeer[p] \in Seq(M)
    BY <1>1 DEF NegotiationTypes
  <2> HIDE DEF M
  <2>2. Append(toPeer[p], msg) \in Seq(M)
    BY <1>3, <2>1
  <2> QED BY <1>1, <1>3, <2>2 DEF NegotiationTypes, M
<1>5. NegotiationTypes'
  BY <1>1, <1>2, <1>4 DEF NegotiationTypes
<1>6. OtherTypes'
  BY <1>1, <1>2, DisturbTypes DEF OtherTypes, sessionVars
<1>7. ChannelInv'
  BY <1>2, <1>5, <1>6, ChannelsKept
<1> QED BY <1>2, <1>5, <1>7, RemoteKept DEF IInv, NegotiationInv

-----------------------------------------------------------------------------
LEMMA NextKeeps == IInv /\ [Next]_vars => IInv'
<1> SUFFICES ASSUME IInv, [Next]_vars PROVE IInv'
  OBVIOUS
<1>1. CASE Next
  <2>1. PICK p \in Peers :
          \/ InitiateConnection(p) \/ Close(p)
          \/ Delivery(p) \/ Settles(p) \/ OnIceCandidate(p)
          \/ Connected(p) \/ Disconnected(p) \/ Failed(p)
          \/ ChannelsOpen(p) \/ (\E c \in Channels : OnDataChannel(p, c)) \/ ChannelsClose(p)
          \/ LoseSignaling(p) \/ ReturnToSignaling(p) \/ StrangerSends(p)
    BY <1>1 DEF Next
  <2>2. CASE InitiateConnection(p)
    BY <2>2, InitiateConnectionKeeps
  <2>3. CASE Close(p)
    BY <2>3, CloseKeeps
  <2>4. CASE Delivery(p)
    BY <2>4, DeliveryKeeps
  <2>5. CASE Settles(p)
    BY <2>5, SettlesKeeps
  <2>6. CASE OnIceCandidate(p)
    BY <2>6, OnIceCandidateKeeps
  <2>7. CASE Connected(p) \/ Disconnected(p) \/ Failed(p)
    BY <2>7, PathKeeps
  <2>8. CASE ChannelsOpen(p)
    BY <2>8, ChannelsOpenKeeps
  <2>9. CASE \E c \in Channels : OnDataChannel(p, c)
    BY <2>9, OnDataChannelKeeps
  <2>10. CASE ChannelsClose(p)
    BY <2>10, ChannelsCloseKeeps
  <2>11. CASE LoseSignaling(p) \/ ReturnToSignaling(p)
    BY <2>11, SignalingKeeps
  <2>12. CASE StrangerSends(p)
    BY <2>12, StrangerSendsKeeps
  <2> QED
    BY <2>1, <2>2, <2>3, <2>4, <2>5, <2>6, <2>7, <2>8, <2>9, <2>10, <2>11, <2>12
<1>2. CASE UNCHANGED vars
  <2>1. UNCHANGED negotiationVars /\ UNCHANGED channelVars 
        /\ UNCHANGED <<initiations, renegotiations>>
    BY <1>2 DEF vars, countVars
  <2>2. NegotiationInv'
    BY <2>1, NegotiationKept
  <2>3. OtherTypes'
    BY <1>2 DEF IInv, ChannelInv, OtherTypes, vars, sessionVars, countVars
  <2>4. ChannelInv'
    BY <2>1, <2>2, <2>3, ChannelsKept DEF NegotiationInv, negotiationVars
  <2> QED BY <2>2, <2>4 DEF IInv
<1> QED BY <1>1, <1>2

LEMMA InvHolds == Spec => []IInv
BY InitHolds, NextKeeps, PTL DEF Spec

\* The fields of both connections, the arguments of every call they make on the browser
\* and every message they relay keep their types, however the two negotiate.
THEOREM NegotiationTypeCorrect == Spec => []NegotiationTypeOK
<1>1. IInv => NegotiationTypeOK
  BY DEF IInv, NegotiationInv, NegotiationTypes, ChannelInv, ChannelTypes, OtherTypes,
         NegotiationTypeOK
<1> QED BY <1>1, InvHolds, PTL

\* isReady never reports a channel that is gone (onopen, onclose, ondatachannel, close and
\* the handling of "disconnected"), for any number of candidates, losses and calls of
\* initiateConnection: what it reports is open, or connecting because the peer itself has
\* called initiateConnection a second time or on top of a remote description.
THEOREM ReadyStaysHonest == Spec => []ReadyHonest
<1>1. ASSUME IInv, NEW p \in Peers, NEW k \in Kinds, ready[p][k]
      PROVE  /\ channel[p][k] # Null
             /\ \/ channelState[p][channel[p][k]] = "open"
                \/ /\ channelState[p][channel[p][k]] = "connecting"
                   /\ channel[p][k].by = p
                   /\ initiations[p] > 1 \/ ~FirstNegotiation
  <2>1. HasOpen(p, k) \/ (Late(p) /\ Awaits(p, k))
    BY <1>1 DEF IInv, ChannelInv, FlagsBacked
  <2>2. CASE HasOpen(p, k)
    BY <2>2 DEF HasOpen
  <2>3. CASE Late(p) /\ Awaits(p, k)
    <3>1. channel[p][k] \in Channels
      BY <1>1, <2>3 DEF Awaits, IInv, ChannelInv, ChannelTypes
    <3>2. channel[p][k].by = p
      BY <1>1, <2>3, <3>1 DEF Awaits, IInv, ChannelInv, OwnConnecting
    <3> QED BY <2>3, <3>2 DEF Awaits, Late
  <2> QED BY <2>1, <2>2, <2>3
<1>2. IInv => ReadyHonest
  BY <1>1 DEF ReadyHonest
<1> QED BY <1>2, InvHolds, PTL
=============================================================================
