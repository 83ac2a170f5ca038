---------------------------- MODULE WebRTCNegotiation ----------------------------
(***************************************************************************)
(* Two WebRTCConnection objects (apps/web/src/webrtc/WebRTCConnection.ts)  *)
(* that negotiate over the signaling relay.                                *)
(*                                                                         *)
(* The browser's RTCPeerConnection runs createOffer, setLocalDescription   *)
(* and the other asynchronous calls one after the other: chain[p] holds    *)
(* the calls made and not yet settled.  A call settles in one step with    *)
(* the code behind its await, which may make the next call; messages,      *)
(* events and calls of the application come in between.                    *)
(* A description is its type, its sender and the ICE generation of its     *)
(* credentials; the SDP text is not in the model.  peer-error messages are *)
(* not delivered: SignalingClient.handleMessage has no case for them.  The *)
(* handlers do not look at who sent a message: a third peer can disturb.   *)
(***************************************************************************)
EXTENDS Naturals, Sequences

CONSTANTS
  Peers,           \* the two peers; each knows the other as its remotePeer
  Stranger,        \* any other peer the server relays for
  Null,
  MaxEvents,       \* bound: calls of initiateConnection and disturbances (close() calls,
                   \* signaling sockets lost, paths lost, messages of a third peer)
  MaxCandidates    \* bound: ICE candidates gathered in one generation

ASSUME TwoPeers == \E p, q \in Peers : p # q /\ Peers = {p, q}
ASSUME ThirdPeer == Stranger \notin Peers
ASSUME NegotiationBounds == {MaxEvents, MaxCandidates} \subseteq Nat

VARIABLES
  online,                \* the signaling socket of each peer is open
  subscribed,            \* its offer, answer and iceCandidate listeners are registered
  toPeer,                \* relayed messages on their way to each peer
  pc,                    \* RTCPeerConnection
  chain,                 \* its operations, called and not yet settled
  connectionState,       \* pc.connectionState
  channelState,          \* readyState of each data channel at each peer
  channel,               \* this.dataChannel and this.controlChannel
  ready,                 \* this.dataReady and this.controlReady
  pendingIceCandidates,
  remoteDescriptionSet,
  initiations,           \* calls of initiateConnection of each peer
  renegotiations,        \* those made with a remote description set
  errors,                \* codes of the peer-errors each peer has sent
  disturbances

sessionVars == <<online, subscribed>>
negotiationVars == <<toPeer, pc, chain, pendingIceCandidates, remoteDescriptionSet, errors>>
channelVars == <<connectionState, channelState, channel, ready>>
countVars == <<initiations, renegotiations, disturbances>>
vars == <<sessionVars, negotiationVars, channelVars, countVars>>

Other(p) == CHOOSE q \in Peers : q # p

Kinds == {"data", "control"}
Channels == [by : Peers, n : 1..MaxEvents, kind : Kinds]
ASSUME NullIsNoChannel == Null \notin Channels

ErrorCodes == {"GLARE_CONFLICT", "SIGNALING_STATE_CONFLICT", "NEGOTIATION_FAILED",
               "ICE_CANDIDATE_FAILED", "ICE_CONNECTION_FAILED", "CONNECTION_FAILED"}

OfferMessage(p, g) == [type |-> "offer", from |-> p, generation |-> g]
AnswerMessage(p, g) == [type |-> "answer", from |-> p, generation |-> g]
IceCandidateMessage(p, g, n) ==
  [type |-> "ice-candidate", from |-> p, generation |-> g, n |-> n]

-----------------------------------------------------------------------------
(* RTCPeerConnection, as the code uses it.                                 *)

Fresh == [signalingState |-> "stable", local |-> Null, remote |-> Null,
          settled |-> [local |-> Null, remote |-> Null],  \* at the last stable state
          generation |-> 0, gathered |-> 0, added |-> {}]

\* An own offer that is given up takes its ICE credentials with it.
Rollback(c) ==
  LET regather == c.signalingState = "have-local-offer" /\ c.settled.local = Null
  IN [c EXCEPT !.signalingState = "stable",
               !.local = c.settled.local, !.remote = c.settled.remote,
               !.generation = IF regather THEN @ + 1 ELSE @,
               !.gathered = IF regather THEN 0 ELSE @,
               !.added = IF c.settled.remote = Null THEN {} ELSE @]

Settle(c) == [c EXCEPT !.signalingState = "stable",
                       !.settled = [local |-> c.local, remote |-> c.remote]]

Legal(c, op) ==
  CASE op.call = "createOffer" -> c.signalingState \in {"stable", "have-local-offer"}
    [] op.call = "createAnswer" -> c.signalingState = "have-remote-offer"
    [] op.call = "rollback" -> c.signalingState # "stable"
    [] op.call = "setLocal" ->
         IF op.arg.type = "offer" THEN c.signalingState \in {"stable", "have-local-offer"}
         ELSE c.signalingState = "have-remote-offer"
    [] op.call = "setRemote" ->
         op.arg.type = "offer" \/ c.signalingState = "have-local-offer"
    [] op.call \in {"addCandidate", "addQueued"} ->
         /\ c.remote # Null
         /\ c.remote.from = op.arg.from /\ c.remote.generation = op.arg.generation

\* setRemoteDescription(offer) rolls an own offer back by itself.
Applied(c, op) ==
  CASE op.call = "rollback" -> Rollback(c)
    [] op.call = "setLocal" ->
         IF op.arg.type = "offer"
         THEN [c EXCEPT !.signalingState = "have-local-offer", !.local = op.arg]
         ELSE Settle([c EXCEPT !.local = op.arg])
    [] op.call = "setRemote" ->
         IF op.arg.type = "answer" THEN Settle([c EXCEPT !.remote = op.arg])
         ELSE [IF c.signalingState = "have-local-offer" THEN Rollback(c) ELSE c
                 EXCEPT !.signalingState = "have-remote-offer", !.remote = op.arg]
    [] op.call \in {"addCandidate", "addQueued"} -> [c EXCEPT !.added = @ \cup {op.arg}]
    [] OTHER -> c

Closed(p) == pc[p].signalingState = "closed"

Call(name, arg) == [call |-> name, arg |-> arg]

\* The code makes one more call on p's connection.
Calls(p, op) == chain' = [chain EXCEPT ![p] = Append(@, op)]

\* The oldest call of p, named name, succeeds; the code behind it makes the calls ops.
Resolves(p, name, ops) ==
  /\ chain[p] # <<>>
  /\ Head(chain[p]).call = name
  /\ Legal(pc[p], Head(chain[p]))
  /\ pc' = [pc EXCEPT ![p] = Applied(@, Head(chain[p]))]
  /\ chain' = [chain EXCEPT ![p] = Tail(@) \o ops]

-----------------------------------------------------------------------------
(* Sending over the SignalingClient: each send throws unless the socket is *)
(* open, and the server drops what is for a peer that is gone.             *)

SendMessage(p, msg) ==
  toPeer' = IF online[p] /\ online[Other(p)] THEN [toPeer EXCEPT ![Other(p)] = Append(@, msg)]
            ELSE toPeer

SendErrors(p, codes) ==
  errors' = IF online[p] THEN [errors EXCEPT ![p] = @ \cup codes] ELSE errors

-----------------------------------------------------------------------------
Init ==
  /\ online = [p \in Peers |-> TRUE]
  /\ subscribed = [p \in Peers |-> TRUE]
  /\ toPeer = [p \in Peers |-> <<>>]
  /\ pc = [p \in Peers |-> Fresh]
  /\ chain = [p \in Peers |-> <<>>]
  /\ connectionState = [p \in Peers |-> "new"]
  /\ channelState = [p \in Peers |-> [c \in Channels |-> "none"]]
  /\ channel = [p \in Peers |-> [k \in Kinds |-> Null]]
  /\ ready = [p \in Peers |-> [k \in Kinds |-> FALSE]]
  /\ pendingIceCandidates = [p \in Peers |-> <<>>]
  /\ remoteDescriptionSet = [p \in Peers |-> FALSE]
  /\ initiations = [p \in Peers |-> 0]
  /\ renegotiations = 0
  /\ errors = [p \in Peers |-> {}]
  /\ disturbances = 0

-----------------------------------------------------------------------------
(* Calls of the application.                                               *)

TotalInitiations == initiations[CHOOSE p \in Peers : TRUE]
                      + initiations[Other(CHOOSE p \in Peers : TRUE)]

MoreEvents == TotalInitiations + disturbances < MaxEvents

Disturbs ==
  /\ MoreEvents
  /\ disturbances' = disturbances + 1

\* The application may call it on both sides, again, and on a connection that is ready.
InitiateConnection(p) ==
  LET created(k) == [by |-> p, n |-> initiations[p] + 1, kind |-> k]
  IN /\ ~Closed(p)
     /\ MoreEvents
     /\ initiations' = [initiations EXCEPT ![p] = @ + 1]
     /\ renegotiations' = IF remoteDescriptionSet[p] THEN renegotiations + 1 ELSE renegotiations
     /\ channel' = [channel EXCEPT ![p] = [k \in Kinds |-> created(k)]]
     /\ channelState' = [channelState EXCEPT ![p] =
          [c \in Channels |-> IF \E k \in Kinds : c = created(k) THEN "connecting" ELSE @[c]]]
     /\ Calls(p, Call("createOffer", Null))
     /\ UNCHANGED <<sessionVars, toPeer, pc, pendingIceCandidates, remoteDescriptionSet, errors,
                    connectionState, ready, disturbances>>

Close(p) ==
  /\ ~Closed(p)
  /\ Disturbs
  /\ ready' = [ready EXCEPT ![p] = [k \in Kinds |-> FALSE]]
  /\ subscribed' = [subscribed EXCEPT ![p] = FALSE]
  /\ pc' = [pc EXCEPT ![p].signalingState = "closed"]
  /\ chain' = [chain EXCEPT ![p] = <<>>]
  /\ connectionState' = [connectionState EXCEPT ![p] = "closed"]
  /\ channelState' = [channelState EXCEPT ![p] =
       [c \in Channels |-> IF @[c] = "none" THEN "none" ELSE "closed"]]
  /\ UNCHANGED <<online, toPeer, pendingIceCandidates, remoteDescriptionSet, errors, channel,
                 initiations, renegotiations>>

-----------------------------------------------------------------------------
(* Messages of the other peer.                                             *)

Receives(p, type) ==
  /\ toPeer[p] # <<>>
  /\ subscribed[p]
  /\ Head(toPeer[p]).type = type
  /\ toPeer' = [toPeer EXCEPT ![p] = Tail(@)]
  /\ UNCHANGED <<sessionVars, pc, remoteDescriptionSet, channelVars, countVars>>

\* Mutant: a glaring offer is rolled over like any other.
GlareNever(p) == FALSE

\* Mutant: an offer is taken for glare while any call is under way.
GlareWhenBusy(p) == pc[p].signalingState = "have-local-offer" \/ chain[p] # <<>>

Glare(p) == pc[p].signalingState = "have-local-offer"

\* handleOffer, up to its first await.
HandleOffer(p) ==
  LET offer == Head(toPeer[p])
  IN /\ Receives(p, "offer")
     /\ \/ /\ Glare(p)
           /\ SendErrors(p, {"GLARE_CONFLICT"})
           /\ UNCHANGED chain
        \/ /\ ~Glare(p)
           /\ Calls(p, Call(IF pc[p].signalingState = "stable" THEN "setRemote" ELSE "rollback",
                            offer))
           /\ UNCHANGED errors
     /\ UNCHANGED pendingIceCandidates

HandleAnswer(p) ==
  /\ Receives(p, "answer")
  /\ Calls(p, Call("setRemote", Head(toPeer[p])))
  /\ UNCHANGED <<pendingIceCandidates, errors>>

HandleIceCandidate(p) ==
  LET candidate == Head(toPeer[p])
  IN /\ Receives(p, "ice-candidate")
     /\ IF remoteDescriptionSet[p]
        THEN Calls(p, Call("addCandidate", candidate)) /\ UNCHANGED pendingIceCandidates
        ELSE /\ pendingIceCandidates' = [pendingIceCandidates EXCEPT ![p] = Append(@, candidate)]
             /\ UNCHANGED chain
     /\ UNCHANGED errors

\* The relay forwards between any two connected peers, and nobody compares the sender
\* with remotePeer.
StrangerSends(p) ==
  /\ online[p]
  /\ Disturbs
  /\ \E msg \in {OfferMessage(Stranger, 0), AnswerMessage(Stranger, 0)}
                 \cup {IceCandidateMessage(Stranger, 0, n) : n \in 1..MaxCandidates} :
       toPeer' = [toPeer EXCEPT ![p] = Append(@, msg)]
  /\ UNCHANGED <<sessionVars, pc, chain, pendingIceCandidates, remoteDescriptionSet, errors,
                 channelVars, initiations, renegotiations>>

\* Nobody listens after close(), or after the signaling socket was lost once.
Unheard(p) ==
  /\ toPeer[p] # <<>>
  /\ ~subscribed[p]
  /\ toPeer' = [toPeer EXCEPT ![p] = Tail(@)]
  /\ UNCHANGED <<sessionVars, pc, chain, pendingIceCandidates, remoteDescriptionSet, errors,
                 channelVars, countVars>>

-----------------------------------------------------------------------------
(* What the code does when its calls settle.                               *)

OfferCreated(p) ==
  /\ Resolves(p, "createOffer", <<Call("setLocal", OfferMessage(p, pc[p].generation))>>)
  /\ UNCHANGED <<sessionVars, toPeer, pendingIceCandidates, remoteDescriptionSet, errors,
                 channelVars, countVars>>

AnswerCreated(p) ==
  /\ Resolves(p, "createAnswer", <<Call("setLocal", AnswerMessage(p, pc[p].generation))>>)
  /\ UNCHANGED <<sessionVars, toPeer, pendingIceCandidates, remoteDescriptionSet, errors,
                 channelVars, countVars>>

\* sendOffer and sendAnswer.
LocalDescriptionSet(p) ==
  /\ Resolves(p, "setLocal", <<>>)
  /\ SendMessage(p, Head(chain[p]).arg)
  /\ UNCHANGED <<sessionVars, pendingIceCandidates, remoteDescriptionSet, errors, channelVars,
                 countVars>>

RolledBack(p) ==
  /\ Resolves(p, "rollback", <<Call("setRemote", Head(chain[p]).arg)>>)
  /\ UNCHANGED <<sessionVars, toPeer, pendingIceCandidates, remoteDescriptionSet, errors,
                 channelVars, countVars>>

\* Mutant: the queue is emptied and its candidates are not added.
DroppedPendingIceCandidates(p) == <<>>

\* flushPendingIceCandidates, its calls.
FlushPendingIceCandidates(p) ==
  [i \in DOMAIN pendingIceCandidates[p] |-> Call("addQueued", pendingIceCandidates[p][i])]

\* handleOffer goes on to the answer, handleAnswer is done.
RemoteDescriptionSet(p) ==
  /\ Resolves(p, "setRemote",
       FlushPendingIceCandidates(p)
         \o (IF Head(chain[p]).arg.type = "offer" THEN <<Call("createAnswer", Null)>> ELSE <<>>))
  /\ remoteDescriptionSet' = [remoteDescriptionSet EXCEPT ![p] = TRUE]
  /\ pendingIceCandidates' = [pendingIceCandidates EXCEPT ![p] = <<>>]
  /\ UNCHANGED <<sessionVars, toPeer, errors, channelVars, countVars>>

CandidateAdded(p) ==
  /\ \E name \in {"addCandidate", "addQueued"} : Resolves(p, name, <<>>)
  /\ UNCHANGED <<sessionVars, toPeer, pendingIceCandidates, remoteDescriptionSet, errors,
                 channelVars, countVars>>

\* The code a rejected call; an own offer, an answer and a queued candidate have none.
RejectionErrors(op) ==
  CASE op.call = "rollback" -> {"SIGNALING_STATE_CONFLICT"}
    [] op.call = "createAnswer" -> {"NEGOTIATION_FAILED"}
    [] op.call = "setLocal" /\ op.arg.type = "answer" -> {"NEGOTIATION_FAILED"}
    [] op.call = "addCandidate" -> {"ICE_CANDIDATE_FAILED"}
    [] OTHER -> {}

CallRejected(p) ==
  /\ chain[p] # <<>>
  /\ ~Legal(pc[p], Head(chain[p]))
  /\ chain' = [chain EXCEPT ![p] = Tail(@)]
  /\ SendErrors(p, RejectionErrors(Head(chain[p])))
  /\ UNCHANGED <<sessionVars, toPeer, pc, pendingIceCandidates, remoteDescriptionSet,
                 channelVars, countVars>>

-----------------------------------------------------------------------------
(* Events of the connection.                                               *)

\* Mutant: the event that ends the gathering is forwarded like the others.
ForwardsAlways(candidate) == TRUE

Forwards(candidate) == candidate # Null

\* onIceCandidate: a candidate, or none when the gathering is over.
OnIceCandidate(p) ==
  /\ ~Closed(p) /\ pc[p].local # Null
  /\ LET more == pc[p].gathered < MaxCandidates
         candidate == IF more THEN IceCandidateMessage(p, pc[p].generation, pc[p].gathered + 1)
                      ELSE Null
     IN /\ pc' = [pc EXCEPT ![p].gathered = IF more THEN @ + 1 ELSE @]
        /\ IF Forwards(candidate) THEN SendMessage(p, candidate) ELSE UNCHANGED toPeer
  /\ UNCHANGED <<sessionVars, chain, pendingIceCandidates, remoteDescriptionSet, errors,
                 channelVars, countVars>>

\* One offer, one answer, and each peer has the other's.
Paired(p) ==
  /\ {pc[p].local, pc[Other(p)].local} \cap {Null} = {}
  /\ pc[p].local = pc[Other(p)].remote
  /\ pc[p].remote = pc[Other(p)].local
  /\ pc[p].local.type # pc[p].remote.type

Stable(p) == pc[p].signalingState = "stable"

\* p's last negotiation that was completed took the other's present credentials.
Matched(p) ==
  LET remote == pc[p].settled.remote
      others == pc[Other(p)].settled.local
  IN remote # Null /\ others # Null /\ remote.from = Other(p)
       /\ remote.generation = others.generation

\* onconnectionstatechange does nothing for "connected".
Connected(p) ==
  /\ \/ connectionState[p] = "disconnected"
     \/ /\ connectionState[p] = "new"
        /\ \A q \in Peers : Matched(q)
        /\ \E q \in Peers : pc[q].added # {}
  /\ connectionState[Other(p)] # "closed"
  /\ connectionState' = [connectionState EXCEPT ![p] = "connected"]
  /\ UNCHANGED <<sessionVars, negotiationVars, channelState, channel, ready, countVars>>

\* The path is lost, or the other peer has gone.
Disconnected(p) ==
  /\ connectionState[p] = "connected"
  /\ Disturbs
  /\ connectionState' = [connectionState EXCEPT ![p] = "disconnected"]
  /\ ready' = [ready EXCEPT ![p] = [k \in Kinds |-> FALSE]]
  /\ UNCHANGED <<sessionVars, negotiationVars, channelState, channel, initiations,
                 renegotiations>>

\* Both state change handlers report it.
Failed(p) ==
  /\ connectionState[p] = "disconnected"
  /\ connectionState' = [connectionState EXCEPT ![p] = "failed"]
  /\ SendErrors(p, {"CONNECTION_FAILED", "ICE_CONNECTION_FAILED"})
  /\ UNCHANGED <<sessionVars, toPeer, pc, chain, pendingIceCandidates, remoteDescriptionSet,
                 channelState, channel, ready, countVars>>

\* The channels p has made and not yet seen open or closed.
Connecting(p) == {c \in Channels : channelState[p][c] = "connecting"}

\* Mutant: every channel that opens sets the flag of the control channel.
ReadyAfterOpenControl(p, opened) ==
  [k \in Kinds |-> ready[p][k] \/ (k = "control" /\ opened # {})]

\* onopen.
ReadyAfterOpen(p, opened) ==
  [k \in Kinds |-> ready[p][k] \/ \E c \in opened : c.kind = k]

\* The transport is up: all channels p has made open.
ChannelsOpen(p) ==
  /\ \A q \in Peers : connectionState[q] = "connected"
  /\ Connecting(p) # {}
  /\ channelState' = [channelState EXCEPT ![p] =
       [c \in Channels |-> IF c \in Connecting(p) THEN "open" ELSE @[c]]]
  /\ ready' = [ready EXCEPT ![p] = ReadyAfterOpen(p, Connecting(p))]
  /\ UNCHANGED <<sessionVars, negotiationVars, connectionState, channel, countVars>>

\* ondatachannel and then onopen of a channel the other peer has made.
OnDataChannel(p, c) ==
  /\ \A q \in Peers : connectionState[q] = "connected"
  /\ c.by # p /\ channelState[p][c] = "none"
  /\ channelState[c.by][c] = "open"
  /\ channel' = [channel EXCEPT ![p][c.kind] = c]
  /\ channelState' = [channelState EXCEPT ![p][c] = "open"]
  /\ ready' = [ready EXCEPT ![p] = ReadyAfterOpen(p, {c})]
  /\ UNCHANGED <<sessionVars, negotiationVars, connectionState, countVars>>

Closable(p) == {c \in Channels : channelState[p][c] \in {"connecting", "open"}}

\* Mutant: onclose leaves the flag as it is.
ReadyAfterCloseKept(p, closed) == ready[p]

\* onclose.
ReadyAfterClose(p, closed) ==
  [k \in Kinds |-> ready[p][k] /\ ~\E c \in closed : c.kind = k]

\* The transport is gone, and with it all channels.
ChannelsClose(p) ==
  /\ Closed(Other(p)) \/ connectionState[p] = "failed"
  /\ Closable(p) # {}
  /\ channelState' = [channelState EXCEPT ![p] =
       [c \in Channels |-> IF c \in Closable(p) THEN "closed" ELSE @[c]]]
  /\ ready' = [ready EXCEPT ![p] = ReadyAfterClose(p, Closable(p))]
  /\ UNCHANGED <<sessionVars, negotiationVars, connectionState, channel, countVars>>

-----------------------------------------------------------------------------
(* The signaling socket is lost: SignalingClient clears all listeners, and *)
(* a later connect() does not bring those of the connection back.          *)

LoseSignaling(p) ==
  /\ online[p]
  /\ Disturbs
  /\ online' = [online EXCEPT ![p] = FALSE]
  /\ subscribed' = [subscribed EXCEPT ![p] = FALSE]
  /\ toPeer' = [toPeer EXCEPT ![p] = <<>>]
  /\ UNCHANGED <<pc, chain, pendingIceCandidates, remoteDescriptionSet, errors, channelVars,
                 initiations, renegotiations>>

ReturnToSignaling(p) ==
  /\ ~online[p]
  /\ online' = [online EXCEPT ![p] = TRUE]
  /\ UNCHANGED <<subscribed, negotiationVars, channelVars, countVars>>

-----------------------------------------------------------------------------
Settles(p) ==
  \/ OfferCreated(p) \/ AnswerCreated(p) \/ LocalDescriptionSet(p) \/ RolledBack(p)
  \/ RemoteDescriptionSet(p) \/ CandidateAdded(p) \/ CallRejected(p)

Delivery(p) == HandleOffer(p) \/ HandleAnswer(p) \/ HandleIceCandidate(p) \/ Unheard(p)

Next ==
  \E p \in Peers :
    \/ InitiateConnection(p) \/ Close(p)
    \/ Delivery(p) \/ Settles(p) \/ OnIceCandidate(p)
    \/ Connected(p) \/ Disconnected(p) \/ Failed(p)
    \/ ChannelsOpen(p) \/ (\E c \in Channels : OnDataChannel(p, c)) \/ ChannelsClose(p)
    \/ LoseSignaling(p) \/ ReturnToSignaling(p) \/ StrangerSends(p)

\* What the browser and the relay do at p by themselves.
Progress(p) ==
  \/ Settles(p) \/ Delivery(p) \/ OnIceCandidate(p)
  \/ Connected(p) \/ ChannelsOpen(p) \/ \E c \in Channels : OnDataChannel(p, c)

\* As long as the browser or the relay has something to do at a peer, it does some of it:
\* settles a call, delivers what was taken, gathers, connects or opens channels.
Fairness == \A p \in Peers : WF_vars(Progress(p))

Spec == Init /\ [][Next]_vars /\ Fairness

-----------------------------------------------------------------------------
(* Properties.                                                             *)

Senders == Peers \cup {Stranger}
Descriptions == [type : {"offer", "answer"}, from : Senders, generation : Nat]
Candidates ==
  [type : {"ice-candidate"}, from : Senders, generation : Nat, n : 1..MaxCandidates]
ASSUME NullIsNoMessage == Null \notin Descriptions \cup Candidates

MaybeDescription == Descriptions \cup {Null}
Connection ==
  [signalingState : {"stable", "have-local-offer", "have-remote-offer", "closed"},
   local : MaybeDescription, remote : MaybeDescription,
   settled : [local : MaybeDescription, remote : MaybeDescription],
   generation : Nat, gathered : 0..MaxCandidates, added : SUBSET Candidates]

CallsMade ==
  [call : {"createOffer", "createAnswer"}, arg : {Null}]
    \cup [call : {"setLocal", "setRemote", "rollback"}, arg : Descriptions]
    \cup [call : {"addCandidate", "addQueued"}, arg : Candidates]

\* Types of the fields of WebRTCConnection, of the arguments its calls have when they
\* settle, and of what the relay carries: only descriptions and real candidates are sent
\* (onIceCandidate).
NegotiationTypeOK ==
  /\ {online, subscribed, remoteDescriptionSet} \subseteq [Peers -> BOOLEAN]
  /\ toPeer \in [Peers -> Seq(Descriptions \cup Candidates)]
  /\ pc \in [Peers -> Connection]
  /\ chain \in [Peers -> Seq(CallsMade)]
  /\ connectionState \in
       [Peers -> {"new", "connected", "disconnected", "failed", "closed"}]
  /\ channelState \in [Peers -> [Channels -> {"none", "connecting", "open", "closed"}]]
  /\ channel \in [Peers -> [Kinds -> Channels \cup {Null}]]
  /\ ready \in [Peers -> [Kinds -> BOOLEAN]]
  /\ pendingIceCandidates \in [Peers -> Seq(Candidates)]
  /\ initiations \in [Peers -> 0..MaxEvents]
  /\ renegotiations \in Nat
  /\ errors \in [Peers -> SUBSET ErrorCodes]
  /\ disturbances \in 0..MaxEvents

Quiet == \A p \in Peers : chain[p] = <<>> /\ toPeer[p] = <<>>

Undisturbed == disturbances = 0

\* initiateConnection was called by peers without a remote description only.
FirstNegotiation == renegotiations = 0

\* When everything sent has been handled, two peers in the stable state that have a
\* remote description hold one offer and one answer, each the other's, whatever the
\* order of initiateConnection, offers, answers and rollbacks (handleOffer, handleAnswer),
\* in the first negotiation: while no initiateConnection is called on top of a remote
\* description.  What is compared is the type, the sender and the credentials; two offers
\* of a peer with the same credentials are one.
Agreement ==
  Quiet /\ Undisturbed /\ FirstNegotiation
    /\ (\A p \in Peers : Stable(p) /\ remoteDescriptionSet[p])
    => \A p \in Peers : Paired(p)

\* At rest, stable peers with a remote description hold each other's ICE credentials, also
\* when initiateConnection was called at any other time: while the peer answers, while its
\* offer waits, or on a connection that is ready (initiateConnection has no guard).
CredentialsAgree ==
  Quiet /\ Undisturbed /\ (\A p \in Peers : Stable(p) /\ remoteDescriptionSet[p])
    => \A p \in Peers : Matched(p)

\* No candidate is lost on the way into the connection: those that come before the
\* remote description wait in pendingIceCandidates, and once the peers agree the browser
\* has every candidate of the other's credentials (handleIceCandidate, the flush).
\* A peer that calls initiateConnection twice can lose one.
CandidatesArrive ==
  Quiet /\ Undisturbed /\ (\A p \in Peers : Stable(p) /\ Paired(p) /\ initiations[p] <= 1)
    => \A p \in Peers : \A n \in 1..pc[p].gathered :
         IceCandidateMessage(p, pc[p].generation, n) \in pc[Other(p)].added

\* The first negotiation comes to rest without an agreement only when both peers have
\* refused the other's offer as glare (handleOffer).
StuckOnlyByGlare ==
  Quiet /\ Undisturbed /\ FirstNegotiation /\ TotalInitiations > 0
    => \/ \A p \in Peers : Stable(p) /\ Paired(p)
       \/ \A p \in Peers : "GLARE_CONFLICT" \in errors[p]

\* Whenever initiateConnection is called, peers at rest are stable with each other's
\* credentials unless one of them has refused an offer.  One refusal is enough then: an
\* offer that comes while the answer to one's own is being applied is refused by one side
\* only, and the other waits for good (handleOffer).
StuckOnlyByRefusal ==
  Quiet /\ Undisturbed /\ TotalInitiations > 0
    => \/ \A p \in Peers : Stable(p) /\ Matched(p)
       \/ \E p \in Peers : "GLARE_CONFLICT" \in errors[p]

\* A flag of isReady is never set without an open channel behind it that sendData or
\* sendControl would use, through closes, failures and the exchange of the channel by
\* ondatachannel.  The one exception: initiateConnection called again, or on top of a
\* remote description, puts its own connecting channels in the place of open ones.
ReadyHonest ==
  \A p \in Peers, k \in Kinds :
    ready[p][k] =>
      /\ channel[p][k] # Null
      /\ \/ channelState[p][channel[p][k]] = "open"
         \/ /\ channelState[p][channel[p][k]] = "connecting"
            /\ channel[p][k].by = p
            /\ initiations[p] > 1 \/ ~FirstNegotiation

IsReady(p) == \A k \in Kinds : ready[p][k]

\* Handles glare: simultaneous offers do not leave both peers with an offer that
\* nobody will answer (the comment on handleOffer).
GlareHandled ==
  ~(Quiet /\ Undisturbed /\ \A p \in Peers : pc[p].signalingState = "have-local-offer")

\* One initiateConnection that nothing disturbs makes both connections ready.
Connects ==
  TotalInitiations = 1
    ~> (\A p \in Peers : IsReady(p)) \/ ~Undisturbed \/ TotalInitiations > 1
=============================================================================
