# Riftsend: formal models, model checks and proofs

Riftsend sends files between two browsers over WebRTC.  A signaling server
(`apps/signaling`) introduces the browsers to each other; a shared protocol package
(`packages/protocol`, `packages/shared`) fixes messages and ids; the web application
(`apps/web`) has a signaling client, a WebRTC connection class and a first file transfer
skeleton.  This directory models the code that decides who is connected to whom, and the
algorithms around it whose result is hard to see from the code.

Paths below are relative to the repository root.

## The system

### Components, their state and operations

| Component | Code | State | Operations |
|---|---|---|---|
| Connections and guards | `apps/signaling/src/index.ts`, `utils.ts` | `wss.clients`, per socket `readyState`, `isAlive`, `authenticated`, the authentication timer, the rate-limit entry; the heartbeat interval | connection, message dispatch, pong, close, heartbeat, authentication timeout, rate check, `stop()` |
| Hello, registries | `handlers/hello.ts`, `peer.ts` | `ws.peerId`, `ws.sessionToken`, `peerMap`, `sessionMap` | fresh hello, session resumption, removal on close |
| Rooms | `handlers/rooms.ts` | `rooms`, `joinCodeToRoomId`, `roomTimers`, `ws.roomId` | create, join by id, join by code, leave, expiry, cleanup, notifications |
| Relay | `handlers/relay.ts` | none | forward offer, answer, ICE candidate, peer error |
| Ids and codes | `packages/shared/src/room.ts`, `peerId.ts`, `sessionToken.ts`, `crypto.ts` | none | random ids, tokens and join codes |
| Messages | `packages/protocol/src/messages.ts` | none | schemas; a message that fails one is dropped |
| SignalingClient | `apps/web/src/signaling/SignalingClient.ts` | `ws`, `peerId`, `sessionToken`, `room`, `listeners` | connect, disconnect, join, leave, sends, incoming messages, socket events |
| WebRTCConnection | `apps/web/src/webrtc/WebRTCConnection.ts` | peer connection, channels, readiness flags, `pendingIceCandidates`, `remoteDescriptionSet` | offer, answer, candidates, close, channel and connection events |
| FileTransferManager | `apps/web/src/transfer/FileTransferManager.ts` | handlers | one read, one send |
| Configuration | `apps/signaling/src/config.ts` | constants | `toPositiveInt` |
| Discovery overlay | `apps/web/src/app/components/DiscoveryPeersOverlay.tsx` | `viewportSize`, `anchorRect` | measure, place a card for each peer |
| Web pages | the rest of `apps/web/src/app` | UI state | layout, theme, animation; not connected to the classes above yet |
| Test client | `apps/signaling/src/test-utils/testClient.ts` | `received`, `listeners`, the close promise | connect, receive, wait, close |

### How they interact

The server runs in one Node event loop: a handler or timer callback runs to its end before
the next one starts, so handlers interleave only as wholes.  The parts share module-level
maps and the fields of the socket objects: `hello.ts` fills `peerMap` and `sessionMap`;
`rooms.ts` and `relay.ts` look sockets up in `peerMap`; the close handler of `index.ts`
empties the registries and calls `removePeerFromRoom`.  The fields of a socket outlive its
registry entries: a socket that has been replaced by a resumption keeps `peerId`,
`sessionToken` and `roomId` until and beyond its close event.  A client and the server
exchange messages over one WebSocket (ordered, lost only with the connection); two clients
negotiate WebRTC through the relay.

### What is hard

* The close event of a socket comes an arbitrary time after `close()`.  In between, frames on
  their way are still handled, the socket is still found by the session search in `hello.ts`,
  and another socket may have taken over its peer id.
* `ws.roomId` and `room.members` say the same thing twice; resumption, expiry, a second join
  and the close event update them separately.
* Rooms disappear in three ways (last leaver, close event, timer); each must clean up the
  room, its code and its timer and tell whoever is left.
* Join codes may collide; room ids, peer ids and tokens (12 random bytes and more) may not.
* The authentication timeout, the heartbeat and the rate window are clocks that race with the
  peer's messages.
* On the client: reconnects while events of the old socket are still to come, and the
  `await`s of the WebRTC negotiation: two peers may start it at once, twice, or while it runs,
  candidates come before there is a description to add them to, a message comes between two
  `await`s, or is one of a third peer.
* Away from the network: random bytes that are rejected and refilled, a placement that relaxes
  its own rule while it searches, a buffer that competes with the calls waiting for it.

What makes each component correct, and the line at which it may go wrong, is the list of
`hazards` in `PROJECT.json`; each names the properties below that cover it, or says why none
does.

## Modules

| Module | Models | 
|---|---|
| `SignalingServer` | The whole of the server's shared state: sockets, registries, rooms, codes, timers, messages sent.  One action per handler. |
| `RoomDirectory` | Abstract specification: rooms open, are entered and left, expire, are never reused and never hold more than `MaxPeers`. |
| `MCSignalingServer` | `SignalingServer` for TLC: symmetry and view. |
| `ConnectionGuard` | The clocks around one connection: authentication timeout, heartbeat, rate limiter. |
| `SignalingClient` | The web application's `SignalingClient` objects and the browser sockets they create. |
| `ClientServer` | Several clients composed with an instance of `SignalingServer`, over one ordered channel each way per socket. |
| `MCClientServer` | `ClientServer` for TLC: symmetry, view, a bound. |
| `WebRTCNegotiation` | Two `WebRTCConnection` objects, their browsers and the relay between them. |
| `JoinCode` | `generateJoinCode`: rejection sampling from a pool of random bytes. |
| `PeerPlacement` | The placement of peer cards in `DiscoveryPeersOverlay`. |
| `TestClient` | The server tests' client: message buffer and waiting calls. |
| `MCStandalone` | `ConnectionGuard` and the last three for TLC, in one run. |
| `SignalingServerProofs`, `ConnectionGuardProofs`, `ClientServerProofs`, `WebRTCNegotiationProofs`, `JoinCodeProofs`, `PeerPlacementProofs`, `TestClientProofs` | The theorems about the module each is named after. |
| `WebRTCAgreementProofs` | What an undisturbed negotiation comes to, and where its candidates are; extends `WebRTCNegotiationProofs`. |

### SignalingServer

A `Map` of the code is a function whose value is `Null` where there is no entry.

| Variable | Code |
|---|---|
| `readyState` | the state of each socket; `"rejected"` is a socket closed by the connection cap, to which no handler was attached |
| `peerId`, `sessionToken`, `roomId` | the fields of the socket object |
| `peerMap`, `sessionMap` | `peer.ts` |
| `rooms`, `joinCodeToRoomId`, `roomTimers` | `handlers/rooms.ts`; a room is its join code, host and members |
| `issued` | the ids and tokens generated so far: a random one is never drawn twice (join codes may be) |
| `stopped` | `stop()` has been called |
| `sent` | what the last handler sent to each socket; `safeSend` drops what goes to a socket that is not open |

| Action | Code |
|---|---|
| `Connect` | `index.ts` connection handler; over the cap the socket is closed at once |
| `BeginClose` | whatever makes an open socket start to close: the peer, the network, heartbeat, timeout, rate, invalid JSON, a message before hello, a forged `from`, an exception |
| `HelloFresh`, `HelloResume` | `hello.ts`; the second for each socket of `wss.clients` whose id and token the hello carries, closing ones included |
| `CreateRoom`, `CreateCollides` | `handleJoinRoomMessage` with method `create`: `createRoom`, then the join of the creator; the only action with `ScheduleRoomExpiration` |
| `JoinById`, `JoinByCode` | `handleJoinRoom` and `addPeerToRoom`, with their refusals |
| `LeaveRoom`, `LeaveRefused` | `handleLeaveRoomMessage` and `removePeerFromRoom` |
| `ExpireRoom` | `handleRoomExpiration` |
| `Relay` | `handleRelayMessage` |
| `Close` | the close event: registries, then `removePeerFromRoom` |
| `Stop` | `stop()` |

Message actions need a socket that is open *or closing*: the code does not look at
`readyState` before it handles a message.

Abstractions: times and the clock of room expiry (a pending timer may fire at any time),
names, platforms and versions, roles (written by `handleJoinRoom`, read nowhere), logging.
Creating a room inlines the join of its creator, which cannot be refused: the room was empty
and has room for one.

### ConnectionGuard

Time is a tick counter.  `Message` runs the rate check first and then one of four outcomes
(`hello`, a message without effect on the connection, a message of an unauthenticated peer,
invalid JSON); `Beat` is the heartbeat callback; `Pong` the pong handler; `AuthTimeoutFires`
the authentication timer; `PeerVanishes` a peer that sends nothing more, not even a FIN.
`recent` and `silence` are history variables for the properties: `recent[a]` counts the messages
let through in the current tick and the `a` ticks before it, so the count of a whole window
(`Throughput`) is one of its entries and no sum.  The model has one connection
because neither flag, timer nor rate entry is shared between connections.

### SignalingClient and ClientServer

`ws`, `myPeerId`, `myToken`, `myRoom` and `listeners` are the private fields of each object
(`listeners` only says whether there are any); `owner`, `wsState`, `handlers` and `resume`
belong to the browser's sockets: who created them, their `readyState`, whether their handlers
are still attached, and the credentials their `onopen` will send.  `Connect`, `Disconnect`,
`SendJoinRoom`, `SendLeaveRoom` and `SendRelay` are the public methods, `OnOpen`, `OnMessage`
and `SocketCloses` the socket events.  `onclose` emits `disconnected` before it clears the
listeners and `ws`, so a close event has two forms: `OnClose`, and `OnCloseReconnecting`, in which
the handler of `disconnected` calls `connect()` and the rest of the event undoes what that has
put into the object, but not the new socket.  A call that the code drops or rejects because the socket is
not open changes nothing and is left out.

`ClientServer` takes each server action of `SignalingServer` as it is: `Receive` picks the
action that the first frame of a socket's channel calls for, `Deliver` appends what the
handler has put into `sent` to the channels to the clients, and `Accept`, `NoticeGone` and
`ServerClosed` are the socket events on the server's side.  A connection lost or closed by
the server for a reason of its own (heartbeat, rate) reaches the client as `OnClose` and the
server as `NoticeGone`.  `stop()` is not composed.

Three constants say how careful the application around the client is, because the class leaves
it open.  `ReconnectsPromptly`: it calls `connect()` after `disconnect()` without waiting for
the close event.  `ReconnectsInHandler`: it calls `connect()` in its handler of `disconnected`.
An application that does neither is *patient* (`Patient`): an earlier socket whose handlers are
attached has had its close event, and the event is over, when `connect()` is called.
`SwitchesRooms`: it sends a join while in a room, or before the answer to the last join or leave.
The passing run has all `FALSE`; the violations `client_hello`, `client_handler` and
`client_view` set one `TRUE` each.

### WebRTCNegotiation

| Variable | Code |
|---|---|
| `pc` | the browser's `RTCPeerConnection`: signaling state, descriptions now and at the last stable state, ICE generation, candidates gathered and added |
| `chain` | the calls the code has made on it that have not settled; the browser runs them one after the other |
| `connectionState`, `channelState` | `pc.connectionState` and the `readyState` of each channel, at each peer |
| `channel`, `ready` | `dataChannel`, `controlChannel`, `dataReady`, `controlReady` |
| `pendingIceCandidates`, `remoteDescriptionSet` | the fields of that name |
| `toPeer` | messages the relay has taken for each peer, in order |
| `online`, `subscribed` | the peer's signaling socket is open; its three listeners are registered |
| `errors` | codes of the `peer-error` messages sent |

| Action | Code |
|---|---|
| `InitiateConnection`, `Close` | the public methods, at any time until `close()` |
| `HandleOffer`, `HandleAnswer`, `HandleIceCandidate` | the handlers up to their first `await`, that is, up to the call they put on `chain` |
| `OfferCreated`, `AnswerCreated`, `LocalDescriptionSet`, `RolledBack`, `RemoteDescriptionSet`, `CandidateAdded` | a call settles, with the code behind its `await`: the next call, `sendOffer`, `sendAnswer`, the flush of the queue |
| `CallRejected` | the `catch` blocks and their `peer-error` |
| `OnIceCandidate`, `Connected`, `Disconnected`, `Failed`, `ChannelsOpen`, `OnDataChannel`, `ChannelsClose` | events of the connection and its channels |
| `StrangerSends` | a message of a third peer: the relay forwards it, `handleMessage` drops its `from`, and the listeners take it |
| `LoseSignaling`, `ReturnToSignaling`, `Unheard` | the `SignalingClient` below: a lost socket clears its listeners, a reconnect does not bring them back |

A step is what runs between two `await`s, so another message, an event or a call of the
application comes between any two of them.  The browser (`Legal`, `Applied`, `Rollback`) is
modelled from what the code relies on: which call is legal in which signaling state,
`setRemoteDescription(offer)` that rolls an own offer back, a candidate that can be added only
to the description of its own sender and generation.  A description is its type, its sender and
its ICE generation; there is no SDP text, so two offers that a peer makes with the same
credentials, as a repeated or late `initiateConnection` does, compare equal.  `renegotiations`
counts the calls of `initiateConnection` made on top of a remote description; while there are
none it is the first negotiation (`FirstNegotiation`).  `disturbances` counts what the two
peers' negotiation is not answerable for: `close()`, lost sockets and paths, messages of a third peer.  A `peer-error` is recorded and not delivered, because
`SignalingClient.handleMessage` has no case for it.

### JoinCode, PeerPlacement, TestClient

`JoinCode` has one action, a turn of the loop of `generateJoinCode`: it refills the pool when
it is used up and accepts or rejects a byte.  A byte past the end of the pool would be
`undefined`, which compares as no number.  Each character remembers the byte it came from.

`PeerPlacement` has `UpdateMetrics` (mount and resize, which start the placement over),
`TryCandidate` (one attempt of `createPeerPlacements`: a position that passes all tests and
scores better becomes the best one) and `EndPeer` (the card is placed, or the peer left out).
All distances are the source's; the seeded generator is replaced by any of `Grain` positions
per range, and a distance threshold that is not an integer by the integer that decides the
same comparisons.

`TestClient` has the three ways `connect()` ends, `MessageArrives`, `AsksFor` (`receive`,
`receiveExactly`, `waitForMessage`), `ExpectClose`, the timers, and both ways to close.  The
listeners of the code's `EventEmitter` are a set of calls, each with its own key.  A call
remembers which message it got and when (`settled`); predicates are one bit of each message.

## Runs

| Run | Expects | What it shows |
|---|---|---|
| `server` | pass | Registries lead to the right sockets (`RegistriesFaithful`), open sessions stay filed (`OpenSessionsRegistered`), `ws.roomId` and membership agree (`RoomIdsAgree`, `SoleDelegate`), rooms keep their size (`RoomSizes`), timers match rooms (`TimersMatchRooms`), every change is announced to every reachable member (`ChangesAnnounced`), the rooms implement `RoomDirectory` (`ImplementsDirectory`). |
| `codes` | pass | With two codes and two rooms a code that is found leads to a live room with that code (`JoinCodesResolve`); the cap is never exceeded (`ConnectionCap`). |
| `client` | pass | With a patient application: the hello is the first and only hello of a connection (`HelloFirst`); credentials are those of the open session after any reconnect (`CredentialsCurrent`); only the current socket changes a client, and no other one takes it away (`OneVoice`, `CurrentKept`); on its first connection a client that stays in one room knows its members (`ViewFollowsServer`). |
| `client_hello` | violation | The close event of a disconnected socket takes the next one away: it opens and says no hello. |
| `client_handler` | violation | A `connect()` in the handler of `disconnected` is undone by the same close event: its socket opens and says no hello. |
| `client_view` | violation | A client in a second room lists the peer that joins the first one there. |
| `ghost_member` | violation | A peer that joins or creates a second room stays in the first for good. |
| `resumed_room` | violation | A resumed session loses its room when the old socket's close event comes, and is not told. |
| `unreachable_peer` | violation | Two resumptions with one token leave two open sockets for a peer; when the second closes nobody finds the first. |
| `webrtc` | pass | When all is said and done, stable peers hold each other's credentials (`CredentialsAgree`), and in the first negotiation one offer and one answer (`Agreement`), with all candidates (`CandidatesArrive`); otherwise an offer was refused (`StuckOnlyByRefusal`), in the first negotiation by both (`StuckOnlyByGlare`); a readiness flag has an open channel behind it, or one of a later own call (`ReadyHonest`); one undisturbed initiator makes both ready (`Connects`). |
| `webrtc_glare` | violation | Two initiators refuse each other's offer and keep their own, which nobody will answer. |
| `standalone` | pass | Join codes are unbiased and no random byte serves twice (`Unbiased`, `CharsIndependent`); cards keep their gaps, spread and stay in place through resizes (`CardsApart`, `CardsSpread`, `CardsInPlace`); no call of the test client waits for what has come, no buffered message is returned twice, and calls made in turn are answered in order (`NoneWaitsInVain`, `BufferServesOnce`, `MessagesInOrder`).  No connection is terminated before it was silent for a whole interval (`NoEarlyTermination`); at most two windows' worth of messages get through in any window's time (`RateBoundedTwice`); unauthenticated connections and vanished peers go away (`UnauthenticatedGoes`, `GonePeerGoes`). |

The seven violations are disagreements between the code and its own documentation; they are
quoted under `findings`.

### Bounds

* `server`: three sockets, peers and tokens, two rooms, one code.  Three sockets are what a
  replaced session needs (the old socket, the one that took over, and either a third one that
  also resumes or another member of the room); two rooms of two places with three peers make
  full rooms, second joins and expiry of the other room possible; with a single code every
  second room collides.  Ids are never drawn twice, so the supply bounds the run: it ends when
  every socket is closed.  That is why deadlock is not checked in the server's runs.
* `codes`: two codes and `MaxConnections = 2` with three sockets; two peers suffice for two
  rooms.
* `client`: two users and two sockets, which one user may both use (a reconnect, a resumption,
  an old socket beside a new one) or each user one (a shared room); one room, one code, three
  requests in all (`MaxRequests`): create, join and leave.  Requests are bounded, connections
  are by the number of sockets, so deadlock is not checked.  `client_view` has two rooms and
  leaves out states in which a connection ends (`NobodyGoes`), to be small.

* `webrtc`: two peers, one candidate for each generation (a rollback starts a new one), and two
  events in all (`MaxEvents`), each a call of `initiateConnection` or a disturbance.  Two calls are
  one side twice or both: glare, a second offer during the first answer, the answerer's own call
  while it answers or when the connection is ready.  One call and one disturbance put a `close()`,
  a lost signaling socket, a lost path or any message of a third peer at every point of a
  negotiation.  The invariants were also checked with three events, which takes 5.7 million states
  and is too slow for a routine run; they hold.  The system stops when all has been said, so
  deadlock is not checked; `StuckOnlyByRefusal` says how it may stop.
* `client_handler`, `client_hello`: as `client`, with one of the constants of the application `TRUE`.
* `standalone`: bytes of three bits with alphabets of 1, 3, 5 and 8 characters (those that divide
  the number of bytes and those that do not, as 24 and 32 characters do with 256), a pool that
  is used up in the middle of a code, two fills; three peers of which two go to the edge, two
  layouts (one with room on all sides of the role card, one with room above it only, for a
  resize between them), three attempts at the edge and two on the page, three positions per range;
  two types of messages, two messages, three calls.  For the guard, timeouts of two or three
  ticks: the authentication timeout is longer than one heartbeat and shorter than two, so either may
  come first; the window is longer than a beat; three messages per window.  `count`, `silence` and
  the timers are capped at the value from which nothing changes.  The four components share no
  variable, so a behaviour of the run is one of a single component (`part`) and the state
  spaces add up instead of multiplying; three of them end, so deadlock is not checked.

Symmetry is used for invariants and action properties of the server and its clients only, never for
liveness.  The view leaves out `sent`, which no handler reads.

### Fairness

`SignalingServer` and `ClientServer` have only safety properties and no fairness.  `ConnectionGuard` assumes weak
fairness of the clock, of due timers, of the heartbeat and of the completion of a close: Node
runs due timers, and `ws` ends a close handshake with its own timeout or destroys the socket
on `terminate()`.  Nothing is assumed of the peer.

`WebRTCNegotiation` assumes, for each peer, weak fairness of what the browser and the relay do
there by themselves (`Progress`): as long as a call can settle, a message taken by the relay can be
delivered, a candidate can be gathered, or a path or channel can come up at a peer, one of these
happens.  Which one is left open; they run out, so all happen in the end.  Nothing is assumed of
the application, and a disturbance ends the obligation.

### Mutants

Next to a definition there may be one marked *Mutant*: the definition with a plausible bug
(an off-by-one, a forgotten timer, a check dropped).  No specification uses them; each shows,
put in the place of the original, that a property of a passing run notices the bug.

## Proofs

Each theorem holds for every value of the constants that meets the stated assumptions.  All
follow the same plan: an inductive invariant, in named parts, with one lemma per action or
group of actions.  Where TLC can evaluate a strengthening, it was checked as an invariant on the
small instance of its module first.

### The server

`SignalingServerProofs`, for every number of sockets, peers, tokens, rooms and join codes, and
every `MaxPeers` and `MaxConnections`: `TypeCorrect`, `RegistriesStayFaithful`,
`OpenSessionsStayRegistered`, `RoomIdsAlwaysAgree`, `AlwaysSoleDelegate`, `RoomSizesHold`,
`JoinCodesAlwaysResolve`, `TimersAlwaysMatch`, `ConnectionCapHolds`: each is `Spec => []P` for
an invariant `P` of the runs; `ChangesAreAnnounced`, the action property `ChangesAnnounced`;
`DirectoryImplemented`: the server implements `RoomDirectory`; and `LoneSocketsFound`: a peer
that has one socket, open or closing, is found in `peerMap`.

Assumptions: `Null` is none of the other values, room ids differ from peer ids and tokens
(their prefixes), `MaxPeers` is a positive natural, `MaxConnections` a natural, and the set of
sockets is finite (a process has finitely many; `wss.clients.size` is a number only then).

* `SessionInv` adds to the registry properties that a token belongs to at most one socket and
  was issued (`TokensOwned`).  Without it the token of a fresh session could be one that
  another open socket already has, and filing it would evict that socket.
* `RoomInv` adds that rooms in use, in `ws.roomId` too, were issued (`RoomIdsIssued`): a new
  room would otherwise be entered by a socket that remembers its id from before; and that
  member sets are finite (`MembersFinite`), without which their cardinality says nothing.
  `RoomIdsAgree` and `SoleDelegate` need each other: when a socket leaves a room on behalf of
  a peer, no other socket may still name the room for that peer.  `JoinCodesResolve` is
  inductive by itself only because the cleanup of a room deletes the mapping of its code
  whoever owns it by then.

`NextChanges` first reduces each action to the room variables it changes, so that the proof
of `RoomInv` has one lemma per kind of change (join, create, leave, expiry, stop), shared by
all actions of that kind.  The refinement maps `used` to the room ids issued and `occupants`
to the members; creation is `Open`, a successful join `Enter`, leave and close `Exit`, expiry
`Expire`, everything else a stutter.

`ChangesAreAnnounced` looks at one step (`StepAnnounces`): of the room before it, only who is
registered and open matters, and `RegistriesStayFaithful` says that a registered socket is the
one the message is for.  `RoomSizes` is used for the rooms a step
leaves alone: they have members, so they do not count as ended.

`LoneSocketsFound` is the other side of the run `unreachable_peer`: a peer with an open socket
is unreachable only if two sockets carry its id, that is, after a resumption.  The
invariant adds that peer ids in use, in rooms too, were issued (`PeersIssued`): a fresh hello
would otherwise take over the entry of somebody else.

### The guard

`ConnectionGuardProofs`, for all timeouts, intervals, windows and limits: `GuardTypeCorrect`,
`NeverTerminatedEarly` and `RateIsBounded`.  The flag `isAlive` alone says nothing of time; `SilentSinceBeat` ties
it to the clock: a flag that is down has been down since the last beat, so the silence is at
least as long as the part of the interval that is over.  `Terminated` says that nothing ends the
silence of a connection once it is terminated, and `Untouched` that the flag is not set before
the connection is accepted or rejected.

For the rate, `CountedInWindow` splits any stretch of ticks at the start of the fixed window of the
code: what was let through since then is at most `LetThrough`, the part of `count` within the limit,
and the rest is at most the limit of the window before.  That `recent` is cumulative matters: the
bound is about one of its entries, where a sum over the ticks would need an induction.

### The clients and the server

`ClientServerProofs`, for every number of users, sockets, ids and requests.  `ClientTypeCorrect`
and `ServerRefined` have no condition on the application: the types, and that every step of the
composition is a step of `SignalingServer` or leaves its variables alone, so that whatever
`SignalingServerProofs` shows of the server holds in the composition (`ComposedRegistries` is
an instance of it).

The others assume a patient application (`Patient`): one that calls `connect()` neither between a
`disconnect()` and its close event nor in the handler of `disconnected`.  Both halves are needed:
`client_hello` and `client_handler` show a socket that the client loses to a close event, which is
what `CurrentKept` excludes, and which keeps its handlers: it may say a second hello over the next
socket, and take that one away in turn, whose frames then change a client without a socket.
`SocketInv` and `SoleSocket` say that under this condition the socket in `ws` is the only one of
its user that is connecting or open and has handlers, which gives `OneVoiceHolds` and `CurrentIsKept`.

* `HelloIsFirst`: `HelloInv` says where the hello is among the frames of a connection the server
  still listens to: at the front until it is answered, then nowhere; and that an open socket
  without an id has it on its way.
* `CredentialsStayCurrent`: `CredentialsInv` says that a `peer-id` on its way to a client carries
  what the server has filed for that socket, and that a client of an open, known socket has its
  credentials or has them on their way.
* `ViewStaysRight`, which assumes `~SwitchesRooms` too (see `client_view`), proves
  `ViewFollowsServer` in three parts.  First, of the server alone: each handler sends a socket that is the only one of its peer
  exactly what turns a right view of the room before the step into a right view of the room after it
  (`AllShow`, with one lemma per handler); only the socket's own successful join
  supposes that the view was empty (`AllShowBut`).  A peer with two sockets is told through one of them only, so the second part,
  `IdsInv`, shows that the ids of a user stay with the user: a first connection cannot have been
  resumed, because its credentials would have come from another one.  The third, `ViewInv`, is about the
  channel: the view that the client will have when it has handled the frames on their way
  (`Follows`) is right now, and empty while a join is pending.  `Follows` carries along that an
  empty view stays empty without a `room-joined`, a fact about whole sequences that the prover cannot
  get by induction.

### The negotiation

`WebRTCNegotiationProofs`, for two peers and all numbers of initiations, candidates and
disturbances: `NegotiationTypeCorrect` and `ReadyStaysHonest`.  Assumptions: there are two
peers, a third one is none of them, the bounds are naturals, and `Null` is no channel.

`ReadyHonest` is not inductive: a channel that is not in the field may open and set the flag.
`FlagsBacked` adds that while a channel is still to open, the field holds an open one (that of the
other peer, from `ondatachannel`) or one still to open.  `initiateConnection` may be called at any
time and puts its own channels in the place of open ones while a flag is up: that is the exception
of `ReadyHonest`, and the proof shows that it is the only one.  Such a call is one on top of a remote
description, because a flag needs a path (`ReadyAfterRemote`), a path a remote description
(`PathAfterRemote`), and a connection that has one has set `remoteDescriptionSet` (`RemoteKnown`,
which also speaks of the description a rollback would return to).  `ChannelKinds` and
`OwnConnecting` say which channel may be in which field, and that a peer's channels not yet open
are those it made.

`WebRTCAgreementProofs`, for the same constants and the assumption that `Null` is no message:
`PeersAgree`, `OnlyGlareSticks` and `NoCandidateLost`.  The three are about the first negotiation:
no peer calls `initiateConnection` on top of a remote description (`FirstNegotiation`).  The code
does not enforce this, it is a condition on the application, part of `Agreement` and
`StuckOnlyByGlare` themselves and written out in `NoCandidateLost`.  Without it `StuckOnlyByGlare`
is false: q calls `initiateConnection` while it is answering, so its offer follows its answer; p takes
that offer while its `setRemoteDescription(answer)` is pending, reads `have-local-offer`, refuses, and
is then stable, while q waits for good and has refused nothing.  What holds at any time is
`StuckOnlyByRefusal` and `CredentialsAgree`, by TLC.  Descriptions are compared by type, sender and
credentials: that two peers hold the same offer means an offer with the same credentials, of which a
repeated `initiateConnection` makes several.

`AgreementInv` says that until something is disturbed nobody
is cut off, and either nobody has sent an offer yet (`Silent`) or one peer `w` sent the first one
and the other is `l` (`Negotiates`):

* `w` never gives way.  Its offers all have the same credentials, its remote description is none or the one answer
  of `l`, and no answer else is in its chain of calls (`AskerState`, `AskerCalls`).  Only a peer
  with a local offer refuses one, and a peer in `stable` takes one: so the offers of `l` must
  come while the offer of `w` is still set, which is `ToAsker`: they come before the answer.
* `l` settles on one answer, and has no offer of its own from then on (`TakerState`,
  `TakerCalls`, `Given`).
* That an answer that is set was made for the offer that is set is a matter of the order of the calls
  that `l` has begun (`ResponsesFresh`): `handleOffer` awaits four times, a second offer rolls
  the first one back, and the response to the first may go on with credentials given up by then
  (`Stale`).
* For `OnlyGlareSticks`, `Pending` adds that an offer of `w` that is set is on its way, being
  answered, answered or refused; and what `l` refuses it for is an own offer, which `w` refuses in
  its turn.

`NoCandidateLost` is `CandidatesArrive` in the first negotiation, which speaks of peers that call `initiateConnection` at
most once each (`Once`).  `CandidatesArrive` says nothing of the states on the way, so
`CandidateInv` adds to the roles of `w` and `l`, from the first offer on (`Placed`), where
everything is that bears on a candidate:

* `OneOffer`: the single offer of `w` is on its way, in a call of `l`, or taken by `l`, only one of these
  and only once; `l` does not roll it back, and keeps it from then on.  A second `initiateConnection` of
  `w` breaks this, as its offer finds `l` answering the first.
* `Queued`: candidates wait in `pendingIceCandidates` until the remote description is set, and none
  is in a call or added before; from then on the queue is empty.
* `Located`: each candidate of the sender's present credentials is on its way, in the queue, in a
  call, or added (`At`).  A rollback that gives the credentials up leaves none to account for
  (`CurrentKept`), and one that empties `added` finds it empty, by `Queued`.

A candidate could only be lost in a call that the browser rejects.  `Credentials` says that none
of these is of the present credentials: whoever has a remote description to add candidates to has the
one with the other's present credentials, which for `l` is `OneOffer` and for `w` that
the answer it has is the one `l` settled on.  Before the first offer each
call of `initiateConnection` accounts for one call of the browser (`SilentOnce`), so there is one
first offer only.

The order of calls and messages is stated with `Has`, `Within` and `Before`, for which `Joined` and
a few more lemmas say what appending and taking the first does, so that no induction over
sequences is needed.

### Join codes

`JoinCodeProofs`, for every size of a byte, of the pool and of the alphabet: `CharsStayIndependent` and
`CodesUnbiased`.  `BytesRead` says that the byte behind each character so far has been read, from
this fill of the pool before `poolIndex`, or from an earlier fill, so that the next byte is none of
them.  `CodesUnbiased` is a bijection (`EquallyMany`): the accepted bytes that give one character and
those that give another differ by a shift.

### The placement

`PeerPlacementProofs`, for all layouts, numbers of peers and attempts, and any `Grain`:
`CardsStayApart`, `CardsStayInPlace` and `CardsStaySpread`.  The invariant is strengthened by `BestFits`: the best
candidate so far passes the tests against the cards placed.  It stays true because the cards
do not change while a peer's attempts run, and because a resize starts over.  `CardsStaySpread`
adds `BestIsFar`: the best candidate so far is at least 65% of the preferred distance from every
card placed, because the threshold, relaxed from attempt to attempt, is never below that
(`RelaxedThreshold`).  That there is a closest card to measure (`ClosestDistance`) follows from the
well-foundedness of the naturals.

### The test client

`TestClientProofs`, for every number of messages, calls and timeouts: `NoCallForgotten`,
`BufferedOnce` and `ReadInOrder`.  The invariant `MailInv` says that each waiting call has its
listener (`Registered`), that the buffer holds messages in the order in which they came
(`BufferSorted`), that a message a call got out of the buffer is not in it (`BufferedGone`), and that
no message of its type that is left in the buffer is older than what a `receive` answered with
(`NothingOlder`).

### Model-checked only

`CredentialsAgree` and `StuckOnlyByRefusal`, which hold whenever `initiateConnection` is called, and
`CandidatesArrive` outside the first negotiation: there the roles of the two peers, on which the proofs
rest, may change.  Every other safety invariant and every action property of the passing runs is a
theorem.  The liveness
properties (`UnauthenticatedGoes`, `GonePeerGoes`, `Connects`) stay with TLC: they are beyond the
prover, which has neither `ENABLED` nor induction over fairness.

## Not modelled

* HTTP health check, CORS, process signals, logging, `dotenv`: I/O without shared state.
* Schema validation: a message that fails a schema has no effect; the models take valid ones.
* `deleteRoom`, `resetRoomState`, `resetPeerState`: called by tests only.
* `peerMap` and the other module-level maps shared by two servers in one process: only tests
  do that.
* Empty files (`byteUtils.ts`, `rangeSet.ts`, `result.ts`, `frames.ts`, `manifest.ts`,
  `packages/protocol/src/constants.ts`), `.codex`, `.github`, assets.
* Web pages: static layout and animation; the landing page gives the overlay an empty list of
  peers.  Of the overlay, the scrolling of the page: the anchor is measured on resize only (line
  423), and a scroll moves the role card under the fixed overlay; and the width the browser renders
  a card with: 184 pixels are the least width, and a long name makes a card wider (line 39).
* `FileTransferManager`: a skeleton that reads one file and makes one call; its handlers are
  never called.
* In `WebRTCConnection`: `sendData` and `sendControl`, which change no state; `INVALID_OFFER` and
  the like, which a message that passes the schema cannot reach; SDP and its parsing.  A third peer
  is a source of messages only (`StrangerSends`): its own connection and the answers it would get
  are left out.
* `toPositiveInt`: a pure conversion of environment variables, read once.
* The text of ids and tokens (`crypto.ts`): a random value is one not used before.
* The client's view after a reconnect: `room` survives a lost connection while the server has
  taken the peer out of the room (see `resumed_room`), so `ViewFollowsServer` speaks of the
  first connection only.  Subscriptions to single events and the events' payloads.

## Observations

Behaviour that the models show and that no run states as a violation, because the code's
documentation promises nothing clear enough, or because it is outside what a run can decide:

* The relay forwards between any two connected peers; `index.ts:13-14` describes it as between
  the peers of a room.  On the other side nobody looks at the sender: `handleMessage` emits the
  payload without `from` (`SignalingClient.ts:243-256`), and the listeners of every `WebRTCConnection`
  (`WebRTCConnection.ts:289-307`) take it.  An offer or an answer of a third peer is applied to the
  connection with `remotePeer`, to which the answer then goes.
* `initiateConnection` has no guard.  Called by the answerer of a ready connection, it puts
  connecting channels in the place of the open ones while `isReady` stays true; called while a peer
  is answering, its offer may be refused by one side only (see the proofs), and the caller waits for good.
* A socket that a `connect()` in the handler of `disconnected` has left without a client keeps its
  handlers: its `onopen` says hello over whatever socket `ws` is by then, a second hello there,
  and its close event takes that socket away.
* A connection that goes from `disconnected` back to `connected` keeps its open channels, and
  `isReady` stays false for good, against its comment (240): only `onopen` sets the flags.
* A second `initiateConnection` of one peer while the other answers the first makes that one
  roll back with `remoteDescriptionSet` still true; a candidate that comes then is added to no
  description, rejected and lost.
* After a lost signaling socket a `WebRTCConnection` hears no more messages, although
  `SignalingClient` can connect again.
* A message that a waiting call of the test client has taken stays in the buffer and can be had
  a second time, once.
* `room.ts` reckons with 24 characters and a bound of 240 in its comments; the alphabet has 32 and
  the bound is 256, so no byte is rejected.  `JoinCode` checks alphabets that divide the byte's
  range and ones that do not.  The comment excludes `L`, which the alphabet has.
* `toPositiveInt` takes `"12abc"` for 12 and `"1.5"` for 1.
* The role of a join is stored and never compared; activity never extends a room's lifetime.

## Plan

Done: `SignalingServer` with `RoomDirectory` and `ConnectionGuard`; `SignalingClient` and
`ClientServer`; `WebRTCNegotiation`; `JoinCode`; `PeerPlacement`; `TestClient`.

Left, models:

1. A third socket in `ClientServer`, so that one user reconnects while the other stays, under
   a tighter bound on requests.
2. `WebRTCNegotiation` over `ClientServer` in place of its own relay, for the loss of messages
   when a session is resumed in the middle of a negotiation.

Left, theorems: `CredentialsAgree` and `StuckOnlyByRefusal`, with an invariant for calls of
`initiateConnection` on top of a remote description, where either peer may become the one that
asks; and one for repeated calls that says which candidates are lost.
