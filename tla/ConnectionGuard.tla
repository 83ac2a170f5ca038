---------------------------- MODULE ConnectionGuard ----------------------------
(***************************************************************************)
(* The guards around one WebSocket connection of the signaling server      *)
(* (apps/signaling/src/index.ts, utils.ts): the authentication timeout,    *)
(* the heartbeat and the rate limiter, with a clock.  Connections do not   *)
(* share this state, so one connection is modelled, from its 'connection'  *)
(* event to its 'close' event, accepted or over the connection cap.        *)
(*                                                                         *)
(* Timers are the ticks left until they are due; a due timer fires when    *)
(* the event loop gets to it, at once or later, never early.               *)
(***************************************************************************)
EXTENDS Integers

CONSTANTS
  AuthTimeout,        \* connTimeoutMs, in ticks
  Heartbeat,          \* heartbeatMs, in ticks
  Window,             \* the second of the rate limiter, in ticks
  MaxPerWindow        \* MAX_MESSAGES_PER_SEC

ASSUME GuardAssumption ==
  /\ AuthTimeout \in Nat \ {0} /\ Heartbeat \in Nat \ {0} /\ Window \in Nat \ {0}
  /\ MaxPerWindow \in Nat \ {0}

VARIABLES
  readyState,         \* "none", "open", "closing" or "closed"
  accepted,           \* the handlers are attached
  authenticated,      \* the flag of the connection handler
  authDue,            \* ticks until connectionTimeout fires, or Off
  isAlive,            \* ws.isAlive: "yes", "no" or "unset"
  beatDue,            \* ticks until the heartbeat interval fires
  pinged,             \* a ping is on its way or waits for its pong
  peerGone,           \* the peer sends no more frames
  count,              \* entry.count of the rate limiter, up to MaxPerWindow + 1
  windowLeft,         \* entry.resetAt - now; Expired once it is past
  recent,             \* messages let through in the tick now and a ticks before it, for each a
  silence,            \* ticks since the connection or its last pong, up to Heartbeat
  closedBy            \* what closed the connection first

Off == -1
Expired == -1

vars == <<readyState, accepted, authenticated, authDue, isAlive, beatDue, pinged,
          peerGone, count, windowLeft, recent, silence, closedBy>>
rateVars == <<count, windowLeft, recent>>
beatVars == <<isAlive, beatDue, pinged, silence>>
authVars == <<authenticated, authDue>>

Ages == 0 .. Window - 1
Kinds == {"hello", "ignored", "unauthorized", "invalid"}
InClients == readyState \in {"open", "closing"}
Decrement(n, least) == IF n > least THEN n - 1 ELSE least

Init ==
  /\ readyState = "none" /\ accepted = FALSE
  /\ authenticated = FALSE /\ authDue = Off
  /\ isAlive = "unset" /\ beatDue = Heartbeat /\ pinged = FALSE
  /\ peerGone = FALSE
  /\ count = 0 /\ windowLeft = Expired /\ recent = [a \in Ages |-> 0]
  /\ silence = 0
  /\ closedBy = "nothing"

\* close() or terminate(): only the first one counts as the reason.
CloseFor(reason) ==
  /\ readyState' = "closing"
  /\ closedBy' = IF readyState = "open" THEN reason ELSE closedBy

-----------------------------------------------------------------------------
\* Mutant: an accepted connection starts out as not alive.
InitialLivenessNo == "no"

\* An accepted connection counts as alive before its first pong.
InitialLiveness == "yes"

Accept ==
  /\ readyState = "none"
  /\ readyState' = "open"
  /\ accepted' = TRUE
  /\ isAlive' = InitialLiveness
  /\ authDue' = AuthTimeout
  /\ silence' = 0
  /\ UNCHANGED <<authenticated, beatDue, pinged, peerGone, rateVars, closedBy>>

\* Over the cap: closed before any handler is attached.
Reject ==
  /\ readyState = "none"
  /\ readyState' = "closing"
  /\ closedBy' = "cap"
  /\ silence' = 0
  /\ UNCHANGED <<accepted, authVars, isAlive, beatDue, pinged, peerGone, rateVars>>

PeerVanishes ==
  /\ InClients /\ ~peerGone
  /\ peerGone' = TRUE
  /\ UNCHANGED <<readyState, accepted, authVars, beatVars, rateVars, closedBy>>

PeerCloses ==
  /\ InClients /\ ~peerGone
  /\ CloseFor("peer")
  /\ peerGone' = TRUE
  /\ UNCHANGED <<accepted, authVars, beatVars, rateVars>>

-----------------------------------------------------------------------------
\* Mutant: the time is compared with the start of the window, not its end.
NewWindowEarly == windowLeft < Window

\* checkRateLimit: no entry yet, or now > entry.resetAt.
NewWindow == windowLeft = Expired

CheckRateLimit ==
  /\ count' = IF NewWindow THEN 1 ELSE IF count > MaxPerWindow THEN count ELSE count + 1
  /\ windowLeft' = IF NewWindow THEN Window ELSE windowLeft

\* Mutant: one message too many is let through.
OverRateOffByOne == count' > MaxPerWindow + 1

OverRate == count' > MaxPerWindow

\* Mutant: any message clears the timeout.
ClearsTimeoutAlways(kind) == TRUE

ClearsTimeout(kind) == kind = "hello"

(***************************************************************************)
(* The message handler: the rate check first, then by kind.  "ignored" is  *)
(* what fails the schema, or any message of an authenticated peer that     *)
(* leaves the connection alone.  It also runs on a closing socket.         *)
(***************************************************************************)
Message(kind) ==
  /\ InClients /\ accepted /\ ~peerGone
  /\ kind = "unauthorized" => ~authenticated
  /\ CheckRateLimit
  /\ IF OverRate
     THEN /\ CloseFor("rate")
          /\ UNCHANGED <<authVars, recent>>
     ELSE /\ recent' = [a \in Ages |-> recent[a] + 1]
          /\ authDue' = IF ClearsTimeout(kind) THEN Off ELSE authDue
          /\ authenticated' = (authenticated \/ kind = "hello")
          /\ IF kind \in {"unauthorized", "invalid"}
             THEN CloseFor(kind)
             ELSE UNCHANGED <<readyState, closedBy>>
  /\ UNCHANGED <<accepted, beatVars, peerGone>>

Pong ==
  /\ InClients /\ accepted /\ pinged /\ ~peerGone
  /\ isAlive' = "yes"
  /\ pinged' = FALSE
  /\ silence' = 0
  /\ UNCHANGED <<readyState, accepted, authVars, beatDue, peerGone, rateVars, closedBy>>

-----------------------------------------------------------------------------
AuthTimeoutFires ==
  /\ authDue = 0
  /\ authDue' = Off
  /\ IF authenticated THEN UNCHANGED <<readyState, closedBy>> ELSE CloseFor("timeout")
  /\ UNCHANGED <<accepted, authenticated, beatVars, peerGone, rateVars>>

\* Mutant: the ping goes out but the flag is left as it is.
LivenessAfterPingKept == isAlive

LivenessAfterPing == "no"

\* One tick of the heartbeat interval: terminate, or ping and await the pong.
Beat ==
  /\ beatDue = 0
  /\ beatDue' = Heartbeat
  /\ IF InClients /\ isAlive = "no"
     THEN /\ CloseFor("heartbeat")
          /\ peerGone' = TRUE
          /\ UNCHANGED <<isAlive, pinged>>
     ELSE /\ isAlive' = IF InClients THEN LivenessAfterPing ELSE isAlive
          /\ pinged' = (pinged \/ InClients)
          /\ UNCHANGED <<readyState, peerGone, closedBy>>
  /\ UNCHANGED <<accepted, authVars, rateVars, silence>>

\* The close event; ws forces it some time after close(), or on terminate().
Closed ==
  /\ readyState = "closing"
  /\ readyState' = "closed"
  /\ authDue' = Off
  /\ UNCHANGED <<accepted, authenticated, beatVars, peerGone, rateVars, closedBy>>

Tick ==
  /\ authDue' = IF authDue = Off THEN Off ELSE Decrement(authDue, 0)
  /\ beatDue' = Decrement(beatDue, 0)
  /\ windowLeft' = Decrement(windowLeft, Expired)
  /\ recent' = [a \in Ages |-> IF a = 0 THEN 0 ELSE recent[a - 1]]
  /\ silence' = IF silence < Heartbeat THEN silence + 1 ELSE silence
  /\ UNCHANGED <<readyState, accepted, authenticated, isAlive, pinged, peerGone, count,
                 closedBy>>

Next ==
  \/ Accept \/ Reject
  \/ PeerVanishes \/ PeerCloses
  \/ \E kind \in Kinds : Message(kind)
  \/ Pong
  \/ AuthTimeoutFires \/ Beat \/ Closed
  \/ Tick

(***************************************************************************)
(* The event loop keeps running: time passes, due timers fire, and ws      *)
(* completes a close that has begun.  Nothing is assumed of the peer.      *)
(***************************************************************************)
Fairness ==
  /\ WF_vars(Tick) /\ WF_vars(AuthTimeoutFires) /\ WF_vars(Beat) /\ WF_vars(Closed)

Spec == Init /\ [][Next]_vars /\ Fairness

-----------------------------------------------------------------------------
(* Properties.                                                             *)

\* The values each variable takes.
GuardTypeOK ==
  /\ readyState \in {"none", "open", "closing", "closed"}
  /\ accepted \in BOOLEAN /\ authenticated \in BOOLEAN
  /\ authDue \in Off .. AuthTimeout
  /\ isAlive \in {"yes", "no", "unset"} /\ beatDue \in 0 .. Heartbeat
  /\ pinged \in BOOLEAN /\ peerGone \in BOOLEAN
  /\ count \in 0 .. MaxPerWindow + 1 /\ windowLeft \in Expired .. Window
  /\ recent \in [Ages -> Nat] /\ recent[0] <= MaxPerWindow
  /\ silence \in 0 .. Heartbeat
  /\ closedBy \in {"nothing", "cap", "peer", "rate", "unauthorized", "invalid", "timeout",
                   "heartbeat"}

(***************************************************************************)
(* The heartbeat terminates a connection only after a whole interval in    *)
(* which no pong was handled, wherever in the interval it connected or     *)
(* answered (heartbeatInterval of index.ts).                               *)
(***************************************************************************)
NoEarlyTermination == closedBy = "heartbeat" => silence = Heartbeat

\* The messages let through in the last Window ticks.
Throughput == recent[Window - 1]

(***************************************************************************)
(* What the fixed window of checkRateLimit guarantees for any stretch of   *)
(* Window ticks, wherever it starts: no more than two full windows.  (One  *)
(* window's worth, as its comment has it, holds only from window to        *)
(* window.)                                                                *)
(***************************************************************************)
RateBoundedTwice == Throughput <= 2 * MaxPerWindow

(***************************************************************************)
(* A connection that does not say hello does not stay: it authenticates or *)
(* is closed (connectionTimeout).                                          *)
(***************************************************************************)
UnauthenticatedGoes == readyState = "open" ~> (authenticated \/ readyState = "closed")

(***************************************************************************)
(* A connection whose peer is gone leaves wss.clients, accepted or         *)
(* rejected, authenticated or not (heartbeatInterval).                     *)
(***************************************************************************)
GonePeerGoes == (InClients /\ peerGone) ~> readyState = "closed"
=============================================================================
