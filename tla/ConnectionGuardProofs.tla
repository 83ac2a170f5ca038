------------------------- MODULE ConnectionGuardProofs -------------------------
(***************************************************************************)
(* For every length of the timeouts and every rate: the types of           *)
(* ConnectionGuard, that no connection is terminated before it was silent  *)
(* for a whole heartbeat interval, and how many messages a peer gets       *)
(* through in the time of a window.                                        *)
(***************************************************************************)
EXTENDS ConnectionGuard, TLAPS

(***************************************************************************)
(* The current window is as old as it has ticks behind it; what came since *)
(* it began is in its count, and whatever is older than that and younger   *)
(* than Window ticks came in the window before.                            *)
(***************************************************************************)
LetThrough == IF count < MaxPerWindow THEN count ELSE MaxPerWindow

CountedInWindow ==
  /\ recent[0] <= LetThrough
  /\ windowLeft = Expired => recent[0] = 0
  /\ \A a \in Ages :
       /\ recent[a] <= LetThrough + MaxPerWindow
       /\ a < Window - windowLeft => recent[a] <= LetThrough

\* A flag is down since some beat in the current interval: the silence is as old.
SilentSinceBeat == isAlive = "no" => silence >= Heartbeat - beatDue

\* Once terminated, a connection hears no pong that would end its silence.
Terminated ==
  closedBy = "heartbeat" =>
    /\ readyState \in {"closing", "closed"}
    /\ peerGone
    /\ silence = Heartbeat

\* Before its connection event nothing has touched the socket.
Untouched == readyState = "none" => isAlive = "unset"

IInv ==
  /\ GuardTypeOK /\ CountedInWindow
  /\ SilentSinceBeat /\ Terminated /\ Untouched

LEMMA InitHolds == Init => IInv
<1> SUFFICES ASSUME Init PROVE IInv
  OBVIOUS
<1>1. /\ recent \in [Ages -> Nat] /\ 0 \in Ages /\ \A a \in Ages : recent[a] = 0
  BY GuardAssumption DEF Init, Ages
<1>2. {accepted, authenticated, pinged, peerGone} \subseteq BOOLEAN
  BY DEF Init
<1> QED
  BY <1>1, <1>2, GuardAssumption
     DEF Init, IInv, GuardTypeOK, CountedInWindow, LetThrough, SilentSinceBeat, Terminated,
         Untouched, Off, Expired

\* The types and counts of the rate limiter, which only messages and ticks change.
RateTypes ==
  /\ count \in 0 .. MaxPerWindow + 1 /\ windowLeft \in Expired .. Window
  /\ recent \in [Ages -> Nat] /\ recent[0] <= MaxPerWindow
  /\ CountedInWindow

LEMMA RateFacts ==
  ASSUME IInv
  PROVE  /\ MaxPerWindow \in Nat \ {0} /\ Window \in Nat \ {0} /\ 0 \in Ages
         /\ Ages \subseteq Nat /\ \A a \in Ages : a < Window
         /\ count \in 0 .. MaxPerWindow + 1 /\ windowLeft \in -1 .. Window
         /\ LetThrough \in 0 .. MaxPerWindow
         /\ \A a \in Ages : recent[a] \in Nat
BY GuardAssumption DEF IInv, GuardTypeOK, Ages, Expired, LetThrough

LEMMA MessageKeepsRate ==
  ASSUME IInv, NEW kind \in Kinds, Message(kind)
  PROVE  RateTypes'
<1>1. /\ MaxPerWindow \in Nat \ {0} /\ Window \in Nat \ {0} /\ 0 \in Ages
      /\ Ages \subseteq Nat /\ \A a \in Ages : a < Window
      /\ count \in 0 .. MaxPerWindow + 1 /\ windowLeft \in -1 .. Window
      /\ LetThrough \in 0 .. MaxPerWindow
      /\ \A a \in Ages : recent[a] \in Nat
  BY RateFacts
<1>2. /\ recent[0] <= LetThrough
      /\ windowLeft = -1 => recent[0] = 0
      /\ \A a \in Ages :
           /\ recent[a] <= LetThrough + MaxPerWindow
           /\ a < Window - windowLeft => recent[a] <= LetThrough
  BY DEF IInv, CountedInWindow, Expired
<1>3. /\ count' = IF windowLeft = -1 THEN 1
                  ELSE IF count > MaxPerWindow THEN count ELSE count + 1
      /\ windowLeft' = IF windowLeft = -1 THEN Window ELSE windowLeft
  BY DEF Message, CheckRateLimit, NewWindow, Expired
<1>4. /\ count' \in 0 .. MaxPerWindow + 1 /\ windowLeft' \in 0 .. Window
      /\ LetThrough' \in 0 .. MaxPerWindow
  BY <1>1, <1>3 DEF LetThrough
<1>5. CASE windowLeft = -1
  <2>1. count' = 1 /\ windowLeft' = Window /\ LetThrough' = 1
    BY <1>1, <1>3, <1>5 DEF LetThrough
  <2>2. \A a \in Ages : recent'[a] \in Nat /\ recent'[a] <= recent[a] + 1
    BY <1>1, <1>4 DEF Message
  <2>3. recent' \in [Ages -> Nat]
    BY <1>1 DEF Message, IInv, GuardTypeOK
  <2>4. \A a \in Ages : recent[a] <= MaxPerWindow
    BY <1>1, <1>2, <1>5
  <2>5. recent'[0] <= 1
    BY <1>1, <1>2, <1>5, <2>2
  <2>6. \A a \in Ages : recent'[a] <= LetThrough' + MaxPerWindow
    BY <1>1, <2>1, <2>2, <2>4
  <2>7. \A a \in Ages : ~(a < Window - windowLeft')
    BY <1>1, <2>1
  <2> QED
    BY <1>1, <1>4, <2>1, <2>2, <2>3, <2>5, <2>6, <2>7 DEF RateTypes, CountedInWindow, Expired
<1>6. CASE windowLeft # -1
  <2>1. windowLeft' = windowLeft /\ LetThrough <= LetThrough'
    BY <1>1, <1>3, <1>6 DEF LetThrough
  <2>2. CASE OverRate
    <3>1. UNCHANGED recent
      BY <2>2 DEF Message
    <3>2. recent' \in [Ages -> Nat]
      BY <3>1 DEF IInv, GuardTypeOK
    <3> QED
      BY <1>1, <1>2, <1>4, <1>6, <2>1, <3>1, <3>2 DEF RateTypes, CountedInWindow, Expired
  <2>3. CASE ~OverRate
    <3>1. \A a \in Ages : recent'[a] = recent[a] + 1
      BY <2>3 DEF Message
    <3>2. recent' \in [Ages -> Nat]
      BY <1>1, <2>3 DEF Message
    <3>3. LetThrough' = LetThrough + 1
      BY <1>1, <1>3, <1>6, <2>3 DEF OverRate, LetThrough
    <3> QED
      BY <1>1, <1>2, <1>4, <1>6, <2>1, <3>1, <3>2, <3>3 DEF RateTypes, CountedInWindow, Expired
  <2> QED
    BY <2>2, <2>3
<1> QED
  BY <1>5, <1>6

\* Every message grows a tick older; the window ends no later than its messages do.
LEMMA TickKeepsRate ==
  ASSUME IInv, Tick
  PROVE  RateTypes'
<1>1. /\ MaxPerWindow \in Nat \ {0} /\ Window \in Nat \ {0} /\ 0 \in Ages
      /\ Ages \subseteq Nat /\ \A a \in Ages : a < Window
      /\ count \in 0 .. MaxPerWindow + 1 /\ windowLeft \in -1 .. Window
      /\ LetThrough \in 0 .. MaxPerWindow
      /\ \A a \in Ages : recent[a] \in Nat
  BY RateFacts
<1>2. \A a \in Ages :
        /\ recent[a] <= LetThrough + MaxPerWindow
        /\ a < Window - windowLeft => recent[a] <= LetThrough
  BY DEF IInv, CountedInWindow
<1>3. /\ count' = count /\ windowLeft' \in -1 .. Window /\ LetThrough' = LetThrough
      /\ windowLeft' = IF windowLeft > -1 THEN windowLeft - 1 ELSE -1
  BY <1>1 DEF Tick, Decrement, Expired, LetThrough
<1>4. \A a \in Ages : recent'[a] = IF a = 0 THEN 0 ELSE recent[a - 1]
  BY DEF Tick
<1>5. \A a \in Ages : a # 0 => a - 1 \in Ages
  BY <1>1 DEF Ages
<1>6. recent' \in [Ages -> Nat]
  BY <1>1, <1>5 DEF Tick
<1>7. recent'[0] = 0
  BY <1>1, <1>4
<1>8. ASSUME NEW a \in Ages
      PROVE  /\ recent'[a] <= LetThrough' + MaxPerWindow
             /\ a < Window - windowLeft' => recent'[a] <= LetThrough'
  <2>1. CASE a = 0
    BY <1>1, <1>3, <1>7, <2>1
  <2>2. CASE a # 0
    <3>1. a - 1 \in Ages /\ recent'[a] = recent[a - 1]
      BY <1>4, <1>5, <2>2
    <3>2. a < Window - windowLeft' => a - 1 < Window - windowLeft
      BY <1>1, <1>3
    <3> QED
      BY <1>2, <1>3, <3>1, <3>2
  <2> QED
    BY <2>1, <2>2
<1> QED
  BY <1>1, <1>3, <1>6, <1>7, <1>8 DEF RateTypes, CountedInWindow, Expired

LEMMA NextKeeps ==
  ASSUME IInv, [Next]_vars
  PROVE  IInv'
<1> USE GuardAssumption
<1>1. CASE UNCHANGED vars
  BY <1>1 DEF IInv, GuardTypeOK, CountedInWindow, LetThrough, SilentSinceBeat,
              Terminated, Untouched, vars
<1>2. CASE Accept
  BY <1>2 DEF Accept, InitialLiveness, rateVars, IInv, GuardTypeOK, CountedInWindow, LetThrough,
              SilentSinceBeat, Terminated, Untouched, Off
<1>3. CASE Reject
  BY <1>3 DEF Reject, rateVars, authVars, IInv, GuardTypeOK, CountedInWindow, LetThrough,
              SilentSinceBeat, Terminated, Untouched
<1>4. CASE PeerVanishes
  BY <1>4 DEF PeerVanishes, InClients, rateVars, authVars, beatVars, IInv, GuardTypeOK,
              CountedInWindow, LetThrough, SilentSinceBeat, Terminated, Untouched
<1>5. CASE PeerCloses
  BY <1>5 DEF PeerCloses, CloseFor, InClients, rateVars, authVars, beatVars, IInv, GuardTypeOK,
              CountedInWindow, LetThrough, SilentSinceBeat, Terminated, Untouched
<1>6. ASSUME NEW kind \in Kinds, Message(kind)
      PROVE  IInv'
  <2>1. RateTypes'
    BY <1>6, MessageKeepsRate
  <2>2. /\ InClients /\ ~peerGone
        /\ UNCHANGED <<accepted, peerGone, beatVars>>
        /\ authDue' \in {authDue, Off} /\ authenticated' \in BOOLEAN
        /\ \/ UNCHANGED <<readyState, closedBy>>
           \/ \E reason \in {"rate", "unauthorized", "invalid"} : CloseFor(reason)
    BY <1>6 DEF Message, ClearsTimeout, IInv, GuardTypeOK, authVars
  <2> QED
    BY <2>1, <2>2 DEF RateTypes, CloseFor, InClients, beatVars, IInv, GuardTypeOK,
                      SilentSinceBeat, Terminated, Untouched, Off
<1>7. CASE Pong
  <2>1. /\ UNCHANGED <<readyState, accepted, authenticated, authDue, beatDue, peerGone, count,
                       windowLeft, recent, closedBy>>
        /\ isAlive' = "yes" /\ pinged' = FALSE /\ silence' = 0
        /\ readyState # "none" /\ closedBy # "heartbeat"
    BY <1>7 DEF Pong, InClients, rateVars, authVars, IInv, Terminated
  <2>2. pinged' \in BOOLEAN
    BY <2>1
  <2> QED
    BY <2>1, <2>2 DEF IInv, GuardTypeOK, CountedInWindow, LetThrough, SilentSinceBeat,
                      Terminated, Untouched
<1>8. CASE AuthTimeoutFires
  BY <1>8 DEF AuthTimeoutFires, CloseFor, rateVars, beatVars, IInv, GuardTypeOK,
              CountedInWindow, LetThrough, SilentSinceBeat, Terminated, Untouched, Off
<1>9. CASE Beat
  <2>1. CASE InClients /\ isAlive = "no"
    BY <1>9, <2>1 DEF Beat, CloseFor, InClients, rateVars, authVars, IInv, GuardTypeOK,
                      CountedInWindow, LetThrough, SilentSinceBeat, Terminated, Untouched
  <2>2. CASE ~(InClients /\ isAlive = "no")
    <3>1. /\ UNCHANGED <<readyState, accepted, authenticated, authDue, peerGone, count,
                         windowLeft, recent, silence, closedBy>>
          /\ beatDue' = Heartbeat /\ pinged' = (pinged \/ InClients)
          /\ isAlive' = IF InClients THEN "no" ELSE isAlive
      BY <1>9, <2>2 DEF Beat, LivenessAfterPing, rateVars, authVars
    <3>2. pinged' \in BOOLEAN
      BY <3>1 DEF IInv, GuardTypeOK
    <3>3. isAlive' \in {"yes", "no", "unset"} /\ (readyState = "none" => isAlive' = "unset")
      BY <3>1 DEF InClients, IInv, GuardTypeOK, Untouched
    <3>4. silence >= Heartbeat - Heartbeat
      BY DEF IInv, GuardTypeOK
    <3> HIDE DEF InClients
    <3> QED
      BY <3>1, <3>2, <3>3, <3>4 DEF IInv, GuardTypeOK, CountedInWindow, LetThrough, SilentSinceBeat,
                                    Terminated, Untouched
  <2> QED BY <2>1, <2>2
<1>10. CASE Closed
  BY <1>10 DEF Closed, rateVars, beatVars, IInv, GuardTypeOK, CountedInWindow, LetThrough,
               SilentSinceBeat, Terminated, Untouched, Off
<1>11. CASE Tick
  <2>1. RateTypes'
    BY <1>11, TickKeepsRate
  <2>2. /\ authDue' \in Off .. AuthTimeout /\ beatDue' \in 0 .. Heartbeat
        /\ beatDue' = IF beatDue > 0 THEN beatDue - 1 ELSE 0
        /\ silence' = IF silence < Heartbeat THEN silence + 1 ELSE silence
    BY <1>11 DEF Tick, Decrement, IInv, GuardTypeOK, Off
  <2> QED
    BY <1>11, <2>1, <2>2 DEF Tick, RateTypes, IInv, GuardTypeOK, SilentSinceBeat, Terminated,
                             Untouched
<1> QED
  BY <1>1, <1>2, <1>3, <1>4, <1>5, <1>6, <1>7, <1>8, <1>9, <1>10, <1>11 DEF Next

LEMMA InvHolds == Spec => []IInv
<1>1. IInv /\ [Next]_vars => IInv'
  BY NextKeeps
<1> QED
  BY <1>1, InitHolds, PTL DEF Spec

\* Every variable keeps its type, the counters of the rate limiter included, whatever the
\* timeouts and the limit (ConnectionGuard models index.ts and utils.ts).
THEOREM GuardTypeCorrect == Spec => []GuardTypeOK
<1>1. IInv => GuardTypeOK
  BY DEF IInv
<1> QED
  BY <1>1, InvHolds, PTL

\* The heartbeat terminates only what was silent for a whole interval, whatever the interval
\* and wherever in it the connection or its last pong came (heartbeatInterval of index.ts).
THEOREM NeverTerminatedEarly == Spec => []NoEarlyTermination
<1>1. IInv => NoEarlyTermination
  BY DEF IInv, Terminated, NoEarlyTermination
<1> QED
  BY <1>1, InvHolds, PTL

\* Whatever the limit and the window, a peer gets at most two windows' worth of messages
\* through in any stretch as long as a window (checkRateLimit).
THEOREM RateIsBounded == Spec => []RateBoundedTwice
<1>1. IInv => RateBoundedTwice
  <2> SUFFICES ASSUME IInv PROVE RateBoundedTwice
    OBVIOUS
  <2>1. Window - 1 \in Ages
    BY GuardAssumption DEF Ages
  <2>2. /\ MaxPerWindow \in Nat /\ LetThrough \in 0 .. MaxPerWindow
        /\ recent[Window - 1] \in Nat
    BY <2>1, RateFacts
  <2>3. recent[Window - 1] <= LetThrough + MaxPerWindow
    BY <2>1 DEF IInv, CountedInWindow
  <2> QED
    BY <2>2, <2>3 DEF RateBoundedTwice, Throughput
<1> QED
  BY <1>1, InvHolds, PTL
=============================================================================
