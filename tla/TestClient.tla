-------------------------------- MODULE TestClient --------------------------------
(***************************************************************************)
(* TestClient (apps/signaling/src/test-utils/testClient.ts), the client    *)
(* that the server's tests drive: messages of the server go into a buffer  *)
(* and to the calls that wait for one.  A test calls receive,              *)
(* receiveExactly, waitForMessage and expectClose at any time, also while  *)
(* earlier calls wait.  authenticate and receiveError are receive of one   *)
(* type.                                                                   *)
(***************************************************************************)
EXTENDS Naturals, Sequences, FiniteSets, SequencesExt

CONSTANTS
  Types,        \* types of messages
  MaxMessages,  \* bound: messages of the server
  MaxCalls      \* bound: calls of the test

ASSUME MailAssumption == MaxMessages \in Nat /\ MaxCalls \in Nat

VARIABLES
  socket,     \* connecting, open, closing, closed, or failed before it was open
  connected,  \* connect(): pending, done or rejected
  received,   \* this.received, a sequence of messages
  listeners,  \* this.listeners: for each type and for "*", the calls that wait there
  calls,      \* each call of the test and how it stands
  arrived     \* messages of the server so far

mailVars == <<socket, connected, received, listeners, calls, arrived>>

Wildcard == "*"
Methods == {"receive", "receiveExactly", "waitForMessage", "expectClose"}

\* wanted: what the predicates of receiveExactly and waitForMessage ask for.
Messages == [id : 1..MaxMessages, type : Types, wanted : BOOLEAN]

\* What a call asks for.
Matches(call, msg) ==
  CASE call.method = "receive" -> msg.type = call.type
    [] call.method = "receiveExactly" -> msg.type = call.type /\ msg.wanted
    [] call.method = "waitForMessage" -> msg.wanted
    [] OTHER -> FALSE

\* The key its listener is registered under.
Key(call) == IF call.method = "waitForMessage" THEN Wildcard ELSE call.type

Pending == {c \in DOMAIN calls : calls[c].state = "pending"}

\* cleanup().
Cleanup(keys, gone) ==
  listeners' = [key \in DOMAIN listeners |->
                  IF key \in keys THEN listeners[key] \ gone ELSE listeners[key]]

\* The promises of some calls are resolved or rejected.
Settle(settling, state, result) ==
  calls' = [c \in DOMAIN calls |->
    IF c \in settling
    THEN [calls[c] EXCEPT !.state = state, !.result = result, !.settled = Len(calls)]
    ELSE calls[c]]

MailInit ==
  /\ socket = "connecting" /\ connected = "pending"
  /\ received = <<>>
  /\ listeners = [key \in Types \cup {Wildcard} |-> {}]
  /\ calls = <<>>
  /\ arrived = 0

-----------------------------------------------------------------------------
(* connect(): the first of open, error and its own timeout decides, and    *)
(* the socket goes on.                                                     *)

SocketOpens ==
  /\ socket = "connecting"
  /\ socket' = "open"
  /\ connected' = IF connected = "pending" THEN "done" ELSE connected
  /\ UNCHANGED <<received, listeners, calls, arrived>>

SocketFails ==
  /\ socket = "connecting"
  /\ socket' = "failed"
  /\ connected' = "rejected"
  /\ UNCHANGED <<received, listeners, calls, arrived>>

ConnectTimesOut ==
  /\ connected = "pending"
  /\ connected' = "rejected"
  /\ UNCHANGED <<socket, received, listeners, calls, arrived>>

-----------------------------------------------------------------------------
\* Mutant: the wildcard listeners are forgotten.
KeysOfTyped(msg) == {msg.type}

\* The listeners a message is shown to.
KeysOf(msg) == {msg.type, Wildcard}

\* The calls a message settles.
Served(msg) ==
  {c \in Pending : Matches(calls[c], msg) /\ \E key \in KeysOf(msg) : c \in listeners[key]}

\* receive leaves its listener where it is; it does nothing any more.
Cleaned(served) ==
  {c \in served : calls[c].method \in {"receiveExactly", "waitForMessage"}}

\* Mutant: the newest message is put first.
BufferedFirst(msg) == <<msg>> \o received

\* A message goes into the buffer also when a call takes it.
Buffered(msg) == Append(received, msg)

\* The message handler.
MessageArrives(type, wanted) ==
  LET msg == [id |-> arrived + 1, type |-> type, wanted |-> wanted]
      served == Served(msg)
  IN /\ socket \in {"open", "closing"}
     /\ arrived < MaxMessages
     /\ arrived' = arrived + 1
     /\ received' = Buffered(msg)
     /\ Settle(served, "served", msg.id)
     /\ Cleanup(KeysOf(msg), Cleaned(served))
     /\ UNCHANGED <<socket, connected>>

\* Mutant: the message that is returned stays in the buffer.
RemainingAll(i) == received

\* splice(existing, 1).
Remaining(i) == RemoveAt(received, i)

\* receive, receiveExactly and waitForMessage.
AsksFor(call) ==
  LET found == {i \in DOMAIN received : Matches(call, received[i])}
      c == Len(calls) + 1
  IN /\ connected = "done"
     /\ Len(calls) < MaxCalls
     /\ \/ \E i \in found :
             /\ \A j \in found : i <= j
             /\ received' = Remaining(i)
             /\ calls' = Append(calls, [call EXCEPT !.state = "buffered", !.settled = c,
                                                    !.result = received[i].id])
             /\ UNCHANGED listeners
        \/ /\ found = {}
           /\ calls' = Append(calls, call)
           /\ listeners' = [listeners EXCEPT ![Key(call)] = @ \cup {c}]
           /\ UNCHANGED received
     /\ UNCHANGED <<socket, connected, arrived>>

NewCall(method, type) ==
  [method |-> method, type |-> type, state |-> "pending", result |-> 0, settled |-> 0]

\* closePromise is settled once and for all by the close event.
ExpectClose ==
  /\ connected = "done"
  /\ Len(calls) < MaxCalls
  /\ calls' = Append(calls,
       [NewCall("expectClose", Wildcard) EXCEPT
          !.state = IF socket = "closed" THEN "served" ELSE "pending",
          !.settled = IF socket = "closed" THEN Len(calls) + 1 ELSE 0])
  /\ UNCHANGED <<socket, connected, received, listeners, arrived>>

\* The timer of a call; waitForMessage leaves its listener behind.
CallTimesOut(c) ==
  /\ c \in Pending
  /\ Settle({c}, "failed", 0)
  /\ IF calls[c].method \in {"receive", "receiveExactly"}
     THEN Cleanup({Key(calls[c])}, {c}) ELSE UNCHANGED listeners
  /\ UNCHANGED <<socket, connected, received, arrived>>

TestCloses ==
  /\ socket = "open"
  /\ socket' = "closing"
  /\ UNCHANGED <<connected, received, listeners, calls, arrived>>

\* The close event, by either side.
SocketCloses ==
  /\ socket \in {"open", "closing"}
  /\ socket' = "closed"
  /\ Settle({c \in Pending : calls[c].method = "expectClose"}, "served", 0)
  /\ UNCHANGED <<connected, received, listeners, arrived>>

MailNext ==
  \/ SocketOpens \/ SocketFails \/ ConnectTimesOut
  \/ \E type \in Types, wanted \in BOOLEAN : MessageArrives(type, wanted)
  \/ \E type \in Types, method \in {"receive", "receiveExactly"} :
       AsksFor(NewCall(method, type))
  \/ AsksFor(NewCall("waitForMessage", Wildcard))
  \/ ExpectClose
  \/ \E c \in 1..MaxCalls : CallTimesOut(c)
  \/ TestCloses \/ SocketCloses

-----------------------------------------------------------------------------
\* A call never waits for what has come: no message in the buffer matches a call that
\* is still pending, whichever of the two came first (the buffer search and the
\* listeners of receive, receiveExactly and waitForMessage), nor does expectClose wait
\* for a close that has been.
NoneWaitsInVain ==
  \A c \in Pending :
    /\ \A i \in DOMAIN received : ~Matches(calls[c], received[i])
    /\ calls[c].method = "expectClose" => socket # "closed"

\* The buffer hands a message to one call only, also when a waiting call has had it
\* (splice).
BufferServesOnce ==
  \A c, d \in DOMAIN calls :
    c # d /\ calls[c].state = "buffered" /\ calls[d].state = "buffered"
      => calls[c].result # calls[d].result

\* Of two calls of receive for one type, made one after the other was answered, the
\* later does not get an earlier message: tests read the server's messages in order.
MessagesInOrder ==
  \A c, d \in DOMAIN calls :
    /\ calls[c].method = "receive" /\ calls[d].method = "receive"
    /\ calls[c].type = calls[d].type
    /\ {calls[c].state, calls[d].state} \subseteq {"served", "buffered"}
    /\ c < d /\ calls[c].settled < d
    => calls[c].result <= calls[d].result
=============================================================================
