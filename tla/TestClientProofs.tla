---------------------------- MODULE TestClientProofs ----------------------------
(***************************************************************************)
(* For any number of messages and calls, the test client hands messages    *)
(* out once, in order, and to the calls that wait for them.                *)
(***************************************************************************)
EXTENDS TestClient, SequenceTheorems, TLAPS

MailSpec == MailInit /\ [][MailNext]_mailVars

States == {"pending", "served", "buffered", "failed"}
CallRecords == [method : Methods, type : Types \cup {Wildcard}, state : States,
                result : Nat, settled : Nat]

MailTypes ==
  /\ received \in Seq(Messages)
  /\ calls \in Seq(CallRecords)
  /\ listeners \in [Types \cup {Wildcard} -> SUBSET Nat]
  /\ arrived \in 0..MaxMessages

\* A call that waits for a message has its listener where it belongs.
Registered ==
  \A c \in Pending : calls[c].method # "expectClose" => c \in listeners[Key(calls[c])]

\* The buffer has the messages in the order in which they came.
BufferSorted ==
  /\ \A i \in DOMAIN received : received[i].id <= arrived
  /\ \A i, j \in DOMAIN received : i < j => received[i].id < received[j].id

Answered(c) == calls[c].state \in {"served", "buffered"}

\* What a call took from the buffer is no longer there.
BufferedGone ==
  \A c \in DOMAIN calls : calls[c].state = "buffered" =>
    /\ calls[c].result <= arrived
    /\ \A i \in DOMAIN received : received[i].id # calls[c].result

\* What is left of a type is not older than what receive answered with.
NothingOlder ==
  \A c \in DOMAIN calls : calls[c].method = "receive" /\ Answered(c) =>
    /\ calls[c].result <= arrived
    /\ \A i \in DOMAIN received :
         received[i].type = calls[c].type => calls[c].result <= received[i].id

MailInv ==
  /\ MailTypes /\ Registered /\ BufferSorted /\ BufferedGone /\ NothingOlder
  /\ NoneWaitsInVain /\ BufferServesOnce /\ MessagesInOrder

\* What a step has to preserve besides the types.
MailGoal ==
  /\ Registered /\ BufferSorted /\ BufferedGone /\ NothingOlder
  /\ NoneWaitsInVain /\ BufferServesOnce /\ MessagesInOrder

-----------------------------------------------------------------------------
(* Sequences.                                                              *)

LEMMA Elements ==
  ASSUME NEW S, NEW q \in Seq(S)
  PROVE  /\ Len(q) \in Nat /\ DOMAIN q = 1..Len(q)
         /\ \A i \in 1..Len(q) : q[i] \in S
BY ElementOfSeq, LenProperties

LEMMA Appended ==
  ASSUME NEW S, NEW q \in Seq(S), NEW e \in S
  PROVE  /\ Append(q, e) \in Seq(S) /\ DOMAIN Append(q, e) = 1..(Len(q) + 1)
         /\ Len(Append(q, e)) = Len(q) + 1
         /\ Append(q, e)[Len(q) + 1] = e
         /\ \A i \in 1..Len(q) : Append(q, e)[i] = q[i]
BY AppendProperties, ElementOfSeq, LenProperties

LEMMA Mapped ==
  ASSUME NEW S, NEW n \in Nat, NEW f, f = [i \in 1..n |-> f[i]], \A i \in 1..n : f[i] \in S
  PROVE  f \in Seq(S) /\ Len(f) = n /\ DOMAIN f = 1..n
<1>1. f \in [1..n -> S]
  OBVIOUS
<1> QED
  BY <1>1, SeqDef, LenProperties

\* The places of what is left after one is taken out.
Behind(i, j) == IF j < i THEN j ELSE j + 1

LEMMA Taken ==
  ASSUME NEW S, NEW q \in Seq(S), NEW i \in 1..Len(q)
  PROVE  /\ RemoveAt(q, i) \in Seq(S)
         /\ DOMAIN RemoveAt(q, i) = 1..(Len(q) - 1)
         /\ \A j \in 1..(Len(q) - 1) : RemoveAt(q, i)[j] = q[Behind(i, j)]
<1> DEFINE n == Len(q)
           a == SubSeq(q, 1, i - 1)
           b == SubSeq(q, i + 1, n)
<1>1. n \in Nat /\ i \in 1..n
  BY Elements
<1>2. a \in Seq(S) /\ Len(a) = i - 1 /\ \A j \in 1..(i - 1) : a[j] = q[j]
  <2>1. \A k \in 1..(i - 1) : k \in 1..n
    BY <1>1
  <2> QED
    BY <1>1, <2>1, SubSeqProperties
<1>3. b \in Seq(S) /\ Len(b) = n - i /\ \A j \in 1..(n - i) : b[j] = q[i + j]
  BY <1>1, SubSeqProperties
<1>4. RemoveAt(q, i) = a \o b
  BY DEF RemoveAt
<1> HIDE DEF a, b, n
<1>5. /\ a \o b \in Seq(S) /\ Len(a \o b) = n - 1
      /\ \A j \in 1..(n - 1) : (a \o b)[j] = IF j <= i - 1 THEN a[j] ELSE b[j - (i - 1)]
  <2>1. /\ a \o b \in Seq(S) /\ Len(a \o b) = Len(a) + Len(b)
        /\ \A j \in 1..(Len(a) + Len(b)) :
             (a \o b)[j] = IF j <= Len(a) THEN a[j] ELSE b[j - Len(a)]
    BY <1>2, <1>3, ConcatProperties
  <2>2. Len(a) = i - 1 /\ Len(a) + Len(b) = n - 1
    BY <1>1, <1>2, <1>3
  <2> QED
    BY <2>1, <2>2
<1>6. DOMAIN (a \o b) = 1..(n - 1)
  BY <1>5, LenProperties
<1>7. \A j \in 1..(n - 1) : (a \o b)[j] = q[Behind(i, j)]
  BY <1>1, <1>2, <1>3, <1>5 DEF Behind
<1> QED
  BY <1>4, <1>5, <1>6, <1>7 DEF n

LEMMA Typed ==
  ASSUME MailTypes
  PROVE  /\ Len(calls) \in Nat /\ DOMAIN calls = 1..Len(calls)
         /\ \A c \in 1..Len(calls) : calls[c] \in CallRecords
         /\ Len(received) \in Nat /\ DOMAIN received = 1..Len(received)
         /\ \A i \in 1..Len(received) : received[i] \in Messages
         /\ arrived \in Nat
BY Elements, MailAssumption DEF MailTypes

LEMMA Fields ==
  /\ \A m \in Messages : m.id \in Nat /\ m.type \in Types
  /\ \A c \in CallRecords : /\ c.result \in Nat /\ c.settled \in Nat /\ c.state \in States
                            /\ c.method \in Methods /\ Key(c) \in Types \cup {Wildcard}
BY MailAssumption DEF Messages, CallRecords, Key

-----------------------------------------------------------------------------
(* The steps.                                                              *)

LEMMA InitMail == MailInit => MailInv
<1> SUFFICES ASSUME MailInit PROVE MailInv
  OBVIOUS
<1>1. MailTypes
  BY MailAssumption DEF MailInit, MailTypes
<1>2. MailGoal
  BY DEF MailInit, MailGoal, Registered, Pending, BufferSorted, BufferedGone, NothingOlder,
    NoneWaitsInVain, BufferServesOnce, MessagesInOrder
<1> QED
  BY <1>1, <1>2 DEF MailInv, MailGoal

\* The socket, without its close event, and the timer of connect().
LEMMA SocketSteps ==
  ASSUME MailInv, UNCHANGED <<received, listeners, calls, arrived>>,
         socket' = "closed" => socket = "closed"
  PROVE  MailInv'
BY DEF MailInv, MailTypes, Registered, Pending, BufferSorted, BufferedGone, Answered,
  NothingOlder, NoneWaitsInVain, BufferServesOnce, MessagesInOrder

\* What settling calls changes about them.
Settles(settling, state, result) ==
  /\ calls' \in Seq(CallRecords) /\ DOMAIN calls' = DOMAIN calls
  /\ \A c \in DOMAIN calls :
       /\ calls'[c].method = calls[c].method /\ calls'[c].type = calls[c].type
       /\ c \in settling => /\ calls'[c].state = state /\ calls'[c].result = result
                           /\ calls'[c].settled = Len(calls)
       /\ c \notin settling => calls'[c] = calls[c]

LEMMA Settled ==
  ASSUME MailTypes, NEW settling, NEW state \in States, NEW result \in Nat,
         Settle(settling, state, result)
  PROVE  Settles(settling, state, result)
<1> DEFINE n == Len(calls)
<1>1. n \in Nat /\ DOMAIN calls = 1..n /\ \A c \in 1..n : calls[c] \in CallRecords
  BY Typed
<1>0. Len(calls) = n
  OBVIOUS
<1> HIDE DEF n
<1>2. ASSUME NEW r \in CallRecords, NEW s, s = [r EXCEPT !.state = state, !.result = result,
                                                      !.settled = n]
      PROVE  /\ s \in CallRecords /\ s.method = r.method /\ s.type = r.type
             /\ s.state = state /\ s.result = result /\ s.settled = n
  BY <1>1, <1>2 DEF CallRecords
<1>3. ASSUME NEW c \in 1..n
      PROVE  calls'[c] = IF c \in settling
                         THEN [calls[c] EXCEPT !.state = state, !.result = result,
                                               !.settled = n]
                         ELSE calls[c]
  BY <1>1, Zenon DEF Settle, n
<1>4. calls' = [c \in 1..n |-> calls'[c]]
  BY <1>1, Zenon DEF Settle
<1>5. \A c \in 1..n : calls'[c] \in CallRecords
  BY <1>1, <1>2, <1>3
<1>6. calls' \in Seq(CallRecords) /\ DOMAIN calls' = 1..n
  BY <1>1, <1>4, <1>5, Mapped
<1>7. \A c \in 1..n :
       /\ calls'[c].method = calls[c].method /\ calls'[c].type = calls[c].type
       /\ c \in settling => /\ calls'[c].state = state /\ calls'[c].result = result
                           /\ calls'[c].settled = n
       /\ c \notin settling => calls'[c] = calls[c]
  <2> SUFFICES ASSUME NEW c \in 1..n
               PROVE  /\ calls'[c].method = calls[c].method /\ calls'[c].type = calls[c].type
                      /\ c \in settling => /\ calls'[c].state = state
                                          /\ calls'[c].result = result
                                          /\ calls'[c].settled = n
                      /\ c \notin settling => calls'[c] = calls[c]
    OBVIOUS
  <2>1. CASE c \in settling
    <3>1. /\ calls[c] \in CallRecords
          /\ calls'[c] = [calls[c] EXCEPT !.state = state, !.result = result, !.settled = n]
      BY <1>1, <1>3, <2>1
    <3> QED
      BY <1>2, <2>1, <3>1
  <2>2. CASE c \notin settling
    <3>1. calls'[c] = calls[c]
      BY <1>3, <2>2
    <3> QED
      BY <2>2, <3>1
  <2> QED
    BY <2>1, <2>2
<1> QED
  BY <1>0, <1>1, <1>6, <1>7 DEF Settles

\* What settling pending calls with an answer that has just come, or without one, keeps.
LEMMA SettlingKeeps ==
  ASSUME MailInv, NEW settling, settling \subseteq Pending,
         NEW state \in {"served", "failed"}, NEW result \in Nat,
         Settles(settling, state, result)
  PROVE  /\ Pending' = Pending \ settling
         /\ \A c \in DOMAIN calls : \A m : Matches(calls'[c], m) <=> Matches(calls[c], m)
         /\ \A c \in DOMAIN calls : calls'[c].state = "buffered" => calls'[c] = calls[c]
         /\ BufferServesOnce'
<1>1. Pending' = Pending \ settling
  BY DEF Pending, Settles
<1>2. \A c \in DOMAIN calls : \A m : Matches(calls'[c], m) <=> Matches(calls[c], m)
  BY DEF Settles, Matches
<1>3. \A c \in DOMAIN calls : calls'[c].state = "buffered" => calls'[c] = calls[c]
  BY DEF Settles
<1>4. BufferServesOnce'
  BY <1>3 DEF MailInv, BufferServesOnce, Settles
<1> QED
  BY <1>1, <1>2, <1>3, <1>4

(***************************************************************************)
(* The handler of a message: a pending call that asks for it has its       *)
(* listener where the handler looks, and every call that has been settled  *)
(* got an older message.                                                   *)
(***************************************************************************)
LEMMA Arrival ==
  ASSUME MailInv, NEW type \in Types, NEW wanted \in BOOLEAN, MessageArrives(type, wanted)
  PROVE  MailInv'
<1> DEFINE msg == [id |-> arrived + 1, type |-> type, wanted |-> wanted]
           served == Served(msg)
           n == Len(calls)
           k == Len(received)
<1>1. /\ n \in Nat /\ DOMAIN calls = 1..n /\ \A c \in 1..n : calls[c] \in CallRecords
      /\ k \in Nat /\ DOMAIN received = 1..k /\ \A i \in 1..k : received[i] \in Messages
      /\ arrived \in Nat
  BY Typed DEF MailInv
<1>2. socket' = socket /\ arrived < MaxMessages /\ arrived' = arrived + 1
  BY DEF MessageArrives
<1>3. msg \in Messages /\ msg.id = arrived + 1 /\ msg.type = type /\ msg.id \in Nat
  BY <1>1, <1>2, MailAssumption DEF Messages
<1>4. served \subseteq Pending
  BY DEF Served
<1>5. \A c \in Pending : Matches(calls[c], msg) => c \in served
  <2> SUFFICES ASSUME NEW c \in Pending, Matches(calls[c], msg) PROVE c \in served
    OBVIOUS
  <2>1. calls[c].method # "expectClose" /\ c \in 1..n /\ calls[c].method \in Methods
    BY <1>1, Fields DEF Matches, Pending
  <2>2. c \in listeners[Key(calls[c])]
    BY <2>1 DEF MailInv, Registered
  <2>3. Key(calls[c]) \in KeysOf(msg)
    BY <2>1 DEF Key, KeysOf, Matches, Methods
  <2> QED
    BY <2>2, <2>3 DEF Served
<1>6. Settle(served, "served", msg.id)
  BY DEF MessageArrives
<1>7. Cleanup(KeysOf(msg), Cleaned(served))
  BY DEF MessageArrives
<1>8. received' = Append(received, msg)
  BY DEF MessageArrives, Buffered
<1>9. k = Len(received) /\ n = Len(calls)
  OBVIOUS
<1> HIDE DEF msg, served, n, k
<1>10. Settles(served, "served", msg.id)
  BY <1>3, <1>6, Settled DEF States, MailInv
<1>11. /\ Pending' = Pending \ served /\ BufferServesOnce'
       /\ \A c \in 1..n : \A m : Matches(calls'[c], m) <=> Matches(calls[c], m)
       /\ \A c \in 1..n : calls'[c].state = "buffered" => calls'[c] = calls[c]
  BY <1>1, <1>3, <1>4, <1>10, SettlingKeeps
<1>12. /\ calls' \in Seq(CallRecords) /\ DOMAIN calls' = 1..n
       /\ \A c \in 1..n :
            /\ calls'[c].method = calls[c].method /\ calls'[c].type = calls[c].type
            /\ c \in served => /\ calls'[c].state = "served" /\ calls'[c].settled = n
                              /\ calls'[c].result = arrived + 1
            /\ c \notin served => calls'[c] = calls[c]
  BY <1>1, <1>3, <1>9, <1>10 DEF Settles
<1>13. /\ received' \in Seq(Messages) /\ DOMAIN received' = 1..(k + 1)
       /\ received'[k + 1] = msg /\ \A i \in 1..k : received'[i] = received[i]
  BY <1>3, <1>8, <1>9, Appended DEF MailInv, MailTypes
<1>14. MailTypes'
  <2>1. listeners' \in [Types \cup {Wildcard} -> SUBSET Nat]
    BY <1>7 DEF MailInv, MailTypes, Cleanup
  <2>2. arrived' \in 0..MaxMessages
    BY <1>1, <1>2, MailAssumption
  <2> QED
    BY <1>12, <1>13, <2>1, <2>2 DEF MailTypes
<1>15. Registered'
  <2> SUFFICES ASSUME NEW c \in Pending', calls'[c].method # "expectClose"
               PROVE  c \in listeners'[Key(calls'[c])]
    BY DEF Registered
  <2>1. c \in Pending /\ c \in 1..n /\ c \notin served
    BY <1>1, <1>11 DEF Pending
  <2>2. calls'[c] = calls[c] /\ Key(calls[c]) \in Types \cup {Wildcard}
    BY <1>1, <1>12, <2>1, Fields
  <2>3. c \in listeners[Key(calls[c])]
    BY <2>1, <2>2 DEF MailInv, Registered
  <2>4. c \notin Cleaned(served)
    BY <2>1 DEF Cleaned
  <2> QED
    BY <1>7, <2>2, <2>3, <2>4 DEF MailInv, MailTypes, Cleanup
<1>16. BufferSorted'
  <2>1. \A i \in 1..k : received[i].id \in Nat /\ received[i].id <= arrived
    BY <1>1, Fields DEF MailInv, BufferSorted
  <2>2. \A i, j \in 1..k : i < j => received[i].id < received[j].id
    BY <1>1 DEF MailInv, BufferSorted
  <2>3. \A i \in 1..(k + 1) : received'[i].id <= arrived'
    BY <1>1, <1>2, <1>3, <1>13, <2>1
  <2>4. \A i, j \in 1..(k + 1) : i < j => received'[i].id < received'[j].id
    BY <1>1, <1>2, <1>3, <1>13, <2>1, <2>2
  <2> QED
    BY <1>13, <2>3, <2>4 DEF BufferSorted
<1>17. BufferedGone'
  <2> SUFFICES ASSUME NEW c \in 1..n, calls'[c].state = "buffered"
               PROVE  /\ calls'[c].result <= arrived'
                      /\ \A i \in 1..(k + 1) : received'[i].id # calls'[c].result
    BY <1>12, <1>13 DEF BufferedGone
  <2>1. calls'[c] = calls[c] /\ calls[c].result \in Nat
    BY <1>1, <1>11, Fields
  <2>2. calls[c].result <= arrived /\ \A i \in 1..k : received[i].id # calls[c].result
    BY <1>1, <2>1 DEF MailInv, BufferedGone
  <2>3. calls'[c].result <= arrived'
    BY <1>1, <1>2, <2>1, <2>2
  <2>4. \A i \in 1..k : received'[i].id # calls'[c].result
    BY <1>13, <2>1, <2>2
  <2>5. received'[k + 1].id # calls'[c].result
    BY <1>1, <1>3, <1>13, <2>1, <2>2
  <2> QED
    BY <1>1, <2>3, <2>4, <2>5
<1>18. NothingOlder'
  <2> SUFFICES ASSUME NEW c \in 1..n, calls'[c].method = "receive", Answered(c)'
               PROVE  /\ calls'[c].result <= arrived'
                      /\ \A i \in 1..(k + 1) : received'[i].type = calls'[c].type =>
                           calls'[c].result <= received'[i].id
    BY <1>12, <1>13 DEF NothingOlder
  <2>1. CASE c \notin served
    <3>1. calls'[c] = calls[c] /\ calls[c].result \in Nat /\ Answered(c)
      BY <1>1, <1>12, <2>1, Fields DEF Answered
    <3>2. /\ calls[c].result <= arrived
          /\ \A i \in 1..k : received[i].type = calls[c].type =>
               calls[c].result <= received[i].id
      BY <1>1, <3>1 DEF MailInv, NothingOlder
    <3> QED
      BY <1>1, <1>2, <1>3, <1>13, <3>1, <3>2
  <2>2. CASE c \in served
    <3>1. c \in Pending /\ calls[c].method = "receive" /\ calls'[c].type = calls[c].type
          /\ calls'[c].result = arrived + 1
      BY <1>4, <1>12, <2>2
    <3>2. \A i \in 1..k : received[i].type # calls[c].type
      BY <1>1, <3>1 DEF MailInv, NoneWaitsInVain, Matches
    <3> QED
      BY <1>1, <1>2, <1>3, <1>13, <3>1, <3>2
  <2> QED
    BY <2>1, <2>2
<1>19. NoneWaitsInVain'
  <2> SUFFICES ASSUME NEW c \in Pending'
               PROVE  /\ \A i \in 1..(k + 1) : ~Matches(calls'[c], received'[i])
                      /\ calls'[c].method = "expectClose" => socket' # "closed"
    BY <1>13 DEF NoneWaitsInVain
  <2>1. c \in Pending /\ c \in 1..n /\ c \notin served
    BY <1>1, <1>11 DEF Pending
  <2>2. /\ \A i \in 1..k : ~Matches(calls[c], received[i])
        /\ calls[c].method = "expectClose" => socket # "closed"
    BY <1>1, <2>1 DEF MailInv, NoneWaitsInVain
  <2>3. ~Matches(calls[c], msg)
    BY <1>5, <2>1
  <2>4. calls'[c] = calls[c]
    BY <1>12, <2>1
  <2> QED
    BY <1>1, <1>2, <1>13, <2>2, <2>3, <2>4
<1>20. MessagesInOrder'
  <2> SUFFICES ASSUME NEW c \in 1..n, NEW d \in 1..n,
                      calls'[c].method = "receive", calls'[d].method = "receive",
                      calls'[c].type = calls'[d].type, Answered(c)', Answered(d)',
                      c < d, calls'[c].settled < d
               PROVE  calls'[c].result <= calls'[d].result
    BY <1>12 DEF MessagesInOrder, Answered
  <2>1. c \notin served
    BY <1>1, <1>12
  <2>2. calls'[c] = calls[c] /\ calls[c].result \in Nat /\ Answered(c)
    BY <1>1, <1>12, <2>1, Fields DEF Answered
  <2>3. CASE d \in served
    <3>1. calls'[d].result = arrived + 1 /\ calls[c].result <= arrived
      BY <1>1, <1>12, <2>2, <2>3 DEF MailInv, NothingOlder
    <3> QED
      BY <1>1, <2>2, <3>1
  <2>4. CASE d \notin served
    <3>1. calls'[d] = calls[d]
      BY <1>12, <2>4
    <3> QED
      BY <1>1, <2>2, <3>1 DEF MailInv, MessagesInOrder, Answered
  <2> QED
    BY <2>3, <2>4
<1> QED
  BY <1>11, <1>14, <1>15, <1>16, <1>17, <1>18, <1>19, <1>20 DEF MailInv

-----------------------------------------------------------------------------
(* The calls of the test.                                                  *)

Asking == Methods \ {"expectClose"}

LEMMA NewCallFields ==
  ASSUME NEW method \in Methods, NEW type \in Types \cup {Wildcard}
  PROVE  /\ NewCall(method, type) \in CallRecords
         /\ NewCall(method, type).method = method /\ NewCall(method, type).type = type
         /\ NewCall(method, type).state = "pending"
         /\ Key(NewCall(method, type)) \in Types \cup {Wildcard}
BY DEF NewCall, CallRecords, States, Key

\* A call that finds its message takes the oldest; the rest stays in its order.
LEMMA FromBuffer ==
  ASSUME MailInv, NEW method \in Asking, NEW type \in Types \cup {Wildcard},
         NEW i \in DOMAIN received, Matches(NewCall(method, type), received[i]),
         \A j \in DOMAIN received : Matches(NewCall(method, type), received[j]) => i <= j,
         received' = Remaining(i),
         NEW new \in CallRecords, calls' = Append(calls, new),
         new.method = method, new.type = type, new.state = "buffered",
         new.result = received[i].id,
         UNCHANGED <<socket, connected, listeners, arrived>>
  PROVE  MailInv'
<1> DEFINE call == NewCall(method, type)
           n == Len(calls)
           k == Len(received)
           id == received[i].id
<1>1. /\ n \in Nat /\ DOMAIN calls = 1..n /\ \A c \in 1..n : calls[c] \in CallRecords
      /\ k \in Nat /\ DOMAIN received = 1..k /\ \A j \in 1..k : received[j] \in Messages
      /\ arrived \in Nat
  BY Typed DEF MailInv
<1>2. /\ method \in Methods /\ method # "expectClose"
      /\ call \in CallRecords /\ call.method = method /\ call.type = type
  BY NewCallFields DEF Asking
<1>3. i \in 1..k /\ id \in Nat
  BY <1>1, Fields
<1>4. /\ \A j \in 1..k : Matches(call, received[j]) => i <= j
      /\ Matches(call, received[i]) /\ id = received[i].id
  BY <1>1
<1>5. n = Len(calls) /\ k = Len(received)
  OBVIOUS
<1> HIDE DEF call, n, k, id
<1>6. /\ new \in CallRecords /\ new.method = method /\ new.type = type
      /\ new.state = "buffered" /\ new.result = id
  BY <1>4
<1>7. /\ calls' \in Seq(CallRecords) /\ DOMAIN calls' = 1..(n + 1) /\ calls'[n + 1] = new
      /\ \A c \in 1..n : calls'[c] = calls[c]
  BY <1>5, <1>6, Appended DEF MailInv, MailTypes
<1>8. /\ received' \in Seq(Messages) /\ DOMAIN received' = 1..(k - 1)
      /\ \A j \in 1..(k - 1) : received'[j] = received[Behind(i, j)]
  <2>1. i \in 1..Len(received) /\ received \in Seq(Messages) /\ received' = RemoveAt(received, i)
    BY <1>3, <1>5 DEF MailInv, MailTypes, Remaining
  <2> QED
    BY <1>5, <2>1, Taken
<1>9. /\ \A j \in 1..(k - 1) : Behind(i, j) \in 1..k /\ Behind(i, j) # i
      /\ \A j, l \in 1..(k - 1) : j < l => Behind(i, j) < Behind(i, l)
  BY <1>1, <1>3 DEF Behind
<1>10. /\ \A j \in 1..k : received[j].id \in Nat /\ received[j].id <= arrived
       /\ \A j, l \in 1..k : j < l => received[j].id < received[l].id
  BY <1>1, Fields DEF MailInv, BufferSorted
<1>11. \A j \in 1..k : j # i => received[j].id # id
  <2> SUFFICES ASSUME NEW j \in 1..k, j # i PROVE received[j].id # id
    OBVIOUS
  <2>1. j < i \/ i < j
    BY <1>1, <1>3
  <2> QED
    BY <1>3, <1>4, <1>10, <2>1
<1>12. Pending' = Pending /\ \A c \in Pending : c \in 1..n /\ calls'[c] = calls[c]
  <2>1. Pending \subseteq 1..n
    BY <1>1 DEF Pending
  <2>2. n + 1 \notin Pending'
    BY <1>6, <1>7 DEF Pending
  <2>3. \A c \in 1..n : c \in Pending' <=> c \in Pending
    BY <1>1, <1>7 DEF Pending
  <2>4. \A c \in Pending' : c \in 1..n
    BY <1>1, <1>7, <2>2 DEF Pending
  <2> QED
    BY <1>7, <2>1, <2>3, <2>4
<1>13. MailTypes'
  BY <1>7, <1>8 DEF MailInv, MailTypes
<1>14. Registered'
  BY <1>12 DEF MailInv, Registered
<1>15. BufferSorted'
  BY <1>8, <1>9, <1>10 DEF BufferSorted
<1>16. BufferedGone'
  <2>1. ASSUME NEW c \in 1..n, calls'[c].state = "buffered"
        PROVE  /\ calls'[c].result <= arrived
               /\ \A j \in 1..(k - 1) : received'[j].id # calls'[c].result
    <3>1. calls'[c] = calls[c] /\ calls[c].state = "buffered"
      BY <1>7, <2>1
    <3>2. /\ calls[c].result <= arrived
          /\ \A j \in 1..k : received[j].id # calls[c].result
      BY <1>1, <3>1 DEF MailInv, BufferedGone
    <3> QED BY <1>8, <1>9, <3>1, <3>2
  <2>2. /\ calls'[n + 1].result <= arrived
        /\ \A j \in 1..(k - 1) : received'[j].id # calls'[n + 1].result
    <3>1. calls'[n + 1].result = id
      BY <1>6, <1>7
    <3>2. id <= arrived
      BY <1>3, <1>4, <1>10
    <3> QED BY <1>8, <1>9, <1>11, <3>1, <3>2
  <2>3. \A c \in 1..(n + 1) : c \in 1..n \/ c = n + 1
    BY <1>1
  <2> QED
    BY <1>7, <1>8, <2>1, <2>2, <2>3 DEF BufferedGone
<1>17. NothingOlder'
  <2>1. ASSUME NEW c \in 1..n, calls'[c].method = "receive", Answered(c)'
        PROVE  /\ calls'[c].result <= arrived
               /\ \A j \in 1..(k - 1) : received'[j].type = calls'[c].type =>
                    calls'[c].result <= received'[j].id
    <3>1. calls'[c] = calls[c] /\ Answered(c)
      BY <1>7, <2>1 DEF Answered
    <3>2. /\ calls[c].result <= arrived
          /\ \A j \in 1..k : received[j].type = calls[c].type =>
               calls[c].result <= received[j].id
      BY <1>1, <2>1, <3>1 DEF MailInv, NothingOlder
    <3> QED
      BY <1>8, <1>9, <3>1, <3>2
  <2>2. ASSUME method = "receive"
        PROVE  /\ id <= arrived
               /\ \A j \in 1..(k - 1) : received'[j].type = type => id <= received'[j].id
    <3>1. \A j \in 1..k : received[j].type = type => i <= j
      BY <1>2, <1>4, <2>2 DEF Matches
    <3>2. \A j \in 1..k : i <= j => id <= received[j].id
      BY <1>3, <1>4, <1>10
    <3> QED
      BY <1>3, <1>4, <1>8, <1>9, <1>10, <3>1, <3>2
  <2> SUFFICES ASSUME NEW c \in 1..(n + 1), calls'[c].method = "receive", Answered(c)'
               PROVE  /\ calls'[c].result <= arrived
                      /\ \A j \in 1..(k - 1) : received'[j].type = calls'[c].type =>
                           calls'[c].result <= received'[j].id
    BY <1>7, <1>8 DEF NothingOlder
  <2>3. CASE c \in 1..n
    BY <2>1, <2>3
  <2>4. CASE c = n + 1
    BY <1>6, <1>7, <2>2, <2>4
  <2> QED
    BY <1>1, <2>3, <2>4
<1>18. NoneWaitsInVain'
  <2> SUFFICES ASSUME NEW c \in Pending
               PROVE  /\ \A j \in 1..(k - 1) : ~Matches(calls'[c], received'[j])
                      /\ calls'[c].method = "expectClose" => socket' # "closed"
    BY <1>8, <1>12 DEF NoneWaitsInVain
  <2>1. /\ \A j \in 1..k : ~Matches(calls[c], received[j])
        /\ calls[c].method = "expectClose" => socket # "closed"
    BY <1>1 DEF MailInv, NoneWaitsInVain
  <2> QED
    BY <1>8, <1>9, <1>12, <2>1
<1>19. BufferServesOnce'
  <2>1. ASSUME NEW c \in 1..n, calls'[c].state = "buffered"
        PROVE  calls'[c].result # new.result
    BY <1>1, <1>3, <1>6, <1>4, <1>7, <2>1 DEF MailInv, BufferedGone
  <2>2. ASSUME NEW c \in 1..n, NEW d \in 1..n, c # d,
               calls'[c].state = "buffered", calls'[d].state = "buffered"
        PROVE  calls'[c].result # calls'[d].result
    BY <1>1, <1>7, <2>2 DEF MailInv, BufferServesOnce
  <2> SUFFICES ASSUME NEW c \in 1..(n + 1), NEW d \in 1..(n + 1), c # d,
                      calls'[c].state = "buffered", calls'[d].state = "buffered"
               PROVE  calls'[c].result # calls'[d].result
    BY <1>7 DEF BufferServesOnce
  <2>3. c \in 1..n \/ c = n + 1
    BY <1>1
  <2>4. d \in 1..n \/ d = n + 1
    BY <1>1
  <2>5. CASE c \in 1..n /\ d \in 1..n
    BY <2>2, <2>5
  <2>6. CASE c = n + 1 /\ d \in 1..n
    BY <1>7, <2>1, <2>6
  <2>7. CASE c \in 1..n /\ d = n + 1
    BY <1>7, <2>1, <2>7
  <2> QED
    BY <2>3, <2>4, <2>5, <2>6, <2>7
<1>20. MessagesInOrder'
  <2> SUFFICES ASSUME NEW c \in 1..(n + 1), NEW d \in 1..(n + 1),
                      calls'[c].method = "receive", calls'[d].method = "receive",
                      calls'[c].type = calls'[d].type, Answered(c)', Answered(d)',
                      c < d, calls'[c].settled < d
               PROVE  calls'[c].result <= calls'[d].result
    BY <1>7 DEF MessagesInOrder, Answered
  <2>1. c \in 1..n /\ calls'[c] = calls[c] /\ Answered(c)
    BY <1>1, <1>7 DEF Answered
  <2>2. CASE d \in 1..n
    BY <1>1, <1>7, <2>1, <2>2 DEF MailInv, MessagesInOrder, Answered
  <2>3. CASE d = n + 1
    <3>1. method = "receive" /\ calls[c].type = type /\ calls'[d].result = id
      BY <1>6, <1>7, <2>1, <2>3
    <3>2. received[i].type = type
      BY <1>2, <1>4, <3>1 DEF Matches
    <3> QED
      BY <1>1, <1>3, <1>4, <2>1, <3>1, <3>2 DEF MailInv, NothingOlder
  <2> QED
    BY <1>1, <2>2, <2>3
<1> QED
  BY <1>13, <1>14, <1>15, <1>16, <1>17, <1>18, <1>19, <1>20 DEF MailInv

\* A call that finds no message waits with its listener, and expectClose for the socket.
LEMMA NewCallWaits ==
  ASSUME MailInv, NEW new \in CallRecords, calls' = Append(calls, new),
         new.state # "buffered",
         \/ /\ new.method # "expectClose" /\ new.state = "pending"
            /\ \A i \in DOMAIN received : ~Matches(new, received[i])
            /\ listeners' = [listeners EXCEPT ![Key(new)] = @ \cup {Len(calls) + 1}]
         \/ /\ new.method = "expectClose" /\ listeners' = listeners
            /\ new.state = "pending" => socket # "closed",
         UNCHANGED <<socket, received, arrived>>
  PROVE  MailInv'
<1> DEFINE n == Len(calls)
<1>1. /\ n \in Nat /\ DOMAIN calls = 1..n /\ n + 1 \notin 1..n
      /\ \A c \in 1..n : calls[c] \in CallRecords
  BY Typed DEF MailInv
<1>2. n = Len(calls) /\ \A c \in 1..(n + 1) : c \in 1..n \/ c = n + 1
  BY <1>1
<1> HIDE DEF n
<1>3. /\ calls' \in Seq(CallRecords) /\ DOMAIN calls' = 1..(n + 1) /\ calls'[n + 1] = new
      /\ \A c \in 1..n : calls'[c] = calls[c]
  BY <1>2, Appended DEF MailInv, MailTypes
<1>4. Key(new) \in Types \cup {Wildcard}
  BY Fields
<1>5. listeners' \in [Types \cup {Wildcard} -> SUBSET Nat]
  BY <1>1, <1>2, <1>4 DEF MailInv, MailTypes
<1>6. MailTypes'
  BY <1>3, <1>5 DEF MailInv, MailTypes
<1>7. ASSUME NEW c \in Pending'
      PROVE  \/ c \in Pending /\ c \in 1..n /\ calls'[c] = calls[c]
             \/ c = n + 1 /\ calls'[c] = new /\ new.state = "pending"
  BY <1>1, <1>2, <1>3, <1>7 DEF Pending
<1>8. Registered'
  <2> SUFFICES ASSUME NEW c \in Pending', calls'[c].method # "expectClose"
               PROVE  c \in listeners'[Key(calls'[c])]
    BY DEF Registered
  <2>1. CASE c \in Pending /\ c \in 1..n /\ calls'[c] = calls[c]
    <3>1. Key(calls[c]) \in Types \cup {Wildcard} /\ c \in listeners[Key(calls[c])]
      BY <1>1, <2>1, Fields DEF MailInv, Registered
    <3> QED
      BY <1>4, <2>1, <3>1 DEF MailInv, MailTypes
  <2>2. CASE c = n + 1 /\ calls'[c] = new /\ new.state = "pending"
    BY <1>2, <1>4, <2>2 DEF MailInv, MailTypes
  <2> QED
    BY <1>7, <2>1, <2>2
<1>9. BufferSorted'
  BY DEF MailInv, BufferSorted
<1>10. ASSUME NEW c \in DOMAIN calls', calls'[c].state = "buffered"
       PROVE  c \in DOMAIN calls /\ calls'[c] = calls[c]
  BY <1>1, <1>2, <1>3, <1>10
<1>11. BufferedGone'
  BY <1>10 DEF MailInv, BufferedGone
<1>12. BufferServesOnce'
  BY <1>10 DEF MailInv, BufferServesOnce
<1>13. ASSUME NEW c \in DOMAIN calls', calls'[c].method = "receive", Answered(c)'
       PROVE  c \in DOMAIN calls /\ calls'[c] = calls[c] /\ Answered(c)
  BY <1>1, <1>2, <1>3, <1>13 DEF Answered
<1>14. NothingOlder'
  BY <1>13 DEF MailInv, NothingOlder
<1>15. MessagesInOrder'
  <2> SUFFICES ASSUME NEW c \in DOMAIN calls', NEW d \in DOMAIN calls',
                      calls'[c].method = "receive", calls'[d].method = "receive",
                      calls'[c].type = calls'[d].type, Answered(c)', Answered(d)',
                      c < d, calls'[c].settled < d
               PROVE  calls'[c].result <= calls'[d].result
    BY DEF MessagesInOrder, Answered
  <2>1. /\ c \in DOMAIN calls /\ calls'[c] = calls[c] /\ Answered(c)
        /\ d \in DOMAIN calls /\ calls'[d] = calls[d] /\ Answered(d)
    BY <1>13
  <2> QED
    BY <2>1 DEF MailInv, MessagesInOrder, Answered
<1>16. NoneWaitsInVain'
  <2> SUFFICES ASSUME NEW c \in Pending'
               PROVE  /\ \A i \in DOMAIN received : ~Matches(calls'[c], received[i])
                      /\ calls'[c].method = "expectClose" => socket # "closed"
    BY DEF NoneWaitsInVain
  <2>1. CASE c \in Pending /\ c \in 1..n /\ calls'[c] = calls[c]
    BY <2>1 DEF MailInv, NoneWaitsInVain
  <2>2. CASE c = n + 1 /\ calls'[c] = new /\ new.state = "pending"
    <3>1. \A i \in DOMAIN received : ~Matches(new, received[i])
      <4>1. CASE new.method # "expectClose"
        BY <4>1
      <4>2. CASE new.method = "expectClose"
        BY <4>2 DEF Matches
      <4> QED
        BY <4>1, <4>2
    <3> QED
      BY <2>2, <3>1
  <2> QED
    BY <1>7, <2>1, <2>2
<1> QED
  BY <1>6, <1>8, <1>9, <1>11, <1>12, <1>14, <1>15, <1>16 DEF MailInv

LEMMA AskingStep ==
  ASSUME MailInv, NEW method \in Asking, NEW type \in Types \cup {Wildcard},
         AsksFor(NewCall(method, type))
  PROVE  MailInv'
<1> DEFINE call == NewCall(method, type)
<1>1. /\ call \in CallRecords /\ call.method = method /\ call.method # "expectClose"
      /\ call.type = type /\ call.state = "pending"
  BY NewCallFields DEF Asking
<1>2. UNCHANGED <<socket, connected, arrived>>
  BY DEF AsksFor
<1>3. CASE \E i \in DOMAIN received :
             /\ Matches(call, received[i])
             /\ \A j \in DOMAIN received : Matches(call, received[j]) => i <= j
             /\ received' = Remaining(i)
             /\ calls' = Append(calls, [call EXCEPT !.state = "buffered",
                                          !.settled = Len(calls) + 1,
                                          !.result = received[i].id])
             /\ UNCHANGED listeners
  <2>1. PICK i \in DOMAIN received :
             /\ Matches(call, received[i])
             /\ \A j \in DOMAIN received : Matches(call, received[j]) => i <= j
             /\ received' = Remaining(i)
             /\ calls' = Append(calls, [call EXCEPT !.state = "buffered",
                                          !.settled = Len(calls) + 1,
                                          !.result = received[i].id])
             /\ UNCHANGED listeners
    BY <1>3
  <2>2. Len(calls) + 1 \in Nat /\ received[i].id \in Nat
    BY Typed, Fields DEF MailInv
  <2>3. PICK r \in CallRecords, n \in Nat, id \in Nat :
               r = call /\ n = Len(calls) + 1 /\ id = received[i].id
    BY <1>1, <2>2
  <2> DEFINE new == [r EXCEPT !.state = "buffered", !.settled = n, !.result = id]
  <2>4. calls' = Append(calls, new)
    BY <2>1, <2>3
  <2>5. /\ new \in CallRecords /\ new.method = r.method /\ new.type = r.type
        /\ new.state = "buffered" /\ new.result = id
    BY Zenon DEF CallRecords, States
  <2> HIDE DEF new
  <2>6. new.method = method /\ new.type = type /\ new.result = received[i].id
    BY <1>1, <2>3, <2>5
  <2> QED
    BY <1>1, <1>2, <2>1, <2>4, <2>5, <2>6, FromBuffer
<1>4. CASE /\ \A i \in DOMAIN received : ~Matches(call, received[i])
           /\ calls' = Append(calls, call)
           /\ listeners' = [listeners EXCEPT ![Key(call)] = @ \cup {Len(calls) + 1}]
           /\ UNCHANGED received
  <2> HIDE DEF call
  <2> QED
    BY <1>1, <1>2, <1>4, NewCallWaits
<1> QED
  BY <1>3, <1>4 DEF AsksFor

LEMMA CloseExpected == MailInv /\ ExpectClose => MailInv'
<1> SUFFICES ASSUME MailInv, ExpectClose PROVE MailInv'
  OBVIOUS
<1>1. UNCHANGED <<socket, connected, received, listeners, arrived>>
  BY DEF ExpectClose
<1>2. PICK state \in {"served", "pending"}, n \in Nat :
        /\ state = IF socket = "closed" THEN "served" ELSE "pending"
        /\ n = IF socket = "closed" THEN Len(calls) + 1 ELSE 0
  <2>1. Len(calls) + 1 \in Nat
    BY Typed DEF MailInv
  <2>2. CASE socket = "closed"
    BY <2>1, <2>2
  <2>3. CASE socket # "closed"
    BY <2>3
  <2> QED BY <2>2, <2>3
<1> DEFINE new == [NewCall("expectClose", Wildcard) EXCEPT !.state = state, !.settled = n]
<1>3. calls' = Append(calls, new)
  BY <1>2 DEF ExpectClose
<1>4. new \in CallRecords /\ new.method = "expectClose" /\ new.state = state
  <2>1. state \in States
    BY <1>2 DEF States
  <2> QED BY <2>1 DEF NewCall, CallRecords, Methods
<1> HIDE DEF new
<1>5. new.state # "buffered" /\ (new.state = "pending" => socket # "closed")
  BY <1>2, <1>4
<1> QED
  BY <1>1, <1>3, <1>4, <1>5, NewCallWaits

\* A timer and the close event: no message is involved.
LEMMA SettledWithoutMessage ==
  ASSUME MailInv, NEW settling, settling \subseteq Pending,
         NEW state \in {"served", "failed"},
         state = "served" => \A c \in settling : calls[c].method = "expectClose",
         \A c \in Pending : calls[c].method = "expectClose" /\ socket' = "closed"
                              => socket = "closed" \/ c \in settling,
         Settle(settling, state, 0),
         \/ UNCHANGED listeners
         \/ \E keys : Cleanup(keys, settling),
         UNCHANGED <<received, arrived>>
  PROVE  MailInv'
<1>1. Settles(settling, state, 0)
  BY Settled DEF States, MailInv
<1>2. /\ Pending' = Pending \ settling /\ BufferServesOnce'
      /\ \A c \in DOMAIN calls : \A m : Matches(calls'[c], m) <=> Matches(calls[c], m)
      /\ \A c \in DOMAIN calls : calls'[c].state = "buffered" => calls'[c] = calls[c]
  BY <1>1, SettlingKeeps
<1>3. /\ calls' \in Seq(CallRecords) /\ DOMAIN calls' = DOMAIN calls
      /\ \A c \in DOMAIN calls : c \notin settling => calls'[c] = calls[c]
      /\ \A c \in settling : calls'[c].method = calls[c].method /\ calls'[c].state = state
  BY <1>1 DEF Settles, Pending
<1>4. Pending \subseteq DOMAIN calls
  BY DEF Pending
<1>5. listeners' \in [Types \cup {Wildcard} -> SUBSET Nat]
  BY DEF MailInv, MailTypes, Cleanup
<1>6. MailTypes'
  BY <1>3, <1>5 DEF MailInv, MailTypes
<1>7. Registered'
  <2> SUFFICES ASSUME NEW c \in Pending', calls'[c].method # "expectClose"
               PROVE  c \in listeners'[Key(calls'[c])]
    BY DEF Registered
  <2>1. c \in Pending /\ c \notin settling /\ calls'[c] = calls[c]
    BY <1>2, <1>3, <1>4
  <2>2. c \in DOMAIN calls /\ calls[c] \in CallRecords
    BY <1>4, <2>1, Typed DEF MailInv
  <2>3. Key(calls[c]) \in Types \cup {Wildcard} /\ c \in listeners[Key(calls[c])]
    BY <2>1, <2>2, Fields DEF MailInv, Registered
  <2> QED
    BY <2>1, <2>3 DEF MailInv, MailTypes, Cleanup
<1>8. BufferSorted'
  BY DEF MailInv, BufferSorted
<1>9. BufferedGone'
  BY <1>2, <1>3 DEF MailInv, BufferedGone
<1>10. ASSUME NEW c \in DOMAIN calls, calls'[c].method = "receive", Answered(c)'
       PROVE  calls'[c] = calls[c] /\ Answered(c)
  <2>1. c \notin settling
    BY <1>3, <1>10 DEF Answered
  <2> QED
    BY <1>3, <1>10, <2>1 DEF Answered
<1>11. NothingOlder'
  BY <1>3, <1>10 DEF MailInv, NothingOlder
<1>12. MessagesInOrder'
  <2> SUFFICES ASSUME NEW c \in DOMAIN calls, NEW d \in DOMAIN calls,
                      calls'[c].method = "receive", calls'[d].method = "receive",
                      calls'[c].type = calls'[d].type, Answered(c)', Answered(d)',
                      c < d, calls'[c].settled < d
               PROVE  calls'[c].result <= calls'[d].result
    BY <1>3 DEF MessagesInOrder, Answered
  <2>1. calls'[c] = calls[c] /\ Answered(c) /\ calls'[d] = calls[d] /\ Answered(d)
    BY <1>10
  <2> QED
    BY <2>1 DEF MailInv, MessagesInOrder, Answered
<1>13. NoneWaitsInVain'
  BY <1>2, <1>3, <1>4 DEF MailInv, NoneWaitsInVain
<1> QED
  BY <1>2, <1>6, <1>7, <1>8, <1>9, <1>11, <1>12, <1>13 DEF MailInv

LEMMA TimeOutStep == ASSUME MailInv, NEW c, CallTimesOut(c) PROVE MailInv'
<1>1. c \in Pending /\ Settle({c}, "failed", 0) /\ UNCHANGED <<socket, connected, received, arrived>>
  BY DEF CallTimesOut
<1>2. UNCHANGED listeners \/ Cleanup({Key(calls[c])}, {c})
  BY DEF CallTimesOut
<1> QED
  BY <1>1, <1>2, SettledWithoutMessage

LEMMA CloseStep == MailInv /\ SocketCloses => MailInv'
<1> SUFFICES ASSUME MailInv, SocketCloses PROVE MailInv'
  OBVIOUS
<1> DEFINE waiting == {c \in Pending : calls[c].method = "expectClose"}
<1>1. /\ Settle(waiting, "served", 0) /\ waiting \subseteq Pending
      /\ UNCHANGED <<connected, received, listeners, arrived>>
      /\ \A c \in waiting : calls[c].method = "expectClose"
      /\ \A c \in Pending : calls[c].method = "expectClose" => c \in waiting
  BY DEF SocketCloses
<1> HIDE DEF waiting
<1> QED
  BY <1>1, SettledWithoutMessage

-----------------------------------------------------------------------------
LEMMA NextMail == MailInv /\ [MailNext]_mailVars => MailInv'
<1> SUFFICES ASSUME MailInv, [MailNext]_mailVars PROVE MailInv'
  OBVIOUS
<1>1. CASE SocketOpens
  BY <1>1, SocketSteps DEF SocketOpens
<1>2. CASE SocketFails
  BY <1>2, SocketSteps DEF SocketFails
<1>3. CASE ConnectTimesOut
  BY <1>3, SocketSteps DEF ConnectTimesOut
<1>4. CASE \E type \in Types, wanted \in BOOLEAN : MessageArrives(type, wanted)
  BY <1>4, Arrival
<1>5. CASE \E type \in Types, method \in {"receive", "receiveExactly"} :
             AsksFor(NewCall(method, type))
  BY <1>5, AskingStep DEF Asking, Methods
<1>6. CASE AsksFor(NewCall("waitForMessage", Wildcard))
  BY <1>6, AskingStep DEF Asking, Methods
<1>7. CASE ExpectClose
  BY <1>7, CloseExpected
<1>8. CASE \E c \in 1..MaxCalls : CallTimesOut(c)
  BY <1>8, TimeOutStep
<1>9. CASE TestCloses
  BY <1>9, SocketSteps DEF TestCloses
<1>10. CASE SocketCloses
  BY <1>10, CloseStep
<1>11. CASE UNCHANGED mailVars
  BY <1>11, SocketSteps DEF mailVars
<1> QED
  BY <1>1, <1>2, <1>3, <1>4, <1>5, <1>6, <1>7, <1>8, <1>9, <1>10, <1>11 DEF MailNext

LEMMA MailStays == MailSpec => []MailInv
<1>1. MailInit => MailInv
  BY InitMail
<1>2. MailInv /\ [MailNext]_mailVars => MailInv'
  BY NextMail
<1> QED
  BY <1>1, <1>2, PTL DEF MailSpec

\* No call waits for a message that is in the buffer, whichever came first, nor for a
\* close that has been: the search of the buffer and the listeners of TestClient leave
\* no gap between them.
THEOREM NoCallForgotten == MailSpec => []NoneWaitsInVain
<1>1. MailInv => NoneWaitsInVain
  BY DEF MailInv
<1> QED
  BY <1>1, MailStays, PTL

\* Two calls never take the same message out of the buffer.
THEOREM BufferedOnce == MailSpec => []BufferServesOnce
<1>1. MailInv => BufferServesOnce
  BY DEF MailInv
<1> QED
  BY <1>1, MailStays, PTL

\* Calls of receive for one type, each made when the one before has its answer, get
\* their messages in the order in which the server sent them.
THEOREM ReadInOrder == MailSpec => []MessagesInOrder
<1>1. MailInv => MessagesInOrder
  BY DEF MailInv
<1> QED
  BY <1>1, MailStays, PTL
=============================================================================
