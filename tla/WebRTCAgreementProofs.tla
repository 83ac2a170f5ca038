------------------------- MODULE WebRTCAgreementProofs -------------------------
(***************************************************************************)
(* For any two peers and any bounds: what the negotiation of               *)
(* WebRTCNegotiation comes to when nothing disturbs it, and where the      *)
(* candidates are meanwhile.                                               *)
(***************************************************************************)
EXTENDS WebRTCNegotiationProofs

-----------------------------------------------------------------------------
(* What is in a sequence, and in which order.                              *)

Has(q, S) == \E i \in DOMAIN q : q[i] \in S
Within(q, S) == \A i \in DOMAIN q : q[i] \in S
Before(q, S, T) == \E i, j \in DOMAIN q : i < j /\ q[i] \in S /\ q[j] \in T

LEMMA Kept ==
  ASSUME NEW q, NEW S, NEW T, S \subseteq T
  PROVE  /\ Has(q, S) => Has(q, T)
         /\ Within(q, S) => Within(q, T)
         /\ \A U : Before(q, S, U) => Before(q, T, U)
         /\ \A U : Before(q, U, S) => Before(q, U, T)
BY DEF Has, Within, Before

LEMMA Apart ==
  ASSUME NEW q, NEW S, NEW T, Within(q, S), S \cap T = {}
  PROVE  ~Has(q, T) /\ \A U : ~Before(q, T, U) /\ ~Before(q, U, T)
BY DEF Has, Within, Before

LEMMA Empty == \A S, T : ~Has(<<>>, S) /\ Within(<<>>, S) /\ ~Before(<<>>, S, T)
BY DEF Has, Within, Before

LEMMA Single ==
  ASSUME NEW e
  PROVE  \A S, T : /\ Has(<<e>>, S) <=> e \in S
                   /\ Within(<<e>>, S) <=> e \in S
                   /\ ~Before(<<e>>, S, T)
BY DEF Has, Within, Before

LEMMA Joined ==
  ASSUME NEW X, NEW q \in Seq(X), NEW s \in Seq(X)
  PROVE  \A S, T :
           /\ Has(q \o s, S) <=> Has(q, S) \/ Has(s, S)
           /\ Within(q \o s, S) <=> Within(q, S) /\ Within(s, S)
           /\ Before(q \o s, S, T) <=>
                Before(q, S, T) \/ Before(s, S, T) \/ (Has(q, S) /\ Has(s, T))
<1> DEFINE m == Len(q)
           n == Len(s)
           r == q \o s
<1>1. /\ m \in Nat /\ n \in Nat /\ DOMAIN q = 1..m /\ DOMAIN s = 1..n
      /\ DOMAIN r = 1..(m + n)
      /\ \A i \in 1..m : r[i] = q[i]
      /\ \A i \in 1..n : r[m + i] = s[i]
  BY ConcatProperties, LenProperties
<1> HIDE DEF m, n, r
<1>2. \A i \in 1..(m + n) : i \in 1..m \/ (i > m /\ i - m \in 1..n /\ r[i] = s[i - m])
  <2> SUFFICES ASSUME NEW i \in 1..(m + n), i \notin 1..m
               PROVE  i > m /\ i - m \in 1..n /\ r[i] = s[i - m]
    OBVIOUS
  <2>1. i > m /\ i - m \in 1..n /\ m + (i - m) = i
    BY <1>1
  <2> QED BY <1>1, <2>1
<1>3. \A i \in 1..n : m + i \in 1..(m + n) /\ m + i > m
  BY <1>1
<1>4. \A i \in 1..m : i \in 1..(m + n)
  BY <1>1
<1> SUFFICES ASSUME NEW S, NEW T
             PROVE  /\ Has(r, S) <=> Has(q, S) \/ Has(s, S)
                    /\ Within(r, S) <=> Within(q, S) /\ Within(s, S)
                    /\ Before(r, S, T) <=>
                         Before(q, S, T) \/ Before(s, S, T) \/ (Has(q, S) /\ Has(s, T))
  BY DEF r
<1>5. Has(r, S) <=> Has(q, S) \/ Has(s, S)
  BY <1>1, <1>2, <1>3, <1>4 DEF Has
<1>6. Within(r, S) <=> Within(q, S) /\ Within(s, S)
  BY <1>1, <1>2, <1>3, <1>4 DEF Within
<1>7. ASSUME Before(r, S, T)
      PROVE  Before(q, S, T) \/ Before(s, S, T) \/ (Has(q, S) /\ Has(s, T))
  <2>1. PICK i \in 1..(m + n), j \in 1..(m + n) : i < j /\ r[i] \in S /\ r[j] \in T
    BY <1>1, <1>7 DEF Before
  <2>2. CASE j \in 1..m
    <3>1. i \in 1..m
      BY <1>1, <2>1, <2>2
    <3> QED BY <1>1, <2>1, <2>2, <3>1 DEF Before
  <2>3. CASE j \notin 1..m /\ i \in 1..m
    BY <1>1, <1>2, <2>1, <2>3 DEF Has
  <2>4. CASE j \notin 1..m /\ i \notin 1..m
    <3>1. /\ i - m \in 1..n /\ j - m \in 1..n /\ i - m < j - m
          /\ s[i - m] \in S /\ s[j - m] \in T
      BY <1>1, <1>2, <2>1, <2>4
    <3> QED BY <1>1, <3>1 DEF Before
  <2> QED BY <2>2, <2>3, <2>4
<1>8. ASSUME Before(q, S, T) PROVE Before(r, S, T)
  BY <1>1, <1>4, <1>8 DEF Before
<1>9. ASSUME Before(s, S, T) PROVE Before(r, S, T)
  <2>1. PICK i \in 1..n, j \in 1..n : i < j /\ s[i] \in S /\ s[j] \in T
    BY <1>1, <1>9 DEF Before
  <2>2. m + i < m + j /\ r[m + i] \in S /\ r[m + j] \in T
    BY <1>1, <2>1
  <2> QED BY <1>1, <1>3, <2>2 DEF Before
<1>10. ASSUME Has(q, S), Has(s, T) PROVE Before(r, S, T)
  <2>1. PICK i \in 1..m, j \in 1..n : q[i] \in S /\ s[j] \in T
    BY <1>1, <1>10 DEF Has
  <2>2. i < m + j /\ r[i] \in S /\ r[m + j] \in T
    BY <1>1, <2>1
  <2> QED BY <1>1, <1>3, <1>4, <2>2 DEF Before
<1> QED BY <1>5, <1>6, <1>7, <1>8, <1>9, <1>10

\* A sequence by its head and its tail.
LEMMA Cut ==
  ASSUME NEW X, NEW q \in Seq(X), q # <<>>
  PROVE  /\ Head(q) \in X /\ Tail(q) \in Seq(X)
         /\ \A S, T :
              /\ Has(q, S) <=> Head(q) \in S \/ Has(Tail(q), S)
              /\ Within(q, S) <=> Head(q) \in S /\ Within(Tail(q), S)
              /\ Before(q, S, T) <=>
                   Before(Tail(q), S, T) \/ (Head(q) \in S /\ Has(Tail(q), T))
<1>1. Head(q) \in X /\ Tail(q) \in Seq(X) /\ q = <<Head(q)>> \o Tail(q)
  BY HeadTailProperties
<1>2. <<Head(q)>> \in Seq(X)
  BY <1>1
<1> DEFINE h == Head(q)
           t == Tail(q)
<1> HIDE DEF h, t
<1>3. \A S, T :
           /\ Has(<<h>> \o t, S) <=> Has(<<h>>, S) \/ Has(t, S)
           /\ Within(<<h>> \o t, S) <=> Within(<<h>>, S) /\ Within(t, S)
           /\ Before(<<h>> \o t, S, T) <=>
                Before(<<h>>, S, T) \/ Before(t, S, T) \/ (Has(<<h>>, S) /\ Has(t, T))
  BY <1>1, <1>2, Joined DEF h, t
<1>4. \A S, T : /\ Has(<<h>>, S) <=> h \in S
                /\ Within(<<h>>, S) <=> h \in S
                /\ ~Before(<<h>>, S, T)
  BY Single
<1>5. q = <<h>> \o t
  BY <1>1 DEF h, t
<1> QED BY <1>1, <1>3, <1>4, <1>5 DEF h, t

\* A sequence with one element more.
LEMMA Added ==
  ASSUME NEW X, NEW q \in Seq(X), NEW e \in X
  PROVE  /\ Append(q, e) \in Seq(X)
         /\ \A S, T :
              /\ Has(Append(q, e), S) <=> Has(q, S) \/ e \in S
              /\ Within(Append(q, e), S) <=> Within(q, S) /\ e \in S
              /\ Before(Append(q, e), S, T) <=> Before(q, S, T) \/ (Has(q, S) /\ e \in T)
<1>1. <<e>> \in Seq(X) /\ Append(q, e) \in Seq(X) /\ Append(q, e) = q \o <<e>>
  BY AppendProperties, AppendIsConcat
<1>2. \A S, T : /\ Has(<<e>>, S) <=> e \in S
                /\ Within(<<e>>, S) <=> e \in S
                /\ ~Before(<<e>>, S, T)
  BY Single
<1> DEFINE s == <<e>>
           r == Append(q, e)
<1>3. s \in Seq(X) /\ r \in Seq(X) /\ r = q \o s
  BY <1>1
<1>4. \A S, T : (Has(s, S) <=> e \in S) /\ (Within(s, S) <=> e \in S) /\ ~Before(s, S, T)
  BY <1>2
<1> HIDE DEF s, r
<1>5. \A S, T :
           /\ Has(r, S) <=> Has(q, S) \/ Has(s, S)
           /\ Within(r, S) <=> Within(q, S) /\ Within(s, S)
           /\ Before(r, S, T) <=>
                Before(q, S, T) \/ Before(s, S, T) \/ (Has(q, S) /\ Has(s, T))
  BY <1>3, Joined
<1>6. \A S, T :
         /\ Has(r, S) <=> Has(q, S) \/ e \in S
         /\ Within(r, S) <=> Within(q, S) /\ e \in S
         /\ Before(r, S, T) <=> Before(q, S, T) \/ (Has(q, S) /\ e \in T)
  BY <1>4, <1>5
<1> QED BY <1>3, <1>6 DEF r
-----------------------------------------------------------------------------
(* Descriptions and the calls that carry them.                             *)

OfferOf(p) == OfferMessage(p, 0)
AnswerOf(p) == AnswerMessage(p, pc[p].generation)
Offers(p) == [type : {"offer"}, from : {p}, generation : Nat]
Answers(p) == [type : {"answer"}, from : {p}, generation : Nat]

CreatesOffer == {Call("createOffer", Null)}
CreatesAnswer == {Call("createAnswer", Null)}
Sets(D) == {Call("setLocal", d) : d \in D}
Takes(D) == {Call("setRemote", d) : d \in D}
GivesWay(D) == {Call("rollback", d) : d \in D}
AddsQueued == {Call("addQueued", c) : c \in Candidates}
Adds == {Call("addCandidate", c) : c \in Candidates} \cup AddsQueued

LEMMA CallKinds ==
  /\ \A c \in CreatesOffer : c.call = "createOffer"
  /\ \A c \in CreatesAnswer : c.call = "createAnswer"
  /\ \A D : \A c \in Sets(D) : c.call = "setLocal" /\ c.arg \in D
  /\ \A D : \A c \in Takes(D) : c.call = "setRemote" /\ c.arg \in D
  /\ \A D : \A c \in GivesWay(D) : c.call = "rollback" /\ c.arg \in D
  /\ \A c \in Adds : c.call \in {"addCandidate", "addQueued"} /\ c.arg \in Candidates
  /\ \A c \in AddsQueued : c \in Adds
  /\ Call("createOffer", Null) \in CreatesOffer
  /\ Call("createAnswer", Null) \in CreatesAnswer
  /\ \A D : \A d \in D :
       Call("setLocal", d) \in Sets(D) /\ Call("setRemote", d) \in Takes(D)
         /\ Call("rollback", d) \in GivesWay(D)
  /\ \A c \in Candidates : Call("addCandidate", c) \in Adds /\ Call("addQueued", c) \in AddsQueued
BY DEF CreatesOffer, CreatesAnswer, Sets, Takes, GivesWay, Adds, AddsQueued, Call

LEMMA CallRecords ==
  /\ Call("createOffer", Null) \in CallsMade /\ Call("createAnswer", Null) \in CallsMade
  /\ \A d \in Descriptions : /\ Call("setLocal", d) \in CallsMade
                            /\ Call("setRemote", d) \in CallsMade
                            /\ Call("rollback", d) \in CallsMade
  /\ \A c \in Candidates : /\ Call("addCandidate", c) \in CallsMade
                          /\ Call("addQueued", c) \in CallsMade
BY DEF Call, CallsMade

LEMMA MessageKinds ==
  ASSUME NEW p \in Peers
  PROVE  /\ \A d \in Offers(p) : d.type = "offer" /\ d \in Descriptions
         /\ \A d \in Answers(p) : d.type = "answer" /\ d \in Descriptions
         /\ \A c \in Candidates : c.type = "ice-candidate"
         /\ \A d \in Descriptions : d.type \in {"offer", "answer"} /\ d # Null
         /\ \A g \in Nat : OfferMessage(p, g) \in Offers(p) /\ AnswerMessage(p, g) \in Answers(p)
         /\ \A d \in Answers(p) : d = AnswerMessage(p, d.generation) /\ d.generation \in Nat
BY NullIsNoMessage
   DEF Offers, Answers, Candidates, Descriptions, Senders, OfferMessage, AnswerMessage

-----------------------------------------------------------------------------
(* The inductive invariant.                                                *)

State(p) == pc[p].signalingState
Settled(p) == pc[p].settled.local # Null
Unsettled == [local |-> Null, remote |-> Null]

\* The answer the taker has given, if it has.
Given(l) == IF Settled(l) THEN {AnswerOf(l)} ELSE {}

Glared(p) == "GLARE_CONFLICT" \in errors[p]

\* Nobody has sent an offer.
Silent ==
  \A p \in Peers :
    /\ pc[p] = Fresh /\ toPeer[p] = <<>> /\ ~Glared(p)
    /\ Within(chain[p], CreatesOffer \cup Sets({OfferOf(p)}))
    /\ ~remoteDescriptionSet[p] /\ pendingIceCandidates[p] = <<>>
    /\ initiations[p] > 0 => chain[p] # <<>>

\* Otherwise w is the peer that sent the first offer, and l is the other one.  w never gives
\* way: its offers are all the same, and it has no remote description but the answer of l.
AskerState(w, l) ==
  /\ State(w) \in {"stable", "have-local-offer"}
  /\ pc[w].generation = 0 /\ pc[w].local = OfferOf(w)
  /\ \/ State(w) = "have-local-offer" /\ pc[w].remote = Null /\ pc[w].settled = Unsettled
     \/ /\ pc[w].remote \in Given(l)
        /\ pc[w].settled = [local |-> OfferOf(w), remote |-> pc[w].remote]
  /\ remoteDescriptionSet[w] => pc[w].remote # Null
AskerCalls(w, l) ==
  Within(chain[w], CreatesOffer \cup Sets({OfferOf(w)}) \cup Takes(Given(l)) \cup Adds)

\* l settles on one answer to the offer of w, and has no offer of its own from then on.
TakerState(w, l) ==
  /\ State(l) \in {"stable", "have-local-offer", "have-remote-offer"}
  /\ Settled(l) => /\ pc[l].settled = [local |-> AnswerOf(l), remote |-> OfferOf(w)]
                   /\ State(l) # "have-local-offer" /\ remoteDescriptionSet[l]
  /\ ~Settled(l) => pc[l].settled = Unsettled
  /\ State(l) = "stable" =>
       pc[l].local = pc[l].settled.local /\ pc[l].remote = pc[l].settled.remote
  /\ State(l) = "have-remote-offer" =>
       /\ remoteDescriptionSet[l] /\ pc[l].local = pc[l].settled.local
       /\ pc[l].remote = OfferOf(w)
  /\ State(l) = "have-local-offer" => pc[l].remote = Null

\* The calls of the taker that lead from an offer it has taken to its answer.
Responds(w, l) == GivesWay({OfferOf(w)}) \cup CreatesAnswer \cup Sets(Answers(l))

TakerMakes(w, l) ==
  CreatesOffer \cup Sets(Offers(l)) \cup Takes({OfferOf(w)}) \cup Responds(w, l) \cup Adds

TakerCalls(w, l) ==
  /\ Within(chain[l], TakerMakes(w, l))
  /\ ~remoteDescriptionSet[l] => ~Has(chain[l], Responds(w, l))
  /\ Settled(l) => ~Has(chain[l], CreatesOffer) /\ ~Has(chain[l], Sets(Offers(l)))
  /\ ~Before(chain[l], CreatesAnswer, CreatesOffer)
  /\ Has(chain[l], CreatesOffer) => ~Has(chain[l], Sets(Answers(l)))
  /\ ~Before(chain[l], Sets(Answers(l)), Sets(Offers(l)))

\* Answers with credentials that l has given up.
Stale(l) == Sets(Answers(l) \ {AnswerOf(l)})

\* An answer that may be set was made for the offer that is set: while l has a remote offer,
\* it takes no further one before its response, and at all other times no call of an earlier
\* response is left behind an offer to be taken.
ResponsesFresh(w, l) ==
  /\ State(l) = "have-remote-offer" =>
       /\ ~Before(chain[l], Responds(w, l), Takes({OfferOf(w)}))
       /\ ~Has(chain[l], Stale(l))
       /\ Has(chain[l], Responds(w, l))
  /\ State(l) # "have-remote-offer" =>
       ~Before(chain[l], Takes({OfferOf(w)}), Responds(w, l))

ToTaker(w, l) == Within(toPeer[l], {OfferOf(w)} \cup Candidates)

\* The offers of l come before its answers, and meet the offer of w that is still set.
ToAsker(w, l) ==
  /\ Within(toPeer[w], Offers(l) \cup Given(l) \cup Candidates)
  /\ ~Before(toPeer[w], Answers(l), Offers(l))
  /\ Has(toPeer[w], Offers(l)) => pc[w].remote = Null /\ ~Has(chain[w], Takes(Answers(l)))

Negotiates(w, l) ==
  /\ AskerState(w, l) /\ AskerCalls(w, l)
  /\ TakerState(w, l) /\ TakerCalls(w, l) /\ ResponsesFresh(w, l)
  /\ ToTaker(w, l) /\ ToAsker(w, l)

\* An offer of w that is set, and not answered, is on its way to an answer, or refused.
Waits(w, l) ==
  \/ Has(toPeer[l], {OfferOf(w)}) \/ Has(chain[l], Takes({OfferOf(w)}))
  \/ State(l) = "have-remote-offer"
  \/ Has(toPeer[w], Given(l)) \/ Has(chain[w], Takes(Given(l)))
  \/ Glared(l)

\* What l refuses an offer for is an own one, which w refuses in its turn.
Refused(w, l) == Has(toPeer[w], Offers(l)) \/ Glared(w)

Pending(w, l) ==
  /\ State(w) = "have-local-offer" => Waits(w, l)
  /\ Glared(l) \/ State(l) = "have-local-offer" => Refused(w, l)

Roles(w, l) == w \in Peers /\ l \in Peers /\ w # l

\* Until something is disturbed, nobody is cut off.
Attached == \A p \in Peers : online[p] /\ subscribed[p]

AgreementInv ==
  Undisturbed /\ FirstNegotiation =>
    /\ Attached
    /\ \/ Silent
       \/ \E w, l \in Peers : w # l /\ Negotiates(w, l) /\ Pending(w, l)

-----------------------------------------------------------------------------
(* The effect of a step on the sequences and the connections.              *)

\* The descriptions of p's connection stay as they are.
SameDescriptions(p) ==
  /\ pc'[p].signalingState = pc[p].signalingState
  /\ pc'[p].generation = pc[p].generation
  /\ pc'[p].local = pc[p].local /\ pc'[p].remote = pc[p].remote
  /\ pc'[p].settled = pc[p].settled

SameSide(p) ==
  SameDescriptions(p) /\ chain'[p] = chain[p] /\ remoteDescriptionSet'[p] = remoteDescriptionSet[p]

LEMMA RolesKnown ==
  ASSUME NEW w, NEW l, Roles(w, l)
  PROVE  w \in Peers /\ l \in Peers /\ w # l /\ Other(w) = l /\ Other(l) = w /\ Peers = {w, l}
<1>1. Other(w) \in Peers /\ Other(w) # w /\ Other(l) \in Peers /\ Other(l) # l
  BY OtherIsPeer DEF Roles
<1> QED BY <1>1, TwoPeers DEF Roles

LEMMA CallAdded ==
  ASSUME NegotiationTypes, NEW p \in Peers, NEW op \in CallsMade, Calls(p, op)
  PROVE  /\ \A r \in Peers \ {p} : chain'[r] = chain[r]
         /\ \A S, T :
              /\ Has(chain'[p], S) <=> Has(chain[p], S) \/ op \in S
              /\ Within(chain'[p], S) <=> Within(chain[p], S) /\ op \in S
              /\ Before(chain'[p], S, T) <=>
                   Before(chain[p], S, T) \/ (Has(chain[p], S) /\ op \in T)
<1>1. chain'[p] = Append(chain[p], op) /\ \A r \in Peers \ {p} : chain'[r] = chain[r]
  BY DEF Calls, NegotiationTypes
<1>2. chain[p] \in Seq(CallsMade)
  BY DEF NegotiationTypes
<1>3. \A S, T :
        /\ Has(Append(chain[p], op), S) <=> Has(chain[p], S) \/ op \in S
        /\ Within(Append(chain[p], op), S) <=> Within(chain[p], S) /\ op \in S
        /\ Before(Append(chain[p], op), S, T) <=>
             Before(chain[p], S, T) \/ (Has(chain[p], S) /\ op \in T)
  BY <1>2, Added
<1> QED BY <1>1, <1>3

LEMMA MessageAdded ==
  ASSUME NegotiationTypes, Attached, NEW p \in Peers, NEW msg \in Descriptions \cup Candidates,
         SendMessage(p, msg)
  PROVE  /\ toPeer'[p] = toPeer[p]
         /\ \A S, T :
              /\ Has(toPeer'[Other(p)], S) <=> Has(toPeer[Other(p)], S) \/ msg \in S
              /\ Within(toPeer'[Other(p)], S) <=> Within(toPeer[Other(p)], S) /\ msg \in S
              /\ Before(toPeer'[Other(p)], S, T) <=>
                   Before(toPeer[Other(p)], S, T) \/ (Has(toPeer[Other(p)], S) /\ msg \in T)
<1> DEFINE M == Descriptions \cup Candidates
<1>1. Other(p) \in Peers /\ Other(p) # p
  BY OtherIsPeer
<1>2. toPeer[Other(p)] \in Seq(M) /\ msg \in M
  BY <1>1 DEF NegotiationTypes
<1>3. toPeer'[Other(p)] = Append(toPeer[Other(p)], msg) /\ toPeer'[p] = toPeer[p]
  BY <1>1 DEF SendMessage, Attached, NegotiationTypes
<1> DEFINE q == toPeer[Other(p)]
<1> HIDE DEF M, q
<1>4. \A S, T :
        /\ Has(Append(q, msg), S) <=> Has(q, S) \/ msg \in S
        /\ Within(Append(q, msg), S) <=> Within(q, S) /\ msg \in S
        /\ Before(Append(q, msg), S, T) <=> Before(q, S, T) \/ (Has(q, S) /\ msg \in T)
  BY <1>2, Added DEF q
<1> QED BY <1>3, <1>4 DEF q

LEMMA MessageTaken ==
  ASSUME NegotiationTypes, NEW p \in Peers, toPeer[p] # <<>>,
         toPeer' = [toPeer EXCEPT ![p] = Tail(@)]
  PROVE  /\ \A r \in Peers \ {p} : toPeer'[r] = toPeer[r]
         /\ Head(toPeer[p]) \in Descriptions \cup Candidates
         /\ \A S, T :
              /\ Has(toPeer[p], S) <=> Head(toPeer[p]) \in S \/ Has(toPeer'[p], S)
              /\ Within(toPeer[p], S) <=> Head(toPeer[p]) \in S /\ Within(toPeer'[p], S)
              /\ Before(toPeer[p], S, T) <=>
                   Before(toPeer'[p], S, T) \/ (Head(toPeer[p]) \in S /\ Has(toPeer'[p], T))
<1> DEFINE M == Descriptions \cup Candidates
<1>1. toPeer[p] \in Seq(M)
  BY DEF NegotiationTypes
<1>2. toPeer'[p] = Tail(toPeer[p]) /\ \A r \in Peers \ {p} : toPeer'[r] = toPeer[r]
  BY DEF NegotiationTypes
<1> DEFINE q == toPeer[p]
<1> HIDE DEF M, q
<1>3. /\ Head(q) \in M
      /\ \A S, T :
           /\ Has(q, S) <=> Head(q) \in S \/ Has(Tail(q), S)
           /\ Within(q, S) <=> Head(q) \in S /\ Within(Tail(q), S)
           /\ Before(q, S, T) <=> Before(Tail(q), S, T) \/ (Head(q) \in S /\ Has(Tail(q), T))
  BY <1>1, Cut DEF q
<1> QED BY <1>2, <1>3 DEF q, M

LEMMA CallTaken ==
  ASSUME NegotiationTypes, NEW p \in Peers, chain[p] # <<>>
  PROVE  /\ Head(chain[p]) \in CallsMade /\ Tail(chain[p]) \in Seq(CallsMade)
         /\ \A S, T :
              /\ Has(chain[p], S) <=> Head(chain[p]) \in S \/ Has(Tail(chain[p]), S)
              /\ Within(chain[p], S) <=> Head(chain[p]) \in S /\ Within(Tail(chain[p]), S)
              /\ Before(chain[p], S, T) <=>
                   Before(Tail(chain[p]), S, T) \/ (Head(chain[p]) \in S /\ Has(Tail(chain[p]), T))
<1>1. chain[p] \in Seq(CallsMade)
  BY DEF NegotiationTypes
<1> QED BY <1>1, Cut

LEMMA Resolving ==
  ASSUME NegotiationTypes, NEW p \in Peers, NEW name, NEW ops \in Seq(CallsMade),
         Resolves(p, name, ops)
  PROVE  /\ chain[p] # <<>> /\ Head(chain[p]).call = name /\ Legal(pc[p], Head(chain[p]))
         /\ pc'[p] = Applied(pc[p], Head(chain[p]))
         /\ \A r \in Peers \ {p} : pc'[r] = pc[r] /\ chain'[r] = chain[r]
         /\ \A S, T :
              /\ Has(chain'[p], S) <=> Has(Tail(chain[p]), S) \/ Has(ops, S)
              /\ Within(chain'[p], S) <=> Within(Tail(chain[p]), S) /\ Within(ops, S)
              /\ Before(chain'[p], S, T) <=>
                   \/ Before(Tail(chain[p]), S, T) \/ Before(ops, S, T)
                   \/ Has(Tail(chain[p]), S) /\ Has(ops, T)
<1>1. /\ chain[p] # <<>> /\ Head(chain[p]).call = name /\ Legal(pc[p], Head(chain[p]))
      /\ pc' = [pc EXCEPT ![p] = Applied(@, Head(chain[p]))]
      /\ chain' = [chain EXCEPT ![p] = Tail(@) \o ops]
  BY DEF Resolves
<1>2. /\ pc'[p] = Applied(pc[p], Head(chain[p]))
      /\ chain'[p] = Tail(chain[p]) \o ops
      /\ \A r \in Peers \ {p} : pc'[r] = pc[r] /\ chain'[r] = chain[r]
  BY <1>1 DEF NegotiationTypes
<1>3. Tail(chain[p]) \in Seq(CallsMade)
  BY <1>1, CallTaken
<1>4. \A S, T :
        /\ Has(Tail(chain[p]) \o ops, S) <=> Has(Tail(chain[p]), S) \/ Has(ops, S)
        /\ Within(Tail(chain[p]) \o ops, S) <=> Within(Tail(chain[p]), S) /\ Within(ops, S)
        /\ Before(Tail(chain[p]) \o ops, S, T) <=>
             \/ Before(Tail(chain[p]), S, T) \/ Before(ops, S, T)
             \/ Has(Tail(chain[p]), S) /\ Has(ops, T)
  BY <1>3, Joined
<1> QED BY <1>1, <1>2, <1>4

\* What a step of the taker leaves of the asker, and the other way round.
LEMMA AskerKept ==
  ASSUME NEW w, NEW l, Roles(w, l), SameSide(w), Given(l) \subseteq Given(l)',
         AskerState(w, l), AskerCalls(w, l)
  PROVE  AskerState(w, l)' /\ AskerCalls(w, l)'
<1>1. AskerState(w, l)'
  BY DEF AskerState, SameSide, SameDescriptions, State, Given
<1>2. CreatesOffer \cup Sets({OfferOf(w)}) \cup Takes(Given(l)) \cup Adds
        \subseteq CreatesOffer \cup Sets({OfferOf(w)}) \cup Takes(Given(l)') \cup Adds
  BY DEF Takes
<1>3. AskerCalls(w, l)'
  BY <1>2, Kept DEF AskerCalls, SameSide
<1> QED BY <1>1, <1>3

LEMMA TakerKept ==
  ASSUME NEW w, NEW l, Roles(w, l), SameSide(l),
         TakerState(w, l), TakerCalls(w, l), ResponsesFresh(w, l)
  PROVE  TakerState(w, l)' /\ TakerCalls(w, l)' /\ ResponsesFresh(w, l)' /\ Given(l)' = Given(l)
<1>1. /\ State(l)' = State(l) /\ Settled(l)' = Settled(l) /\ AnswerOf(l)' = AnswerOf(l)
      /\ Responds(w, l)' = Responds(w, l) /\ Stale(l)' = Stale(l)
      /\ TakerMakes(w, l)' = TakerMakes(w, l)
  BY DEF SameSide, SameDescriptions, State, Settled, AnswerOf, Responds, Stale, TakerMakes
<1>2. TakerState(w, l)'
  BY <1>1 DEF TakerState, SameSide, SameDescriptions
<1>3. TakerCalls(w, l)'
  BY <1>1 DEF TakerCalls, SameSide
<1>4. ResponsesFresh(w, l)'
  BY <1>1 DEF ResponsesFresh, SameSide
<1> QED BY <1>1, <1>2, <1>3, <1>4 DEF Given

\* A peer that has no answer yet, of which there is none on its way either.
LEMMA GivenFacts ==
  ASSUME NegotiationTypes, NEW l \in Peers
  PROVE  /\ Given(l) \subseteq {AnswerOf(l)} /\ AnswerOf(l) \in Answers(l)
         /\ AnswerOf(l) # Null /\ AnswerOf(l).type = "answer"
         /\ AnswerOf(l) \in Descriptions
<1>1. pc[l].generation \in Nat
  BY DEF NegotiationTypes, Connection
<1>2. AnswerOf(l) \in Answers(l)
  BY <1>1, MessageKinds DEF AnswerOf
<1> QED BY <1>2, MessageKinds DEF Given

-----------------------------------------------------------------------------
(* The steps of the asker.                                                 *)

LEMMA AskerInitiates ==
  ASSUME NegotiationTypes, NEW w, NEW l, Roles(w, l), Negotiates(w, l), InitiateConnection(w)
  PROVE  Negotiates(w, l)'
<1>0. /\ w \in Peers /\ l \in Peers /\ w # l
      /\ UNCHANGED <<toPeer, pc, remoteDescriptionSet>>
  BY RolesKnown DEF InitiateConnection
<1> DEFINE op == Call("createOffer", Null)
<1>1. Calls(w, op) /\ op \in CallsMade
  BY DEF InitiateConnection, Call, CallsMade
<1>2. op \in CreatesOffer /\ op.call = "createOffer"
  BY CallKinds DEF Call
<1> HIDE DEF op
<1>3. /\ chain'[l] = chain[l]
      /\ \A S, T :
           /\ Has(chain'[w], S) <=> Has(chain[w], S) \/ op \in S
           /\ Within(chain'[w], S) <=> Within(chain[w], S) /\ op \in S
  BY <1>0, <1>1, CallAdded
<1>4. SameSide(l)
  BY <1>0, <1>3 DEF SameSide, SameDescriptions
<1>5. TakerState(w, l)' /\ TakerCalls(w, l)' /\ ResponsesFresh(w, l)' /\ Given(l)' = Given(l)
  BY <1>4, TakerKept DEF Negotiates
<1>6. AskerState(w, l)'
  BY <1>0, <1>5 DEF Negotiates, AskerState, State
<1>7. AskerCalls(w, l)'
  BY <1>2, <1>3, <1>5 DEF Negotiates, AskerCalls
<1>8. op \notin Takes(Answers(l))
  BY <1>2, CallKinds
<1>9. ToAsker(w, l)' /\ ToTaker(w, l)'
  BY <1>0, <1>3, <1>5, <1>8 DEF Negotiates, ToAsker, ToTaker
<1> QED BY <1>5, <1>6, <1>7, <1>9 DEF Negotiates

\* A message is handled: an offer is refused as glare, since the own one is still set.
LEMMA AskerHears ==
  ASSUME NegotiationTypes, Attached, NEW w, NEW l, Roles(w, l), Negotiates(w, l), Delivery(w)
  PROVE  Negotiates(w, l)'
<1> DEFINE msg == Head(toPeer[w])
<1>0. /\ w \in Peers /\ l \in Peers /\ w # l
      /\ toPeer[w] # <<>> /\ toPeer' = [toPeer EXCEPT ![w] = Tail(@)]
      /\ UNCHANGED <<pc, remoteDescriptionSet>>
  BY RolesKnown DEF Delivery, HandleOffer, HandleAnswer, HandleIceCandidate, Unheard, Receives
<1>1. /\ toPeer'[l] = toPeer[l]
      /\ \A S, T :
           /\ Has(toPeer[w], S) <=> msg \in S \/ Has(toPeer'[w], S)
           /\ Within(toPeer[w], S) <=> msg \in S /\ Within(toPeer'[w], S)
           /\ Before(toPeer[w], S, T) <=>
                Before(toPeer'[w], S, T) \/ (msg \in S /\ Has(toPeer'[w], T))
  BY <1>0, MessageTaken
<1>2. msg \in Offers(l) \/ msg \in Given(l) \/ msg \in Candidates
  BY <1>1 DEF Negotiates, ToAsker
<1>3. Given(l) \subseteq Answers(l)
  BY <1>0, GivenFacts
<1> HIDE DEF msg
\* What has to be shown of the calls.
<1> DEFINE Fine == /\ chain'[l] = chain[l]
                   /\ AskerCalls(w, l)'
                   /\ Has(chain'[w], Takes(Answers(l))) =>
                        Has(chain[w], Takes(Answers(l))) \/ msg \in Answers(l)
<1>4. ASSUME HandleOffer(w) PROVE Fine
  <2>1. msg.type = "offer"
    BY <1>4 DEF HandleOffer, Receives, msg
  <2>2. msg \in Offers(l)
    BY <1>0, <1>2, <1>3, <2>1, MessageKinds
  <2>3. pc[w].remote = Null
    BY <1>1, <2>2 DEF Negotiates, ToAsker
  <2>4. Glare(w)
    BY <1>0, <2>3, GivenFacts DEF Negotiates, AskerState, State, Glare
  <2>5. UNCHANGED chain
    BY <1>4, <2>4 DEF HandleOffer
  <2> QED BY <1>0, <2>5 DEF Negotiates, AskerCalls, Given, Settled, AnswerOf
<1>5. ASSUME HandleAnswer(w) PROVE Fine
  <2>1. msg.type = "answer"
    BY <1>5 DEF HandleAnswer, Receives, msg
  <2>2. msg \in Given(l)
    BY <1>0, <1>2, <2>1, MessageKinds
  <2> DEFINE op == Call("setRemote", msg)
  <2>3. Calls(w, op)
    BY <1>5 DEF HandleAnswer, msg
  <2>4. op \in Takes(Given(l)) /\ op \in CallsMade
    <3>1. msg \in Descriptions
      BY <1>0, <2>2, GivenFacts
    <3> QED BY <2>2, <3>1, CallKinds DEF Call, CallsMade
  <2> HIDE DEF op
  <2>5. /\ chain'[l] = chain[l]
        /\ \A S : Within(chain'[w], S) <=> Within(chain[w], S) /\ op \in S
    BY <1>0, <2>3, <2>4, CallAdded
  <2>6. AskerCalls(w, l)'
    BY <1>0, <2>4, <2>5 DEF Negotiates, AskerCalls, Given, Settled, AnswerOf
  <2> QED BY <1>3, <2>2, <2>5, <2>6
<1>6. ASSUME HandleIceCandidate(w) PROVE Fine
  <2>1. msg.type = "ice-candidate"
    BY <1>6 DEF HandleIceCandidate, Receives, msg
  <2>2. msg \in Candidates
    BY <1>0, <1>2, <1>3, <2>1, MessageKinds
  <2> DEFINE op == Call("addCandidate", msg)
  <2>3. Calls(w, op) \/ UNCHANGED chain
    BY <1>6 DEF HandleIceCandidate, msg
  <2>4. op \in Adds /\ op \in CallsMade /\ op \notin Takes(Answers(l))
    <3>1. op \in Adds /\ op \in CallsMade
      BY <2>2, CallKinds, CallRecords
    <3>2. op.call = "addCandidate"
      BY DEF Call
    <3> HIDE DEF op
    <3>3. \A c \in Takes(Answers(l)) : c.call = "setRemote"
      BY CallKinds
    <3> QED BY <3>1, <3>2, <3>3
  <2> HIDE DEF op
  <2>5. CASE UNCHANGED chain
    BY <1>0, <2>5 DEF Negotiates, AskerCalls, Given, Settled, AnswerOf
  <2>6. CASE Calls(w, op)
    <3>1. /\ chain'[l] = chain[l]
          /\ \A S : /\ Within(chain'[w], S) <=> Within(chain[w], S) /\ op \in S
                    /\ Has(chain'[w], S) <=> Has(chain[w], S) \/ op \in S
      BY <1>0, <2>4, <2>6, CallAdded
    <3>2. AskerCalls(w, l)'
      BY <1>0, <2>4, <3>1 DEF Negotiates, AskerCalls, Given, Settled, AnswerOf
    <3> QED BY <2>4, <3>1, <3>2
  <2> QED BY <2>3, <2>5, <2>6
<1>7. ~Unheard(w)
  BY <1>0 DEF Unheard, Attached
<1>8. Fine
  BY <1>4, <1>5, <1>6, <1>7 DEF Delivery
<1>9. SameSide(l)
  BY <1>0, <1>8 DEF SameSide, SameDescriptions
<1>10. TakerState(w, l)' /\ TakerCalls(w, l)' /\ ResponsesFresh(w, l)' /\ Given(l)' = Given(l)
  BY <1>9, TakerKept DEF Negotiates
<1>11. AskerState(w, l)'
  BY <1>0, <1>10 DEF Negotiates, AskerState, State
<1>12. ToTaker(w, l)'
  BY <1>1 DEF Negotiates, ToTaker
<1>13. ToAsker(w, l)'
  BY <1>0, <1>1, <1>8, <1>10 DEF Negotiates, ToAsker
<1> QED BY <1>8, <1>10, <1>11, <1>12, <1>13 DEF Negotiates

LEMMA FlushCalls ==
  ASSUME NegotiationTypes, NEW p \in Peers
  PROVE  /\ FlushPendingIceCandidates(p) \in Seq(CallsMade)
         /\ Within(FlushPendingIceCandidates(p), AddsQueued)
<1> DEFINE pending == pendingIceCandidates[p]
           n == Len(pending)
           flush == FlushPendingIceCandidates(p)
<1>1. pending \in Seq(Candidates)
  BY DEF NegotiationTypes
<1>2. n \in Nat /\ DOMAIN pending = 1..n /\ \A i \in 1..n : pending[i] \in Candidates
  BY <1>1, LenProperties, ElementOfSeq
<1>3. \A c \in Candidates : Call("addQueued", c) \in CallsMade
  BY DEF Call, CallsMade
<1>4. flush = [i \in 1..n |-> Call("addQueued", pending[i])]
  BY <1>2 DEF FlushPendingIceCandidates
<1> HIDE DEF flush, pending, n
<1>5. flush \in [1..n -> CallsMade]
  BY <1>2, <1>3, <1>4
<1>6. flush \in Seq(CallsMade)
  BY <1>2, <1>5, SeqDef
<1>7. Within(flush, AddsQueued)
  BY <1>2, <1>4, CallKinds DEF Within
<1> QED BY <1>6, <1>7 DEF flush

\* The calls of an own description, and of the other peer's candidates, do not settle anything.
LEMMA AskerSettles ==
  ASSUME NegotiationTypes, Attached, NEW w, NEW l, Roles(w, l), Negotiates(w, l), Settles(w)
  PROVE  Negotiates(w, l)'
<1> DEFINE h == Head(chain[w])
           t == Tail(chain[w])
<1>0. w \in Peers /\ l \in Peers /\ w # l /\ Other(w) = l
  BY RolesKnown
<1>1. chain[w] # <<>>
  BY DEF Settles, OfferCreated, AnswerCreated, LocalDescriptionSet, RolledBack,
         RemoteDescriptionSet, CandidateAdded, CallRejected, Resolves
<1>2. /\ h \in CallsMade /\ t \in Seq(CallsMade)
      /\ \A S : /\ Has(chain[w], S) <=> h \in S \/ Has(t, S)
                /\ Within(chain[w], S) <=> h \in S /\ Within(t, S)
  BY <1>0, <1>1, CallTaken
<1>3. pc[w] \in Connection /\ pc[w].generation = 0
  BY <1>0 DEF NegotiationTypes, Negotiates, AskerState
<1>4. /\ h \in CreatesOffer \cup Sets({OfferOf(w)}) \cup Takes(Given(l)) \cup Adds
      /\ Within(t, CreatesOffer \cup Sets({OfferOf(w)}) \cup Takes(Given(l)) \cup Adds)
  BY <1>2 DEF Negotiates, AskerCalls
<1>5. h.call \notin {"createAnswer", "rollback"}
  BY <1>4, CallKinds
<1> HIDE DEF h, t
\* What has to be shown of the step, with the calls ops made by the code behind.
<1> DEFINE Effect(ops) ==
             /\ pc'[l] = pc[l] /\ chain'[l] = chain[l]
             /\ remoteDescriptionSet'[l] = remoteDescriptionSet[l]
             /\ Within(ops, CreatesOffer \cup Sets({OfferOf(w)}) \cup Takes(Given(l)) \cup Adds)
             /\ ~Has(ops, Takes(Answers(l)))
             /\ \A S : /\ Has(chain'[w], S) <=> Has(t, S) \/ Has(ops, S)
                       /\ Within(chain'[w], S) <=> Within(t, S) /\ Within(ops, S)
             /\ AskerState(w, l)'
             /\ toPeer'[w] = toPeer[w] /\ ToTaker(w, l)'
             /\ Has(toPeer[w], Offers(l)) => pc'[w].remote = Null
<1>6. ASSUME NEW ops, Effect(ops) PROVE Negotiates(w, l)'
  <2>1. SameSide(l)
    BY <1>6 DEF SameSide, SameDescriptions
  <2>2. TakerState(w, l)' /\ TakerCalls(w, l)' /\ ResponsesFresh(w, l)' /\ Given(l)' = Given(l)
    BY <2>1, TakerKept DEF Negotiates
  <2>3. AskerCalls(w, l)'
    BY <1>4, <1>6, <2>2 DEF AskerCalls
  <2>4. ToAsker(w, l)'
    BY <1>2, <1>6, <2>2 DEF Negotiates, ToAsker
  <2> QED BY <1>6, <2>2, <2>3, <2>4 DEF Negotiates
<1>7. \A S, T : ~Has(<<>>, S) /\ Within(<<>>, S)
  BY Empty
<1>8. ASSUME UNCHANGED <<toPeer, remoteDescriptionSet>>, SameDescriptions(w), pc'[l] = pc[l]
      PROVE  /\ AskerState(w, l)' /\ ToTaker(w, l)'
             /\ Has(toPeer[w], Offers(l)) => pc'[w].remote = Null
  <2>1. Given(l)' = Given(l)
    BY <1>8 DEF Given, Settled, AnswerOf
  <2>2. AskerState(w, l)'
    <3>1. SameDescriptions(w) /\ remoteDescriptionSet'[w] = remoteDescriptionSet[w]
      BY <1>8
    <3>2. AskerState(w, l)
      BY DEF Negotiates
    <3> QED BY <2>1, <3>1, <3>2 DEF AskerState, SameDescriptions, State
  <2>3. ToTaker(w, l)'
    BY <1>8 DEF Negotiates, ToTaker
  <2>4. Has(toPeer[w], Offers(l)) => pc'[w].remote = Null
    BY <1>8 DEF Negotiates, ToAsker, SameDescriptions
  <2> QED BY <2>2, <2>3, <2>4
<1>9. ASSUME OfferCreated(w) PROVE Negotiates(w, l)'
  <2> DEFINE op == Call("setLocal", OfferMessage(w, pc[w].generation))
  <2>1. op \in CallsMade /\ op \in Sets({OfferOf(w)}) /\ op \notin Takes(Answers(l))
    <3>1. /\ OfferMessage(w, pc[w].generation) = OfferOf(w)
          /\ OfferOf(w) \in Descriptions /\ OfferOf(w) \notin Answers(l)
      <4>1. OfferOf(w) \in Offers(w)
        BY <1>0, MessageKinds DEF OfferOf
      <4> QED BY <1>0, <1>3, <4>1, MessageKinds DEF OfferOf
    <3> QED BY <3>1, CallKinds, CallRecords DEF Takes, Call
  <2>2. Resolves(w, "createOffer", <<op>>) /\ UNCHANGED <<toPeer, remoteDescriptionSet>>
    BY <1>9 DEF OfferCreated
  <2> HIDE DEF op
  <2>3. <<op>> \in Seq(CallsMade)
    BY <2>1
  <2>4. /\ h.call = "createOffer" /\ pc'[w] = Applied(pc[w], h)
        /\ pc'[l] = pc[l] /\ chain'[l] = chain[l]
        /\ \A S : /\ Has(chain'[w], S) <=> Has(t, S) \/ Has(<<op>>, S)
                  /\ Within(chain'[w], S) <=> Within(t, S) /\ Within(<<op>>, S)
    BY <1>0, <2>2, <2>3, Resolving DEF h, t
  <2>5. SameDescriptions(w)
    BY <2>4 DEF Applied, SameDescriptions
  <2>6. Within(<<op>>, CreatesOffer \cup Sets({OfferOf(w)}) \cup Takes(Given(l)) \cup Adds)
        /\ ~Has(<<op>>, Takes(Answers(l)))
    BY <2>1, Single
  <2>7. Effect(<<op>>)
    BY <1>8, <2>2, <2>4, <2>5, <2>6
  <2> QED BY <1>6, <2>7
<1>10. ASSUME LocalDescriptionSet(w) PROVE Negotiates(w, l)'
  <2>1. /\ Resolves(w, "setLocal", <<>>) /\ SendMessage(w, h.arg)
        /\ UNCHANGED remoteDescriptionSet
    BY <1>10 DEF LocalDescriptionSet, h
  <2>2. <<>> \in Seq(CallsMade)
    OBVIOUS
  <2>3. /\ h.call = "setLocal" /\ pc'[w] = Applied(pc[w], h)
        /\ pc'[l] = pc[l] /\ chain'[l] = chain[l]
        /\ \A S : /\ Has(chain'[w], S) <=> Has(t, S) \/ Has(<<>>, S)
                  /\ Within(chain'[w], S) <=> Within(t, S) /\ Within(<<>>, S)
    BY <1>0, <2>1, <2>2, Resolving DEF h, t
  <2>4. h.arg = OfferOf(w) /\ h.arg.type = "offer" /\ h.arg \in Descriptions
    BY <1>0, <1>4, <2>3, CallKinds, MessageKinds DEF OfferOf
  <2>5. pc'[w] = [pc[w] EXCEPT !.signalingState = "have-local-offer", !.local = h.arg]
    BY <2>3, <2>4 DEF Applied
  <2>6. /\ pc'[w].signalingState = "have-local-offer" /\ pc'[w].local = OfferOf(w)
        /\ pc'[w].remote = pc[w].remote /\ pc'[w].settled = pc[w].settled
        /\ pc'[w].generation = pc[w].generation
    BY <1>3, <2>4, <2>5 DEF Connection
  <2>7. /\ toPeer'[w] = toPeer[w]
        /\ \A S : Within(toPeer'[l], S) <=> Within(toPeer[l], S) /\ h.arg \in S
    <3> DEFINE msg == h.arg
    <3>1. w \in Peers /\ msg \in Descriptions \cup Candidates /\ SendMessage(w, msg)
      BY <1>0, <2>1, <2>4
    <3> HIDE DEF msg
    <3>2. /\ toPeer'[w] = toPeer[w]
          /\ \A S : Within(toPeer'[Other(w)], S) <=> Within(toPeer[Other(w)], S) /\ msg \in S
      BY <3>1, MessageAdded
    <3> QED BY <1>0, <3>2 DEF msg
  <2>8. Given(l)' = Given(l)
    BY <2>3 DEF Given, Settled, AnswerOf
  <2>9. AskerState(w, l)'
    BY <1>0, <2>1, <2>6, <2>8 DEF Negotiates, AskerState, State
  <2>10. ToTaker(w, l)'
    BY <2>4, <2>7 DEF Negotiates, ToTaker
  <2>11. Has(toPeer[w], Offers(l)) => pc'[w].remote = Null
    BY <2>6 DEF Negotiates, ToAsker
  <2>12. Effect(<<>>)
    BY <1>7, <2>1, <2>3, <2>7, <2>9, <2>10, <2>11
  <2> QED BY <1>6, <2>12
<1>11. ASSUME RemoteDescriptionSet(w) PROVE Negotiates(w, l)'
  <2> DEFINE flush == FlushPendingIceCandidates(w)
             more == IF h.arg.type = "offer" THEN <<Call("createAnswer", Null)>> ELSE <<>>
  <2>1. /\ Resolves(w, "setRemote", flush \o more)
        /\ remoteDescriptionSet' = [remoteDescriptionSet EXCEPT ![w] = TRUE]
        /\ UNCHANGED toPeer
    BY <1>11 DEF RemoteDescriptionSet, h
  <2>2. h.call = "setRemote" /\ Legal(pc[w], h)
    BY <2>1 DEF Resolves, h
  <2>3. h.arg \in Given(l) /\ h \in Takes(Answers(l))
    <3>1. h \in Takes(Given(l))
      BY <1>4, <2>2, CallKinds
    <3>2. Given(l) \subseteq Answers(l)
      BY <1>0, GivenFacts
    <3> QED BY <3>1, <3>2, CallKinds DEF Takes
  <2>4. h.arg = AnswerOf(l) /\ h.arg.type = "answer" /\ h.arg # Null
    BY <1>0, <2>3, GivenFacts
  <2>5. flush \in Seq(CallsMade) /\ Within(flush, AddsQueued) /\ more = <<>>
    BY <1>0, <2>4, FlushCalls
  <2> HIDE DEF flush, more
  <2>6. flush \o more = flush
    BY <2>5, ConcatEmptySeq
  <2>7. /\ pc'[w] = Applied(pc[w], h)
        /\ pc'[l] = pc[l] /\ chain'[l] = chain[l]
        /\ \A S : /\ Has(chain'[w], S) <=> Has(t, S) \/ Has(flush, S)
                  /\ Within(chain'[w], S) <=> Within(t, S) /\ Within(flush, S)
    BY <1>0, <2>1, <2>5, <2>6, Resolving DEF h, t
  <2>8. pc'[w] = Settle([pc[w] EXCEPT !.remote = h.arg])
    BY <2>2, <2>4, <2>7 DEF Applied
  <2>9. /\ pc'[w].signalingState = "stable" /\ pc'[w].local = OfferOf(w)
        /\ pc'[w].remote = h.arg /\ pc'[w].generation = 0
        /\ pc'[w].settled = [local |-> OfferOf(w), remote |-> h.arg]
    BY <1>3, <2>8 DEF Settle, Connection, Negotiates, AskerState
  <2>10. Given(l)' = Given(l)
    BY <2>7 DEF Given, Settled, AnswerOf
  <2>11. AskerState(w, l)'
    BY <1>0, <2>3, <2>4, <2>9, <2>10 DEF AskerState, State
  <2>12. ToTaker(w, l)'
    BY <2>1 DEF Negotiates, ToTaker
  <2>13. ~Has(toPeer[w], Offers(l))
    BY <1>2, <2>3 DEF Negotiates, ToAsker
  <2>14. Within(flush, CreatesOffer \cup Sets({OfferOf(w)}) \cup Takes(Given(l)) \cup Adds)
         /\ ~Has(flush, Takes(Answers(l)))
    <3>1. AddsQueued \subseteq CreatesOffer \cup Sets({OfferOf(w)}) \cup Takes(Given(l)) \cup Adds
      BY CallKinds
    <3>2. AddsQueued \cap Takes(Answers(l)) = {}
      BY CallKinds
    <3> QED BY <2>5, <3>1, <3>2, Kept, Apart
  <2>15. Effect(flush)
    BY <1>0, <2>1, <2>7, <2>11, <2>12, <2>13, <2>14 DEF NegotiationTypes
  <2> QED BY <1>6, <2>15
<1>12. ASSUME CandidateAdded(w) PROVE Negotiates(w, l)'
  <2>1. PICK name \in {"addCandidate", "addQueued"} : Resolves(w, name, <<>>)
    BY <1>12 DEF CandidateAdded
  <2>2. UNCHANGED <<toPeer, remoteDescriptionSet>> /\ <<>> \in Seq(CallsMade)
    BY <1>12 DEF CandidateAdded
  <2>3. /\ h.call = name /\ pc'[w] = Applied(pc[w], h)
        /\ pc'[l] = pc[l] /\ chain'[l] = chain[l]
        /\ \A S : /\ Has(chain'[w], S) <=> Has(t, S) \/ Has(<<>>, S)
                  /\ Within(chain'[w], S) <=> Within(t, S) /\ Within(<<>>, S)
    BY <1>0, <2>1, <2>2, Resolving DEF h, t
  <2>4. SameDescriptions(w)
    BY <1>3, <2>1, <2>3 DEF Applied, SameDescriptions, Connection
  <2>5. Effect(<<>>)
    BY <1>7, <1>8, <2>2, <2>3, <2>4
  <2> QED BY <1>6, <2>5
<1>13. ASSUME CallRejected(w) PROVE Negotiates(w, l)'
  <2>1. chain' = [chain EXCEPT ![w] = t] /\ UNCHANGED <<toPeer, pc, remoteDescriptionSet>>
    BY <1>13 DEF CallRejected, t
  <2>2. chain'[w] = t /\ chain'[l] = chain[l]
    BY <1>0, <2>1 DEF NegotiationTypes
  <2>3. SameDescriptions(w) /\ pc'[l] = pc[l]
    BY <2>1 DEF SameDescriptions
  <2>4. Effect(<<>>)
    BY <1>7, <1>8, <2>1, <2>2, <2>3
  <2> QED BY <1>6, <2>4
<1>14. ~AnswerCreated(w) /\ ~RolledBack(w)
  BY <1>5 DEF AnswerCreated, RolledBack, Resolves, h
<1> QED BY <1>9, <1>10, <1>11, <1>12, <1>13, <1>14 DEF Settles

-----------------------------------------------------------------------------
(* The steps of the taker.                                                 *)

\* The kinds of calls that are told apart.
LEMMA RespondKinds ==
  ASSUME NEW w \in Peers, NEW l \in Peers
  PROVE  /\ CreatesAnswer \subseteq Responds(w, l)
         /\ Sets(Answers(l)) \subseteq Responds(w, l)
         /\ GivesWay({OfferOf(w)}) \subseteq Responds(w, l)
         /\ \A c \in Responds(w, l) :
              \/ c.call = "createAnswer" \/ c.call = "rollback"
              \/ c.call = "setLocal" /\ c.arg.type = "answer"
         /\ \A c \in Sets(Offers(l)) : c.call = "setLocal" /\ c.arg.type = "offer"
         /\ \A c \in Sets(Answers(l)) : c.call = "setLocal" /\ c.arg.type = "answer"
<1>1. \A c \in Sets(Answers(l)) : c.call = "setLocal" /\ c.arg.type = "answer"
  BY CallKinds, MessageKinds
<1>2. \A c \in Sets(Offers(l)) : c.call = "setLocal" /\ c.arg.type = "offer"
  BY CallKinds, MessageKinds
<1> QED BY <1>1, <1>2, CallKinds DEF Responds

\* No response is under way before an offer has been taken.
LEMMA NoResponse ==
  ASSUME NEW w, NEW l, Roles(w, l), TakerCalls(w, l), ~remoteDescriptionSet[l]
  PROVE  /\ ~Has(chain[l], Responds(w, l)) /\ ~Has(chain[l], CreatesAnswer)
         /\ ~Has(chain[l], Sets(Answers(l)))
<1>1. CreatesAnswer \subseteq Responds(w, l) /\ Sets(Answers(l)) \subseteq Responds(w, l)
  BY RespondKinds DEF Roles
<1> QED BY <1>1, Kept DEF TakerCalls

LEMMA TakerInitiates ==
  ASSUME NegotiationTypes, NEW w, NEW l, Roles(w, l), Negotiates(w, l), InitiateConnection(l),
         ~remoteDescriptionSet[l]
  PROVE  Negotiates(w, l)'
<1>0. /\ w \in Peers /\ l \in Peers /\ w # l
      /\ UNCHANGED <<toPeer, pc, remoteDescriptionSet>>
  BY RolesKnown DEF InitiateConnection
<1> DEFINE op == Call("createOffer", Null)
<1>1. Calls(l, op) /\ op \in CallsMade
  BY CallRecords DEF InitiateConnection
<1>2. op \in CreatesOffer /\ op.call = "createOffer"
  BY CallKinds DEF Call
<1> HIDE DEF op
<1>3. /\ chain'[w] = chain[w]
      /\ \A S, T :
           /\ Has(chain'[l], S) <=> Has(chain[l], S) \/ op \in S
           /\ Within(chain'[l], S) <=> Within(chain[l], S) /\ op \in S
           /\ Before(chain'[l], S, T) <=>
                Before(chain[l], S, T) \/ (Has(chain[l], S) /\ op \in T)
  BY <1>0, <1>1, CallAdded
<1>4. SameSide(w) /\ Given(l)' = Given(l) /\ Responds(w, l)' = Responds(w, l)
      /\ Stale(l)' = Stale(l) /\ TakerMakes(w, l)' = TakerMakes(w, l)
  BY <1>0, <1>3
  DEF SameSide, SameDescriptions, Given, Settled, AnswerOf, Responds, Stale, TakerMakes
<1>5. AskerState(w, l)' /\ AskerCalls(w, l)'
  BY <1>4, AskerKept DEF Negotiates
<1>6. TakerState(w, l)'
  BY <1>0 DEF Negotiates, TakerState, State, Settled, AnswerOf
<1>7. /\ op \notin Responds(w, l) /\ op \notin Sets(Answers(l)) /\ op \notin Sets(Offers(l))
      /\ op \notin CreatesAnswer /\ op \in TakerMakes(w, l)
  BY <1>0, <1>2, CallKinds, RespondKinds DEF TakerMakes
<1>8. /\ ~Has(chain[l], Responds(w, l)) /\ ~Has(chain[l], CreatesAnswer)
      /\ ~Has(chain[l], Sets(Answers(l)))
  BY <1>0, NoResponse DEF Negotiates
<1>9. TakerCalls(w, l)'
  <2>1. ~Settled(l) /\ Settled(l)' = Settled(l)
    BY <1>0 DEF Negotiates, TakerState, Settled
  <2> QED BY <1>2, <1>3, <1>4, <1>7, <1>8, <2>1 DEF Negotiates, TakerCalls
<1>10. ResponsesFresh(w, l)'
  <2>1. State(l)' = State(l) /\ State(l) # "have-remote-offer"
    BY <1>0 DEF Negotiates, TakerState, State
  <2> QED BY <1>3, <1>4, <1>7, <2>1 DEF Negotiates, ResponsesFresh
<1>11. ToAsker(w, l)' /\ ToTaker(w, l)'
  BY <1>0, <1>3, <1>4 DEF Negotiates, ToAsker, ToTaker
<1> QED BY <1>5, <1>6, <1>9, <1>10, <1>11 DEF Negotiates

\* An offer is taken, makes way for the next one, or is refused as glare.
LEMMA TakerHears ==
  ASSUME NegotiationTypes, Attached, NEW w, NEW l, Roles(w, l), Negotiates(w, l), Delivery(l)
  PROVE  Negotiates(w, l)'
<1> DEFINE msg == Head(toPeer[l])
<1>0. /\ w \in Peers /\ l \in Peers /\ w # l
      /\ toPeer[l] # <<>> /\ toPeer' = [toPeer EXCEPT ![l] = Tail(@)]
      /\ UNCHANGED <<pc, remoteDescriptionSet>>
  BY RolesKnown DEF Delivery, HandleOffer, HandleAnswer, HandleIceCandidate, Unheard, Receives
<1>1. /\ toPeer'[w] = toPeer[w]
      /\ \A S : Within(toPeer[l], S) <=> msg \in S /\ Within(toPeer'[l], S)
  BY <1>0, MessageTaken
<1>2. msg = OfferOf(w) \/ msg \in Candidates
  BY <1>1 DEF Negotiates, ToTaker
<1>3. /\ State(l)' = State(l) /\ Given(l)' = Given(l) /\ Settled(l)' = Settled(l)
      /\ AnswerOf(l)' = AnswerOf(l) /\ Responds(w, l)' = Responds(w, l)
      /\ Stale(l)' = Stale(l) /\ TakerMakes(w, l)' = TakerMakes(w, l)
  BY <1>0 DEF State, Given, Settled, AnswerOf, Responds, Stale, TakerMakes
<1>4. OfferOf(w) \in Offers(w) /\ OfferOf(w).type = "offer" /\ OfferOf(w) \in Descriptions
  BY <1>0, MessageKinds DEF OfferOf
<1> HIDE DEF msg
\* What has to be shown of the calls.
<1> DEFINE Fine == chain'[w] = chain[w] /\ TakerCalls(w, l)' /\ ResponsesFresh(w, l)'
<1>5. ASSUME UNCHANGED chain PROVE Fine
  <2>1. TakerCalls(w, l)'
    BY <1>0, <1>3, <1>5 DEF Negotiates, TakerCalls
  <2>2. ResponsesFresh(w, l)'
    BY <1>3, <1>5 DEF Negotiates, ResponsesFresh
  <2> QED BY <1>5, <2>1, <2>2
<1>6. ASSUME NEW op \in CallsMade, Calls(l, op),
             \/ op \in Takes({OfferOf(w)}) /\ State(l) # "have-remote-offer"
             \/ op \in GivesWay({OfferOf(w)}) /\ State(l) = "have-remote-offer"
             \/ op \in Adds
      PROVE  Fine
  <2>1. /\ chain'[w] = chain[w]
        /\ \A S, T :
             /\ Has(chain'[l], S) <=> Has(chain[l], S) \/ op \in S
             /\ Within(chain'[l], S) <=> Within(chain[l], S) /\ op \in S
             /\ Before(chain'[l], S, T) <=>
                  Before(chain[l], S, T) \/ (Has(chain[l], S) /\ op \in T)
    BY <1>0, <1>6, CallAdded
  <2>2. /\ op \notin CreatesOffer /\ op \notin Sets(Offers(l)) /\ op \notin Sets(Answers(l))
        /\ op \notin CreatesAnswer
        /\ op \in Takes({OfferOf(w)}) => op \notin Responds(w, l)
        /\ op \in GivesWay({OfferOf(w)}) =>
             op \in Responds(w, l) /\ op \notin Takes({OfferOf(w)})
        /\ op \in Adds => op \notin Takes({OfferOf(w)}) /\ op \notin Responds(w, l)
    <3>1. /\ op \in Takes({OfferOf(w)}) => op.call = "setRemote"
          /\ op \in GivesWay({OfferOf(w)}) => op.call = "rollback"
          /\ op \in Adds => op.call \in {"addCandidate", "addQueued"}
          /\ op \in CreatesOffer => op.call = "createOffer"
          /\ op \in CreatesAnswer => op.call = "createAnswer"
      BY CallKinds
    <3> QED BY <1>0, <1>6, <3>1, RespondKinds
  <2>3. State(l) = "have-remote-offer" => remoteDescriptionSet[l]
    BY DEF Negotiates, TakerState
  <2>4. TakerCalls(w, l)'
    <3>1. TakerCalls(w, l)
      BY DEF Negotiates
    <3>2. ~remoteDescriptionSet'[l] => ~Has(chain'[l], Responds(w, l))
      BY <1>0, <1>6, <2>1, <2>2, <2>3, <3>1 DEF TakerCalls
    <3>3. op \in TakerMakes(w, l)
      BY <1>6, <2>2 DEF TakerMakes
    <3> QED BY <1>3, <2>1, <2>2, <3>1, <3>2, <3>3 DEF TakerCalls
  <2>5. ResponsesFresh(w, l)'
    <3>1. op \notin Stale(l)
      BY <1>0, <2>2, CallKinds DEF Sets, Stale
    <3> QED BY <1>3, <1>6, <2>1, <2>2, <3>1 DEF Negotiates, ResponsesFresh
  <2> QED BY <2>1, <2>4, <2>5
<1>7. ASSUME HandleOffer(l) PROVE Fine
  <2>1. msg = OfferOf(w)
    BY <1>2, <1>7, MessageKinds, <1>0 DEF HandleOffer, Receives, msg
  <2>2. CASE Glare(l)
    BY <1>5, <1>7, <2>2 DEF HandleOffer
  <2>3. CASE ~Glare(l) /\ State(l) = "stable"
    <3>1. Calls(l, Call("setRemote", msg))
      BY <1>7, <2>3 DEF HandleOffer, msg, State
    <3> QED BY <1>4, <1>6, <2>1, <2>3, <3>1, CallKinds, CallRecords
  <2>4. CASE ~Glare(l) /\ State(l) # "stable"
    <3>1. Calls(l, Call("rollback", msg))
      BY <1>7, <2>4 DEF HandleOffer, msg, State
    <3>2. State(l) = "have-remote-offer"
      BY <2>4 DEF Negotiates, TakerState, Glare, State
    <3> QED BY <1>4, <1>6, <2>1, <3>1, <3>2, CallKinds, CallRecords
  <2> QED BY <2>2, <2>3, <2>4
<1>8. ~HandleAnswer(l) /\ ~Unheard(l)
  <2>1. msg.type # "answer"
    BY <1>0, <1>2, <1>4, MessageKinds
  <2> QED BY <1>0, <2>1 DEF HandleAnswer, Receives, msg, Unheard, Attached
<1>9. ASSUME HandleIceCandidate(l) PROVE Fine
  <2>1. msg.type = "ice-candidate"
    BY <1>9 DEF HandleIceCandidate, Receives, msg
  <2>2. msg \in Candidates
    BY <1>2, <1>4, <2>1
  <2>3. Calls(l, Call("addCandidate", msg)) \/ UNCHANGED chain
    BY <1>9 DEF HandleIceCandidate, msg
  <2> QED BY <1>5, <1>6, <2>2, <2>3, CallKinds, CallRecords
<1>10. Fine
  BY <1>7, <1>8, <1>9 DEF Delivery
<1>11. SameSide(w)
  BY <1>0, <1>10 DEF SameSide, SameDescriptions
<1>12. AskerState(w, l)' /\ AskerCalls(w, l)'
  BY <1>3, <1>11, AskerKept DEF Negotiates
<1>13. TakerState(w, l)'
  BY <1>0 DEF Negotiates, TakerState, State, Settled, AnswerOf
<1>14. ToAsker(w, l)' /\ ToTaker(w, l)'
  BY <1>0, <1>1, <1>3, <1>10 DEF Negotiates, ToAsker, ToTaker
<1> QED BY <1>10, <1>12, <1>13, <1>14 DEF Negotiates

\* q is h followed by t; q is t followed by s.
Splits(q, h, t) ==
  \A S, T : /\ Has(q, S) <=> h \in S \/ Has(t, S)
            /\ Within(q, S) <=> h \in S /\ Within(t, S)
            /\ Before(q, S, T) <=> Before(t, S, T) \/ (h \in S /\ Has(t, T))
Joins(q, t, s) ==
  \A S, T : /\ Has(q, S) <=> Has(t, S) \/ Has(s, S)
            /\ Within(q, S) <=> Within(t, S) /\ Within(s, S)
            /\ Before(q, S, T) <=> Before(t, S, T) \/ Before(s, S, T) \/ (Has(t, S) /\ Has(s, T))

\* The oldest call of the taker settles with the code behind it calling ops.
TakerStep(w, l, h, t, ops) ==
  /\ h = Head(chain[l]) /\ t = Tail(chain[l])
  /\ h \in CallsMade /\ h \in TakerMakes(w, l)
  /\ Splits(chain[l], h, t) /\ Joins(chain'[l], t, ops)
  /\ pc'[w] = pc[w] /\ chain'[w] = chain[w]

LEMMA TakerResolves ==
  ASSUME NegotiationTypes, NEW w, NEW l, Roles(w, l), TakerCalls(w, l),
         NEW name, NEW ops \in Seq(CallsMade), Resolves(l, name, ops)
  PROVE  \E h, t :
           /\ TakerStep(w, l, h, t, ops)
           /\ h.call = name /\ Legal(pc[l], h) /\ pc'[l] = Applied(pc[l], h)
<1> DEFINE h == Head(chain[l])
           t == Tail(chain[l])
<1>0. w \in Peers /\ l \in Peers /\ w # l
  BY RolesKnown
<1>1. /\ chain[l] # <<>> /\ h.call = name /\ Legal(pc[l], h)
      /\ pc'[l] = Applied(pc[l], h) /\ pc'[w] = pc[w] /\ chain'[w] = chain[w]
      /\ Joins(chain'[l], t, ops)
  BY <1>0, Resolving DEF Joins
<1>2. h \in CallsMade /\ Splits(chain[l], h, t)
  BY <1>0, <1>1, CallTaken DEF Splits
<1> HIDE DEF h, t
<1>3. h \in TakerMakes(w, l)
  BY <1>2 DEF TakerCalls, Splits
<1>4. TakerStep(w, l, h, t, ops)
  BY <1>1, <1>2, <1>3 DEF TakerStep, h, t
<1> QED BY <1>1, <1>4

\* The order of the taker's calls, when the oldest one is replaced by ops.
LEMMA TakerCallsMoved ==
  ASSUME NEW w, NEW l, Roles(w, l), TakerCalls(w, l),
         NEW h, NEW t, NEW ops, TakerStep(w, l, h, t, ops),
         Within(ops, TakerMakes(w, l)),
         remoteDescriptionSet[l] => remoteDescriptionSet'[l],
         ~remoteDescriptionSet'[l] => ~Has(ops, Responds(w, l)),
         ~Has(ops, CreatesOffer),
         Settled(l)' => /\ Settled(l) \/ (~Has(t, CreatesOffer) /\ ~Has(t, Sets(Offers(l))))
                        /\ ~Has(ops, Sets(Offers(l))),
         Has(ops, Sets(Answers(l))) => ~Has(t, CreatesOffer),
         Has(ops, Sets(Offers(l))) => ~Has(t, Sets(Answers(l))),
         ~Before(ops, Sets(Answers(l)), Sets(Offers(l)))
  PROVE  TakerCalls(w, l)'
<1>1. ~Before(ops, CreatesAnswer, CreatesOffer)
  BY DEF Before, Has
<1>2. TakerMakes(w, l)' = TakerMakes(w, l) /\ Responds(w, l)' = Responds(w, l)
  BY DEF TakerMakes, Responds
<1>3. /\ Splits(chain[l], h, t) /\ Joins(chain'[l], t, ops)
  BY DEF TakerStep
<1>4. Within(chain'[l], TakerMakes(w, l))
  BY <1>3 DEF TakerCalls, Splits, Joins
<1>5. ~remoteDescriptionSet'[l] => ~Has(chain'[l], Responds(w, l))
  BY <1>3 DEF TakerCalls, Splits, Joins
<1>6. Settled(l)' => ~Has(chain'[l], CreatesOffer) /\ ~Has(chain'[l], Sets(Offers(l)))
  BY <1>3 DEF TakerCalls, Splits, Joins
<1>7. ~Before(chain'[l], CreatesAnswer, CreatesOffer)
  BY <1>1, <1>3 DEF TakerCalls, Splits, Joins
<1>8. Has(chain'[l], CreatesOffer) => ~Has(chain'[l], Sets(Answers(l)))
  BY <1>3 DEF TakerCalls, Splits, Joins
<1>9. ~Before(chain'[l], Sets(Answers(l)), Sets(Offers(l)))
  BY <1>3 DEF TakerCalls, Splits, Joins
<1> QED BY <1>2, <1>4, <1>5, <1>6, <1>7, <1>8, <1>9 DEF TakerCalls

\* What remains to be shown of a step of the taker after its own state and calls.
LEMMA TakerStepKeeps ==
  ASSUME NEW w, NEW l, Roles(w, l), Negotiates(w, l), TakerCalls(w, l)',
         SameSide(w), Given(l) \subseteq Given(l)',
         TakerState(w, l)', ResponsesFresh(w, l)', ToAsker(w, l)', UNCHANGED toPeer[l]
  PROVE  Negotiates(w, l)'
<1>1. AskerState(w, l)' /\ AskerCalls(w, l)'
  BY AskerKept DEF Negotiates
<1>2. ToTaker(w, l)'
  BY DEF Negotiates, ToTaker
<1> QED BY <1>1, <1>2 DEF Negotiates

\* A message less on the way, or none, and the same answer.
LEMMA ToAskerKept ==
  ASSUME NEW w, NEW l, Roles(w, l), ToAsker(w, l), SameSide(w), toPeer'[w] = toPeer[w],
         Given(l) \subseteq Given(l)'
  PROVE  ToAsker(w, l)'
<1> DEFINE D == Offers(l) \cup Given(l) \cup Candidates
           E == Offers(l) \cup Given(l)' \cup Candidates
<1>1. D \subseteq E /\ Within(toPeer[w], D)
  BY DEF ToAsker
<1> HIDE DEF D, E
<1>2. Within(toPeer[w], E)
  BY <1>1, Kept
<1>3. Within(toPeer'[w], Offers(l) \cup Given(l)' \cup Candidates)
  BY <1>2 DEF E
<1> QED BY <1>3 DEF ToAsker, SameSide, SameDescriptions

\* The taker's description does not change.
LEMMA TakerStateKept ==
  ASSUME NEW w, NEW l, TakerState(w, l), SameDescriptions(l),
         remoteDescriptionSet'[l] = remoteDescriptionSet[l]
  PROVE  /\ TakerState(w, l)' /\ State(l)' = State(l) /\ Given(l)' = Given(l)
         /\ Settled(l)' = Settled(l) /\ AnswerOf(l)' = AnswerOf(l)
<1>1. /\ State(l)' = State(l) /\ Settled(l)' = Settled(l) /\ AnswerOf(l)' = AnswerOf(l)
  BY DEF SameDescriptions, State, Settled, AnswerOf
<1>2. TakerState(w, l)'
  BY <1>1 DEF TakerState, SameDescriptions
<1> QED BY <1>1, <1>2 DEF Given

LEMMA TakerCreates ==
  ASSUME NegotiationTypes, NEW w, NEW l, Roles(w, l), Negotiates(w, l),
         OfferCreated(l) \/ AnswerCreated(l)
  PROVE  Negotiates(w, l)'
<1> DEFINE offer == OfferMessage(l, pc[l].generation)
           answer == AnswerOf(l)
<1>0. /\ w \in Peers /\ l \in Peers /\ w # l
      /\ UNCHANGED <<toPeer, remoteDescriptionSet>>
      /\ TakerState(w, l) /\ TakerCalls(w, l) /\ ResponsesFresh(w, l) /\ ToAsker(w, l)
  BY RolesKnown DEF OfferCreated, AnswerCreated, Negotiates
<1>1. offer \in Offers(l) /\ offer \in Descriptions /\ answer \in Answers(l)
      /\ answer \in Descriptions /\ pc[l] \in Connection
  BY <1>0, MessageKinds, GivenFacts DEF NegotiationTypes, Connection
<1>2. \E name \in {"createOffer", "createAnswer"} :
        Resolves(l, name, <<Call("setLocal", IF name = "createOffer" THEN offer ELSE answer)>>)
  BY DEF OfferCreated, AnswerCreated, AnswerOf
<1> HIDE DEF offer, answer
<1>3. PICK name \in {"createOffer", "createAnswer"} :
        Resolves(l, name, <<Call("setLocal", IF name = "createOffer" THEN offer ELSE answer)>>)
  BY <1>2
<1> DEFINE d == IF name = "createOffer" THEN offer ELSE answer
           op == Call("setLocal", d)
<1>4. /\ op \in CallsMade /\ op.call = "setLocal" /\ op.arg = d
      /\ name = "createOffer" => op \in Sets(Offers(l))
      /\ name = "createAnswer" => op \in Sets(Answers(l)) /\ op \notin Stale(l)
  <2>1. op \in CallsMade /\ op.call = "setLocal" /\ op.arg = d
    <3>1. d \in Descriptions
      BY <1>1
    <3> QED BY <3>1, CallRecords DEF Call
  <2>2. name = "createOffer" => op \in Sets(Offers(l))
    BY <1>1, CallKinds
  <2>3. ASSUME name = "createAnswer" PROVE op \in Sets(Answers(l)) /\ op \notin Stale(l)
    <3>1. d = answer
      BY <2>3
    <3>2. op \in Sets(Answers(l))
      BY <1>1, <3>1, CallKinds
    <3> HIDE DEF d, op
    <3>3. \A c \in Stale(l) : c.arg # answer
      BY CallKinds DEF Stale, answer
    <3> QED BY <2>1, <3>1, <3>2, <3>3
  <2> QED BY <2>1, <2>2, <2>3
<1> HIDE DEF d, op
<1>5. <<op>> \in Seq(CallsMade) /\ Resolves(l, name, <<op>>)
  BY <1>3, <1>4 DEF op, d
<1>6. PICK h, t :
        /\ TakerStep(w, l, h, t, <<op>>)
        /\ h.call = name /\ Legal(pc[l], h) /\ pc'[l] = Applied(pc[l], h)
  <2> DEFINE ops == <<op>>
  <2>1. ops \in Seq(CallsMade) /\ Resolves(l, name, ops) /\ TakerCalls(w, l)
    BY <1>0, <1>5
  <2> HIDE DEF ops
  <2>2. \E h, t : /\ TakerStep(w, l, h, t, ops)
                  /\ h.call = name /\ Legal(pc[l], h) /\ pc'[l] = Applied(pc[l], h)
    BY <2>1, TakerResolves
  <2> QED BY <2>2 DEF ops
<1>7. pc'[l] = pc[l] /\ (name = "createAnswer" => State(l) = "have-remote-offer")
  BY <1>6 DEF Applied, Legal, State
<1>8. SameSide(w) /\ SameDescriptions(l)
  BY <1>0, <1>6, <1>7 DEF SameSide, SameDescriptions, TakerStep
<1>9. /\ TakerState(w, l)' /\ State(l)' = State(l) /\ Given(l)' = Given(l)
      /\ Settled(l)' = Settled(l) /\ AnswerOf(l)' = AnswerOf(l)
  BY <1>0, <1>8, TakerStateKept
<1>10. \A S, T : /\ Has(<<op>>, S) <=> op \in S
                 /\ Within(<<op>>, S) <=> op \in S
                 /\ ~Before(<<op>>, S, T)
  BY Single
<1>11. /\ name = "createOffer" => h \in CreatesOffer /\ op \notin Responds(w, l)
       /\ name = "createAnswer" => h \in CreatesAnswer /\ op \in Responds(w, l)
       /\ name = "createOffer" => op \notin Sets(Answers(l))
       /\ name = "createAnswer" => op \notin Sets(Offers(l))
       /\ op \notin CreatesOffer /\ op \notin Takes({OfferOf(w)}) /\ op \in TakerMakes(w, l)
  <2>1. h \in CallsMade
    BY <1>6 DEF TakerStep
  <2>2. /\ name = "createOffer" => h \in CreatesOffer
        /\ name = "createAnswer" => h \in CreatesAnswer
    BY <1>6, <2>1 DEF CallsMade, CreatesOffer, CreatesAnswer, Call
  <2>3. op \notin CreatesOffer /\ op \notin Takes({OfferOf(w)})
    BY <1>4, CallKinds
  <2> QED BY <1>0, <1>4, <2>2, <2>3, RespondKinds DEF TakerMakes
<1>12. Splits(chain[l], h, t) /\ Joins(chain'[l], t, <<op>>)
  BY <1>6 DEF TakerStep
<1>13. /\ name = "createOffer" => ~Settled(l) /\ ~Has(t, Sets(Answers(l)))
       /\ name = "createAnswer" => ~Has(t, CreatesOffer) /\ remoteDescriptionSet[l]
  BY <1>0, <1>7, <1>11, <1>12 DEF TakerCalls, TakerState, Splits
<1>14. TakerCalls(w, l)'
  <2>1. Within(<<op>>, TakerMakes(w, l)) /\ ~Has(<<op>>, CreatesOffer)
        /\ ~Before(<<op>>, Sets(Answers(l)), Sets(Offers(l)))
    BY <1>10, <1>11
  <2>2. remoteDescriptionSet[l] => remoteDescriptionSet'[l]
    BY <1>0
  <2>3. ~remoteDescriptionSet'[l] => ~Has(<<op>>, Responds(w, l))
    BY <1>0, <1>3, <1>10, <1>11, <1>13
  <2>4. Settled(l)' => /\ Settled(l) \/ (~Has(t, CreatesOffer) /\ ~Has(t, Sets(Offers(l))))
                       /\ ~Has(<<op>>, Sets(Offers(l)))
    BY <1>3, <1>9, <1>10, <1>11, <1>13
  <2>5. /\ Has(<<op>>, Sets(Answers(l))) => ~Has(t, CreatesOffer)
        /\ Has(<<op>>, Sets(Offers(l))) => ~Has(t, Sets(Answers(l)))
    BY <1>3, <1>10, <1>11, <1>13
  <2> QED BY <1>0, <1>6, <2>1, <2>2, <2>3, <2>4, <2>5, TakerCallsMoved
<1>15. ResponsesFresh(w, l)'
  <2>1. Stale(l)' = Stale(l) /\ Responds(w, l)' = Responds(w, l)
    BY <1>9 DEF Stale, Responds
  <2>2. op \notin Stale(l)
    BY <1>3, <1>4, <1>11, CallKinds DEF Stale, Sets
  <2>3. State(l) = "have-remote-offer" => Has(chain'[l], Responds(w, l))
    <3>1. h \in CreatesOffer => h \notin Responds(w, l)
      BY <1>0, CallKinds, RespondKinds
    <3> QED BY <1>0, <1>3, <1>10, <1>11, <1>12, <3>1 DEF ResponsesFresh, Splits, Joins
  <2>4. State(l) = "have-remote-offer" =>
          ~Before(chain'[l], Responds(w, l), Takes({OfferOf(w)})) /\ ~Has(chain'[l], Stale(l))
    BY <1>0, <1>10, <1>11, <1>12, <2>2 DEF ResponsesFresh, Splits, Joins
  <2>5. State(l) # "have-remote-offer" =>
          ~Before(chain'[l], Takes({OfferOf(w)}), Responds(w, l))
    BY <1>0, <1>3, <1>7, <1>10, <1>11, <1>12 DEF ResponsesFresh, Splits, Joins
  <2> QED BY <1>9, <2>1, <2>3, <2>4, <2>5 DEF ResponsesFresh
<1>16. ToAsker(w, l)'
  BY <1>0, <1>8, <1>9, ToAskerKept
<1> QED BY <1>0, <1>8, <1>9, <1>14, <1>15, <1>16, TakerStepKeeps

\* The oldest call has settled, and the code behind it makes none.
LEMMA TakerCallsTaken ==
  ASSUME NEW w, NEW l, Roles(w, l), TakerCalls(w, l),
         NEW h, NEW t, TakerStep(w, l, h, t, <<>>),
         remoteDescriptionSet'[l] = remoteDescriptionSet[l],
         Settled(l)' => Settled(l) \/ (~Has(t, CreatesOffer) /\ ~Has(t, Sets(Offers(l))))
  PROVE  /\ TakerCalls(w, l)' /\ Splits(chain[l], h, t)
         /\ \A S, T : /\ Has(chain'[l], S) <=> Has(t, S)
                      /\ Before(chain'[l], S, T) <=> Before(t, S, T)
<1> DEFINE ops == <<>>
<1>1. \A S, T : ~Has(ops, S) /\ Within(ops, S) /\ ~Before(ops, S, T)
  BY Empty
<1>2. TakerStep(w, l, h, t, ops)
  OBVIOUS
<1> HIDE DEF ops
<1>3. Splits(chain[l], h, t) /\ Joins(chain'[l], t, ops)
  BY <1>2 DEF TakerStep
<1>4. TakerCalls(w, l)'
  BY <1>1, <1>2, TakerCallsMoved
<1> QED BY <1>1, <1>3, <1>4 DEF Joins

LEMMA NoneBefore ==
  ASSUME NEW q, NEW S, ~Has(q, S)
  PROVE  \A T : ~Before(q, S, T) /\ ~Before(q, T, S)
BY DEF Has, Before

\* Before l has settled there is no answer anywhere.
LEMMA NoAnswerYet ==
  ASSUME NEW w, NEW l, Roles(w, l), AskerState(w, l), AskerCalls(w, l), ToAsker(w, l), ~Settled(l)
  PROVE  /\ Given(l) = {} /\ pc[w].remote = Null
         /\ ~Has(toPeer[w], Answers(l)) /\ ~Has(chain[w], Takes(Answers(l)))
<1>0. w \in Peers /\ l \in Peers
  BY RolesKnown
<1>1. Given(l) = {}
  BY DEF Given
<1>2. pc[w].remote = Null
  BY <1>1 DEF AskerState
<1>3. Within(toPeer[w], Offers(l) \cup {} \cup Candidates)
  BY <1>1 DEF ToAsker
<1>4. (Offers(l) \cup {} \cup Candidates) \cap Answers(l) = {}
  BY <1>0, MessageKinds
<1>5. ~Has(toPeer[w], Answers(l))
  BY <1>3, <1>4, Apart
<1>6. Within(chain[w], CreatesOffer \cup Sets({OfferOf(w)}) \cup Takes({}) \cup Adds)
  BY <1>1 DEF AskerCalls
<1>7. (CreatesOffer \cup Sets({OfferOf(w)}) \cup Takes({}) \cup Adds) \cap Takes(Answers(l)) = {}
  BY CallKinds
<1>8. ~Has(chain[w], Takes(Answers(l)))
  BY <1>6, <1>7, Apart
<1> QED BY <1>1, <1>2, <1>5, <1>8

\* sendOffer and sendAnswer: with the answer, the taker has settled.
LEMMA TakerSets ==
  ASSUME NegotiationTypes, Attached, NEW w, NEW l, Roles(w, l), Negotiates(w, l),
         LocalDescriptionSet(l)
  PROVE  Negotiates(w, l)'
<1>0. /\ w \in Peers /\ l \in Peers /\ w # l /\ Other(l) = w
      /\ remoteDescriptionSet' = remoteDescriptionSet
      /\ TakerState(w, l) /\ TakerCalls(w, l) /\ ResponsesFresh(w, l) /\ ToAsker(w, l)
      /\ AskerState(w, l) /\ AskerCalls(w, l)
  BY RolesKnown DEF LocalDescriptionSet, Negotiates
<1>1. PICK h, t :
        /\ TakerStep(w, l, h, t, <<>>)
        /\ h.call = "setLocal" /\ Legal(pc[l], h) /\ pc'[l] = Applied(pc[l], h)
  <2> DEFINE ops == <<>>
  <2>1. ops \in Seq(CallsMade) /\ Resolves(l, "setLocal", ops) /\ TakerCalls(w, l)
    BY <1>0 DEF LocalDescriptionSet
  <2> HIDE DEF ops
  <2>2. \E h, t : /\ TakerStep(w, l, h, t, ops)
                  /\ h.call = "setLocal" /\ Legal(pc[l], h) /\ pc'[l] = Applied(pc[l], h)
    BY <2>1, TakerResolves
  <2> QED BY <2>2 DEF ops
<1>2. /\ h \in CallsMade /\ h \in TakerMakes(w, l) /\ pc'[w] = pc[w] /\ chain'[w] = chain[w]
      /\ SendMessage(l, h.arg) /\ Splits(chain[l], h, t)
  BY <1>1 DEF TakerStep, LocalDescriptionSet
<1>3. /\ h \in Sets(Offers(l)) \/ h \in Sets(Answers(l))
      /\ h \in Sets(Offers(l)) => h.arg \in Offers(l) /\ h.arg.type = "offer"
      /\ h \in Sets(Answers(l)) => h.arg \in Answers(l) /\ h.arg.type = "answer"
      /\ h.arg \in Descriptions
  <2>1. h \in Sets(Offers(l)) \/ h \in Sets(Answers(l))
    BY <1>1, <1>2, CallKinds DEF TakerMakes, Responds
  <2>2. /\ \A c \in Sets(Offers(l)) : c.arg \in Offers(l)
        /\ \A c \in Sets(Answers(l)) : c.arg \in Answers(l)
    BY CallKinds
  <2> QED BY <1>0, <2>1, <2>2, MessageKinds
<1>4. /\ toPeer'[l] = toPeer[l]
      /\ \A S, T :
           /\ Has(toPeer'[w], S) <=> Has(toPeer[w], S) \/ h.arg \in S
           /\ Within(toPeer'[w], S) <=> Within(toPeer[w], S) /\ h.arg \in S
           /\ Before(toPeer'[w], S, T) <=>
                Before(toPeer[w], S, T) \/ (Has(toPeer[w], S) /\ h.arg \in T)
  BY <1>0, <1>2, <1>3, MessageAdded
<1>5. SameSide(w) /\ pc[l] \in Connection
  BY <1>0, <1>2 DEF SameSide, SameDescriptions, NegotiationTypes
<1>6. CASE h \in Sets(Offers(l))
  <2>1. State(l) \in {"stable", "have-local-offer"}
    BY <1>1, <1>3, <1>6 DEF Legal, State
  <2>2. ~Settled(l)
    BY <1>0, <1>2, <1>6 DEF TakerCalls, Splits
  <2>3. pc'[l] = [pc[l] EXCEPT !.signalingState = "have-local-offer", !.local = h.arg]
    BY <1>1, <1>3, <1>6 DEF Applied
  <2>4. /\ pc'[l].signalingState = "have-local-offer" /\ pc'[l].remote = pc[l].remote
        /\ pc'[l].settled = pc[l].settled
    BY <1>5, <2>3 DEF Connection
  <2>5. /\ pc[l].settled = Unsettled /\ pc[l].remote = Null
    BY <1>0, <2>1, <2>2 DEF TakerState, Unsettled
  <2>6. State(l)' = "have-local-offer" /\ ~Settled(l)' /\ Given(l) = {} /\ Given(l)' = {}
    BY <2>2, <2>4 DEF State, Settled, Given
  <2>7. TakerState(w, l)'
    BY <2>4, <2>5, <2>6 DEF TakerState
  <2>8. /\ TakerCalls(w, l)'
        /\ \A S, T : Before(chain'[l], S, T) <=> Before(t, S, T)
    BY <1>0, <1>1, <2>6, TakerCallsTaken
  <2>9. ResponsesFresh(w, l)'
    <3>1. ~Before(chain[l], Takes({OfferOf(w)}), Responds(w, l))
      BY <1>0, <2>1 DEF ResponsesFresh
    <3>2. ~Before(chain'[l], Takes({OfferOf(w)}), Responds(w, l))
      BY <1>2, <2>8, <3>1 DEF Splits
    <3> QED BY <2>6, <3>2 DEF ResponsesFresh, Responds
  <2>10. ToAsker(w, l)'
    <3>1. /\ pc[w].remote = Null
          /\ ~Has(toPeer[w], Answers(l)) /\ ~Has(chain[w], Takes(Answers(l)))
      BY <1>0, <2>2, NoAnswerYet
    <3>2. Within(toPeer[w], Offers(l) \cup {} \cup Candidates)
      BY <1>0, <2>6 DEF ToAsker
    <3>3. Within(toPeer'[w], Offers(l) \cup {} \cup Candidates)
      BY <1>3, <1>4, <1>6, <3>2
    <3>4. ~Before(toPeer'[w], Answers(l), Offers(l))
      BY <1>0, <1>4, <3>1 DEF ToAsker
    <3> QED BY <1>2, <2>6, <3>1, <3>3, <3>4 DEF ToAsker
  <2> QED BY <1>4, <1>5, <2>6, <2>7, <2>8, <2>9, <2>10, TakerStepKeeps
<1>7. CASE h \in Sets(Answers(l))
  <2>1. State(l) = "have-remote-offer"
    BY <1>1, <1>3, <1>7 DEF Legal, State
  <2>2. h.arg = AnswerOf(l)
    <3>1. h \notin Stale(l)
      BY <1>0, <1>2, <2>1 DEF ResponsesFresh, Splits
    <3>2. h = Call("setLocal", h.arg)
      BY <1>7 DEF Sets, Call
    <3> QED BY <1>3, <1>7, <3>1, <3>2 DEF Stale, Sets
  <2>3. pc'[l] = Settle([pc[l] EXCEPT !.local = h.arg])
    BY <1>1, <1>3, <1>7 DEF Applied
  <2>4. /\ pc'[l].signalingState = "stable" /\ pc'[l].generation = pc[l].generation
        /\ pc'[l].local = AnswerOf(l) /\ pc'[l].remote = pc[l].remote
        /\ pc'[l].settled = [local |-> AnswerOf(l), remote |-> pc[l].remote]
    BY <1>5, <2>2, <2>3 DEF Settle, Connection
  <2>5. pc[l].remote = OfferOf(w) /\ remoteDescriptionSet[l]
    BY <1>0, <2>1 DEF TakerState
  <2>6. State(l)' = "stable" /\ AnswerOf(l)' = AnswerOf(l)
    BY <2>4 DEF State, AnswerOf
  <2>7. Settled(l)' /\ Given(l)' = {AnswerOf(l)} /\ Given(l) \subseteq Given(l)'
    BY <1>0, <2>4, <2>6, GivenFacts DEF Settled, Given
  <2>8. TakerState(w, l)'
    BY <1>0, <2>4, <2>5, <2>6, <2>7 DEF TakerState
  <2>9. /\ TakerCalls(w, l)'
        /\ \A S, T : /\ Has(chain'[l], S) <=> Has(t, S)
                     /\ Before(chain'[l], S, T) <=> Before(t, S, T)
    <3>1. ~Has(t, CreatesOffer) /\ ~Has(t, Sets(Offers(l)))
      BY <1>0, <1>2, <1>7 DEF TakerCalls, Splits
    <3> QED BY <1>0, <1>1, <3>1, TakerCallsTaken
  <2>10. ResponsesFresh(w, l)'
    <3>1. ~Has(t, Takes({OfferOf(w)}))
      <4>1. h \in Responds(w, l)
        BY <1>0, <1>7, RespondKinds
      <4>2. ~Before(chain[l], Responds(w, l), Takes({OfferOf(w)}))
        BY <1>0, <2>1 DEF ResponsesFresh
      <4> QED BY <1>2, <4>1, <4>2 DEF Splits
    <3>2. ~Before(chain'[l], Takes({OfferOf(w)}), Responds(w, l))
      BY <2>9, <3>1, NoneBefore
    <3> QED BY <2>6, <3>2 DEF ResponsesFresh, Responds
  <2>11. ToAsker(w, l)'
    <3> DEFINE D == Offers(l) \cup Given(l) \cup Candidates
               E == Offers(l) \cup Given(l)' \cup Candidates
    <3>1. D \subseteq E /\ Within(toPeer[w], D) /\ h.arg \in E
      BY <1>0, <2>2, <2>7 DEF ToAsker
    <3> HIDE DEF D, E
    <3>2. Within(toPeer'[w], E)
      BY <1>4, <3>1, Kept
    <3>3. Within(toPeer'[w], Offers(l) \cup Given(l)' \cup Candidates)
      BY <3>2 DEF E
    <3>4. h.arg \notin Offers(l)
      BY <1>0, <1>3, <1>7, MessageKinds
    <3> QED BY <1>0, <1>2, <1>4, <3>3, <3>4 DEF ToAsker
  <2> QED BY <1>4, <1>5, <2>7, <2>8, <2>9, <2>10, <2>11, TakerStepKeeps
<1> QED BY <1>3, <1>6, <1>7

LEMMA RollbackEffect ==
  ASSUME NEW c \in Connection
  PROVE  /\ Rollback(c).signalingState = "stable" /\ Rollback(c).settled = c.settled
         /\ Rollback(c).local = c.settled.local /\ Rollback(c).remote = c.settled.remote
         /\ \/ Rollback(c).generation = c.generation
            \/ c.signalingState = "have-local-offer" /\ c.settled.local = Null
<1> DEFINE regather == c.signalingState = "have-local-offer" /\ c.settled.local = Null
           g == IF regather THEN c.generation + 1 ELSE c.generation
           n == IF regather THEN 0 ELSE c.gathered
           s == IF c.settled.remote = Null THEN {} ELSE c.added
           d == [c EXCEPT !.signalingState = "stable",
                          !.local = c.settled.local, !.remote = c.settled.remote,
                          !.generation = g, !.gathered = n, !.added = s]
<1>1. Rollback(c) = d
  BY DEF Rollback
<1>2. g = c.generation \/ regather
  OBVIOUS
<1> HIDE DEF g, n, s
<1>3. /\ d.signalingState = "stable" /\ d.settled = c.settled
      /\ d.local = c.settled.local /\ d.remote = c.settled.remote /\ d.generation = g
  BY DEF Connection
<1> QED BY <1>1, <1>2, <1>3

\* The set offer, of either peer, is given up, and the one that came is taken next.
LEMMA TakerRollsBack ==
  ASSUME NegotiationTypes, NEW w, NEW l, Roles(w, l), Negotiates(w, l), RolledBack(l)
  PROVE  Negotiates(w, l)'
<1> DEFINE op == Call("setRemote", Head(chain[l]).arg)
<1>0. /\ w \in Peers /\ l \in Peers /\ w # l
      /\ UNCHANGED <<toPeer, remoteDescriptionSet>>
      /\ TakerState(w, l) /\ TakerCalls(w, l) /\ ResponsesFresh(w, l) /\ ToAsker(w, l)
  BY RolesKnown DEF RolledBack, Negotiates
<1>1. Resolves(l, "rollback", <<op>>)
  BY DEF RolledBack
<1>2. Head(chain[l]) \in CallsMade /\ Head(chain[l]).call = "rollback"
      /\ Head(chain[l]) \in TakerMakes(w, l)
  <2>1. chain[l] # <<>> /\ Head(chain[l]).call = "rollback"
    BY <1>1 DEF Resolves
  <2> QED BY <1>0, <2>1, CallTaken DEF TakerCalls
<1>3. Head(chain[l]) \in GivesWay({OfferOf(w)})
  BY <1>0, <1>2, CallKinds, RespondKinds DEF TakerMakes, Responds
<1>4. op \in Takes({OfferOf(w)}) /\ op \in CallsMade
  <2>1. Head(chain[l]).arg = OfferOf(w)
    BY <1>3, CallKinds
  <2>2. OfferOf(w) \in Descriptions
    BY <1>0, MessageKinds DEF OfferOf
  <2> QED BY <2>1, <2>2, CallKinds, CallRecords
<1> DEFINE ops == <<op>>
<1>5. /\ ops \in Seq(CallsMade) /\ Resolves(l, "rollback", ops)
      /\ \A S, T : /\ Has(ops, S) <=> op \in S
                   /\ Within(ops, S) <=> op \in S
                   /\ ~Before(ops, S, T)
  BY <1>1, <1>4, Single
<1>6. /\ op \notin Responds(w, l) /\ op \notin CreatesOffer /\ op \notin Sets(Offers(l))
      /\ op \notin Sets(Answers(l)) /\ op \in TakerMakes(w, l)
  <2>1. op.call = "setRemote"
    BY <1>4, CallKinds
  <2> QED BY <1>0, <1>4, <2>1, CallKinds, RespondKinds DEF TakerMakes
<1> HIDE DEF op, ops
<1>7. PICK h, t :
        /\ TakerStep(w, l, h, t, ops)
        /\ h.call = "rollback" /\ Legal(pc[l], h) /\ pc'[l] = Applied(pc[l], h)
  BY <1>0, <1>5, TakerResolves
<1>8. /\ Splits(chain[l], h, t) /\ Joins(chain'[l], t, ops) /\ h \in Responds(w, l)
      /\ pc'[w] = pc[w] /\ chain'[w] = chain[w]
  BY <1>0, <1>3, <1>7, RespondKinds DEF TakerStep
<1>9. pc[l] \in Connection /\ State(l) # "stable"
  BY <1>0, <1>7 DEF NegotiationTypes, Legal, State
<1>10. /\ pc'[l].signalingState = "stable" /\ pc'[l].settled = pc[l].settled
       /\ pc'[l].local = pc[l].settled.local /\ pc'[l].remote = pc[l].settled.remote
       /\ \/ pc'[l].generation = pc[l].generation
          \/ State(l) = "have-local-offer" /\ ~Settled(l)
  BY <1>7, <1>9, RollbackEffect DEF Applied, State, Settled
<1>11. /\ State(l)' = "stable" /\ Settled(l)' = Settled(l)
       /\ Settled(l) => AnswerOf(l)' = AnswerOf(l)
  BY <1>10 DEF State, Settled, AnswerOf
<1>12. Given(l)' = Given(l) /\ SameSide(w)
  BY <1>0, <1>8, <1>11 DEF Given, SameSide, SameDescriptions
<1>13. TakerState(w, l)'
  BY <1>0, <1>10, <1>11 DEF TakerState
<1>14. TakerCalls(w, l)'
  BY <1>0, <1>5, <1>6, <1>7, <1>11, TakerCallsMoved
<1>15. ResponsesFresh(w, l)'
  <2>1. State(l) = "have-remote-offer" => ~Has(t, Takes({OfferOf(w)}))
    BY <1>0, <1>8 DEF ResponsesFresh, Splits
  <2>2. ~Before(t, Takes({OfferOf(w)}), Responds(w, l))
    <3>1. State(l) # "have-remote-offer" => ~Before(t, Takes({OfferOf(w)}), Responds(w, l))
      BY <1>0, <1>8 DEF ResponsesFresh, Splits
    <3> QED BY <2>1, <3>1, NoneBefore
  <2>3. ~Before(chain'[l], Takes({OfferOf(w)}), Responds(w, l))
    BY <1>5, <1>6, <1>8, <2>2 DEF Joins
  <2> QED BY <1>11, <2>3 DEF ResponsesFresh, Responds
<1>16. ToAsker(w, l)'
  BY <1>0, <1>12, ToAskerKept
<1> QED BY <1>0, <1>12, <1>13, <1>14, <1>15, <1>16, TakerStepKeeps

\* A call that has nothing to do with the descriptions is gone.
LEMMA TakerDrops ==
  ASSUME NEW w, NEW l, Roles(w, l), Negotiates(w, l),
         NEW h, NEW t, TakerStep(w, l, h, t, <<>>), SameDescriptions(l),
         toPeer' = toPeer, remoteDescriptionSet' = remoteDescriptionSet,
         State(l) = "have-remote-offer" => h \notin Responds(w, l)
  PROVE  Negotiates(w, l)'
<1>0. /\ TakerState(w, l) /\ TakerCalls(w, l) /\ ResponsesFresh(w, l) /\ ToAsker(w, l)
  BY DEF Negotiates
<1>1. SameSide(w)
  BY DEF TakerStep, SameSide, SameDescriptions
<1>2. /\ TakerState(w, l)' /\ State(l)' = State(l) /\ Given(l)' = Given(l)
      /\ Settled(l)' = Settled(l) /\ AnswerOf(l)' = AnswerOf(l)
  BY <1>0, TakerStateKept
<1>3. /\ TakerCalls(w, l)' /\ Splits(chain[l], h, t)
      /\ \A S, T : /\ Has(chain'[l], S) <=> Has(t, S)
                   /\ Before(chain'[l], S, T) <=> Before(t, S, T)
  BY <1>0, <1>2, TakerCallsTaken
<1>4. ResponsesFresh(w, l)'
  <2>1. Stale(l)' = Stale(l) /\ Responds(w, l)' = Responds(w, l)
    BY <1>2 DEF Stale, Responds
  <2> QED BY <1>0, <1>2, <1>3, <2>1 DEF ResponsesFresh, Splits
<1>5. ToAsker(w, l)'
  BY <1>0, <1>1, <1>2, ToAskerKept
<1> QED BY <1>1, <1>2, <1>3, <1>4, <1>5, TakerStepKeeps

LEMMA TakerAddsCandidate ==
  ASSUME NegotiationTypes, NEW w, NEW l, Roles(w, l), Negotiates(w, l), CandidateAdded(l)
  PROVE  Negotiates(w, l)'
<1> DEFINE ops == <<>>
<1>0. /\ w \in Peers /\ l \in Peers
      /\ toPeer' = toPeer /\ remoteDescriptionSet' = remoteDescriptionSet
      /\ TakerCalls(w, l) /\ pc[l] \in Connection /\ ops \in Seq(CallsMade)
  BY RolesKnown DEF CandidateAdded, Negotiates, NegotiationTypes
<1>1. PICK name \in {"addCandidate", "addQueued"} : Resolves(l, name, ops)
  BY DEF CandidateAdded
<1> HIDE DEF ops
<1>2. PICK h, t :
        /\ TakerStep(w, l, h, t, ops)
        /\ h.call = name /\ Legal(pc[l], h) /\ pc'[l] = Applied(pc[l], h)
  BY <1>0, <1>1, TakerResolves
<1>3. h \notin Responds(w, l)
  BY <1>0, <1>2, RespondKinds
<1>4. SameDescriptions(l)
  BY <1>0, <1>2 DEF Applied, SameDescriptions, Connection
<1> QED BY <1>0, <1>2, <1>3, <1>4, TakerDrops DEF ops

\* While an offer is set, no call of its answer is refused.
LEMMA TakerRejects ==
  ASSUME NegotiationTypes, NEW w, NEW l, Roles(w, l), Negotiates(w, l), CallRejected(l)
  PROVE  Negotiates(w, l)'
<1> DEFINE h == Head(chain[l])
           t == Tail(chain[l])
           ops == <<>>
<1>0. /\ w \in Peers /\ l \in Peers /\ w # l /\ chain[l] # <<>>
      /\ UNCHANGED <<toPeer, pc, remoteDescriptionSet>>
      /\ TakerCalls(w, l) /\ ~Legal(pc[l], h) /\ chain' = [chain EXCEPT ![l] = t]
  BY RolesKnown DEF CallRejected, Negotiates
<1>1. /\ h \in CallsMade /\ Splits(chain[l], h, t)
  BY <1>0, CallTaken DEF Splits
<1>2. chain'[l] = t /\ chain'[w] = chain[w]
  BY <1>0 DEF NegotiationTypes
<1> HIDE DEF h, t
<1>3. \A S, T : ~Has(ops, S) /\ Within(ops, S) /\ ~Before(ops, S, T)
  BY Empty
<1> HIDE DEF ops
<1>4. Joins(chain'[l], t, ops)
  BY <1>2, <1>3 DEF Joins
<1>5. h \in TakerMakes(w, l)
  BY <1>0, <1>1 DEF TakerCalls, Splits
<1>6. TakerStep(w, l, h, t, ops)
  BY <1>0, <1>1, <1>2, <1>4, <1>5 DEF TakerStep, h, t
<1>7. State(l) = "have-remote-offer" => h \notin Responds(w, l)
  BY <1>0, RespondKinds DEF Legal, State
<1>8. SameDescriptions(l)
  BY <1>0 DEF SameDescriptions
<1> QED BY <1>0, <1>6, <1>7, <1>8, TakerDrops DEF ops

\* The offer is set, in the place of an own one or of an earlier one, and answered.
LEMMA TakerTakes ==
  ASSUME NegotiationTypes, NEW w, NEW l, Roles(w, l), Negotiates(w, l), RemoteDescriptionSet(l)
  PROVE  Negotiates(w, l)'
<1> DEFINE flush == FlushPendingIceCandidates(l)
           create == <<Call("createAnswer", Null)>>
           ops == flush \o create
<1>0. /\ w \in Peers /\ l \in Peers /\ w # l /\ toPeer' = toPeer
      /\ remoteDescriptionSet'[l] = TRUE /\ remoteDescriptionSet'[w] = remoteDescriptionSet[w]
      /\ TakerState(w, l) /\ TakerCalls(w, l) /\ ResponsesFresh(w, l) /\ ToAsker(w, l)
  BY RolesKnown DEF RemoteDescriptionSet, Negotiates, NegotiationTypes
<1>1. /\ chain[l] # <<>> /\ Head(chain[l]).call = "setRemote"
      /\ Resolves(l, "setRemote",
           flush \o (IF Head(chain[l]).arg.type = "offer" THEN create ELSE <<>>))
  BY DEF RemoteDescriptionSet, Resolves
<1> HIDE DEF flush, create
<1>2. Head(chain[l]) \in TakerMakes(w, l)
  BY <1>0, <1>1, CallTaken DEF TakerCalls
<1>3. Head(chain[l]) \in Takes({OfferOf(w)})
  <2>1. \A c \in CreatesOffer \cup Sets(Offers(l)) \cup Adds : c.call # "setRemote"
    BY CallKinds
  <2>2. \A c \in Responds(w, l) : c.call # "setRemote"
    BY <1>0, RespondKinds
  <2> QED BY <1>1, <1>2, <2>1, <2>2 DEF TakerMakes
<1>4. Head(chain[l]).arg = OfferOf(w) /\ OfferOf(w).type = "offer"
  BY <1>0, <1>3, CallKinds, MessageKinds DEF OfferOf
<1>5. Resolves(l, "setRemote", ops)
  BY <1>1, <1>4
<1>6. /\ flush \in Seq(CallsMade) /\ Within(flush, AddsQueued) /\ create \in Seq(CallsMade)
      /\ \A S, T : /\ Has(create, S) <=> Call("createAnswer", Null) \in S
                   /\ Within(create, S) <=> Call("createAnswer", Null) \in S
                   /\ ~Before(create, S, T)
  <2>1. flush \in Seq(CallsMade) /\ Within(flush, AddsQueued)
    BY <1>0, FlushCalls DEF flush
  <2> DEFINE op == Call("createAnswer", Null)
  <2>2. op \in CallsMade
    BY CallRecords
  <2> HIDE DEF op
  <2>3. /\ <<op>> \in Seq(CallsMade)
        /\ \A S, T : /\ Has(<<op>>, S) <=> op \in S
                     /\ Within(<<op>>, S) <=> op \in S
                     /\ ~Before(<<op>>, S, T)
    BY <2>2, Single
  <2> QED BY <2>1, <2>3 DEF create, op
<1>7. /\ ops \in Seq(CallsMade)
      /\ \A S, T :
           /\ Has(ops, S) <=> Has(flush, S) \/ Has(create, S)
           /\ Within(ops, S) <=> Within(flush, S) /\ Within(create, S)
           /\ Before(ops, S, T) <=>
                Before(flush, S, T) \/ Before(create, S, T) \/ (Has(flush, S) /\ Has(create, T))
  BY <1>6, Joined
<1> HIDE DEF ops
<1>8. PICK h, t :
        /\ TakerStep(w, l, h, t, ops)
        /\ h.call = "setRemote" /\ Legal(pc[l], h) /\ pc'[l] = Applied(pc[l], h)
  BY <1>0, <1>5, <1>7, TakerResolves
<1>9. /\ Splits(chain[l], h, t) /\ Joins(chain'[l], t, ops)
      /\ h \in Takes({OfferOf(w)}) /\ h.arg = OfferOf(w)
      /\ pc'[w] = pc[w] /\ chain'[w] = chain[w]
  BY <1>3, <1>4, <1>8 DEF TakerStep
<1>10. pc[l] \in Connection
  BY <1>0 DEF NegotiationTypes
\* The connection.
<1>11. /\ pc'[l].signalingState = "have-remote-offer" /\ pc'[l].remote = OfferOf(w)
       /\ pc'[l].settled = pc[l].settled /\ pc'[l].local = pc[l].settled.local
       /\ \/ pc'[l].generation = pc[l].generation
          \/ State(l) = "have-local-offer" /\ ~Settled(l)
  <2> DEFINE d == IF pc[l].signalingState = "have-local-offer" THEN Rollback(pc[l]) ELSE pc[l]
  <2>1. pc'[l] = [d EXCEPT !.signalingState = "have-remote-offer", !.remote = h.arg]
    BY <1>4, <1>8, <1>9 DEF Applied
  <2>2. d \in Connection
    BY <1>10, RollbackType
  <2>3. /\ d.settled = pc[l].settled /\ d.local = pc[l].settled.local
        /\ \/ d.generation = pc[l].generation
           \/ State(l) = "have-local-offer" /\ ~Settled(l)
    BY <1>0, <1>10, RollbackEffect DEF TakerState, State, Settled
  <2> HIDE DEF d
  <2>4. /\ pc'[l].signalingState = "have-remote-offer" /\ pc'[l].remote = h.arg
        /\ pc'[l].settled = d.settled /\ pc'[l].local = d.local
        /\ pc'[l].generation = d.generation
    BY <2>1, <2>2 DEF Connection
  <2> QED BY <1>9, <2>3, <2>4
<1>12. /\ State(l)' = "have-remote-offer" /\ Settled(l)' = Settled(l)
       /\ Settled(l) => AnswerOf(l)' = AnswerOf(l)
  BY <1>11 DEF State, Settled, AnswerOf
<1>13. Given(l)' = Given(l) /\ SameSide(w)
  BY <1>0, <1>9, <1>12 DEF Given, SameSide, SameDescriptions
<1>14. TakerState(w, l)'
  BY <1>0, <1>11, <1>12 DEF TakerState
\* The calls.
<1>15. /\ AddsQueued \subseteq TakerMakes(w, l) /\ Call("createAnswer", Null) \in TakerMakes(w, l)
       /\ Call("createAnswer", Null) \in Responds(w, l)
       /\ Call("createAnswer", Null) \notin
            CreatesOffer \cup Sets(Offers(l)) \cup Sets(Answers(l)) \cup Takes({OfferOf(w)})
       /\ AddsQueued \cap (CreatesOffer \cup Sets(Offers(l)) \cup Sets(Answers(l))
                             \cup Takes({OfferOf(w)}) \cup Responds(w, l)) = {}
  <2>1. \A c \in AddsQueued : c.call \in {"addCandidate", "addQueued"} /\ c \in Adds
    BY CallKinds
  <2>2. \A c \in CreatesOffer \cup Sets(Offers(l)) \cup Sets(Answers(l))
                             \cup Takes({OfferOf(w)}) \cup Responds(w, l) :
          c.call \notin {"addCandidate", "addQueued"}
    BY <1>0, CallKinds, RespondKinds
  <2>3. Call("createAnswer", Null).call = "createAnswer"
    BY DEF Call
  <2>4. \A c \in CreatesOffer \cup Sets(Offers(l)) \cup Sets(Answers(l))
                             \cup Takes({OfferOf(w)}) : c.call # "createAnswer"
    BY <1>0, CallKinds, RespondKinds
  <2>5. Call("createAnswer", Null) \in Responds(w, l)
    BY <1>0, CallKinds, RespondKinds
  <2> QED BY <2>1, <2>2, <2>3, <2>4, <2>5 DEF TakerMakes
<1>16. /\ Within(ops, TakerMakes(w, l)) /\ Has(ops, Responds(w, l))
       /\ ~Has(ops, CreatesOffer) /\ ~Has(ops, Sets(Offers(l)))
       /\ ~Has(ops, Sets(Answers(l))) /\ ~Has(ops, Takes({OfferOf(w)}))
       /\ \A T : ~Before(ops, Sets(Answers(l)), T) /\ ~Before(ops, Responds(w, l), T)
  <2>1. Within(flush, TakerMakes(w, l))
    BY <1>6, <1>15, Kept
  <2>2. /\ AddsQueued \cap CreatesOffer = {} /\ AddsQueued \cap Sets(Offers(l)) = {}
        /\ AddsQueued \cap Sets(Answers(l)) = {} /\ AddsQueued \cap Takes({OfferOf(w)}) = {}
        /\ AddsQueued \cap Responds(w, l) = {}
    BY <1>15
  <2>3. /\ ~Has(flush, CreatesOffer) /\ ~Has(flush, Sets(Offers(l)))
        /\ ~Has(flush, Sets(Answers(l))) /\ ~Has(flush, Takes({OfferOf(w)}))
        /\ ~Has(flush, Responds(w, l))
        /\ \A T : ~Before(flush, Sets(Answers(l)), T) /\ ~Before(flush, Responds(w, l), T)
    BY <1>6, <2>2, Apart
  <2> QED BY <1>6, <1>7, <1>15, <2>1, <2>3
<1>17. TakerCalls(w, l)'
  BY <1>0, <1>8, <1>12, <1>16, TakerCallsMoved
<1>18. ResponsesFresh(w, l)'
  <2> DEFINE R == Responds(w, l)
             K == Takes({OfferOf(w)})
  <2>1. Responds(w, l)' = R
    BY DEF Responds
  <2>2. Has(chain'[l], R)
    BY <1>9, <1>16 DEF Joins
  <2>3. ~Before(t, R, K)
    <3>1. CASE State(l) = "have-remote-offer"
      BY <1>0, <1>9, <3>1 DEF ResponsesFresh, Splits
    <3>2. CASE State(l) # "have-remote-offer"
      <4>1. ~Has(t, R)
        BY <1>0, <1>9, <3>2 DEF ResponsesFresh, Splits
      <4> QED BY <4>1, NoneBefore
    <3> QED BY <3>1, <3>2
  <2>4. ~Before(chain'[l], R, K)
    BY <1>9, <1>16, <2>3 DEF Joins
  <2>5. ~Has(chain'[l], Stale(l)')
    <3>1. Stale(l)' \subseteq Sets(Answers(l))
      BY DEF Stale, Sets, Answers
    <3>2. ~Has(ops, Stale(l)')
      BY <1>16, <3>1, Kept
    <3>3. ~Has(t, Stale(l)')
      <4>1. CASE State(l) = "have-remote-offer"
        <5>1. Stale(l)' = Stale(l)
          BY <1>11, <4>1 DEF Stale, AnswerOf
        <5> QED BY <1>0, <1>9, <4>1, <5>1 DEF ResponsesFresh, Splits
      <4>2. CASE State(l) # "have-remote-offer"
        <5>1. ~Has(t, R)
          BY <1>0, <1>9, <4>2 DEF ResponsesFresh, Splits
        <5>2. Stale(l)' \subseteq R
          BY <1>0, <3>1, RespondKinds
        <5> QED BY <5>1, <5>2, Kept
      <4> QED BY <4>1, <4>2
    <3> QED BY <1>9, <3>2, <3>3 DEF Joins
  <2>6. Takes({OfferOf(w)})' = K
    BY DEF OfferOf
  <2> QED BY <1>12, <2>1, <2>2, <2>4, <2>5, <2>6 DEF ResponsesFresh
<1>19. ToAsker(w, l)'
  BY <1>0, <1>13, ToAskerKept
<1> QED BY <1>0, <1>13, <1>14, <1>17, <1>18, <1>19, TakerStepKeeps

LEMMA TakerSettles ==
  ASSUME NegotiationTypes, Attached, NEW w, NEW l, Roles(w, l), Negotiates(w, l), Settles(l)
  PROVE  Negotiates(w, l)'
BY TakerCreates, TakerSets, TakerRollsBack, TakerTakes, TakerAddsCandidate, TakerRejects
DEF Settles

-----------------------------------------------------------------------------
(* The steps that leave the descriptions alone.                            *)

\* The events that only gather candidates leave the description as it is; the one that ends
\* the gathering is not sent.
LEMMA IceCandidateEffect ==
  ASSUME NegotiationTypes, NEW p \in Peers, OnIceCandidate(p)
  PROVE  /\ \A r \in Peers : SameSide(r)
         /\ toPeer' = toPeer \/ \E c \in Candidates : SendMessage(p, c)
<1> DEFINE more == pc[p].gathered < MaxCandidates
           candidate == IF more
                        THEN IceCandidateMessage(p, pc[p].generation, pc[p].gathered + 1)
                        ELSE Null
           n == IF more THEN pc[p].gathered + 1 ELSE pc[p].gathered
           c == [pc[p] EXCEPT !.gathered = n]
<1>1. /\ pc[p] \in Connection /\ pc[p].generation \in Nat /\ pc[p].gathered \in 0..MaxCandidates
  BY DEF NegotiationTypes, Connection
<1>2. candidate = Null \/ candidate \in Candidates
  BY <1>1, NegotiationBounds DEF IceCandidateMessage, Candidates, Senders
<1>3. /\ pc' = [pc EXCEPT ![p] = c]
      /\ IF Forwards(candidate) THEN SendMessage(p, candidate) ELSE UNCHANGED toPeer
      /\ UNCHANGED <<chain, remoteDescriptionSet>>
  BY <1>1 DEF OnIceCandidate, NegotiationTypes, Connection
<1> HIDE DEF n, candidate
<1>4. /\ c.signalingState = pc[p].signalingState /\ c.generation = pc[p].generation
      /\ c.local = pc[p].local /\ c.remote = pc[p].remote /\ c.settled = pc[p].settled
  BY <1>1 DEF Connection
<1> HIDE DEF c
<1>5. \A r \in Peers : SameSide(r)
  <2> TAKE r \in Peers
  <2>1. pc'[r] = IF r = p THEN c ELSE pc[r]
    BY <1>3 DEF NegotiationTypes
  <2> QED BY <1>3, <1>4, <2>1 DEF SameSide, SameDescriptions
<1>6. toPeer' = toPeer \/ \E d \in Candidates : SendMessage(p, d)
  <2>1. CASE Forwards(candidate)
    BY <1>2, <1>3, <2>1 DEF Forwards
  <2>2. CASE ~Forwards(candidate)
    BY <1>3, <2>2
  <2> QED BY <2>1, <2>2
<1> QED BY <1>5, <1>6

LEMMA BothKept ==
  ASSUME NegotiationTypes, Attached, NEW w, NEW l, Roles(w, l), Negotiates(w, l),
         SameSide(w), SameSide(l),
         NEW p \in Peers, toPeer' = toPeer \/ \E c \in Candidates : SendMessage(p, c)
  PROVE  Negotiates(w, l)'
<1>0. w \in Peers /\ l \in Peers /\ w # l /\ Other(w) = l /\ Other(l) = w /\ Peers = {w, l}
  BY RolesKnown
<1>1. TakerState(w, l)' /\ TakerCalls(w, l)' /\ ResponsesFresh(w, l)' /\ Given(l)' = Given(l)
  BY TakerKept DEF Negotiates
<1>2. AskerState(w, l)' /\ AskerCalls(w, l)'
  BY <1>1, AskerKept DEF Negotiates
<1>3. ToTaker(w, l) /\ ToAsker(w, l)
  BY DEF Negotiates
<1>4. CASE toPeer' = toPeer
  BY <1>1, <1>2, <1>3, <1>4 DEF Negotiates, ToTaker, ToAsker, SameSide, SameDescriptions
<1>5. ASSUME NEW c \in Candidates, SendMessage(p, c) PROVE Negotiates(w, l)'
  <2>1. /\ toPeer'[p] = toPeer[p]
        /\ \A S, T :
             /\ Has(toPeer'[Other(p)], S) <=> Has(toPeer[Other(p)], S) \/ c \in S
             /\ Within(toPeer'[Other(p)], S) <=> Within(toPeer[Other(p)], S) /\ c \in S
             /\ Before(toPeer'[Other(p)], S, T) <=>
                  Before(toPeer[Other(p)], S, T) \/ (Has(toPeer[Other(p)], S) /\ c \in T)
    BY <1>5, MessageAdded
  <2>2. c \notin Offers(l) /\ c \notin Answers(l)
    BY <1>0, MessageKinds
  <2>3. CASE p = w
    <3>1. ToTaker(w, l)' /\ ToAsker(w, l)'
      BY <1>0, <1>1, <1>3, <2>1, <2>3 DEF ToTaker, ToAsker, SameSide, SameDescriptions
    <3> QED BY <1>1, <1>2, <3>1 DEF Negotiates
  <2>4. CASE p = l
    <3>1. ToTaker(w, l)'
      BY <1>0, <1>3, <2>1, <2>4 DEF ToTaker
    <3>2. ToAsker(w, l)'
      BY <1>0, <1>1, <1>3, <2>1, <2>2, <2>4 DEF ToAsker, SameSide, SameDescriptions
    <3> QED BY <1>1, <1>2, <3>1, <3>2 DEF Negotiates
  <2> QED BY <1>0, <2>3, <2>4
<1> QED BY <1>4, <1>5

-----------------------------------------------------------------------------
(* What an offer that is set waits for.                                    *)

SameGlare == \A r \in Peers : Glared(r)' <=> Glared(r)

\* Only handleOffer reports glare.
LEMMA OtherErrors ==
  ASSUME NegotiationTypes, NEW p \in Peers, NEW codes, SendErrors(p, codes),
         "GLARE_CONFLICT" \notin codes
  PROVE  SameGlare
<1> SUFFICES ASSUME NEW r \in Peers PROVE Glared(r)' <=> Glared(r)
  BY DEF SameGlare
<1>1. errors'[r] = errors[r] \/ errors'[r] = errors[r] \cup codes
  BY DEF SendErrors, NegotiationTypes
<1> QED BY <1>1 DEF Glared

LEMMA SettlesEffect ==
  ASSUME NegotiationTypes, NEW p \in Peers, Settles(p)
  PROVE  /\ chain[p] # <<>> /\ Head(chain[p]) \in CallsMade /\ SameGlare
         /\ \A r \in Peers \ {p} : pc'[r] = pc[r] /\ chain'[r] = chain[r]
         /\ \A S : Has(chain[p], S) => Head(chain[p]) \in S \/ Has(chain'[p], S)
         /\ CallRejected(p) \/ pc'[p] = Applied(pc[p], Head(chain[p]))
         /\ LocalDescriptionSet(p) \/ UNCHANGED toPeer
<1> DEFINE h == Head(chain[p])
           t == Tail(chain[p])
           Names == {"createOffer", "createAnswer", "setLocal", "setRemote", "rollback",
                     "addCandidate", "addQueued"}
<1>1. ASSUME NEW name, NEW ops \in Seq(CallsMade), Resolves(p, name, ops)
      PROVE  /\ chain[p] # <<>> /\ pc'[p] = Applied(pc[p], h)
             /\ \A r \in Peers \ {p} : pc'[r] = pc[r] /\ chain'[r] = chain[r]
             /\ \A S : Has(t, S) => Has(chain'[p], S)
  BY <1>1, Resolving
<1>2. CASE CallRejected(p)
  <2>1. /\ chain[p] # <<>> /\ chain' = [chain EXCEPT ![p] = t]
        /\ SendErrors(p, RejectionErrors(h)) /\ UNCHANGED <<toPeer, pc>>
    BY <1>2 DEF CallRejected
  <2>2. "GLARE_CONFLICT" \notin RejectionErrors(h)
    BY DEF RejectionErrors
  <2>3. chain'[p] = t /\ \A r \in Peers \ {p} : chain'[r] = chain[r]
    BY <2>1 DEF NegotiationTypes
  <2> HIDE DEF h, t
  <2>4. SameGlare
    BY <2>1, <2>2, OtherErrors
  <2>5. h \in CallsMade /\ \A S : Has(chain[p], S) => h \in S \/ Has(t, S)
    BY <2>1, CallTaken DEF h, t
  <2> QED BY <1>2, <2>1, <2>3, <2>4, <2>5 DEF h
<1>3. CASE ~CallRejected(p)
  <2>1. \E name \in Names, ops \in Seq(CallsMade) : Resolves(p, name, ops)
    <3>1. CASE OfferCreated(p) \/ AnswerCreated(p)
      <4>1. pc[p].generation \in Nat
        BY DEF NegotiationTypes, Connection
      <4> DEFINE o == Call("setLocal", OfferMessage(p, pc[p].generation))
                 a == Call("setLocal", AnswerMessage(p, pc[p].generation))
      <4>2. o \in CallsMade /\ a \in CallsMade
        BY <4>1, MessageKinds, CallRecords
      <4>3. Resolves(p, "createOffer", <<o>>) \/ Resolves(p, "createAnswer", <<a>>)
        BY <3>1 DEF OfferCreated, AnswerCreated
      <4> HIDE DEF o, a
      <4>4. <<o>> \in Seq(CallsMade) /\ <<a>> \in Seq(CallsMade)
        BY <4>2
      <4> QED BY <4>3, <4>4
    <3>2. CASE LocalDescriptionSet(p) \/ CandidateAdded(p)
      <4>1. \E name \in Names : Resolves(p, name, <<>>)
        BY <3>2 DEF LocalDescriptionSet, CandidateAdded
      <4>2. <<>> \in Seq(CallsMade)
        OBVIOUS
      <4> QED BY <4>1, <4>2
    <3>3. CASE RolledBack(p)
      <4> DEFINE op == Call("setRemote", h.arg)
      <4>1. Resolves(p, "rollback", <<op>>)
        BY <3>3 DEF RolledBack
      <4>2. chain[p] # <<>> /\ h.call = "rollback"
        BY <4>1 DEF Resolves
      <4>3. h.arg \in Descriptions
        BY <4>2, CallTaken DEF CallsMade
      <4>4. op \in CallsMade
        BY <4>3, CallRecords
      <4> HIDE DEF op
      <4>5. <<op>> \in Seq(CallsMade)
        BY <4>4
      <4> QED BY <4>1, <4>5
    <3>4. CASE RemoteDescriptionSet(p)
      <4> DEFINE flush == FlushPendingIceCandidates(p)
                 op == Call("createAnswer", Null)
                 more == IF h.arg.type = "offer" THEN <<op>> ELSE <<>>
      <4>1. Resolves(p, "setRemote", flush \o more)
        BY <3>4 DEF RemoteDescriptionSet
      <4>2. flush \in Seq(CallsMade) /\ op \in CallsMade
        BY FlushCalls, CallRecords
      <4> HIDE DEF flush, op
      <4>3. more \in Seq(CallsMade)
        BY <4>2
      <4> HIDE DEF more
      <4>4. flush \o more \in Seq(CallsMade)
        BY <4>2, <4>3, ConcatProperties
      <4> QED BY <4>1, <4>4
    <3> QED BY <1>3, <3>1, <3>2, <3>3, <3>4 DEF Settles
  <2>2. UNCHANGED errors
    BY <1>3 DEF Settles, OfferCreated, AnswerCreated, LocalDescriptionSet, RolledBack,
                RemoteDescriptionSet, CandidateAdded
  <2>3. SameGlare
    BY <2>2 DEF SameGlare, Glared
  <2>4. LocalDescriptionSet(p) \/ UNCHANGED toPeer
    BY <1>3 DEF Settles, OfferCreated, AnswerCreated, RolledBack, RemoteDescriptionSet,
                CandidateAdded
  <2> HIDE DEF h, t
  <2>5. /\ chain[p] # <<>> /\ pc'[p] = Applied(pc[p], h)
        /\ \A r \in Peers \ {p} : pc'[r] = pc[r] /\ chain'[r] = chain[r]
        /\ \A S : Has(t, S) => Has(chain'[p], S)
    BY <1>1, <2>1
  <2>6. h \in CallsMade /\ \A S : Has(chain[p], S) => h \in S \/ Has(t, S)
    BY <2>5, CallTaken DEF h, t
  <2> QED BY <2>3, <2>4, <2>5, <2>6 DEF h
<1> QED BY <1>2, <1>3

\* The oldest calls of the two.
LEMMA AskerHead ==
  ASSUME NegotiationTypes, NEW w, NEW l, Roles(w, l), AskerCalls(w, l), chain[w] # <<>>
  PROVE  LET h == Head(chain[w])
         IN /\ h.call \notin {"createAnswer", "rollback"}
            /\ h.call = "setLocal" => h.arg = OfferOf(w)
            /\ h.call = "setRemote" => h.arg \in Given(l)
<1>1. Head(chain[w]) \in CreatesOffer \cup Sets({OfferOf(w)}) \cup Takes(Given(l)) \cup Adds
  BY CallTaken DEF AskerCalls, Roles
<1> QED BY <1>1, CallKinds

LEMMA TakerHead ==
  ASSUME NegotiationTypes, NEW w, NEW l, Roles(w, l), TakerCalls(w, l), chain[l] # <<>>
  PROVE  LET h == Head(chain[l])
         IN /\ h.call \in {"rollback", "setRemote"} => h.arg = OfferOf(w)
            /\ h.call = "setLocal" => h.arg \in Offers(l) \cup Answers(l)
<1> DEFINE h == Head(chain[l])
<1>1. h \in TakerMakes(w, l)
  BY CallTaken DEF TakerCalls, Roles
<1> HIDE DEF h
<1>2. \/ h \in CreatesOffer \/ h \in CreatesAnswer \/ h \in Adds
      \/ h \in Takes({OfferOf(w)}) \/ h \in GivesWay({OfferOf(w)})
      \/ h \in Sets(Offers(l)) \/ h \in Sets(Answers(l))
  BY <1>1 DEF TakerMakes, Responds
<1>3. /\ h.call \in {"rollback", "setRemote"} => h.arg = OfferOf(w)
      /\ h.call = "setLocal" => h.arg \in Offers(l) \cup Answers(l)
  BY <1>2, CallKinds
<1> QED BY <1>3 DEF h

LEMMA PendingInitiates ==
  ASSUME NegotiationTypes, NEW w, NEW l, Roles(w, l), Pending(w, l),
         NEW p \in Peers, InitiateConnection(p)
  PROVE  Pending(w, l)'
<1>0. w \in Peers /\ l \in Peers
  BY RolesKnown
<1>1. UNCHANGED <<toPeer, pc, errors>>
  BY DEF InitiateConnection
<1>2. \A r \in Peers : \A S : Has(chain[r], S) => Has(chain'[r], S)
  <2> DEFINE op == Call("createOffer", Null)
  <2>1. Calls(p, op) /\ op \in CallsMade
    BY CallRecords DEF InitiateConnection
  <2> HIDE DEF op
  <2>2. /\ \A r \in Peers \ {p} : chain'[r] = chain[r]
        /\ \A S : Has(chain[p], S) => Has(chain'[p], S)
    BY <2>1, CallAdded
  <2> QED BY <2>2
<1>3. /\ State(w)' = State(w) /\ State(l)' = State(l) /\ Given(l)' = Given(l)
      /\ Glared(w)' = Glared(w) /\ Glared(l)' = Glared(l)
  BY <1>1 DEF State, Given, Settled, AnswerOf, Glared
<1>4. Waits(w, l) => Waits(w, l)'
  BY <1>0, <1>1, <1>2, <1>3 DEF Waits
<1>5. Refused(w, l) => Refused(w, l)'
  BY <1>1, <1>3 DEF Refused
<1> QED BY <1>3, <1>4, <1>5 DEF Pending

\* A candidate that is sent, or nothing.
LEMMA PendingBothKept ==
  ASSUME NegotiationTypes, Attached, NEW w, NEW l, Roles(w, l), Pending(w, l),
         SameSide(w), SameSide(l), SameGlare,
         NEW p \in Peers, toPeer' = toPeer \/ \E c \in Candidates : SendMessage(p, c)
  PROVE  Pending(w, l)'
<1>0. w \in Peers /\ l \in Peers /\ Other(w) = l /\ Other(l) = w /\ Peers = {w, l}
  BY RolesKnown
<1>1. \A S : /\ Has(toPeer[w], S) => Has(toPeer'[w], S)
             /\ Has(toPeer[l], S) => Has(toPeer'[l], S)
  <2>1. CASE toPeer' = toPeer
    BY <2>1
  <2>2. ASSUME NEW c \in Candidates, SendMessage(p, c)
        PROVE  \A S : /\ Has(toPeer[w], S) => Has(toPeer'[w], S)
                      /\ Has(toPeer[l], S) => Has(toPeer'[l], S)
    <3>1. /\ toPeer'[p] = toPeer[p]
          /\ \A S : Has(toPeer[Other(p)], S) => Has(toPeer'[Other(p)], S)
      BY <2>2, MessageAdded
    <3>2. p = w \/ p = l
      BY <1>0
    <3> QED BY <1>0, <3>1, <3>2
  <2> QED BY <2>1, <2>2
<1>2. /\ State(w)' = State(w) /\ State(l)' = State(l) /\ Given(l)' = Given(l)
      /\ chain'[w] = chain[w] /\ chain'[l] = chain[l]
  BY DEF State, Given, Settled, AnswerOf, SameSide, SameDescriptions
<1>3. (Glared(w)' <=> Glared(w)) /\ (Glared(l)' <=> Glared(l))
  BY <1>0 DEF SameGlare
<1>4. Waits(w, l) => Waits(w, l)'
  BY <1>1, <1>2, <1>3 DEF Waits
<1>5. Refused(w, l) => Refused(w, l)'
  BY <1>1, <1>3 DEF Refused
<1> QED BY <1>2, <1>3, <1>4, <1>5 DEF Pending

\* An answer is taken, and an offer is refused as glare: by the invariant the own one is set.
LEMMA PendingAskerHears ==
  ASSUME NegotiationTypes, Attached, NEW w, NEW l, Roles(w, l), Negotiates(w, l), Pending(w, l),
         Delivery(w)
  PROVE  Pending(w, l)'
<1> DEFINE msg == Head(toPeer[w])
<1>0. /\ w \in Peers /\ l \in Peers /\ w # l
      /\ toPeer[w] # <<>> /\ toPeer' = [toPeer EXCEPT ![w] = Tail(@)]
      /\ UNCHANGED pc
  BY RolesKnown DEF Delivery, HandleOffer, HandleAnswer, HandleIceCandidate, Unheard, Receives
<1>1. /\ toPeer'[l] = toPeer[l]
      /\ \A S : Has(toPeer[w], S) => msg \in S \/ Has(toPeer'[w], S)
      /\ Within(toPeer[w], Offers(l) \cup Given(l) \cup Candidates) =>
           msg \in Offers(l) \cup Given(l) \cup Candidates
      /\ Has(toPeer[w], Offers(l)) <=> msg \in Offers(l) \/ Has(toPeer'[w], Offers(l))
  BY <1>0, MessageTaken
<1>2. msg \in Offers(l) \cup Given(l) \cup Candidates
  BY <1>1 DEF Negotiates, ToAsker
<1>3. Given(l) \subseteq Answers(l)
  BY <1>0, GivenFacts
<1>4. ~Unheard(w)
  BY <1>0 DEF Unheard, Attached
<1>5. /\ \A S : Has(chain[w], S) => Has(chain'[w], S)
      /\ chain'[l] = chain[l]
      /\ msg \in Given(l) => Has(chain'[w], Takes(Given(l)))
  <2> HIDE DEF msg
  <2>1. ASSUME NEW op \in CallsMade, Calls(w, op)
        PROVE  /\ \A S : Has(chain'[w], S) <=> Has(chain[w], S) \/ op \in S
               /\ chain'[l] = chain[l]
    BY <1>0, <2>1, CallAdded
  <2>3. CASE HandleAnswer(w)
    <3>1. msg.type = "answer" /\ Calls(w, Call("setRemote", msg))
      BY <2>3 DEF HandleAnswer, Receives, msg
    <3>2. msg \in Given(l)
      BY <1>0, <1>2, <3>1, MessageKinds
    <3>3. Call("setRemote", msg) \in Takes(Given(l)) /\ Call("setRemote", msg) \in CallsMade
      BY <1>0, <1>3, <3>2, MessageKinds, CallKinds, CallRecords
    <3> QED BY <2>1, <3>1, <3>3
  <2>4. CASE HandleOffer(w) \/ HandleIceCandidate(w)
    <3>1. msg.type = IF HandleOffer(w) THEN "offer" ELSE "ice-candidate"
      BY <2>4 DEF HandleOffer, HandleIceCandidate, Receives, msg
    <3>2. msg \in Descriptions \cup Candidates /\ msg \notin Given(l)
      BY <1>0, <1>2, <1>3, <3>1, MessageKinds
    <3>3. UNCHANGED chain \/ \E op \in CallsMade : Calls(w, op)
      <4>1. CASE HandleOffer(w)
        <5>1. msg \in Descriptions
          BY <1>0, <3>1, <3>2, <4>1, MessageKinds
        <5>2. \/ UNCHANGED chain
              \/ \E name \in {"setRemote", "rollback"} : Calls(w, Call(name, msg))
          BY <4>1 DEF HandleOffer, msg
        <5> QED BY <5>1, <5>2, CallRecords
      <4>2. CASE HandleIceCandidate(w)
        <5>0. msg.type = "ice-candidate"
          BY <4>2 DEF HandleIceCandidate, Receives, msg
        <5>1. msg \in Candidates
          BY <1>0, <3>2, <5>0, MessageKinds
        <5>2. UNCHANGED chain \/ Calls(w, Call("addCandidate", msg))
          BY <4>2 DEF HandleIceCandidate, msg
        <5> QED BY <5>1, <5>2, CallRecords
      <4> QED BY <2>4, <4>1, <4>2
    <3> QED BY <2>1, <3>2, <3>3
  <2> QED BY <1>4, <2>3, <2>4 DEF Delivery
<1>6. /\ Glared(w) => Glared(w)'
      /\ msg \in Offers(l) => Glared(w)'
      /\ Glared(l)' <=> Glared(l)
  <2>1. CASE HandleOffer(w)
    <3>1. msg.type = "offer"
      BY <2>1 DEF HandleOffer, Receives
    <3>2. msg \in Offers(l)
      BY <1>0, <1>2, <1>3, <3>1, MessageKinds
    <3>3. pc[w].remote = Null
      BY <1>1, <3>2 DEF Negotiates, ToAsker
    <3>4. Glare(w)
      BY <1>0, <3>3, GivenFacts DEF Negotiates, AskerState, State, Glare
    <3>5. errors' = [errors EXCEPT ![w] = @ \cup {"GLARE_CONFLICT"}]
      BY <1>0, <2>1, <3>4 DEF HandleOffer, SendErrors, Attached
    <3> QED BY <1>0, <3>5 DEF Glared, NegotiationTypes
  <2>2. CASE ~HandleOffer(w)
    <3>1. UNCHANGED errors
      BY <1>4, <2>2 DEF Delivery, HandleAnswer, HandleIceCandidate
    <3>2. msg.type # "offer"
      BY <1>0, <1>4, <2>2 DEF Delivery, HandleAnswer, HandleIceCandidate, Receives
    <3>3. msg \notin Offers(l)
      BY <1>0, <3>2, MessageKinds
    <3> QED BY <3>1, <3>3 DEF Glared
  <2> QED BY <2>1, <2>2
<1>7. State(w)' = State(w) /\ State(l)' = State(l) /\ Given(l)' = Given(l)
  BY <1>0 DEF State, Given, Settled, AnswerOf
<1> HIDE DEF msg
<1>8. Waits(w, l) => Waits(w, l)'
  BY <1>1, <1>5, <1>6, <1>7 DEF Waits
<1>9. Refused(w, l) => Refused(w, l)'
  BY <1>1, <1>6 DEF Refused
<1> QED BY <1>6, <1>7, <1>8, <1>9 DEF Pending

\* An offer that comes is taken, or refused as glare because an own one is set.
LEMMA PendingTakerHears ==
  ASSUME NegotiationTypes, Attached, NEW w, NEW l, Roles(w, l), Negotiates(w, l), Pending(w, l),
         Delivery(l)
  PROVE  Pending(w, l)'
<1> DEFINE msg == Head(toPeer[l])
<1>0. /\ w \in Peers /\ l \in Peers /\ w # l
      /\ toPeer[l] # <<>> /\ toPeer' = [toPeer EXCEPT ![l] = Tail(@)]
      /\ UNCHANGED pc
  BY RolesKnown DEF Delivery, HandleOffer, HandleAnswer, HandleIceCandidate, Unheard, Receives
<1>1. /\ toPeer'[w] = toPeer[w]
      /\ \A S : Has(toPeer[l], S) => msg \in S \/ Has(toPeer'[l], S)
      /\ Within(toPeer[l], {OfferOf(w)} \cup Candidates) => msg \in {OfferOf(w)} \cup Candidates
  BY <1>0, MessageTaken
<1>2. msg \in {OfferOf(w)} \cup Candidates
  BY <1>1 DEF Negotiates, ToTaker
<1>3. OfferOf(w) \in Offers(w) /\ OfferOf(w).type = "offer" /\ OfferOf(w) \in Descriptions
  BY <1>0, MessageKinds DEF OfferOf
<1>4. ~Unheard(l) /\ ~HandleAnswer(l)
  <2>1. msg.type # "answer"
    BY <1>0, <1>2, <1>3, MessageKinds
  <2> QED BY <1>0, <2>1 DEF Unheard, Attached, HandleAnswer, Receives
<1>5. State(w)' = State(w) /\ State(l)' = State(l) /\ Given(l)' = Given(l)
  BY <1>0 DEF State, Given, Settled, AnswerOf
<1> HIDE DEF msg
<1>6. ASSUME NEW op \in CallsMade, Calls(l, op)
      PROVE  /\ \A S : Has(chain'[l], S) <=> Has(chain[l], S) \/ op \in S
             /\ chain'[w] = chain[w]
  BY <1>0, <1>6, CallAdded
\* What has to be shown.
<1> DEFINE Fine == /\ chain'[w] = chain[w] /\ \A S : Has(chain[l], S) => Has(chain'[l], S)
                   /\ Glared(w)' <=> Glared(w)
                   /\ Glared(l) => Glared(l)'
                   /\ Glared(l)' => Glared(l) \/ State(l) = "have-local-offer"
                   /\ msg = OfferOf(w) => \/ Has(chain'[l], Takes({OfferOf(w)}))
                                          \/ State(l) = "have-remote-offer"
                                          \/ Glared(l)'
<1>7. ASSUME HandleOffer(l) PROVE Fine
  <2>1. msg = OfferOf(w)
    BY <1>0, <1>2, <1>7, MessageKinds DEF HandleOffer, Receives, msg
  <2>2. CASE Glare(l)
    <3>1. errors' = [errors EXCEPT ![l] = @ \cup {"GLARE_CONFLICT"}] /\ UNCHANGED chain
      BY <1>0, <1>7, <2>2 DEF HandleOffer, SendErrors, Attached
    <3>2. Glared(l)' /\ (Glared(w)' <=> Glared(w))
      BY <1>0, <3>1 DEF Glared, NegotiationTypes
    <3>3. State(l) = "have-local-offer"
      BY <2>2 DEF Glare, State
    <3> QED BY <3>1, <3>2, <3>3
  <2>3. CASE ~Glare(l)
    <3>1. UNCHANGED errors
      BY <1>7, <2>3 DEF HandleOffer
    <3>2. State(l) \in {"stable", "have-remote-offer"}
      BY <2>3 DEF Negotiates, TakerState, Glare, State
    <3> DEFINE op == Call(IF State(l) = "stable" THEN "setRemote" ELSE "rollback", OfferOf(w))
    <3>3. Calls(l, op)
      BY <1>7, <2>1, <2>3 DEF HandleOffer, msg, State
    <3>4. op \in CallsMade /\ (State(l) = "stable" => op \in Takes({OfferOf(w)}))
      BY <1>3, CallKinds, CallRecords
    <3> HIDE DEF op
    <3>5. /\ \A S : Has(chain'[l], S) <=> Has(chain[l], S) \/ op \in S
          /\ chain'[w] = chain[w]
      BY <1>6, <3>3, <3>4
    <3> QED BY <3>1, <3>2, <3>4, <3>5 DEF Glared
  <2> QED BY <2>2, <2>3
<1>8. ASSUME HandleIceCandidate(l) PROVE Fine
  <2>1. msg.type = "ice-candidate" /\ UNCHANGED errors
    BY <1>8 DEF HandleIceCandidate, Receives, msg
  <2>2. msg \in Candidates /\ msg # OfferOf(w)
    BY <1>2, <1>3, <2>1
  <2>3. UNCHANGED chain \/ Calls(l, Call("addCandidate", msg))
    BY <1>8 DEF HandleIceCandidate, msg
  <2>4. Call("addCandidate", msg) \in CallsMade
    BY <2>2, CallRecords
  <2>5. chain'[w] = chain[w] /\ \A S : Has(chain[l], S) => Has(chain'[l], S)
    BY <1>6, <2>3, <2>4
  <2> QED BY <2>1, <2>2, <2>5 DEF Glared
<1>9. Fine
  BY <1>4, <1>7, <1>8 DEF Delivery
<1>10. Waits(w, l) => Waits(w, l)'
  BY <1>1, <1>5, <1>9 DEF Waits
<1>11. Refused(w, l) => Refused(w, l)'
  BY <1>1, <1>9 DEF Refused
<1> QED BY <1>5, <1>9, <1>10, <1>11 DEF Pending

\* The asker's own calls: an offer that is set is sent, an answer that is set ends the wait.
LEMMA PendingAskerSettles ==
  ASSUME NegotiationTypes, Attached, NEW w, NEW l, Roles(w, l), Negotiates(w, l), Pending(w, l),
         Settles(w)
  PROVE  Pending(w, l)'
<1> DEFINE h == Head(chain[w])
<1>0. w \in Peers /\ l \in Peers /\ w # l /\ Other(w) = l
  BY RolesKnown
<1>1. /\ chain[w] # <<>> /\ h \in CallsMade /\ SameGlare
      /\ pc'[l] = pc[l] /\ chain'[l] = chain[l]
      /\ \A S : Has(chain[w], S) => h \in S \/ Has(chain'[w], S)
      /\ CallRejected(w) \/ pc'[w] = Applied(pc[w], h)
      /\ LocalDescriptionSet(w) \/ UNCHANGED toPeer
  BY <1>0, SettlesEffect
<1>2. /\ h.call \notin {"createAnswer", "rollback"}
      /\ h.call = "setLocal" => h.arg = OfferOf(w)
      /\ h.call = "setRemote" => h.arg \in Given(l)
  BY <1>1, AskerHead DEF Negotiates
<1>3. State(l)' = State(l) /\ Given(l)' = Given(l)
  BY <1>1 DEF State, Given, Settled, AnswerOf
<1>4. (Glared(w)' <=> Glared(w)) /\ (Glared(l)' <=> Glared(l))
  BY <1>0, <1>1 DEF SameGlare
<1>5. pc[w] \in Connection
  BY <1>0 DEF NegotiationTypes
<1>6. Given(l) \subseteq Answers(l)
  BY <1>0, GivenFacts
<1>7. CASE LocalDescriptionSet(w)
  <2>1. h.call = "setLocal" /\ SendMessage(w, h.arg)
    BY <1>7 DEF LocalDescriptionSet, Resolves
  <2>2. h.arg = OfferOf(w) /\ OfferOf(w) \in Descriptions \cup Candidates
    BY <1>0, <1>2, <2>1, MessageKinds DEF OfferOf
  <2>3. /\ toPeer'[w] = toPeer[w]
        /\ Has(toPeer'[l], {OfferOf(w)})
    BY <1>0, <2>1, <2>2, MessageAdded
  <2>4. Waits(w, l)'
    BY <2>3 DEF Waits, OfferOf
  <2>5. Refused(w, l) => Refused(w, l)'
    BY <1>4, <2>3 DEF Refused
  <2> QED BY <1>3, <1>4, <2>4, <2>5 DEF Pending
<1>8. CASE ~LocalDescriptionSet(w)
  <2>1. UNCHANGED toPeer
    BY <1>1, <1>8
  <2>2. Refused(w, l) => Refused(w, l)'
    BY <1>4, <2>1 DEF Refused
  <2>3. \/ State(w)' # "have-local-offer"
        \/ State(w) = "have-local-offer" /\ h \notin Takes(Given(l))
    <3>1. CASE RemoteDescriptionSet(w)
      <4>1. h.call = "setRemote"
        BY <3>1 DEF RemoteDescriptionSet, Resolves
      <4>2. h.arg \in Answers(l)
        BY <1>2, <1>6, <4>1
      <4>3. h.arg.type = "answer"
        BY <1>0, <4>2, MessageKinds
      <4>4. ~CallRejected(w)
        BY <3>1 DEF RemoteDescriptionSet, CallRejected, Resolves
      <4>5. pc'[w] = Settle([pc[w] EXCEPT !.remote = h.arg])
        BY <1>1, <4>1, <4>3, <4>4 DEF Applied
      <4>6. pc'[w].signalingState = "stable"
        BY <1>5, <4>5 DEF Settle, Connection
      <4> QED BY <4>6 DEF State
    <3>2. CASE CallRejected(w)
      <4>1. ~Legal(pc[w], h) /\ UNCHANGED pc
        BY <3>2 DEF CallRejected
      <4> HIDE DEF h
      <4>2. h \in Takes(Given(l)) => State(w) # "have-local-offer"
        <5>1. h \in Takes(Given(l)) => h.call = "setRemote"
          BY CallKinds
        <5> QED BY <4>1, <5>1 DEF Legal, State
      <4> QED BY <4>1, <4>2 DEF State
    <3>3. CASE OfferCreated(w) \/ CandidateAdded(w)
      <4>1. h.call \in {"createOffer", "addCandidate", "addQueued"} /\ ~CallRejected(w)
        BY <3>3 DEF OfferCreated, CandidateAdded, Resolves, CallRejected
      <4>2. h \notin Takes(Given(l))
        BY <4>1, CallKinds
      <4>3. pc'[w].signalingState = pc[w].signalingState
        BY <1>1, <1>5, <4>1 DEF Applied, Connection
      <4> QED BY <4>2, <4>3 DEF State
    <3>4. ~AnswerCreated(w) /\ ~RolledBack(w)
      BY <1>2 DEF AnswerCreated, RolledBack, Resolves
    <3> QED BY <1>8, <3>1, <3>2, <3>3, <3>4 DEF Settles
  <2> HIDE DEF h
  <2>4. State(w)' = "have-local-offer" /\ Waits(w, l) => Waits(w, l)'
    BY <1>1, <1>3, <1>4, <2>1, <2>3 DEF Waits
  <2> QED BY <1>3, <1>4, <2>2, <2>3, <2>4 DEF Pending
<1> QED BY <1>7, <1>8

\* The taker's calls: an offer that is taken becomes the set one, then an answer on its way;
\* an own offer that is set is sent.
LEMMA PendingTakerSettles ==
  ASSUME NegotiationTypes, Attached, NEW w, NEW l, Roles(w, l), Negotiates(w, l), Pending(w, l),
         Negotiates(w, l)', Settles(l)
  PROVE  Pending(w, l)'
<1> DEFINE h == Head(chain[l])
<1>0. w \in Peers /\ l \in Peers /\ w # l /\ Other(l) = w
  BY RolesKnown
<1>1. /\ chain[l] # <<>> /\ h \in CallsMade /\ SameGlare
      /\ pc'[w] = pc[w] /\ chain'[w] = chain[w]
      /\ \A S : Has(chain[l], S) => h \in S \/ Has(chain'[l], S)
      /\ CallRejected(l) \/ pc'[l] = Applied(pc[l], h)
      /\ LocalDescriptionSet(l) \/ UNCHANGED toPeer
  BY <1>0, SettlesEffect
<1>2. /\ h.call \in {"rollback", "setRemote"} => h.arg = OfferOf(w)
      /\ h.call = "setLocal" => h.arg \in Offers(l) \cup Answers(l)
  BY <1>1, TakerHead DEF Negotiates
<1>3. State(w)' = State(w)
  BY <1>1 DEF State
<1>4. (Glared(w)' <=> Glared(w)) /\ (Glared(l)' <=> Glared(l))
  BY <1>0, <1>1 DEF SameGlare
<1>5. pc[l] \in Connection
  BY <1>0 DEF NegotiationTypes
<1>6. OfferOf(w).type = "offer" /\ OfferOf(w) \in Descriptions
  BY <1>0, MessageKinds DEF OfferOf
<1>7. h.call # "setRemote" => h \notin Takes({OfferOf(w)})
  BY CallKinds
<1>8. ASSUME UNCHANGED toPeer PROVE Refused(w, l) => Refused(w, l)'
  BY <1>4, <1>8 DEF Refused
<1>9. CASE RolledBack(l)
  <2>1. /\ Resolves(l, "rollback", <<Call("setRemote", h.arg)>>) /\ ~CallRejected(l)
        /\ UNCHANGED toPeer
    BY <1>9 DEF RolledBack, CallRejected, Resolves
  <2>2. h.call = "rollback"
    BY <2>1 DEF Resolves
  <2>3. pc'[l].signalingState = "stable"
    BY <1>1, <1>5, <2>1, <2>2, RollbackEffect DEF Applied
  <2> DEFINE op == Call("setRemote", OfferOf(w))
             ops == <<op>>
  <2>4. Resolves(l, "rollback", ops) /\ op \in CallsMade /\ op \in Takes({OfferOf(w)})
    BY <1>2, <1>6, <2>1, <2>2, CallKinds, CallRecords
  <2> HIDE DEF op
  <2>5. ops \in Seq(CallsMade) /\ Has(ops, Takes({OfferOf(w)}))
    BY <2>4, Single
  <2> HIDE DEF ops
  <2>6. Has(chain'[l], Takes({OfferOf(w)}))
    BY <1>0, <2>4, <2>5, Resolving
  <2>7. Waits(w, l)'
    BY <2>6 DEF Waits, OfferOf, Takes
  <2>8. State(l)' # "have-local-offer"
    BY <2>3 DEF State
  <2> QED BY <1>4, <1>8, <2>1, <2>7, <2>8 DEF Pending
<1>10. CASE RemoteDescriptionSet(l)
  <2>1. h.call = "setRemote" /\ UNCHANGED toPeer /\ ~CallRejected(l)
    BY <1>10 DEF RemoteDescriptionSet, Resolves, CallRejected
  <2> DEFINE d == IF pc[l].signalingState = "have-local-offer" THEN Rollback(pc[l]) ELSE pc[l]
  <2>2. pc'[l] = [d EXCEPT !.signalingState = "have-remote-offer", !.remote = h.arg]
    BY <1>1, <1>2, <1>6, <2>1 DEF Applied
  <2>3. d \in Connection
    BY <1>5, RollbackType
  <2> HIDE DEF d
  <2>4. pc'[l].signalingState = "have-remote-offer"
    BY <2>2, <2>3 DEF Connection
  <2>5. State(l)' = "have-remote-offer"
    BY <2>4 DEF State
  <2> QED BY <1>4, <1>8, <2>1, <2>5 DEF Pending, Waits
<1>11. CASE LocalDescriptionSet(l)
  <2>1. h.call = "setLocal" /\ SendMessage(l, h.arg) /\ Legal(pc[l], h) /\ ~CallRejected(l)
    BY <1>11 DEF LocalDescriptionSet, Resolves, CallRejected
  <2>2. h.arg \in Descriptions /\ h.arg \in Offers(l) \cup Answers(l)
    BY <1>0, <1>2, <2>1, MessageKinds
  <2>3. /\ toPeer'[l] = toPeer[l] /\ Has(toPeer'[w], {h.arg})
        /\ \A S : Has(toPeer[w], S) => Has(toPeer'[w], S)
        /\ \A S : Within(toPeer'[w], S) => h.arg \in S
        /\ h.arg \in Offers(l) => Has(toPeer'[w], Offers(l))
        /\ \A S : h.arg \in S => Has(toPeer'[w], S)
    BY <1>0, <2>1, <2>2, MessageAdded
  <2>4. Refused(w, l) => Refused(w, l)'
    BY <1>4, <2>3 DEF Refused
  <2>5. CASE h.arg \in Offers(l)
    <3>1. h.arg.type = "offer"
      BY <1>0, <2>5, MessageKinds
    <3>2. /\ State(l) # "have-remote-offer"
          /\ pc'[l] = [pc[l] EXCEPT !.signalingState = "have-local-offer", !.local = h.arg]
      BY <1>1, <2>1, <3>1 DEF Legal, Applied, State
    <3>3. pc'[l].settled = pc[l].settled /\ pc'[l].generation = pc[l].generation
      BY <1>5, <3>2 DEF Connection
    <3>4. Given(l)' = Given(l)
      BY <3>3 DEF Given, Settled, AnswerOf
    <3>5. Has(chain[l], Takes({OfferOf(w)})) => Has(chain'[l], Takes({OfferOf(w)}))
      BY <1>1, <1>7, <2>1
    <3>6. Waits(w, l) => Waits(w, l)'
      BY <1>1, <1>4, <2>3, <3>2, <3>4, <3>5 DEF Waits
    <3>7. Refused(w, l)'
      BY <2>3, <2>5 DEF Refused
    <3> QED BY <1>3, <3>6, <3>7 DEF Pending
  <2>6. CASE h.arg \in Answers(l)
    <3>1. h.arg.type = "answer"
      BY <1>0, <2>6, MessageKinds
    <3>2. h.arg \in Offers(l)' \cup Given(l)' \cup Candidates'
      BY <2>3 DEF Negotiates, ToAsker
    <3>3. h.arg \in Given(l)'
      BY <1>0, <3>1, <3>2, MessageKinds DEF Offers, Candidates
    <3>4. Waits(w, l)'
      BY <2>3, <3>3 DEF Waits
    <3>5. pc'[l] = Settle([pc[l] EXCEPT !.local = h.arg])
      BY <1>1, <2>1, <3>1 DEF Applied
    <3>6. pc'[l].signalingState = "stable"
      BY <1>5, <3>5 DEF Settle, Connection
    <3>7. State(l)' # "have-local-offer"
      BY <3>6 DEF State
    <3> QED BY <1>4, <2>4, <3>4, <3>7 DEF Pending
  <2> QED BY <2>2, <2>5, <2>6
<1>12. CASE OfferCreated(l) \/ AnswerCreated(l) \/ CandidateAdded(l) \/ CallRejected(l)
  <2>1. h \notin Takes({OfferOf(w)}) /\ SameDescriptions(l) /\ UNCHANGED toPeer
    <3>1. CASE CallRejected(l)
      <4>1. ~Legal(pc[l], h) /\ UNCHANGED <<pc, toPeer>>
        BY <3>1 DEF CallRejected
      <4> HIDE DEF h
      <4>2. h.call # "setRemote"
        BY <1>2, <1>6, <4>1 DEF Legal
      <4> QED BY <1>7, <4>1, <4>2 DEF SameDescriptions
    <3>2. CASE OfferCreated(l) \/ AnswerCreated(l) \/ CandidateAdded(l)
      <4>1. /\ h.call \in {"createOffer", "createAnswer", "addCandidate", "addQueued"}
            /\ UNCHANGED toPeer /\ ~CallRejected(l)
        BY <3>2 DEF OfferCreated, AnswerCreated, CandidateAdded, Resolves, CallRejected
      <4> HIDE DEF h
      <4>2. SameDescriptions(l)
        BY <1>1, <1>5, <4>1 DEF Applied, Connection, SameDescriptions
      <4> QED BY <1>7, <4>1, <4>2
    <3> QED BY <1>12, <3>1, <3>2
  <2> HIDE DEF h
  <2>2. State(l)' = State(l) /\ Given(l)' = Given(l)
    BY <2>1 DEF SameDescriptions, State, Given, Settled, AnswerOf
  <2>3. Waits(w, l) => Waits(w, l)'
    BY <1>1, <1>4, <2>1, <2>2 DEF Waits
  <2> QED BY <1>3, <1>4, <1>8, <2>1, <2>2, <2>3 DEF Pending
<1> QED BY <1>9, <1>10, <1>11, <1>12 DEF Settles

-----------------------------------------------------------------------------
(* Before the first offer.                                                 *)

SilentMakes(p) == CreatesOffer \cup Sets({OfferOf(p)})

LEMMA SilentKept ==
  ASSUME Silent,
         UNCHANGED <<pc, toPeer, chain, remoteDescriptionSet, pendingIceCandidates, initiations>>,
         SameGlare
  PROVE  Silent'
<1>1. \A p \in Peers : OfferOf(p)' = OfferOf(p) /\ (Glared(p)' <=> Glared(p))
  BY DEF OfferOf, SameGlare
<1> QED BY <1>1 DEF Silent

\* All calls are on the way to an own offer.
LEMMA SilentHead ==
  ASSUME NegotiationTypes, Silent, NEW p \in Peers, chain[p] # <<>>
  PROVE  /\ \/ Head(chain[p]) \in CreatesOffer /\ Head(chain[p]).call = "createOffer"
            \/ /\ Head(chain[p]) \in Sets({OfferOf(p)}) /\ Head(chain[p]).call = "setLocal"
               /\ Head(chain[p]).arg = OfferOf(p)
         /\ Within(Tail(chain[p]), SilentMakes(p))
         /\ Legal(pc[p], Head(chain[p]))
<1>1. Within(chain[p], SilentMakes(p)) /\ pc[p] = Fresh
  BY DEF Silent, SilentMakes
<1>2. Head(chain[p]) \in SilentMakes(p) /\ Within(Tail(chain[p]), SilentMakes(p))
  BY <1>1, CallTaken
<1>3. \/ Head(chain[p]) \in CreatesOffer /\ Head(chain[p]).call = "createOffer"
      \/ /\ Head(chain[p]) \in Sets({OfferOf(p)}) /\ Head(chain[p]).call = "setLocal"
         /\ Head(chain[p]).arg = OfferOf(p)
  BY <1>2, CallKinds DEF SilentMakes
<1>4. OfferOf(p).type = "offer" /\ pc[p].signalingState = "stable"
  BY <1>1, MessageKinds DEF OfferOf, Fresh
<1> QED BY <1>2, <1>3, <1>4 DEF Legal

\* A step of p that makes one more call towards its offer.
LEMMA SilentCalls ==
  ASSUME Silent, NEW p \in Peers, Within(chain'[p], SilentMakes(p)), Has(chain'[p], SilentMakes(p)),
         \A r \in Peers \ {p} : chain'[r] = chain[r] /\ initiations'[r] = initiations[r],
         \A r \in Peers : pc'[r] = pc[r],
         UNCHANGED <<toPeer, remoteDescriptionSet, pendingIceCandidates>>, SameGlare
  PROVE  Silent'
<1>1. chain'[p] # <<>>
  BY Empty
<1>2. \A r \in Peers : OfferOf(r)' = OfferOf(r) /\ (Glared(r)' <=> Glared(r))
  BY DEF OfferOf, SameGlare
<1> SUFFICES ASSUME NEW r \in Peers
             PROVE  /\ pc'[r] = Fresh /\ toPeer'[r] = <<>> /\ ~Glared(r)
                    /\ Within(chain'[r], CreatesOffer \cup Sets({OfferOf(r)}))
                    /\ ~remoteDescriptionSet'[r] /\ pendingIceCandidates'[r] = <<>>
                    /\ initiations'[r] > 0 => chain'[r] # <<>>
  BY <1>2 DEF Silent
<1>3. CASE r = p
  BY <1>1, <1>3 DEF Silent, SilentMakes
<1>4. CASE r # p
  BY <1>4 DEF Silent
<1> QED BY <1>3, <1>4

\* The first offer is sent.
LEMMA FirstOffer ==
  ASSUME NegotiationTypes, Attached, Silent, NEW w \in Peers, LocalDescriptionSet(w)
  PROVE  Negotiates(w, Other(w))' /\ Pending(w, Other(w))'
<1> DEFINE l == Other(w)
           h == Head(chain[w])
           t == Tail(chain[w])
           ops == <<>>
<1>0. /\ l \in Peers /\ w # l /\ Roles(w, l)
      /\ remoteDescriptionSet' = remoteDescriptionSet
      /\ pc[w] = Fresh /\ pc[l] = Fresh /\ ~remoteDescriptionSet[w] /\ ~remoteDescriptionSet[l]
      /\ toPeer[w] = <<>> /\ toPeer[l] = <<>> /\ Within(chain[l], SilentMakes(l)) /\ ~Glared(l)
  BY OtherIsPeer DEF Roles, LocalDescriptionSet, Silent, SilentMakes
<1>1. Resolves(w, "setLocal", ops) /\ SendMessage(w, h.arg) /\ ops \in Seq(CallsMade)
  BY DEF LocalDescriptionSet
<1> HIDE DEF ops
<1>2. /\ chain[w] # <<>> /\ h.call = "setLocal" /\ pc'[w] = Applied(pc[w], h)
      /\ pc'[l] = pc[l] /\ chain'[l] = chain[l]
      /\ \A S : Within(chain'[w], S) <=> Within(t, S) /\ Within(ops, S)
  BY <1>0, <1>1, Resolving
<1>3. h.arg = OfferOf(w) /\ Within(t, SilentMakes(w))
  BY <1>2, SilentHead
<1>4. /\ OfferOf(w).type = "offer" /\ OfferOf(w) # Null /\ OfferOf(w) \in Descriptions
      /\ OfferOf(l) \in Offers(l)
  BY <1>0, MessageKinds DEF OfferOf
<1> HIDE DEF h, t, l
<1>5. Within(ops, SilentMakes(w))
  BY Empty DEF ops
<1>6. Within(chain'[w], SilentMakes(w))
  BY <1>2, <1>3, <1>5
<1>7. pc'[w] = [Fresh EXCEPT !.signalingState = "have-local-offer", !.local = OfferOf(w)]
  BY <1>0, <1>2, <1>3, <1>4 DEF Applied
<1>8. /\ toPeer'[w] = <<>>
      /\ \A S : /\ Within(toPeer'[l], S) <=> Within(<<>>, S) /\ OfferOf(w) \in S
                /\ Has(toPeer'[l], S) <=> Has(<<>>, S) \/ OfferOf(w) \in S
  <2>1. h.arg \in Descriptions \cup Candidates
    BY <1>3, <1>4
  <2> QED BY <1>0, <1>1, <1>3, <2>1, MessageAdded DEF l
<1>9. AskerState(w, l)'
  BY <1>0, <1>7 DEF AskerState, State, Fresh, Unsettled, OfferOf
<1>10. AskerCalls(w, l)'
  <2>1. SilentMakes(w)
          \subseteq CreatesOffer \cup Sets({OfferOf(w)}) \cup Takes(Given(l)') \cup Adds
    BY DEF SilentMakes
  <2>2. Within(chain'[w], CreatesOffer \cup Sets({OfferOf(w)}) \cup Takes(Given(l)') \cup Adds)
    BY <1>6, <2>1, Kept
  <2> QED BY <2>2 DEF AskerCalls, OfferOf
<1>11. /\ State(l)' = "stable" /\ ~Settled(l)'
       /\ pc'[l].settled = Unsettled /\ pc'[l].local = Null /\ pc'[l].remote = Null
  BY <1>0, <1>2 DEF State, Settled, Fresh, Unsettled
<1>12. TakerState(w, l)'
  BY <1>11 DEF TakerState, Unsettled
<1>13. /\ SilentMakes(l) \subseteq TakerMakes(w, l)
       /\ SilentMakes(l) \cap Responds(w, l) = {} /\ SilentMakes(l) \cap CreatesAnswer = {}
       /\ SilentMakes(l) \cap Sets(Answers(l)) = {} /\ SilentMakes(l) \cap Takes({OfferOf(w)}) = {}
  <2>1. Sets({OfferOf(l)}) \subseteq Sets(Offers(l))
    BY <1>4 DEF Sets
  <2>2. SilentMakes(l) \subseteq CreatesOffer \cup Sets(Offers(l))
    BY <2>1 DEF SilentMakes
  <2>3. \A c \in CreatesOffer \cup Sets(Offers(l)) :
          c.call = "createOffer" \/ (c.call = "setLocal" /\ c.arg.type = "offer")
    <3>1. \A c \in CreatesOffer : c.call = "createOffer"
      BY CallKinds
    <3>2. \A c \in Sets(Offers(l)) : c.call = "setLocal" /\ c.arg.type = "offer"
      BY <1>0, RespondKinds
    <3> QED BY <3>1, <3>2
  <2>4. /\ \A c \in Responds(w, l) : c \notin CreatesOffer \cup Sets(Offers(l))
        /\ \A c \in Sets(Answers(l)) : c \notin CreatesOffer \cup Sets(Offers(l))
    BY <1>0, <2>3, RespondKinds
  <2>5. /\ \A c \in CreatesAnswer : c \notin CreatesOffer \cup Sets(Offers(l))
        /\ \A c \in Takes({OfferOf(w)}) : c \notin CreatesOffer \cup Sets(Offers(l))
    BY <2>3, CallKinds
  <2> QED BY <2>2, <2>4, <2>5 DEF TakerMakes
<1>14. TakerCalls(w, l)' /\ ResponsesFresh(w, l)'
  <2>1. /\ Within(chain[l], TakerMakes(w, l)) /\ ~Has(chain[l], Responds(w, l))
        /\ ~Has(chain[l], Sets(Answers(l)))
        /\ \A T : /\ ~Before(chain[l], CreatesAnswer, T) /\ ~Before(chain[l], Sets(Answers(l)), T)
                  /\ ~Before(chain[l], Takes({OfferOf(w)}), T)
    BY <1>0, <1>13, Kept, Apart
  <2>2. TakerMakes(w, l)' = TakerMakes(w, l) /\ Responds(w, l)' = Responds(w, l)
    BY DEF TakerMakes, Responds
  <2>3. TakerCalls(w, l)'
    BY <1>2, <1>11, <2>1, <2>2 DEF TakerCalls
  <2>4. ResponsesFresh(w, l)'
    BY <1>2, <1>11, <2>1, <2>2 DEF ResponsesFresh
  <2> QED BY <2>3, <2>4
<1>15. ToTaker(w, l)'
  <2>1. Within(toPeer'[l], {OfferOf(w)} \cup Candidates)
    BY <1>8, Empty
  <2> QED BY <2>1 DEF ToTaker, OfferOf
<1>16. ToAsker(w, l)'
  <2>1. \A S, T : ~Has(toPeer'[w], S) /\ Within(toPeer'[w], S) /\ ~Before(toPeer'[w], S, T)
    BY <1>8, Empty
  <2> QED BY <2>1 DEF ToAsker
<1>17. Pending(w, l)'
  <2>1. Waits(w, l)'
    BY <1>8 DEF Waits, OfferOf
  <2>2. ~Glared(l)'
    BY <1>0 DEF LocalDescriptionSet, Glared
  <2> QED BY <1>11, <2>1, <2>2 DEF Pending
<1> QED BY <1>9, <1>10, <1>12, <1>14, <1>15, <1>16, <1>17 DEF Negotiates, l

\* An offer that is made is not sent yet.
LEMMA SilentCreates ==
  ASSUME NegotiationTypes, Silent, NEW p \in Peers, OfferCreated(p)
  PROVE  Silent'
<1> DEFINE op == Call("setLocal", OfferMessage(p, pc[p].generation))
           ops == <<op>>
<1>1. op \in SilentMakes(p) /\ op \in CallsMade
  <2>1. OfferMessage(p, pc[p].generation) = OfferOf(p)
    <3>1. pc[p] = Fresh
      BY DEF Silent
    <3>2. pc[p].generation = 0
      BY <3>1 DEF Fresh
    <3> QED BY <3>2 DEF OfferOf
  <2>2. OfferOf(p) \in Descriptions
    BY MessageKinds DEF OfferOf
  <2> QED BY <2>1, <2>2, CallKinds, CallRecords DEF SilentMakes
<1>0. Within(Tail(chain[p]), SilentMakes(p))
  BY SilentHead DEF OfferCreated, Resolves
<1>2. Resolves(p, "createOffer", ops)
  BY DEF OfferCreated
<1> HIDE DEF op
<1>3. /\ ops \in Seq(CallsMade)
      /\ \A S : (Has(ops, S) <=> op \in S) /\ (Within(ops, S) <=> op \in S)
  BY <1>1, Single
<1> HIDE DEF ops
<1>4. /\ Head(chain[p]).call = "createOffer" /\ pc'[p] = Applied(pc[p], Head(chain[p]))
      /\ \A r \in Peers \ {p} : pc'[r] = pc[r] /\ chain'[r] = chain[r]
      /\ \A S : /\ Has(chain'[p], S) <=> Has(Tail(chain[p]), S) \/ Has(ops, S)
                /\ Within(chain'[p], S) <=> Within(Tail(chain[p]), S) /\ Within(ops, S)
  BY <1>2, <1>3, Resolving
<1>5. pc'[p] = pc[p]
  BY <1>4 DEF Applied
<1>6. Within(chain'[p], SilentMakes(p)) /\ Has(chain'[p], SilentMakes(p))
  BY <1>0, <1>1, <1>3, <1>4
<1>7. UNCHANGED <<toPeer, remoteDescriptionSet, pendingIceCandidates, initiations>>
  BY DEF OfferCreated, countVars
<1>8. SameGlare
  BY SettlesEffect DEF Settles
<1> QED BY <1>4, <1>5, <1>6, <1>7, <1>8, SilentCalls

\* Nothing has been sent, and nothing is gathered.
LEMMA SilentStill ==
  ASSUME Silent, NEW p \in Peers
  PROVE  ~Delivery(p) /\ ~OnIceCandidate(p)
<1>1. ~Delivery(p)
  BY DEF Silent, Delivery, HandleOffer, HandleAnswer, HandleIceCandidate, Unheard, Receives
<1>2. pc[p] = Fresh /\ Fresh.local = Null
  BY DEF Silent, Fresh
<1> QED BY <1>1, <1>2 DEF OnIceCandidate

LEMMA SilentSettles ==
  ASSUME NegotiationTypes, Attached, Silent, NEW p \in Peers, Settles(p)
  PROVE  Silent' \/ (Negotiates(p, Other(p))' /\ Pending(p, Other(p))')
<1>1. chain[p] # <<>>
  BY DEF Settles, OfferCreated, AnswerCreated, LocalDescriptionSet, RolledBack,
         RemoteDescriptionSet, CandidateAdded, CallRejected, Resolves
<1>2. /\ Head(chain[p]).call \in {"createOffer", "setLocal"}
      /\ Head(chain[p]).call = "createOffer" => Head(chain[p]) \in CreatesOffer
      /\ Within(Tail(chain[p]), SilentMakes(p)) /\ Legal(pc[p], Head(chain[p]))
  BY <1>1, SilentHead
<1>3. ASSUME OfferCreated(p) PROVE Silent'
  BY <1>3, SilentCreates
<1>4. ~AnswerCreated(p) /\ ~RolledBack(p) /\ ~RemoteDescriptionSet(p) /\ ~CandidateAdded(p)
      /\ ~CallRejected(p)
  BY <1>2 DEF AnswerCreated, RolledBack, RemoteDescriptionSet, CandidateAdded, CallRejected,
              Resolves
<1> QED BY <1>3, <1>4, FirstOffer DEF Settles

LEMMA SilentInitiates ==
  ASSUME NegotiationTypes, Silent, NEW p \in Peers, InitiateConnection(p),
         initiations \in [Peers -> Nat]
  PROVE  Silent'
<1> DEFINE op == Call("createOffer", Null)
<1>1. /\ Calls(p, op) /\ op \in CallsMade /\ op \in SilentMakes(p)
      /\ UNCHANGED <<pc, toPeer, remoteDescriptionSet, pendingIceCandidates>>
      /\ initiations' = [initiations EXCEPT ![p] = @ + 1]
  BY CallRecords, CallKinds DEF InitiateConnection, SilentMakes
<1> HIDE DEF op
<1>2. /\ \A r \in Peers \ {p} : chain'[r] = chain[r]
      /\ \A S : /\ Has(chain'[p], S) <=> Has(chain[p], S) \/ op \in S
                /\ Within(chain'[p], S) <=> Within(chain[p], S) /\ op \in S
  BY <1>1, CallAdded
<1>3. Within(chain'[p], SilentMakes(p)) /\ Has(chain'[p], SilentMakes(p))
  BY <1>1, <1>2 DEF Silent, SilentMakes
<1>4. SameGlare /\ \A r \in Peers \ {p} : initiations'[r] = initiations[r]
  BY <1>1 DEF InitiateConnection, SameGlare, Glared
<1> QED BY <1>1, <1>2, <1>3, <1>4, SilentCalls

-----------------------------------------------------------------------------
(* The whole.                                                              *)

\* The steps that touch the negotiation, and those that do not.
Unrelated ==
  /\ UNCHANGED <<sessionVars, pc, toPeer, chain, remoteDescriptionSet, pendingIceCandidates,
                 initiations, renegotiations, disturbances>>
  /\ SameGlare

LEMMA StepKinds ==
  ASSUME IInv, Undisturbed, Attached, Undisturbed', [Next]_vars
  PROVE  /\ UNCHANGED sessionVars
         /\ \/ Unrelated
            \/ \E p \in Peers :
                 InitiateConnection(p) \/ Delivery(p) \/ Settles(p) \/ OnIceCandidate(p)
<1>1. CASE UNCHANGED vars
  BY <1>1 DEF vars, negotiationVars, countVars, Unrelated, SameGlare, Glared
<1>2. CASE Next
  <2>1. PICK p \in Peers :
          \/ InitiateConnection(p) \/ Close(p)
          \/ Delivery(p) \/ Settles(p) \/ OnIceCandidate(p)
          \/ Connected(p) \/ Disconnected(p) \/ Failed(p)
          \/ ChannelsOpen(p) \/ (\E c \in Channels : OnDataChannel(p, c)) \/ ChannelsClose(p)
          \/ LoseSignaling(p) \/ ReturnToSignaling(p) \/ StrangerSends(p)
    BY <1>2 DEF Next
  <2>2. ~Disturbs
    BY DEF Undisturbed, Disturbs
  <2>3. /\ ~Close(p) /\ ~Disconnected(p) /\ ~LoseSignaling(p) /\ ~ReturnToSignaling(p)
        /\ ~StrangerSends(p)
    BY <2>2 DEF Close, Disconnected, LoseSignaling, ReturnToSignaling, StrangerSends, Attached
  <2>4. CASE InitiateConnection(p) \/ OnIceCandidate(p)
    BY <2>4 DEF InitiateConnection, OnIceCandidate
  <2>5. CASE Delivery(p)
    BY <2>5 DEF Delivery, HandleOffer, HandleAnswer, HandleIceCandidate, Unheard, Receives
  <2>6. CASE Settles(p)
    BY <2>6 DEF Settles, OfferCreated, AnswerCreated, LocalDescriptionSet, RolledBack,
                RemoteDescriptionSet, CandidateAdded, CallRejected
  <2>7. CASE \/ Connected(p) \/ Failed(p)
             \/ ChannelsOpen(p) \/ (\E c \in Channels : OnDataChannel(p, c)) \/ ChannelsClose(p)
    <3>1. Unrelated
      <4>1. CASE Failed(p)
        <5>1. SendErrors(p, {"CONNECTION_FAILED", "ICE_CONNECTION_FAILED"})
          BY <4>1 DEF Failed
        <5>2. SameGlare
          BY <5>1, OtherErrors DEF IInv, NegotiationInv
        <5> QED BY <4>1, <5>2 DEF Failed, Unrelated, countVars
      <4>2. CASE ~Failed(p)
        BY <2>7, <4>2 DEF Connected, ChannelsOpen, OnDataChannel, ChannelsClose, Unrelated,
                          negotiationVars, countVars, SameGlare, Glared
      <4> QED BY <4>1, <4>2
    <3> QED BY <3>1 DEF Unrelated
  <2> QED BY <2>1, <2>3, <2>4, <2>5, <2>6, <2>7
<1> QED BY <1>1, <1>2

LEMMA SilentInit ==
  ASSUME Init
  PROVE  Attached /\ Silent
<1>1. Attached
  BY DEF Init, Attached
<1>2. \A p \in Peers : chain[p] = <<>> /\ initiations[p] = 0
  BY DEF Init
<1>3. \A p \in Peers : Within(chain[p], CreatesOffer \cup Sets({OfferOf(p)}))
  BY <1>2, Empty
<1>4. \A p \in Peers : /\ pc[p] = Fresh /\ toPeer[p] = <<>>
                       /\ ~remoteDescriptionSet[p] /\ pendingIceCandidates[p] = <<>>
  BY DEF Init
<1>5. \A p \in Peers : ~Glared(p)
  BY DEF Init, Glared
<1>6. Silent
  <2> SUFFICES ASSUME NEW p \in Peers
               PROVE  /\ pc[p] = Fresh /\ toPeer[p] = <<>> /\ ~Glared(p)
                      /\ Within(chain[p], CreatesOffer \cup Sets({OfferOf(p)}))
                      /\ ~remoteDescriptionSet[p] /\ pendingIceCandidates[p] = <<>>
                      /\ initiations[p] > 0 => chain[p] # <<>>
    BY DEF Silent
  <2>1. Within(chain[p], CreatesOffer \cup Sets({OfferOf(p)}))
    BY <1>3
  <2>2. /\ pc[p] = Fresh /\ toPeer[p] = <<>>
        /\ ~remoteDescriptionSet[p] /\ pendingIceCandidates[p] = <<>>
        /\ initiations[p] = 0 /\ ~Glared(p)
    BY <1>2, <1>4, <1>5
  <2> QED BY <2>1, <2>2
<1> QED BY <1>1, <1>6

LEMMA AgreementInit == Init => AgreementInv
BY SilentInit DEF AgreementInv

\* Nothing that was counted is forgotten.
CountersGrow ==
  /\ disturbances <= disturbances' /\ renegotiations <= renegotiations'
  /\ \A p \in Peers : initiations[p] <= initiations'[p]

LEMMA NextCounts ==
  ASSUME initiations \in [Peers -> Nat], disturbances \in Nat, renegotiations \in Nat,
         [Next]_vars
  PROVE  CountersGrow
<1> DEFINE Counted == /\ disturbances' = disturbances \/ disturbances' = disturbances + 1
                    /\ \/ renegotiations' = renegotiations
                       \/ renegotiations' = renegotiations + 1
                    /\ \/ initiations' = initiations
                       \/ \E p \in Peers : initiations' = [initiations EXCEPT ![p] = @ + 1]
<1>1. ASSUME UNCHANGED vars PROVE Counted
  BY <1>1 DEF vars, countVars
<1>2. ASSUME Next PROVE Counted
  <2>1. PICK p \in Peers :
          \/ InitiateConnection(p) \/ Close(p)
          \/ Delivery(p) \/ Settles(p) \/ OnIceCandidate(p)
          \/ Connected(p) \/ Disconnected(p) \/ Failed(p)
          \/ ChannelsOpen(p) \/ (\E c \in Channels : OnDataChannel(p, c)) \/ ChannelsClose(p)
          \/ LoseSignaling(p) \/ ReturnToSignaling(p) \/ StrangerSends(p)
    BY <1>2 DEF Next
  <2>2. CASE InitiateConnection(p) \/ OnIceCandidate(p)
    BY <2>2 DEF InitiateConnection, OnIceCandidate, countVars
  <2>3. CASE \/ Close(p) \/ Disconnected(p) \/ LoseSignaling(p) \/ ReturnToSignaling(p)
             \/ StrangerSends(p)
    BY <2>3 DEF Close, Disconnected, LoseSignaling, ReturnToSignaling, StrangerSends, Disturbs,
                countVars
  <2>4. CASE Delivery(p)
    BY <2>4 DEF Delivery, HandleOffer, HandleAnswer, HandleIceCandidate, Unheard, Receives,
                countVars
  <2>5. CASE Settles(p)
    BY <2>5 DEF Settles, OfferCreated, AnswerCreated, LocalDescriptionSet, RolledBack,
                RemoteDescriptionSet, CandidateAdded, CallRejected, countVars
  <2>6. CASE \/ Connected(p) \/ Failed(p)
             \/ ChannelsOpen(p) \/ (\E c \in Channels : OnDataChannel(p, c)) \/ ChannelsClose(p)
    BY <2>6 DEF Connected, Failed, ChannelsOpen, OnDataChannel, ChannelsClose, countVars
  <2> QED BY <2>1, <2>2, <2>3, <2>4, <2>5, <2>6
<1>3. \A p \in Peers : initiations[p] \in Nat
  OBVIOUS
<1>4. Counted
  BY <1>1, <1>2
<1>5. \A p \in Peers : initiations'[p] = initiations[p] \/ initiations'[p] = initiations[p] + 1
  BY <1>4
<1> QED BY <1>3, <1>4, <1>5 DEF CountersGrow

\* In the first negotiation a call comes before any remote description.
LEMMA EarlyCall ==
  ASSUME NEW p \in Peers, InitiateConnection(p), FirstNegotiation, FirstNegotiation'
  PROVE  ~remoteDescriptionSet[p]
BY DEF InitiateConnection, FirstNegotiation

LEMMA AgreementNext == IInv /\ AgreementInv /\ [Next]_vars => AgreementInv'
<1> SUFFICES ASSUME IInv, AgreementInv, [Next]_vars, Undisturbed', FirstNegotiation'
             PROVE  /\ Attached'
                    /\ \/ Silent'
                       \/ \E w, l \in Peers : w # l /\ Negotiates(w, l)' /\ Pending(w, l)'
  BY DEF AgreementInv
<1>1. /\ NegotiationTypes /\ initiations \in [Peers -> Nat] /\ disturbances \in Nat
      /\ renegotiations \in Nat
  BY NegotiationBounds DEF IInv, NegotiationInv, ChannelInv, OtherTypes
<1>2. Undisturbed /\ FirstNegotiation
  BY <1>1, NextCounts DEF CountersGrow, Undisturbed, FirstNegotiation
<1>3. Attached /\ (Silent \/ \E w, l \in Peers : w # l /\ Negotiates(w, l) /\ Pending(w, l))
  BY <1>2 DEF AgreementInv
<1>4. /\ UNCHANGED sessionVars
      /\ \/ Unrelated
         \/ \E p \in Peers :
              InitiateConnection(p) \/ Delivery(p) \/ Settles(p) \/ OnIceCandidate(p)
  BY <1>2, <1>3, StepKinds
<1>5. Attached'
  BY <1>3, <1>4 DEF Attached, sessionVars
<1>6. CASE Silent
  <2>1. CASE Unrelated
    BY <1>5, <1>6, <2>1, SilentKept DEF Unrelated
  <2>2. ASSUME NEW p \in Peers,
               InitiateConnection(p) \/ Delivery(p) \/ Settles(p) \/ OnIceCandidate(p)
        PROVE  Silent' \/ \E w, l \in Peers : w # l /\ Negotiates(w, l)' /\ Pending(w, l)'
    <3>1. ~Delivery(p) /\ ~OnIceCandidate(p)
      BY <1>6, SilentStill
    <3>3. CASE InitiateConnection(p)
      BY <1>1, <1>6, <3>3, SilentInitiates
    <3>4. CASE Settles(p)
      BY <1>1, <1>3, <1>6, <3>4, SilentSettles, OtherIsPeer
    <3> QED BY <2>2, <3>1, <3>3, <3>4
  <2> QED BY <1>4, <1>5, <2>1, <2>2
<1>7. ASSUME NEW w \in Peers, NEW l \in Peers, w # l, Negotiates(w, l), Pending(w, l)
      PROVE  Negotiates(w, l)' /\ Pending(w, l)'
  <2>0. Roles(w, l) /\ Peers = {w, l}
    BY <1>7, RolesKnown DEF Roles
  <2>1. CASE Unrelated
    <3>1. SameSide(w) /\ SameSide(l) /\ toPeer' = toPeer /\ SameGlare
      BY <2>1 DEF Unrelated, SameSide, SameDescriptions
    <3> QED BY <1>1, <1>3, <1>7, <2>0, <3>1, BothKept, PendingBothKept
  <2>2. ASSUME NEW p \in Peers, InitiateConnection(p)
        PROVE  Negotiates(w, l)' /\ Pending(w, l)'
    <3>1. ~remoteDescriptionSet[p]
      BY <1>2, <2>2, EarlyCall
    <3> QED BY <1>1, <1>7, <2>0, <2>2, <3>1, AskerInitiates, TakerInitiates, PendingInitiates
  <2>3. ASSUME NEW p \in Peers, Delivery(p) PROVE Negotiates(w, l)' /\ Pending(w, l)'
    BY <1>1, <1>3, <1>7, <2>0, <2>3, AskerHears, TakerHears, PendingAskerHears,
       PendingTakerHears
  <2>4. ASSUME NEW p \in Peers, Settles(p) PROVE Negotiates(w, l)' /\ Pending(w, l)'
    BY <1>1, <1>3, <1>7, <2>0, <2>4, AskerSettles, TakerSettles, PendingAskerSettles,
       PendingTakerSettles
  <2>5. ASSUME NEW p \in Peers, OnIceCandidate(p) PROVE Negotiates(w, l)' /\ Pending(w, l)'
    <3>1. SameGlare
      BY <2>5 DEF OnIceCandidate, SameGlare, Glared
    <3> QED BY <1>1, <1>3, <1>7, <2>0, <2>5, <3>1, IceCandidateEffect, BothKept, PendingBothKept
  <2> QED BY <1>4, <2>1, <2>2, <2>3, <2>4, <2>5
<1> QED BY <1>3, <1>5, <1>6, <1>7

LEMMA AgreementHolds == Spec => [](IInv /\ AgreementInv)
<1>1. Init => IInv /\ AgreementInv
  BY InitHolds, AgreementInit
<1>2. (IInv /\ AgreementInv) /\ [Next]_vars => (IInv /\ AgreementInv)'
  BY NextKeeps, AgreementNext
<1> QED BY <1>1, <1>2, PTL DEF Spec

\* Two stable peers after the first offer.
LEMMA StablePaired ==
  ASSUME IInv, NEW w \in Peers, NEW l \in Peers, w # l, Negotiates(w, l),
         State(w) = "stable", State(l) = "stable"
  PROVE  Paired(w) /\ Paired(l)
<1>1. Other(w) = l /\ Other(l) = w
  BY RolesKnown DEF Roles
<1>2. pc[w].local = OfferOf(w) /\ pc[w].remote \in Given(l)
  BY DEF Negotiates, AskerState
<1>3. Settled(l) /\ pc[w].remote = AnswerOf(l)
  BY <1>2 DEF Given
<1>4. pc[l].local = AnswerOf(l) /\ pc[l].remote = OfferOf(w)
  BY <1>3 DEF Negotiates, TakerState
<1>5. /\ OfferOf(w) # Null /\ AnswerOf(l) # Null
      /\ OfferOf(w).type = "offer" /\ AnswerOf(l).type = "answer"
  BY MessageKinds, GivenFacts DEF OfferOf, IInv, NegotiationInv
<1> QED BY <1>1, <1>2, <1>3, <1>4, <1>5 DEF Paired

\* However often and on whichever sides initiateConnection is called before a peer has a
\* remote description, and however offers, answers, rollbacks and candidates cross: two
\* stable peers that have a remote description have one offer and one answer between them,
\* compared by type, sender and credentials.
THEOREM PeersAgree == Spec => []Agreement
<1>1. IInv /\ AgreementInv => Agreement
  <2> SUFFICES ASSUME IInv, AgreementInv, Undisturbed, FirstNegotiation,
                      \A p \in Peers : Stable(p) /\ remoteDescriptionSet[p]
               PROVE  \A p \in Peers : Paired(p)
    BY DEF Agreement
  <2>1. ~Silent
    BY TwoPeers DEF Silent
  <2>2. PICK w \in Peers, l \in Peers : w # l /\ Negotiates(w, l)
    BY <2>1 DEF AgreementInv
  <2>3. Peers = {w, l}
    BY <2>2, RolesKnown DEF Roles
  <2>4. State(w) = "stable" /\ State(l) = "stable"
    BY DEF Stable, State
  <2> QED BY <2>2, <2>3, <2>4, StablePaired
<1> QED BY <1>1, AgreementHolds, PTL

\* The only way to come to rest without an agreement, as long as no peer calls
\* initiateConnection on top of a remote description: each peer has refused the offer of the
\* other as glare.  No other order of calls, messages and rollbacks gets stuck.
THEOREM OnlyGlareSticks == Spec => []StuckOnlyByGlare
<1>1. IInv /\ AgreementInv => StuckOnlyByGlare
  <2> SUFFICES ASSUME IInv, AgreementInv, Quiet, Undisturbed, FirstNegotiation,
                      TotalInitiations > 0
               PROVE  \/ \A p \in Peers : Stable(p) /\ Paired(p)
                      \/ \A p \in Peers : Glared(p)
    BY DEF StuckOnlyByGlare, Glared
  <2>1. \A p \in Peers : chain[p] = <<>> /\ toPeer[p] = <<>>
    BY DEF Quiet
  <2>2. ~Silent
    <3> SUFFICES ASSUME Silent PROVE FALSE
      OBVIOUS
    <3>1. initiations \in [Peers -> Nat]
      BY NegotiationBounds DEF IInv, ChannelInv, OtherTypes
    <3>2. \A p \in Peers : initiations[p] = 0
      <4> TAKE p \in Peers
      <4>1. initiations[p] > 0 => chain[p] # <<>>
        BY DEF Silent
      <4>2. initiations[p] \in Nat /\ ~(initiations[p] > 0)
        BY <2>1, <3>1, <4>1
      <4> QED BY <4>2
    <3>3. (CHOOSE p \in Peers : TRUE) \in Peers
      BY TwoPeers
    <3>4. Other(CHOOSE p \in Peers : TRUE) \in Peers
      BY <3>3, OtherIsPeer
    <3>5. TotalInitiations = 0
      BY <3>2, <3>3, <3>4 DEF TotalInitiations
    <3> QED BY <3>5
  <2>3. PICK w \in Peers, l \in Peers : w # l /\ Negotiates(w, l) /\ Pending(w, l)
    BY <2>2 DEF AgreementInv
  <2>4. Peers = {w, l}
    BY <2>3, RolesKnown DEF Roles
  <2>5. \A p \in Peers : \A S : ~Has(chain[p], S) /\ ~Has(toPeer[p], S)
    BY <2>1, Empty
  <2>6. State(l) # "have-remote-offer"
    BY <2>3, <2>5 DEF Negotiates, ResponsesFresh
  <2>7. CASE State(w) = "have-local-offer"
    <3>1. Glared(l)
      BY <2>3, <2>5, <2>6, <2>7 DEF Pending, Waits
    <3>2. Glared(w)
      BY <2>3, <2>5, <3>1 DEF Pending, Refused
    <3> QED BY <2>4, <3>1, <3>2
  <2>8. CASE State(w) # "have-local-offer"
    <3>1. State(w) = "stable" /\ Settled(l)
      BY <2>3, <2>8 DEF Negotiates, AskerState, Given
    <3>2. State(l) = "stable"
      BY <2>3, <2>6, <3>1 DEF Negotiates, TakerState
    <3>3. Paired(w) /\ Paired(l)
      BY <2>3, <3>1, <3>2, StablePaired
    <3> QED BY <2>4, <3>1, <3>2, <3>3 DEF Stable, State
  <2> QED BY <2>7, <2>8
<1> QED BY <1>1, AgreementHolds, PTL
-----------------------------------------------------------------------------
(* Where the candidates are.                                               *)

\* No peer calls initiateConnection twice.
Once == \A p \in Peers : initiations[p] <= 1

\* Before the first offer, each call of initiateConnection has one call of the browser.
SilentOnce ==
  \A p \in Peers : /\ initiations[p] = 0 => ~Has(chain[p], SilentMakes(p))
                   /\ ~Before(chain[p], SilentMakes(p), SilentMakes(p))

\* The one offer of w has been sent.  It is on its way, in a call of l or taken by l, once.
\* l does not roll it back, and keeps it from when it is taken.
OneOffer(w, l) ==
  /\ initiations[w] >= 1
  /\ ~Has(chain[w], SilentMakes(w))
  /\ ~Before(toPeer[l], {OfferOf(w)}, {OfferOf(w)})
  /\ Has(toPeer[l], {OfferOf(w)}) =>
       ~Has(chain[l], Takes({OfferOf(w)})) /\ ~remoteDescriptionSet[l]
  /\ ~Before(chain[l], Takes({OfferOf(w)}), Takes({OfferOf(w)}))
  /\ Has(chain[l], Takes({OfferOf(w)})) => ~remoteDescriptionSet[l]
  /\ ~Has(chain[l], GivesWay({OfferOf(w)}))
  /\ remoteDescriptionSet[l] => State(l) = "have-remote-offer" \/ Settled(l)

\* Candidates wait for the remote description, and are added from then on.
Queued(p) ==
  /\ remoteDescriptionSet[p] => pendingIceCandidates[p] = <<>>
  /\ ~remoteDescriptionSet[p] => ~Has(chain[p], Adds) /\ pc[p].added = {}

\* The candidates of p's current credentials.
Current(p) == {IceCandidateMessage(p, pc[p].generation, n) : n \in 1..pc[p].gathered}
AddsOf(c) == {Call("addCandidate", c), Call("addQueued", c)}

\* A candidate c for q is on its way, waits, is being added or has been added.
At(q, c) ==
  \/ Has(toPeer[q], {c}) \/ Has(pendingIceCandidates[q], {c})
  \/ Has(chain[q], AddsOf(c)) \/ c \in pc[q].added

Located(p, q) == \A c \in Current(p) : At(q, c)

Placed(w, l) ==
  /\ OneOffer(w, l) /\ Queued(w) /\ Queued(l)
  /\ Located(w, l) /\ Located(l, w)

CandidateInv ==
  Undisturbed /\ FirstNegotiation /\ Once =>
    \/ Silent /\ SilentOnce
    \/ \E w, l \in Peers : w # l /\ Negotiates(w, l) /\ Placed(w, l)

LEMMA CandidateFacts ==
  ASSUME NegotiationTypes, NEW p \in Peers
  PROVE  /\ \A c \in Current(p) : c \in Candidates /\ c.from = p /\ c.generation = pc[p].generation
         /\ \A c \in Candidates :
              /\ AddsOf(c) \subseteq Adds
              /\ \A h \in CallsMade : h \in AddsOf(c) =>
                   h.call \in {"addCandidate", "addQueued"} /\ h.arg = c
<1>1. pc[p].generation \in Nat /\ pc[p].gathered \in 0..MaxCandidates
  BY DEF NegotiationTypes, Connection
<1>2. ASSUME NEW n \in 1..pc[p].gathered
      PROVE  /\ IceCandidateMessage(p, pc[p].generation, n) \in Candidates
             /\ IceCandidateMessage(p, pc[p].generation, n).from = p
             /\ IceCandidateMessage(p, pc[p].generation, n).generation = pc[p].generation
  <2>1. n \in 1..MaxCandidates
    BY <1>1, NegotiationBounds
  <2> QED BY <1>1, <2>1 DEF IceCandidateMessage, Candidates, Senders
<1>3. ASSUME NEW c \in Candidates
      PROVE  /\ AddsOf(c) \subseteq Adds
             /\ \A h \in CallsMade : h \in AddsOf(c) =>
                  h.call \in {"addCandidate", "addQueued"} /\ h.arg = c
  <2>1. AddsOf(c) \subseteq Adds
    BY CallKinds DEF AddsOf, Adds
  <2>2. \A h \in AddsOf(c) : h.call \in {"addCandidate", "addQueued"} /\ h.arg = c
    BY DEF AddsOf, Call
  <2> QED BY <2>1, <2>2
<1> QED BY <1>2, <1>3 DEF Current

\* What a call does to the candidates of a connection.
LEMMA AppliedCandidates ==
  ASSUME NEW c \in Connection, NEW op \in CallsMade
  PROVE  LET d == Applied(c, op)
         IN /\ \/ d.gathered = c.gathered /\ d.generation = c.generation
               \/ d.gathered = 0
            /\ op.call \notin {"rollback", "setRemote"} => c.added \subseteq d.added
            /\ op.call \in {"addCandidate", "addQueued"} => op.arg \in d.added
            /\ op.call \notin {"addCandidate", "addQueued"} /\ c.added = {} => d.added = {}
            /\ op.call = "setRemote" =>
                 c.added \subseteq d.added \/ c.signalingState = "have-local-offer"
            /\ op.call = "setRemote" /\ op.arg.type = "answer" => c.added \subseteq d.added
<1> DEFINE d == Applied(c, op)
<1>1. /\ \/ Rollback(c).gathered = c.gathered /\ Rollback(c).generation = c.generation
         \/ Rollback(c).gathered = 0
      /\ Rollback(c).added \in {{}, c.added}
      /\ Rollback(c) \in Connection
  <2> DEFINE regather == c.signalingState = "have-local-offer" /\ c.settled.local = Null
             g == IF regather THEN c.generation + 1 ELSE c.generation
             n == IF regather THEN 0 ELSE c.gathered
             s == IF c.settled.remote = Null THEN {} ELSE c.added
             e == [c EXCEPT !.signalingState = "stable",
                            !.local = c.settled.local, !.remote = c.settled.remote,
                            !.generation = g, !.gathered = n, !.added = s]
  <2>1. Rollback(c) = e
    BY DEF Rollback
  <2>2. (n = c.gathered /\ g = c.generation) \/ n = 0
    OBVIOUS
  <2>3. s \in {{}, c.added}
    OBVIOUS
  <2> HIDE DEF g, n, s
  <2>4. e.gathered = n /\ e.generation = g /\ e.added = s
    BY DEF Connection
  <2> QED BY <2>1, <2>2, <2>3, <2>4, RollbackType
<1>2. \A e \in Connection :
        /\ Settle(e).gathered = e.gathered /\ Settle(e).generation = e.generation
        /\ Settle(e).added = e.added
  BY DEF Settle, Connection
<1>3. CASE op.call = "rollback"
  BY <1>1, <1>3 DEF Applied
<1>4. CASE op.call = "setLocal"
  <2> DEFINE e == [c EXCEPT !.local = op.arg]
             o == [c EXCEPT !.signalingState = "have-local-offer", !.local = op.arg]
  <2>1. op.arg \in Descriptions
    BY <1>4 DEF CallsMade
  <2>2. /\ e \in Connection /\ e.gathered = c.gathered /\ e.generation = c.generation
        /\ e.added = c.added
        /\ o.gathered = c.gathered /\ o.generation = c.generation /\ o.added = c.added
    BY <2>1 DEF Connection, MaybeDescription
  <2>3. d \in {o, Settle(e)}
    BY <1>4 DEF Applied
  <2> HIDE DEF e, o
  <2> QED BY <1>2, <1>4, <2>2, <2>3
<1>5. CASE op.call = "setRemote"
  <2>1. op.arg \in Descriptions
    BY <1>5 DEF CallsMade
  <2>2. CASE op.arg.type = "answer"
    <3> DEFINE e == [c EXCEPT !.remote = op.arg]
    <3>1. /\ e \in Connection /\ e.gathered = c.gathered /\ e.generation = c.generation
          /\ e.added = c.added
      BY <2>1 DEF Connection, MaybeDescription
    <3>2. d = Settle(e)
      BY <1>5, <2>2 DEF Applied
    <3> HIDE DEF e
    <3> QED BY <1>2, <1>5, <3>1, <3>2
  <2>3. CASE op.arg.type # "answer"
    <3> DEFINE b == IF c.signalingState = "have-local-offer" THEN Rollback(c) ELSE c
               e == [b EXCEPT !.signalingState = "have-remote-offer", !.remote = op.arg]
    <3>1. d = e
      BY <1>5, <2>3 DEF Applied
    <3>2. /\ b \in Connection
          /\ (b.gathered = c.gathered /\ b.generation = c.generation) \/ b.gathered = 0
          /\ b.added \in {{}, c.added}
          /\ b.added = c.added \/ c.signalingState = "have-local-offer"
      BY <1>1
    <3> HIDE DEF b
    <3>3. e.gathered = b.gathered /\ e.generation = b.generation /\ e.added = b.added
      BY <3>2 DEF Connection
    <3> HIDE DEF e
    <3> QED BY <1>5, <2>3, <3>1, <3>2, <3>3
  <2> QED BY <2>2, <2>3
<1>6. CASE op.call \in {"addCandidate", "addQueued"}
  <2> DEFINE e == [c EXCEPT !.added = @ \cup {op.arg}]
  <2>1. d = e
    BY <1>6 DEF Applied
  <2>2. e.gathered = c.gathered /\ e.generation = c.generation /\ e.added = c.added \cup {op.arg}
    BY DEF Connection
  <2> HIDE DEF e
  <2> QED BY <1>6, <2>1, <2>2
<1>7. CASE op.call \in {"createOffer", "createAnswer"}
  BY <1>7 DEF Applied
<1>8. op.call \in {"createOffer", "createAnswer", "setLocal", "setRemote", "rollback",
                   "addCandidate", "addQueued"}
  BY DEF CallsMade
<1> QED BY <1>3, <1>4, <1>5, <1>6, <1>7, <1>8

LEMMA CurrentKept ==
  ASSUME NEW p,
         \/ pc'[p].gathered = pc[p].gathered /\ pc'[p].generation = pc[p].generation
         \/ pc'[p].gathered = 0
  PROVE  Current(p)' \subseteq Current(p)
<1>1. CASE pc'[p].gathered = pc[p].gathered /\ pc'[p].generation = pc[p].generation
  BY <1>1 DEF Current
<1>2. CASE pc'[p].gathered = 0
  <2>1. 1..pc'[p].gathered = {}
    BY <1>2
  <2> QED BY <2>1 DEF Current
<1> QED BY <1>1, <1>2

LEMMA LocatedKept ==
  ASSUME NEW p, NEW q, Located(p, q), Current(p)' \subseteq Current(p),
         \A c \in Current(p) : At(q, c) => At(q, c)'
  PROVE  Located(p, q)'
BY DEF Located

\* A peer that neither hears nor settles anything.
LEMMA AtKept ==
  ASSUME NEW q, NEW c, At(q, c), \A S : Has(toPeer[q], S) => Has(toPeer'[q], S),
         \A S : Has(chain[q], S) => Has(chain'[q], S),
         pendingIceCandidates'[q] = pendingIceCandidates[q], pc[q].added \subseteq pc'[q].added
  PROVE  At(q, c)'
<1>1. Has(toPeer[q], {c}) => Has(toPeer'[q], {c})
  OBVIOUS
<1>2. Has(chain[q], AddsOf(c)) => Has(chain'[q], AddsOf(c))
  OBVIOUS
<1>3. AddsOf(c)' = AddsOf(c)
  BY DEF AddsOf, Call
<1> QED BY <1>1, <1>2, <1>3 DEF At

LEMMA QueuedKept ==
  ASSUME NEW p, Queued(p), remoteDescriptionSet'[p] = remoteDescriptionSet[p],
         pendingIceCandidates'[p] = pendingIceCandidates[p],
         Has(chain'[p], Adds) => Has(chain[p], Adds), pc'[p].added = pc[p].added
  PROVE  Queued(p)'
<1>1. Adds' = Adds
  BY DEF Adds, AddsQueued, Call, Candidates
<1> QED BY <1>1 DEF Queued

LEMMA DeliveryCandidates ==
  ASSUME NegotiationTypes, Attached, NEW p \in Peers, Delivery(p)
  PROVE  /\ \A r \in Peers : Current(r)' \subseteq Current(r)
         /\ \A r \in Peers : Queued(r) => Queued(r)'
         /\ \A r \in Peers, c \in Candidates : At(r, c) => At(r, c)'
<1> DEFINE msg == Head(toPeer[p])
<1>0. /\ toPeer[p] # <<>> /\ toPeer' = [toPeer EXCEPT ![p] = Tail(@)]
      /\ UNCHANGED <<pc, remoteDescriptionSet>>
  BY DEF Delivery, HandleOffer, HandleAnswer, HandleIceCandidate, Unheard, Receives
<1>1. /\ \A r \in Peers \ {p} : toPeer'[r] = toPeer[r]
      /\ msg \in Descriptions \cup Candidates
      /\ \A S : Has(toPeer[p], S) => msg \in S \/ Has(toPeer'[p], S)
  BY <1>0, MessageTaken
\* What has to be shown of the calls and the queue.
<1> DEFINE Fine ==
      /\ \A r \in Peers \ {p} :
           chain'[r] = chain[r] /\ pendingIceCandidates'[r] = pendingIceCandidates[r]
      /\ \A S : Has(chain[p], S) => Has(chain'[p], S)
      /\ \A S : Has(pendingIceCandidates[p], S) => Has(pendingIceCandidates'[p], S)
      /\ IF remoteDescriptionSet[p] THEN pendingIceCandidates'[p] = pendingIceCandidates[p]
         ELSE Has(chain'[p], Adds) => Has(chain[p], Adds)
      /\ msg \in Candidates =>
           Has(pendingIceCandidates'[p], {msg}) \/ Has(chain'[p], AddsOf(msg))
<1> HIDE DEF msg
<1>2. ASSUME HandleOffer(p) \/ HandleAnswer(p) PROVE Fine
  <2>1. msg \in Descriptions /\ msg \notin Candidates
    BY <1>1, <1>2, MessageKinds DEF HandleOffer, HandleAnswer, Receives, msg
  <2>2. UNCHANGED pendingIceCandidates
    BY <1>2 DEF HandleOffer, HandleAnswer
  <2>3. CASE UNCHANGED chain
    BY <2>1, <2>2, <2>3
  <2>4. CASE chain' # chain
    <3>1. PICK op : op \in {Call("setRemote", msg), Call("rollback", msg)} /\ Calls(p, op)
      BY <1>2, <2>4 DEF HandleOffer, HandleAnswer, msg
    <3>2. op \in CallsMade
      BY <2>1, <3>1, CallRecords
    <3>3. op \notin Adds
      BY <3>1, CallKinds DEF Call
    <3>4. /\ \A r \in Peers \ {p} : chain'[r] = chain[r]
          /\ \A S : Has(chain'[p], S) <=> Has(chain[p], S) \/ op \in S
      BY <3>1, <3>2, CallAdded
    <3> QED BY <2>1, <2>2, <3>3, <3>4
  <2> QED BY <2>3, <2>4
<1>3. ASSUME HandleIceCandidate(p) PROVE Fine
  <2>1. msg \in Candidates
    BY <1>1, <1>3, MessageKinds DEF HandleIceCandidate, Receives, msg
  <2>2. CASE remoteDescriptionSet[p]
    <3> DEFINE op == Call("addCandidate", msg)
    <3>1. Calls(p, op) /\ UNCHANGED pendingIceCandidates
      BY <1>3, <2>2 DEF HandleIceCandidate, msg
    <3>2. op \in CallsMade /\ op \in AddsOf(msg)
      BY <2>1, CallRecords DEF AddsOf
    <3> HIDE DEF op
    <3>3. /\ \A r \in Peers \ {p} : chain'[r] = chain[r]
          /\ \A S : Has(chain'[p], S) <=> Has(chain[p], S) \/ op \in S
      BY <3>1, <3>2, CallAdded
    <3> QED BY <2>2, <3>1, <3>2, <3>3
  <2>3. CASE ~remoteDescriptionSet[p]
    <3>1. /\ pendingIceCandidates' =
               [pendingIceCandidates EXCEPT ![p] = Append(@, msg)]
          /\ UNCHANGED chain
      BY <1>3, <2>3 DEF HandleIceCandidate, msg
    <3>2. /\ pendingIceCandidates[p] \in Seq(Candidates)
          /\ pendingIceCandidates'[p] = Append(pendingIceCandidates[p], msg)
          /\ \A r \in Peers \ {p} : pendingIceCandidates'[r] = pendingIceCandidates[r]
      BY <3>1 DEF NegotiationTypes
    <3>3. \A S : Has(Append(pendingIceCandidates[p], msg), S)
                   <=> Has(pendingIceCandidates[p], S) \/ msg \in S
      BY <2>1, <3>2, Added
    <3> QED BY <2>3, <3>1, <3>2, <3>3
  <2> QED BY <2>2, <2>3
<1>4. Fine
  <2>1. ~Unheard(p)
    BY DEF Unheard, Attached
  <2> QED BY <1>2, <1>3, <2>1 DEF Delivery
<1> HIDE DEF Fine
<1>5. \A r \in Peers : Current(r)' \subseteq Current(r)
  BY <1>0, CurrentKept
<1>6. ASSUME NEW r \in Peers, Queued(r) PROVE Queued(r)'
  <2>1. CASE r # p \/ remoteDescriptionSet[p]
    <3>1. Adds' = Adds
      BY DEF Adds, AddsQueued, Call, Candidates
    <3> QED BY <1>0, <1>4, <1>6, <2>1, <3>1 DEF Queued, Fine
  <2>2. CASE r = p /\ ~remoteDescriptionSet[p]
    <3>1. Adds' = Adds
      BY DEF Adds, AddsQueued, Call, Candidates
    <3> QED BY <1>0, <1>4, <1>6, <2>2, <3>1 DEF Queued, Fine
  <2> QED BY <2>1, <2>2
<1>7. ASSUME NEW r \in Peers, NEW c \in Candidates, At(r, c) PROVE At(r, c)'
  <2>1. CASE r # p
    BY <1>0, <1>1, <1>4, <1>7, <2>1, AtKept DEF Fine
  <2>2. CASE r = p
    <3>1. AddsOf(c)' = AddsOf(c)
      BY DEF AddsOf, Call
    <3>2. Has(toPeer[p], {c}) =>
            \/ Has(toPeer'[p], {c}) \/ Has(pendingIceCandidates'[p], {c})
            \/ Has(chain'[p], AddsOf(c))
      <4>1. Has(toPeer[p], {c}) => c = msg \/ Has(toPeer'[p], {c})
        BY <1>1
      <4> QED BY <1>4, <4>1 DEF Fine
    <3>3. Has(chain[p], AddsOf(c)) => Has(chain'[p], AddsOf(c))
      BY <1>4 DEF Fine
    <3>4. Has(pendingIceCandidates[p], {c}) => Has(pendingIceCandidates'[p], {c})
      BY <1>4 DEF Fine
    <3> QED BY <1>0, <1>7, <2>2, <3>1, <3>2, <3>3, <3>4 DEF At
  <2> QED BY <2>1, <2>2
<1> QED BY <1>5, <1>6, <1>7

\* The calls left when the oldest one has settled; only what creates a description makes
\* a call with one.
LEMMA ChainSettled ==
  ASSUME NegotiationTypes, NEW p \in Peers, Settles(p), ~RemoteDescriptionSet(p), ~RolledBack(p)
  PROVE  /\ UNCHANGED <<pendingIceCandidates, remoteDescriptionSet>>
         /\ \A S, T :
              \/ /\ Head(chain[p]).call \in {"createOffer", "createAnswer"}
                 /\ ~(T \cap Sets(Descriptions) = {})
              \/ /\ Has(chain'[p], T) => Has(Tail(chain[p]), T)
                 /\ Before(chain'[p], S, T) => Before(Tail(chain[p]), S, T)
<1> DEFINE h == Head(chain[p])
           t == Tail(chain[p])
<1>1. UNCHANGED <<pendingIceCandidates, remoteDescriptionSet>>
  BY DEF Settles, OfferCreated, AnswerCreated, LocalDescriptionSet, CandidateAdded, CallRejected
<1>2. CASE CallRejected(p)
  <2>1. chain'[p] = t
    BY <1>2 DEF CallRejected, NegotiationTypes
  <2> QED BY <1>1, <2>1
<1>3. CASE LocalDescriptionSet(p) \/ CandidateAdded(p)
  <2> DEFINE ops == <<>>
  <2>1. \E name : Resolves(p, name, ops)
    BY <1>3 DEF LocalDescriptionSet, CandidateAdded
  <2>2. ops \in Seq(CallsMade) /\ \A S, T : ~Has(ops, S) /\ ~Before(ops, S, T)
    BY Empty
  <2> HIDE DEF ops
  <2>3. \A S, T : /\ Has(chain'[p], T) <=> Has(t, T) \/ Has(ops, T)
                  /\ Before(chain'[p], S, T) <=>
                       Before(t, S, T) \/ Before(ops, S, T) \/ (Has(t, S) /\ Has(ops, T))
    BY <2>1, <2>2, Resolving
  <2> QED BY <1>1, <2>2, <2>3
<1>4. CASE OfferCreated(p) \/ AnswerCreated(p)
  <2>1. PICK d \in {OfferMessage(p, pc[p].generation), AnswerMessage(p, pc[p].generation)},
             name \in {"createOffer", "createAnswer"} :
          Resolves(p, name, <<Call("setLocal", d)>>)
    BY <1>4 DEF OfferCreated, AnswerCreated
  <2> DEFINE op == Call("setLocal", d)
             ops == <<op>>
  <2>2. d \in Descriptions
    <3>1. pc[p].generation \in Nat
      BY DEF NegotiationTypes, Connection
    <3> QED BY <2>1, <3>1, MessageKinds
  <2>3. op \in Sets(Descriptions) /\ op \in CallsMade
    BY <2>2, CallKinds, CallRecords
  <2>4. Resolves(p, name, ops)
    BY <2>1
  <2> HIDE DEF op
  <2>5. /\ ops \in Seq(CallsMade)
        /\ \A S, T : (Has(ops, S) <=> op \in S) /\ ~Before(ops, S, T)
    BY <2>3, Single
  <2> HIDE DEF ops
  <2>6. /\ h.call = name
        /\ \A S, T : /\ Has(chain'[p], T) <=> Has(t, T) \/ Has(ops, T)
                     /\ Before(chain'[p], S, T) <=>
                          Before(t, S, T) \/ Before(ops, S, T) \/ (Has(t, S) /\ Has(ops, T))
    BY <2>4, <2>5, Resolving
  <2>7. \A T : Has(ops, T) => ~(T \cap Sets(Descriptions) = {})
    BY <2>3, <2>5
  <2> HIDE DEF h, t
  <2>8. h.call \in {"createOffer", "createAnswer"}
    BY <2>6
  <2> QED BY <1>1, <2>5, <2>6, <2>7, <2>8 DEF h, t
<1> QED BY <1>2, <1>3, <1>4 DEF Settles

\* The candidates that were waiting are added.
LEMMA RemoteSettled ==
  ASSUME NegotiationTypes, NEW p \in Peers, RemoteDescriptionSet(p)
  PROVE  /\ chain[p] # <<>> /\ Head(chain[p]) \in CallsMade
         /\ Head(chain[p]).call = "setRemote" /\ Legal(pc[p], Head(chain[p]))
         /\ pc'[p] = Applied(pc[p], Head(chain[p]))
         /\ remoteDescriptionSet'[p] /\ pendingIceCandidates'[p] = <<>>
         /\ \A r \in Peers \ {p} :
              /\ pc'[r] = pc[r] /\ chain'[r] = chain[r]
              /\ remoteDescriptionSet'[r] = remoteDescriptionSet[r]
              /\ pendingIceCandidates'[r] = pendingIceCandidates[r]
         /\ \A S : S \cap (Adds \cup CreatesAnswer) = {} =>
              /\ Has(chain'[p], S) <=> Has(Tail(chain[p]), S)
              /\ Before(chain'[p], S, S) <=> Before(Tail(chain[p]), S, S)
         /\ \A c \in Candidates :
              Has(pendingIceCandidates[p], {c}) => Has(chain'[p], AddsOf(c))
<1> DEFINE h == Head(chain[p])
           t == Tail(chain[p])
           pending == pendingIceCandidates[p]
           flush == FlushPendingIceCandidates(p)
           op == Call("createAnswer", Null)
           more == IF h.arg.type = "offer" THEN <<op>> ELSE <<>>
           ops == flush \o more
<1>1. /\ Resolves(p, "setRemote", ops)
      /\ remoteDescriptionSet' = [remoteDescriptionSet EXCEPT ![p] = TRUE]
      /\ pendingIceCandidates' = [pendingIceCandidates EXCEPT ![p] = <<>>]
  BY DEF RemoteDescriptionSet
<1>2. /\ flush \in Seq(CallsMade) /\ Within(flush, AddsQueued) /\ op \in CallsMade
      /\ op \in CreatesAnswer
  BY FlushCalls, CallRecords, CallKinds
<1>3. \A c \in Candidates : Has(pending, {c}) => Has(flush, AddsOf(c))
  <2> SUFFICES ASSUME NEW c \in Candidates, Has(pending, {c}) PROVE Has(flush, AddsOf(c))
    OBVIOUS
  <2>1. PICK i \in DOMAIN pending : pending[i] = c
    BY DEF Has
  <2>2. i \in DOMAIN flush /\ flush[i] = Call("addQueued", c)
    BY <2>1 DEF FlushPendingIceCandidates
  <2> QED BY <2>2 DEF Has, AddsOf
<1> HIDE DEF flush, op
<1>4. more \in Seq(CallsMade) /\ Within(more, CreatesAnswer)
  <2>1. <<op>> \in Seq(CallsMade) /\ Within(<<op>>, CreatesAnswer)
    BY <1>2, Single
  <2>2. <<>> \in Seq(CallsMade) /\ Within(<<>>, CreatesAnswer)
    BY Empty
  <2> QED BY <2>1, <2>2
<1> HIDE DEF more
<1>5. /\ ops \in Seq(CallsMade)
      /\ \A S, T : /\ Has(ops, S) <=> Has(flush, S) \/ Has(more, S)
                   /\ Within(ops, S) <=> Within(flush, S) /\ Within(more, S)
  BY <1>2, <1>4, Joined, ConcatProperties
<1>6. Within(ops, Adds \cup CreatesAnswer)
  <2>1. AddsQueued \subseteq Adds \cup CreatesAnswer
    BY DEF Adds
  <2>2. Within(flush, Adds \cup CreatesAnswer) /\ Within(more, Adds \cup CreatesAnswer)
    BY <1>2, <1>4, <2>1, Kept
  <2> QED BY <1>5, <2>2
<1> HIDE DEF ops
<1>7. \A S : S \cap (Adds \cup CreatesAnswer) = {} => ~Has(ops, S) /\ ~Before(ops, S, S)
  BY <1>6, Apart
<1>8. /\ chain[p] # <<>> /\ h.call = "setRemote" /\ Legal(pc[p], h)
      /\ pc'[p] = Applied(pc[p], h)
      /\ \A r \in Peers \ {p} : pc'[r] = pc[r] /\ chain'[r] = chain[r]
      /\ \A S, T : /\ Has(chain'[p], S) <=> Has(t, S) \/ Has(ops, S)
                   /\ Before(chain'[p], S, T) <=>
                        Before(t, S, T) \/ Before(ops, S, T) \/ (Has(t, S) /\ Has(ops, T))
  BY <1>1, <1>5, Resolving
<1>9. h \in CallsMade
  BY <1>8, CallTaken
<1>10. /\ remoteDescriptionSet'[p] /\ pendingIceCandidates'[p] = <<>>
       /\ \A r \in Peers \ {p} :
            /\ remoteDescriptionSet'[r] = remoteDescriptionSet[r]
            /\ pendingIceCandidates'[r] = pendingIceCandidates[r]
  BY <1>1 DEF NegotiationTypes
<1> HIDE DEF h, t, pending
<1>11. \A S : S \cap (Adds \cup CreatesAnswer) = {} =>
         /\ Has(chain'[p], S) <=> Has(t, S)
         /\ Before(chain'[p], S, S) <=> Before(t, S, S)
  BY <1>7, <1>8
<1>12. \A c \in Candidates : Has(pending, {c}) => Has(chain'[p], AddsOf(c))
  BY <1>3, <1>5, <1>8
<1> QED BY <1>8, <1>9, <1>10, <1>11, <1>12 DEF h, t, pending

HasCredentials(p, q) ==
  pc[p].remote # Null /\ pc[p].remote.from = q /\ pc[p].remote.generation = pc[q].generation

\* The remote description a peer has, has the credentials of the other.
LEMMA Credentials ==
  ASSUME NEW w, NEW l, Roles(w, l), Negotiates(w, l), OneOffer(w, l)
  PROVE  /\ remoteDescriptionSet[w] => HasCredentials(w, l)
         /\ remoteDescriptionSet[l] => HasCredentials(l, w)
<1>0. /\ w \in Peers /\ l \in Peers /\ AskerState(w, l) /\ TakerState(w, l)
      /\ OfferOf(w) # Null /\ OfferOf(w).from = w /\ OfferOf(w).generation = 0
      /\ AnswerOf(l).from = l /\ AnswerOf(l).generation = pc[l].generation
  <2>1. w \in Peers /\ l \in Peers
    BY RolesKnown
  <2>2. OfferOf(w) # Null
    BY <2>1, MessageKinds DEF OfferOf
  <2> QED BY <2>1, <2>2 DEF Negotiates, OfferOf, OfferMessage, AnswerOf, AnswerMessage
<1>1. ASSUME remoteDescriptionSet[w]
      PROVE  HasCredentials(w, l)
  <2>1. pc[w].remote # Null /\ pc[w].remote \in Given(l)
    BY <1>0, <1>1 DEF AskerState
  <2>2. pc[w].remote = AnswerOf(l)
    BY <2>1 DEF Given
  <2> QED BY <1>0, <2>1, <2>2 DEF HasCredentials
<1>2. ASSUME remoteDescriptionSet[l]
      PROVE  HasCredentials(l, w)
  <2>1. State(l) = "have-remote-offer" \/ Settled(l)
    BY <1>2 DEF OneOffer
  <2>2. pc[l].remote = OfferOf(w)
    BY <1>0, <2>1 DEF TakerState
  <2>3. pc[w].generation = 0
    BY <1>0 DEF AskerState
  <2> QED BY <1>0, <2>2, <2>3 DEF HasCredentials
<1> QED BY <1>1, <1>2

\* No candidate is lost when a call settles: those to be added are not rejected, and no
\* description that came later takes them away.
LEMMA SettlesCandidates ==
  ASSUME NegotiationTypes, Attached, NEW p \in Peers, NEW q \in Peers, Other(p) = q, q # p,
         Settles(p), ~RolledBack(p), Queued(p),
         remoteDescriptionSet[p] => HasCredentials(p, q),
         Head(chain[p]).call = "setRemote" =>
           ~remoteDescriptionSet[p] \/ Head(chain[p]).arg.type = "answer"
  PROVE  /\ Current(p)' \subseteq Current(p) /\ Current(q)' \subseteq Current(q)
         /\ Queued(p)' /\ (Queued(q) => Queued(q)')
         /\ \A c \in Current(q) : At(p, c) => At(p, c)'
         /\ \A c \in Current(p) : At(q, c) => At(q, c)'
<1> DEFINE h == Head(chain[p])
           t == Tail(chain[p])
<1>0. pc[p] \in Connection /\ pc[q] \in Connection
  BY DEF NegotiationTypes
<1>1. /\ chain[p] # <<>> /\ h \in CallsMade
      /\ \A r \in Peers \ {p} : pc'[r] = pc[r] /\ chain'[r] = chain[r]
      /\ \A S : Has(chain[p], S) => h \in S \/ Has(chain'[p], S)
      /\ CallRejected(p) \/ pc'[p] = Applied(pc[p], h)
      /\ LocalDescriptionSet(p) \/ UNCHANGED toPeer
  BY SettlesEffect
<1>2. CallRejected(p) => pc'[p] = pc[p] /\ ~Legal(pc[p], h)
  BY DEF CallRejected
<1>3. toPeer'[p] = toPeer[p] /\ \A S : Has(toPeer[q], S) => Has(toPeer'[q], S)
  <2>1. CASE LocalDescriptionSet(p)
    <3>1. SendMessage(p, h.arg) /\ h.call = "setLocal"
      BY <2>1 DEF LocalDescriptionSet, Resolves
    <3>2. h.arg \in Descriptions \cup Candidates
      BY <1>1, <3>1 DEF CallsMade
    <3> HIDE DEF h
    <3> QED BY <3>1, <3>2, MessageAdded
  <2> QED BY <1>1, <2>1
<1>4. /\ pendingIceCandidates'[q] = pendingIceCandidates[q]
      /\ remoteDescriptionSet'[q] = remoteDescriptionSet[q]
      /\ \/ /\ remoteDescriptionSet'[p] = remoteDescriptionSet[p]
            /\ pendingIceCandidates'[p] = pendingIceCandidates[p]
         \/ /\ remoteDescriptionSet'[p] /\ pendingIceCandidates'[p] = <<>>
            /\ \A c \in Candidates :
                 Has(pendingIceCandidates[p], {c}) => Has(chain'[p], AddsOf(c))
  <2>1. CASE RemoteDescriptionSet(p)
    BY <2>1, RemoteSettled
  <2>2. CASE ~RemoteDescriptionSet(p)
    BY <2>2, ChainSettled
  <2> QED BY <2>1, <2>2
<1>5. \A S, T : Has(chain[p], S) <=> h \in S \/ Has(t, S)
  BY <1>1, CallTaken
<1>6. remoteDescriptionSet'[p] \/ (~Has(chain'[p], Adds) /\ pc'[p].added = {})
  <2> SUFFICES ASSUME ~remoteDescriptionSet'[p]
               PROVE  ~Has(chain'[p], Adds) /\ pc'[p].added = {}
    OBVIOUS
  <2>1. ~RemoteDescriptionSet(p)
    BY RemoteSettled
  <2>2. ~remoteDescriptionSet[p]
    BY <2>1, ChainSettled
  <2>3. ~Has(chain[p], Adds) /\ pc[p].added = {}
    BY <2>2 DEF Queued
  <2>4. h \notin Adds /\ ~Has(t, Adds)
    BY <1>5, <2>3
  <2>5. Adds \cap Sets(Descriptions) = {}
    BY CallKinds
  <2>6. ~Has(chain'[p], Adds)
    BY <2>1, <2>4, <2>5, ChainSettled
  <2>7. h.call \notin {"addCandidate", "addQueued"}
    BY <1>1, <2>4 DEF CallsMade, Adds, AddsQueued, Call
  <2>8. Applied(pc[p], h).added = {}
    BY <1>0, <1>1, <2>3, <2>7, AppliedCandidates
  <2> QED BY <1>1, <1>2, <2>3, <2>6, <2>8
<1>7. Queued(p)'
  <2>1. Adds' = Adds
    BY DEF Adds, AddsQueued, Call, Candidates
  <2> QED BY <1>4, <1>6, <2>1 DEF Queued
<1>8. Queued(q) => Queued(q)'
  BY <1>1, <1>4, QueuedKept
<1>9. Current(q)' \subseteq Current(q)
  BY <1>1, CurrentKept
<1>10. Current(p)' \subseteq Current(p)
  <2>1. CASE CallRejected(p)
    BY <1>2, <2>1, CurrentKept
  <2>2. CASE pc'[p] = Applied(pc[p], h)
    <3>1. \/ pc'[p].gathered = pc[p].gathered /\ pc'[p].generation = pc[p].generation
          \/ pc'[p].gathered = 0
      BY <1>0, <1>1, <2>2, AppliedCandidates
    <3> QED BY <3>1, CurrentKept
  <2> QED BY <1>1, <2>1, <2>2
<1>11. ASSUME NEW c \in Current(p), At(q, c) PROVE At(q, c)'
  BY <1>1, <1>3, <1>4, <1>11, AtKept
<1>12. ASSUME NEW c \in Current(q), At(p, c) PROVE At(p, c)'
  <2>1. /\ c \in Candidates /\ c.from = q /\ c.generation = pc[q].generation
        /\ AddsOf(c) \subseteq Adds
        /\ h \in AddsOf(c) => h.call \in {"addCandidate", "addQueued"} /\ h.arg = c
    BY <1>1, CandidateFacts
  <2>2. pc[p].added \subseteq pc'[p].added
    <3>1. CASE CallRejected(p)
      BY <1>2, <3>1
    <3>2. CASE ~CallRejected(p) /\ h.call = "setRemote"
      <4>1. CASE h.arg.type = "answer"
        BY <1>0, <1>1, <3>2, <4>1, AppliedCandidates
      <4>2. CASE ~remoteDescriptionSet[p]
        BY <4>2 DEF Queued
      <4> QED BY <3>2, <4>1, <4>2
    <3>3. CASE ~CallRejected(p) /\ h.call # "setRemote"
      <4>1. h.call # "rollback"
        <5>1. Settles(p) /\ ~RolledBack(p) /\ ~CallRejected(p)
          BY <3>3
        <5> QED BY <3>3, <5>1 DEF Settles, OfferCreated, AnswerCreated, LocalDescriptionSet,
                                  RemoteDescriptionSet, CandidateAdded, Resolves
      <4> QED BY <1>0, <1>1, <3>3, <4>1, AppliedCandidates
    <3> QED BY <3>1, <3>2, <3>3
  <2>3. h \in AddsOf(c) => c \in pc'[p].added
    <3> SUFFICES ASSUME h \in AddsOf(c) PROVE c \in pc'[p].added
      OBVIOUS
    <3>1. h.call \in {"addCandidate", "addQueued"} /\ h.arg = c /\ Has(chain[p], Adds)
      BY <1>5, <2>1
    <3>2. /\ pc[p].remote # Null
          /\ pc[p].remote.from = c.from /\ pc[p].remote.generation = c.generation
      BY <2>1, <3>1 DEF Queued, HasCredentials
    <3>3. Legal(pc[p], h)
      BY <3>1, <3>2 DEF Legal
    <3> QED BY <1>0, <1>1, <1>2, <3>1, <3>3, AppliedCandidates
  <2>4. Has(chain[p], AddsOf(c)) => Has(chain'[p], AddsOf(c)) \/ c \in pc'[p].added
    BY <1>1, <2>3
  <2>5. Has(pendingIceCandidates[p], {c}) =>
          Has(pendingIceCandidates'[p], {c}) \/ Has(chain'[p], AddsOf(c))
    BY <1>4, <2>1
  <2>6. AddsOf(c)' = AddsOf(c)
    BY DEF AddsOf, Call
  <2> QED BY <1>3, <1>12, <2>2, <2>4, <2>5, <2>6 DEF At
<1> QED BY <1>7, <1>8, <1>9, <1>10, <1>11, <1>12

-----------------------------------------------------------------------------
(* The one offer.                                                          *)

LEMMA OfferHears ==
  ASSUME NegotiationTypes, Attached, NEW w, NEW l, Roles(w, l), Negotiates(w, l), OneOffer(w, l),
         NEW p \in Peers, Delivery(p)
  PROVE  OneOffer(w, l)'
<1> DEFINE msg == Head(toPeer[p])
           T == Takes({OfferOf(w)})
           G == GivesWay({OfferOf(w)})
<1>0. /\ w \in Peers /\ l \in Peers /\ w # l /\ Peers = {w, l}
      /\ toPeer[p] # <<>> /\ toPeer' = [toPeer EXCEPT ![p] = Tail(@)]
      /\ UNCHANGED <<pc, remoteDescriptionSet, initiations>>
  BY RolesKnown DEF Delivery, HandleOffer, HandleAnswer, HandleIceCandidate, Unheard, Receives,
                    countVars
<1>1. /\ \A r \in Peers \ {p} : toPeer'[r] = toPeer[r]
      /\ msg \in Descriptions \cup Candidates
      /\ \A S, U :
           /\ Has(toPeer[p], S) <=> msg \in S \/ Has(toPeer'[p], S)
           /\ Within(toPeer[p], S) <=> msg \in S /\ Within(toPeer'[p], S)
           /\ Before(toPeer[p], S, U) <=>
                Before(toPeer'[p], S, U) \/ (msg \in S /\ Has(toPeer'[p], U))
  BY <1>0, MessageTaken
<1>2. /\ \A r \in Peers \ {p} : chain'[r] = chain[r]
      /\ \/ UNCHANGED chain
         \/ \E op \in CallsMade :
              /\ op \in {Call("setRemote", msg), Call("rollback", msg), Call("addCandidate", msg)}
              /\ \A S, U :
                   /\ Has(chain'[p], S) <=> Has(chain[p], S) \/ op \in S
                   /\ Before(chain'[p], S, U) <=>
                        Before(chain[p], S, U) \/ (Has(chain[p], S) /\ op \in U)
  <2>1. CASE UNCHANGED chain
    BY <2>1
  <2>2. CASE chain' # chain
    <3>1. PICK op :
            /\ op \in {Call("setRemote", msg), Call("rollback", msg), Call("addCandidate", msg)}
            /\ Calls(p, op)
            /\ IF op.call = "addCandidate" THEN msg.type = "ice-candidate"
               ELSE msg.type \in {"offer", "answer"}
      BY <2>2 DEF Delivery, HandleOffer, HandleAnswer, HandleIceCandidate, Unheard, Receives, Call
    <3> HIDE DEF msg
    <3>2. /\ msg \in Descriptions => msg.type \in {"offer", "answer"}
          /\ msg \in Candidates => msg.type = "ice-candidate"
      BY <1>0, MessageKinds
    <3>3. CASE op = Call("addCandidate", msg)
      <4>1. msg \in Candidates
        BY <1>1, <3>1, <3>2, <3>3 DEF Call
      <4> QED BY <3>1, <3>3, <4>1, CallRecords, CallAdded
    <3>4. CASE op # Call("addCandidate", msg)
      <4>1. msg \in Descriptions
        BY <1>1, <3>1, <3>2, <3>4 DEF Call
      <4>2. op \in CallsMade
        BY <3>1, <3>4, <4>1, CallRecords
      <4> QED BY <3>1, <4>2, CallAdded
    <3> QED BY <3>3, <3>4
  <2> QED BY <2>1, <2>2
<1>3. State(l)' = State(l) /\ Settled(l)' = Settled(l) /\ OfferOf(w)' = OfferOf(w)
  BY <1>0 DEF State, Settled, OfferOf
<1>4. SilentMakes(w)' = SilentMakes(w) /\ T' = T /\ G' = G
  BY DEF SilentMakes, CreatesOffer, Sets, Takes, GivesWay, Call, OfferOf, OfferMessage
<1>5. CASE p = w
  <2>1. ~Has(chain'[w], SilentMakes(w))
    <3>1. /\ Call("setRemote", msg) \notin SilentMakes(w)
          /\ Call("rollback", msg) \notin SilentMakes(w)
          /\ Call("addCandidate", msg) \notin SilentMakes(w)
      BY CallKinds DEF SilentMakes, Call
    <3> HIDE DEF msg
    <3> QED BY <1>2, <1>5, <3>1 DEF OneOffer
  <2>2. toPeer'[l] = toPeer[l] /\ chain'[l] = chain[l]
    BY <1>0, <1>1, <1>2, <1>5
  <2> QED BY <1>0, <1>3, <1>4, <2>1, <2>2 DEF OneOffer
<1>6. CASE p = l
  <2>1. msg = OfferOf(w) \/ (msg \in Candidates /\ msg # OfferOf(w))
    <3>1. Within(toPeer[l], {OfferOf(w)} \cup Candidates)
      BY DEF Negotiates, ToTaker
    <3> HIDE DEF msg
    <3> QED BY <1>1, <1>6, <3>1
  <2>2. CASE chain'[l] = chain[l]
    <3> HIDE DEF msg, T, G
    <3> QED BY <1>0, <1>1, <1>2, <1>3, <1>4, <1>6, <2>2 DEF OneOffer, T, G
  <2>3. CASE chain'[l] # chain[l] /\ msg \in Candidates /\ msg # OfferOf(w)
    <3>1. /\ Call("setRemote", msg) \notin T \cup G
          /\ Call("rollback", msg) \notin T \cup G
          /\ Call("addCandidate", msg) \notin T \cup G
      BY <2>3, CallKinds DEF Call
    <3> HIDE DEF msg, T, G
    <3>2. /\ Has(chain'[l], T) <=> Has(chain[l], T)
          /\ Has(chain'[l], G) <=> Has(chain[l], G)
          /\ Before(chain'[l], T, T) <=> Before(chain[l], T, T)
      BY <1>2, <1>6, <3>1
    <3> QED BY <1>0, <1>1, <1>2, <1>3, <1>4, <1>6, <3>2 DEF OneOffer, T, G
  <2>4. CASE chain'[l] # chain[l] /\ msg = OfferOf(w)
    <3>1. ~remoteDescriptionSet[l] /\ ~Has(chain[l], T) /\ ~Has(toPeer'[l], {OfferOf(w)})
      <4> HIDE DEF msg
      <4> QED BY <1>1, <1>6, <2>4 DEF OneOffer
    <3>2. State(l) # "have-remote-offer"
      BY <3>1 DEF Negotiates, TakerState
    <3>3. msg.type = "offer" /\ HandleOffer(l) /\ ~Glare(l)
      <4>1. msg.type = "offer"
        BY <2>4 DEF OfferOf, OfferMessage
      <4>2. HandleOffer(l)
        BY <1>6, <2>4, <4>1 DEF Delivery, HandleAnswer, HandleIceCandidate, Unheard, Receives
      <4> QED BY <2>4, <4>1, <4>2 DEF HandleOffer
    <3>4. State(l) = "stable"
      BY <3>2, <3>3 DEF Negotiates, TakerState, Glare, State
    <3> DEFINE op == Call("setRemote", msg)
    <3>5. Calls(l, op)
      BY <1>6, <3>3, <3>4 DEF HandleOffer, State
    <3>6. op \in T /\ op \notin G /\ op \in CallsMade
      <4>1. OfferOf(w) \in Descriptions
        BY <1>0, MessageKinds DEF OfferOf
      <4>2. op = Call("setRemote", OfferOf(w))
        BY <2>4
      <4>3. op \in T /\ op \in CallsMade
        BY <4>1, <4>2, CallKinds, CallRecords
      <4>4. op.call = "setRemote"
        BY DEF Call
      <4> QED BY <4>3, <4>4, CallKinds
    <3> HIDE DEF op, msg, T, G
    <3>7. \A S, U :
            /\ Has(chain'[l], S) <=> Has(chain[l], S) \/ op \in S
            /\ Before(chain'[l], S, U) <=>
                 Before(chain[l], S, U) \/ (Has(chain[l], S) /\ op \in U)
      BY <1>0, <3>5, <3>6, CallAdded
    <3>8. /\ ~Has(chain'[l], G) /\ ~Before(chain'[l], T, T)
          /\ ~Before(toPeer'[l], {OfferOf(w)}, {OfferOf(w)})
      BY <1>1, <1>6, <3>1, <3>6, <3>7 DEF OneOffer, T, G
    <3> QED BY <1>0, <1>2, <1>3, <1>4, <1>6, <3>1, <3>8 DEF OneOffer, T, G
  <2> QED BY <2>1, <2>2, <2>3, <2>4
<1> QED BY <1>0, <1>5, <1>6

\* A connection keeps the remote offer, or has settled, unless it is rolled back.
LEMMA AppliedKeepsOffer ==
  ASSUME NEW c \in Connection, NEW op \in CallsMade, Legal(c, op),
         op.call \notin {"rollback", "setRemote"},
         c.signalingState = "have-remote-offer" \/ c.settled.local # Null
  PROVE  \/ Applied(c, op).signalingState = "have-remote-offer"
         \/ Applied(c, op).settled.local # Null
<1>1. CASE op.call = "setLocal" /\ op.arg.type = "offer"
  <2> DEFINE e == [c EXCEPT !.signalingState = "have-local-offer", !.local = op.arg]
  <2>1. c.signalingState # "have-remote-offer"
    BY <1>1 DEF Legal
  <2>2. Applied(c, op) = e
    BY <1>1 DEF Applied
  <2>3. e.settled = c.settled
    BY DEF Connection
  <2> QED BY <2>1, <2>2, <2>3
<1>2. CASE op.call = "setLocal" /\ op.arg.type # "offer"
  <2> DEFINE e == [c EXCEPT !.local = op.arg]
  <2>1. op.arg # Null
    BY <1>2, NullIsNoMessage DEF CallsMade
  <2>2. Applied(c, op) = Settle(e)
    BY <1>2 DEF Applied
  <2>3. e.local = op.arg
    BY DEF Connection
  <2>4. Settle(e).settled.local = e.local
    BY DEF Settle, Connection
  <2> QED BY <2>1, <2>2, <2>3, <2>4
<1>3. CASE op.call \in {"addCandidate", "addQueued"}
  <2> DEFINE e == [c EXCEPT !.added = @ \cup {op.arg}]
  <2>1. Applied(c, op) = e
    BY <1>3 DEF Applied
  <2>2. e.settled = c.settled /\ e.signalingState = c.signalingState
    BY DEF Connection
  <2> HIDE DEF e
  <2> QED BY <2>1, <2>2
<1>4. CASE op.call \in {"createOffer", "createAnswer"}
  BY <1>4 DEF Applied
<1> QED BY <1>1, <1>2, <1>3, <1>4 DEF CallsMade

\* The calls that may be the oldest ones: neither peer makes or sends the offer of w again,
\* nor takes it twice, nor rolls back.
LEMMA OldestCalls ==
  ASSUME NegotiationTypes, NEW w, NEW l, Roles(w, l), Negotiates(w, l), OneOffer(w, l)
  PROVE  /\ chain[w] # <<>> =>
              /\ Head(chain[w]).call \in {"setRemote", "addCandidate", "addQueued"}
              /\ Head(chain[w]).call = "setRemote" => Head(chain[w]).arg.type = "answer"
         /\ chain[l] # <<>> =>
              /\ Head(chain[l]).call # "rollback"
              /\ Head(chain[l]).call = "setRemote" =>
                   /\ Head(chain[l]) \in Takes({OfferOf(w)})
                   /\ Head(chain[l]).arg = OfferOf(w)
                   /\ ~remoteDescriptionSet[l]
<1>0. w \in Peers /\ l \in Peers
  BY RolesKnown
<1>1. ASSUME chain[w] # <<>>
      PROVE  /\ Head(chain[w]).call \in {"setRemote", "addCandidate", "addQueued"}
             /\ Head(chain[w]).call = "setRemote" => Head(chain[w]).arg.type = "answer"
  <2> DEFINE h == Head(chain[w])
  <2>1. h \in CreatesOffer \cup Sets({OfferOf(w)}) \cup Takes(Given(l)) \cup Adds
    BY <1>0, <1>1, CallTaken DEF Negotiates, AskerCalls
  <2>2. h \notin SilentMakes(w)
    BY <1>0, <1>1, CallTaken DEF OneOffer
  <2> HIDE DEF h
  <2>3. h \in Takes(Given(l)) \cup Adds
    BY <2>1, <2>2 DEF SilentMakes
  <2>4. \A d \in Given(l) : d.type = "answer"
    BY <1>0, GivenFacts
  <2>5. h \in Takes(Given(l)) => h.call = "setRemote" /\ h.arg.type = "answer"
    BY <2>4, CallKinds
  <2>6. h \in Adds => h.call \in {"addCandidate", "addQueued"}
    BY CallKinds
  <2> QED BY <2>3, <2>5, <2>6 DEF h
<1>2. ASSUME chain[l] # <<>>
      PROVE  /\ Head(chain[l]).call # "rollback"
             /\ Head(chain[l]).call = "setRemote" =>
                  /\ Head(chain[l]) \in Takes({OfferOf(w)})
                  /\ Head(chain[l]).arg = OfferOf(w)
                  /\ ~remoteDescriptionSet[l]
  <2> DEFINE h == Head(chain[l])
  <2>1. h \in TakerMakes(w, l)
    BY <1>0, <1>2, CallTaken DEF Negotiates, TakerCalls
  <2>2. h \notin GivesWay({OfferOf(w)})
    BY <1>0, <1>2, CallTaken DEF OneOffer
  <2>3. h \in Takes({OfferOf(w)}) => ~remoteDescriptionSet[l]
    BY <1>0, <1>2, CallTaken DEF OneOffer
  <2> HIDE DEF h
  <2>4. \/ h \in CreatesOffer \/ h \in CreatesAnswer \/ h \in Adds
        \/ h \in Takes({OfferOf(w)}) \/ h \in Sets(Offers(l)) \/ h \in Sets(Answers(l))
    BY <2>1, <2>2 DEF TakerMakes, Responds
  <2>5. /\ h.call # "rollback"
        /\ h.call = "setRemote" => h \in Takes({OfferOf(w)}) /\ h.arg = OfferOf(w)
    BY <2>4, CallKinds
  <2> QED BY <2>3, <2>5 DEF h
<1> QED BY <1>1, <1>2

LEMMA OfferAskerSettles ==
  ASSUME NegotiationTypes, NEW w, NEW l, Roles(w, l), Negotiates(w, l), OneOffer(w, l), Settles(w)
  PROVE  OneOffer(w, l)'
<1> DEFINE h == Head(chain[w])
<1>0. /\ w \in Peers /\ l \in Peers /\ w # l /\ UNCHANGED initiations
      /\ chain[w] # <<>> /\ pc'[l] = pc[l] /\ chain'[l] = chain[l]
      /\ LocalDescriptionSet(w) \/ UNCHANGED toPeer
  <2>1. w \in Peers /\ l \in Peers /\ w # l
    BY RolesKnown
  <2>2. UNCHANGED initiations
    BY DEF Settles, OfferCreated, AnswerCreated, LocalDescriptionSet, RolledBack,
           RemoteDescriptionSet, CandidateAdded, CallRejected, countVars
  <2> QED BY <2>1, <2>2, SettlesEffect
<1>1. h.call \in {"setRemote", "addCandidate", "addQueued"}
  BY <1>0, OldestCalls
<1>2. UNCHANGED toPeer /\ ~RolledBack(w)
  BY <1>0, <1>1 DEF LocalDescriptionSet, RolledBack, Resolves
<1>3. ~Has(Tail(chain[w]), SilentMakes(w))
  BY <1>0, CallTaken DEF OneOffer
<1>4. ~Has(chain'[w], SilentMakes(w)) /\ remoteDescriptionSet'[l] = remoteDescriptionSet[l]
  <2>1. CASE RemoteDescriptionSet(w)
    <3>1. SilentMakes(w) \cap (Adds \cup CreatesAnswer) = {}
      BY CallKinds DEF SilentMakes
    <3> QED BY <1>0, <1>3, <2>1, <3>1, RemoteSettled
  <2>2. CASE ~RemoteDescriptionSet(w)
    BY <1>0, <1>1, <1>2, <1>3, <2>2, ChainSettled
  <2> QED BY <2>1, <2>2
<1>5. /\ State(l)' = State(l) /\ Settled(l)' = Settled(l) /\ OfferOf(w)' = OfferOf(w)
      /\ SilentMakes(w)' = SilentMakes(w)
  BY <1>0 DEF State, Settled, SilentMakes, OfferOf
<1> QED BY <1>0, <1>2, <1>4, <1>5 DEF OneOffer

LEMMA OfferTakerSettles ==
  ASSUME NegotiationTypes, Attached, NEW w, NEW l, Roles(w, l), Negotiates(w, l), OneOffer(w, l),
         Settles(l)
  PROVE  OneOffer(w, l)'
<1> DEFINE h == Head(chain[l])
           t == Tail(chain[l])
           T == Takes({OfferOf(w)})
           G == GivesWay({OfferOf(w)})
<1>0. /\ w \in Peers /\ l \in Peers /\ w # l /\ Other(l) = w /\ UNCHANGED initiations
      /\ chain[l] # <<>> /\ h \in CallsMade /\ chain'[w] = chain[w] /\ pc[l] \in Connection
  <2>1. w \in Peers /\ l \in Peers /\ w # l /\ Other(l) = w
    BY RolesKnown
  <2>2. UNCHANGED initiations
    BY DEF Settles, OfferCreated, AnswerCreated, LocalDescriptionSet, RolledBack,
           RemoteDescriptionSet, CandidateAdded, CallRejected, countVars
  <2> QED BY <2>1, <2>2, SettlesEffect DEF NegotiationTypes
<1>1. CallRejected(l) \/ (pc'[l] = Applied(pc[l], h) /\ Legal(pc[l], h))
  BY SettlesEffect, <1>0 DEF Settles, OfferCreated, AnswerCreated, LocalDescriptionSet, RolledBack,
     RemoteDescriptionSet, CandidateAdded, Resolves
<1>2. /\ h.call # "rollback"
      /\ h.call = "setRemote" => h \in T /\ h.arg = OfferOf(w) /\ ~remoteDescriptionSet[l]
  BY <1>0, OldestCalls
<1>3. toPeer'[l] = toPeer[l]
  <2>1. CASE LocalDescriptionSet(l)
    BY <1>0, <2>1 DEF LocalDescriptionSet, SendMessage, NegotiationTypes
  <2>2. CASE UNCHANGED toPeer
    BY <2>2
  <2> QED BY <1>0, <2>1, <2>2, SettlesEffect
<1>4. \A S : /\ Has(chain[l], S) <=> h \in S \/ Has(t, S)
             /\ Before(chain[l], S, S) <=> Before(t, S, S) \/ (h \in S /\ Has(t, S))
  BY <1>0, CallTaken
<1>5. /\ T \cap (Adds \cup CreatesAnswer) = {} /\ G \cap (Adds \cup CreatesAnswer) = {}
      /\ T \cap Sets(Descriptions) = {} /\ G \cap Sets(Descriptions) = {}
  BY CallKinds
<1>6. OfferOf(w)' = OfferOf(w) /\ SilentMakes(w)' = SilentMakes(w)
  BY DEF SilentMakes, OfferOf
<1>7. ~RolledBack(l)
  BY <1>2 DEF RolledBack, Resolves
<1> HIDE DEF T, G, t
<1>8. CASE RemoteDescriptionSet(l)
  <2>1. /\ Has(chain'[l], T) <=> Has(t, T)
        /\ Has(chain'[l], G) <=> Has(t, G)
        /\ Before(chain'[l], T, T) <=> Before(t, T, T)
        /\ h.call = "setRemote" /\ pc'[l] = Applied(pc[l], h)
    BY <1>0, <1>5, <1>8, RemoteSettled DEF t
  <2>2. /\ ~Has(t, T) /\ ~Has(t, G) /\ ~Before(t, T, T) /\ ~Has(toPeer[l], {OfferOf(w)})
    BY <1>2, <1>4, <2>1 DEF OneOffer, T, G
  <2>3. State(l)' = "have-remote-offer"
    <3> DEFINE b == IF pc[l].signalingState = "have-local-offer" THEN Rollback(pc[l]) ELSE pc[l]
               e == [b EXCEPT !.signalingState = "have-remote-offer", !.remote = h.arg]
    <3>1. h.arg.type = "offer"
      BY <1>2, <2>1 DEF OfferOf, OfferMessage
    <3>2. Applied(pc[l], h) = e
      BY <2>1, <3>1 DEF Applied
    <3>3. b \in Connection
      BY <1>0, RollbackType
    <3> HIDE DEF b
    <3>4. e.signalingState = "have-remote-offer"
      BY <3>3 DEF Connection
    <3> QED BY <2>1, <3>2, <3>4 DEF State
  <2> QED BY <1>0, <1>3, <1>6, <2>1, <2>2, <2>3 DEF OneOffer, T, G
<1>9. CASE ~RemoteDescriptionSet(l)
  <2>1. /\ Has(chain'[l], T) => Has(t, T)
        /\ Has(chain'[l], G) => Has(t, G)
        /\ Before(chain'[l], T, T) => Before(t, T, T)
        /\ remoteDescriptionSet'[l] = remoteDescriptionSet[l]
    BY <1>0, <1>5, <1>7, <1>9, ChainSettled DEF t
  <2>2. /\ Has(chain'[l], T) => Has(chain[l], T)
        /\ Has(chain'[l], G) => Has(chain[l], G)
        /\ Before(chain'[l], T, T) => Before(chain[l], T, T)
    BY <1>4, <2>1
  <2>3. State(l) = "have-remote-offer" \/ Settled(l)
          => (State(l) = "have-remote-offer" \/ Settled(l))'
    <3>1. CASE CallRejected(l)
      BY <3>1 DEF CallRejected, State, Settled
    <3>2. CASE ~CallRejected(l)
      <4>1. h.call # "setRemote"
        BY <1>2, <1>7, <1>9, <3>2 DEF Settles, OfferCreated, AnswerCreated, LocalDescriptionSet,
                                    CandidateAdded, Resolves
      <4> HIDE DEF h
      <4> QED BY <1>0, <1>1, <1>2, <3>2, <4>1, AppliedKeepsOffer DEF State, Settled
    <3> QED BY <3>1, <3>2
  <2> QED BY <1>0, <1>3, <1>6, <2>1, <2>2, <2>3 DEF OneOffer, T, G
<1> QED BY <1>8, <1>9

-----------------------------------------------------------------------------
(* The steps of both peers.                                                *)

LEMMA PlacedSettles ==
  ASSUME NegotiationTypes, Attached, NEW w, NEW l, Roles(w, l), Negotiates(w, l), Placed(w, l),
         NEW p \in Peers, Settles(p)
  PROVE  Placed(w, l)'
<1>0. /\ w \in Peers /\ l \in Peers /\ w # l /\ Other(w) = l /\ Other(l) = w /\ Peers = {w, l}
      /\ OneOffer(w, l) /\ Queued(w) /\ Queued(l) /\ Located(w, l) /\ Located(l, w)
  BY RolesKnown DEF Placed
<1>1. /\ remoteDescriptionSet[w] => HasCredentials(w, l)
      /\ remoteDescriptionSet[l] => HasCredentials(l, w)
  BY <1>0, Credentials
<1>2. chain[p] # <<>>
  BY SettlesEffect
<1>3. Head(chain[p]).call # "rollback" /\ ~RolledBack(p)
  <2>1. Head(chain[p]).call # "rollback"
    BY <1>0, <1>2, OldestCalls
  <2> QED BY <2>1 DEF RolledBack, Resolves
<1>4. CASE p = w
  <2>1. Head(chain[w]).call = "setRemote" => Head(chain[w]).arg.type = "answer"
    BY <1>0, <1>2, <1>4, OldestCalls
  <2>2. OneOffer(w, l)'
    BY <1>0, <1>4, OfferAskerSettles
  <2>3. /\ Current(w)' \subseteq Current(w) /\ Current(l)' \subseteq Current(l)
        /\ Queued(w)' /\ Queued(l)'
        /\ \A c \in Current(l) : At(w, c) => At(w, c)'
        /\ \A c \in Current(w) : At(l, c) => At(l, c)'
    BY <1>0, <1>1, <1>3, <1>4, <2>1, SettlesCandidates
  <2> QED BY <1>0, <2>2, <2>3, LocatedKept DEF Placed
<1>5. CASE p = l
  <2>1. Head(chain[l]).call = "setRemote" => ~remoteDescriptionSet[l]
    BY <1>0, <1>2, <1>5, OldestCalls
  <2>2. OneOffer(w, l)'
    BY <1>0, <1>5, OfferTakerSettles
  <2>3. /\ Current(w)' \subseteq Current(w) /\ Current(l)' \subseteq Current(l)
        /\ Queued(w)' /\ Queued(l)'
        /\ \A c \in Current(l) : At(w, c) => At(w, c)'
        /\ \A c \in Current(w) : At(l, c) => At(l, c)'
    BY <1>0, <1>1, <1>3, <1>5, <2>1, SettlesCandidates
  <2> QED BY <1>0, <2>2, <2>3, LocatedKept DEF Placed
<1> QED BY <1>0, <1>4, <1>5

LEMMA PlacedHears ==
  ASSUME NegotiationTypes, Attached, NEW w, NEW l, Roles(w, l), Negotiates(w, l), Placed(w, l),
         NEW p \in Peers, Delivery(p)
  PROVE  Placed(w, l)'
<1>0. /\ w \in Peers /\ l \in Peers
      /\ OneOffer(w, l) /\ Queued(w) /\ Queued(l) /\ Located(w, l) /\ Located(l, w)
  BY RolesKnown DEF Placed
<1>1. OneOffer(w, l)'
  BY <1>0, OfferHears
<1>2. /\ Current(w)' \subseteq Current(w) /\ Current(l)' \subseteq Current(l)
      /\ Queued(w)' /\ Queued(l)'
      /\ \A r \in Peers, c \in Candidates : At(r, c) => At(r, c)'
  BY <1>0, DeliveryCandidates
<1>3. Current(w) \subseteq Candidates /\ Current(l) \subseteq Candidates
  BY <1>0, CandidateFacts
<1>4. Located(w, l)' /\ Located(l, w)'
  BY <1>0, <1>2, <1>3, LocatedKept
<1> QED BY <1>1, <1>2, <1>4 DEF Placed

\* A peer that calls initiateConnection again has called it twice.
LEMMA PlacedInitiates ==
  ASSUME NegotiationTypes, initiations \in [Peers -> Nat], Once',
         NEW w, NEW l, Roles(w, l), Placed(w, l), NEW p \in Peers, InitiateConnection(p)
  PROVE  Placed(w, l)'
<1> DEFINE op == Call("createOffer", Null)
<1>0. /\ w \in Peers /\ l \in Peers /\ w # l /\ Peers = {w, l}
      /\ OneOffer(w, l) /\ Queued(w) /\ Queued(l) /\ Located(w, l) /\ Located(l, w)
  BY RolesKnown DEF Placed
<1>1. /\ Calls(p, op) /\ op \in CallsMade
      /\ UNCHANGED <<pc, toPeer, remoteDescriptionSet, pendingIceCandidates>>
      /\ initiations' = [initiations EXCEPT ![p] = @ + 1]
  BY CallRecords DEF InitiateConnection
<1>2. p = l
  <2> SUFFICES ASSUME p = w PROVE FALSE
    BY <1>0
  <2>1. initiations[w] \in Nat /\ initiations[w] >= 1
    BY <1>0 DEF OneOffer
  <2>2. initiations'[w] = initiations[w] + 1
    BY <1>0, <1>1
  <2>3. initiations'[w] <= 1
    BY <1>0 DEF Once
  <2> QED BY <2>1, <2>2, <2>3
<1>3. initiations'[w] = initiations[w]
  BY <1>0, <1>1, <1>2
<1>4. \A D : op \notin Takes(D) /\ op \notin GivesWay(D) /\ op \notin Adds
  BY CallKinds DEF Call
<1> HIDE DEF op
<1>5. /\ chain'[w] = chain[w]
      /\ \A S, T : /\ Has(chain'[l], S) <=> Has(chain[l], S) \/ op \in S
                   /\ Before(chain'[l], S, T) <=>
                        Before(chain[l], S, T) \/ (Has(chain[l], S) /\ op \in T)
  BY <1>0, <1>1, <1>2, CallAdded
<1>6. OneOffer(w, l)'
  <2>1. /\ State(l)' = State(l) /\ Settled(l)' = Settled(l) /\ OfferOf(w)' = OfferOf(w)
        /\ SilentMakes(w)' = SilentMakes(w)
    BY <1>1 DEF State, Settled, SilentMakes, OfferOf
  <2> QED BY <1>0, <1>1, <1>3, <1>4, <1>5, <2>1 DEF OneOffer
<1>7. Queued(w)' /\ Queued(l)'
  BY <1>0, <1>1, <1>4, <1>5, QueuedKept
<1>8. Located(w, l)' /\ Located(l, w)'
  <2>1. Current(w)' \subseteq Current(w) /\ Current(l)' \subseteq Current(l)
    BY <1>1, CurrentKept
  <2>2. \A c : (At(w, c) => At(w, c)') /\ (At(l, c) => At(l, c)')
    BY <1>1, <1>5, AtKept
  <2> QED BY <1>0, <2>1, <2>2, LocatedKept
<1> QED BY <1>6, <1>7, <1>8 DEF Placed

\* A gathered candidate is sent.
LEMMA PlacedGathers ==
  ASSUME NegotiationTypes, Attached, NEW w, NEW l, Roles(w, l), Placed(w, l),
         NEW p \in Peers, OnIceCandidate(p)
  PROVE  Placed(w, l)'
<1> DEFINE more == pc[p].gathered < MaxCandidates
           n == IF more THEN pc[p].gathered + 1 ELSE pc[p].gathered
           e == [pc[p] EXCEPT !.gathered = n]
           q == Other(p)
<1>0. /\ w \in Peers /\ l \in Peers /\ w # l /\ Other(w) = l /\ Other(l) = w /\ Peers = {w, l}
      /\ q \in Peers /\ q # p /\ Peers = {p, q}
      /\ OneOffer(w, l) /\ Queued(w) /\ Queued(l) /\ Located(w, l) /\ Located(l, w)
  BY RolesKnown, OtherIsPeer DEF Placed
<1> PICK c : c = IceCandidateMessage(p, pc[p].generation, pc[p].gathered + 1)
  OBVIOUS
<1>1. /\ pc[p] \in Connection /\ pc[p].generation \in Nat /\ pc[p].gathered \in 0..MaxCandidates
      /\ pc[p].gathered \in Nat
  BY NegotiationBounds DEF NegotiationTypes, Connection
<1>2. more => c \in Candidates /\ c # Null
  BY <1>1, NegotiationBounds, NullIsNoMessage DEF IceCandidateMessage, Candidates, Senders
<1>3. /\ UNCHANGED <<chain, remoteDescriptionSet, pendingIceCandidates, initiations>>
      /\ pc' = [pc EXCEPT ![p] = e]
      /\ more => SendMessage(p, c)
      /\ ~more => UNCHANGED toPeer
  BY <1>1, <1>2 DEF OnIceCandidate, Forwards, countVars, NegotiationTypes, Connection
<1> HIDE DEF n
<1>4. /\ e.signalingState = pc[p].signalingState /\ e.generation = pc[p].generation
      /\ e.settled = pc[p].settled /\ e.added = pc[p].added /\ e.gathered = n
  BY <1>1 DEF Connection
<1> HIDE DEF e
<1>5. /\ pc'[q] = pc[q] /\ pc'[p] = e
      /\ \A r \in Peers : /\ pc'[r].signalingState = pc[r].signalingState
                          /\ pc'[r].settled = pc[r].settled /\ pc'[r].added = pc[r].added
  BY <1>0, <1>3, <1>4 DEF NegotiationTypes
<1>6. /\ toPeer'[p] = toPeer[p]
      /\ \A S : Has(toPeer[q], S) => Has(toPeer'[q], S)
      /\ more => Has(toPeer'[q], {c})
      /\ \A S : S \cap Candidates = {} =>
           /\ Has(toPeer'[q], S) => Has(toPeer[q], S)
           /\ Before(toPeer'[q], S, S) => Before(toPeer[q], S, S)
  <2>1. CASE more
    <3>1. c \in Candidates /\ c \in Descriptions \cup Candidates /\ SendMessage(p, c)
      BY <1>2, <1>3, <2>1
    <3>2. /\ toPeer'[p] = toPeer[p]
          /\ \A S, T :
               /\ Has(toPeer'[q], S) <=> Has(toPeer[q], S) \/ c \in S
               /\ Before(toPeer'[q], S, T) <=>
                    Before(toPeer[q], S, T) \/ (Has(toPeer[q], S) /\ c \in T)
      BY <3>1, MessageAdded
    <3> QED BY <3>1, <3>2
  <2>2. CASE ~more
    BY <1>3, <2>2
  <2> QED BY <2>1, <2>2
<1>7. OneOffer(w, l)'
  <2>1. {OfferOf(w)} \cap Candidates = {}
    BY <1>0, MessageKinds DEF OfferOf, OfferMessage
  <2>2. /\ Has(toPeer'[l], {OfferOf(w)}) => Has(toPeer[l], {OfferOf(w)})
        /\ Before(toPeer'[l], {OfferOf(w)}, {OfferOf(w)})
             => Before(toPeer[l], {OfferOf(w)}, {OfferOf(w)})
    BY <1>0, <1>6, <2>1
  <2>3. /\ State(l)' = State(l) /\ Settled(l)' = Settled(l) /\ OfferOf(w)' = OfferOf(w)
        /\ SilentMakes(w)' = SilentMakes(w)
    BY <1>0, <1>5 DEF State, Settled, SilentMakes, OfferOf
  <2> QED BY <1>0, <1>3, <2>2, <2>3 DEF OneOffer
<1>8. Queued(w)' /\ Queued(l)'
  BY <1>0, <1>3, <1>5, QueuedKept
<1>9. \A r \in Peers : \A d : At(r, d) => At(r, d)'
  BY <1>0, <1>3, <1>5, <1>6, AtKept
<1>10. Located(q, p) => Located(q, p)'
  <2>1. Current(q)' \subseteq Current(q)
    BY <1>5, CurrentKept
  <2> QED BY <1>0, <1>9, <2>1, LocatedKept
<1>11. Located(p, q) => Located(p, q)'
  <2>1. CASE more
    <3>1. Current(p)' \subseteq Current(p) \cup {c}
      <4>1. 1..pc'[p].gathered = 1..pc[p].gathered \cup {pc[p].gathered + 1}
        <5>1. pc'[p].gathered = pc[p].gathered + 1
          BY <1>4, <1>5, <2>1 DEF n
        <5> QED BY <1>1, <5>1
      <4>2. pc'[p].generation = pc[p].generation
        BY <1>4, <1>5
      <4> QED BY <4>1, <4>2 DEF Current
    <3>2. At(q, c)'
      BY <1>6, <2>1 DEF At
    <3> QED BY <1>0, <1>9, <3>1, <3>2 DEF Located
  <2>2. CASE ~more
    <3>1. Current(p)' \subseteq Current(p)
      BY <1>4, <1>5, <2>2, CurrentKept DEF n
    <3> QED BY <1>0, <1>9, <3>1, LocatedKept
  <2> QED BY <2>1, <2>2
<1>12. (p = w /\ q = l) \/ (p = l /\ q = w)
  BY <1>0
<1> QED BY <1>0, <1>7, <1>8, <1>10, <1>11, <1>12 DEF Placed

-----------------------------------------------------------------------------
(* Before the first offer, and the whole.                                  *)

\* The call towards the offer of p is made once.
LEMMA SilentOnceInitiates ==
  ASSUME NegotiationTypes, initiations \in [Peers -> Nat], SilentOnce, Once',
         NEW p \in Peers, InitiateConnection(p)
  PROVE  SilentOnce'
<1> DEFINE op == Call("createOffer", Null)
<1>1. /\ Calls(p, op) /\ op \in CallsMade
      /\ initiations' = [initiations EXCEPT ![p] = @ + 1]
  BY CallRecords DEF InitiateConnection
<1> HIDE DEF op
<1>2. /\ initiations[p] \in Nat /\ initiations'[p] = initiations[p] + 1 /\ initiations'[p] <= 1
      /\ \A r \in Peers \ {p} : initiations'[r] = initiations[r]
  BY <1>1 DEF Once
<1>3. initiations[p] = 0 /\ initiations'[p] # 0
  BY <1>2
<1>4. /\ \A r \in Peers \ {p} : chain'[r] = chain[r]
      /\ \A S : Before(chain'[p], S, S) => Before(chain[p], S, S) \/ Has(chain[p], S)
  BY <1>1, CallAdded
<1>5. \A r \in Peers : SilentMakes(r)' = SilentMakes(r)
  BY DEF SilentMakes, OfferOf
<1> QED BY <1>2, <1>3, <1>4, <1>5 DEF SilentOnce

LEMMA SilentOnceCreates ==
  ASSUME NegotiationTypes, Silent, SilentOnce, NEW p \in Peers, OfferCreated(p)
  PROVE  SilentOnce'
<1> DEFINE op == Call("setLocal", OfferMessage(p, pc[p].generation))
           ops == <<op>>
           S == SilentMakes(p)
           t == Tail(chain[p])
<1>1. Resolves(p, "createOffer", ops) /\ UNCHANGED initiations
  BY DEF OfferCreated, countVars
<1>2. op \in CallsMade
  <2>1. pc[p].generation \in Nat
    BY DEF NegotiationTypes, Connection
  <2>2. OfferMessage(p, pc[p].generation) \in Descriptions
    BY <2>1, MessageKinds
  <2> QED BY <2>2, CallRecords
<1> HIDE DEF op
<1>3. ops \in Seq(CallsMade) /\ \A U : ~Before(ops, U, U)
  BY <1>2, Single
<1> HIDE DEF ops
<1>4. /\ chain[p] # <<>> /\ \A r \in Peers \ {p} : chain'[r] = chain[r]
      /\ Before(chain'[p], S, S) =>
           Before(t, S, S) \/ Before(ops, S, S) \/ (Has(t, S) /\ Has(ops, S))
  BY <1>1, <1>3, Resolving
<1>5. Head(chain[p]) \in S
  BY <1>4, SilentHead DEF SilentMakes
<1> HIDE DEF S
<1>6. /\ Has(chain[p], S) <=> Head(chain[p]) \in S \/ Has(t, S)
      /\ Before(chain[p], S, S) <=> Before(t, S, S) \/ (Head(chain[p]) \in S /\ Has(t, S))
  BY <1>4, CallTaken
<1>7. initiations[p] # 0 /\ ~Before(t, S, S) /\ ~Has(t, S)
  BY <1>5, <1>6 DEF SilentOnce, S
<1>8. ~Before(chain'[p], S, S)
  BY <1>3, <1>4, <1>7
<1>9. \A r \in Peers : SilentMakes(r)' = SilentMakes(r)
  BY DEF SilentMakes, OfferOf
<1> QED BY <1>1, <1>4, <1>7, <1>8, <1>9 DEF SilentOnce, S

LEMMA FirstOfferPlaced ==
  ASSUME NegotiationTypes, initiations \in [Peers -> Nat], Attached, Silent, SilentOnce,
         NEW w \in Peers, LocalDescriptionSet(w)
  PROVE  Placed(w, Other(w))'
<1> DEFINE l == Other(w)
           h == Head(chain[w])
           t == Tail(chain[w])
           ops == <<>>
           O == {OfferOf(w)}
<1>0. /\ l \in Peers /\ w # l
      /\ UNCHANGED <<remoteDescriptionSet, pendingIceCandidates, initiations>>
      /\ pc[w] = Fresh /\ pc[l] = Fresh /\ ~remoteDescriptionSet[w] /\ ~remoteDescriptionSet[l]
      /\ pendingIceCandidates[w] = <<>> /\ pendingIceCandidates[l] = <<>>
      /\ toPeer[l] = <<>> /\ Within(chain[l], SilentMakes(l)) /\ Within(chain[w], SilentMakes(w))
  BY OtherIsPeer DEF LocalDescriptionSet, Silent, SilentMakes, countVars
<1>1. /\ Resolves(w, "setLocal", ops) /\ SendMessage(w, h.arg) /\ ops \in Seq(CallsMade)
      /\ Fresh.gathered = 0 /\ Fresh.added = {}
  BY DEF LocalDescriptionSet, Fresh
<1> HIDE DEF ops
<1>2. /\ chain[w] # <<>> /\ h.call = "setLocal" /\ pc'[w] = Applied(pc[w], h)
      /\ pc'[l] = pc[l] /\ chain'[l] = chain[l]
      /\ \A S : Has(chain'[w], S) <=> Has(t, S) \/ Has(ops, S)
  BY <1>0, <1>1, Resolving
<1>3. /\ h \in CallsMade /\ h \in SilentMakes(w) /\ h.arg = OfferOf(w)
      /\ Within(t, SilentMakes(w))
  BY <1>0, <1>2, SilentHead, CallTaken DEF SilentMakes
<1>4. /\ initiations[w] # 0 /\ ~Has(t, SilentMakes(w))
  BY <1>2, <1>3, CallTaken DEF SilentOnce
<1>5. \A S : Has(chain'[w], S) <=> Has(t, S)
  BY <1>2, Empty DEF ops
<1>6. \A r \in Peers : \A S : S \cap SilentMakes(r) = {} /\ Within(chain[r], SilentMakes(r))
                               => ~Has(chain[r], S) /\ ~Before(chain[r], S, S)
  BY Apart
<1>7. \A r \in Peers : /\ SilentMakes(r) \cap Adds = {} /\ SilentMakes(r) \cap Takes(O) = {}
                       /\ SilentMakes(r) \cap GivesWay(O) = {}
  BY CallKinds DEF SilentMakes
<1>8. /\ ~Before(toPeer'[l], O, O)
  <2>1. h.arg \in Descriptions \cup Candidates
    BY <1>3, MessageKinds DEF OfferOf
  <2> HIDE DEF h, O
  <2>2. Before(toPeer'[l], O, O) <=> Before(toPeer[l], O, O) \/ (Has(toPeer[l], O) /\ h.arg \in O)
    BY <1>1, <2>1, MessageAdded
  <2> QED BY <1>0, <2>2, Empty
<1> HIDE DEF h, t, l
<1>9. pc'[w].gathered = 0 /\ pc'[w].added = {}
  <2>1. pc[w] \in Connection
    BY DEF NegotiationTypes
  <2>2. /\ Applied(pc[w], h).gathered = pc[w].gathered \/ Applied(pc[w], h).gathered = 0
        /\ h.call \notin {"addCandidate", "addQueued"} /\ pc[w].added = {}
             => Applied(pc[w], h).added = {}
    BY <1>3, <2>1, AppliedCandidates
  <2>3. pc[w].gathered = 0 /\ pc[w].added = {}
    BY <1>0, <1>1
  <2> QED BY <1>2, <2>2, <2>3
<1>10. OneOffer(w, l)'
  <2>1. initiations'[w] >= 1
    BY <1>0, <1>4
  <2>2. ~Has(chain'[w], SilentMakes(w))
    BY <1>4, <1>5
  <2>3. /\ ~Has(chain'[l], Takes(O)) /\ ~Has(chain'[l], GivesWay(O))
        /\ ~Before(chain'[l], Takes(O), Takes(O))
    BY <1>0, <1>2, <1>6, <1>7
  <2>4. SilentMakes(w)' = SilentMakes(w) /\ OfferOf(w)' = OfferOf(w)
    BY DEF SilentMakes, OfferOf
  <2> QED BY <1>0, <1>8, <2>1, <2>2, <2>3, <2>4 DEF OneOffer
<1>11. Queued(w)' /\ Queued(l)'
  <2>1. ~Has(t, Adds) /\ ~Has(chain[l], Adds)
    BY <1>0, <1>3, <1>7, Apart
  <2>2. Adds' = Adds
    BY DEF Adds, AddsQueued, Call, Candidates
  <2> QED BY <1>0, <1>1, <1>2, <1>5, <1>9, <2>1, <2>2 DEF Queued
<1>12. Located(w, l)' /\ Located(l, w)'
  <2>1. pc'[l].gathered = 0
    BY <1>0, <1>1, <1>2
  <2>2. 1..pc'[w].gathered = {} /\ 1..pc'[l].gathered = {}
    BY <1>9, <2>1
  <2> QED BY <2>2 DEF Located, Current
<1> QED BY <1>10, <1>11, <1>12 DEF Placed, l

\* A step that leaves the negotiation alone.
LEMMA PlacedKept ==
  ASSUME NEW w, NEW l, Placed(w, l),
         UNCHANGED <<pc, toPeer, chain, remoteDescriptionSet, pendingIceCandidates, initiations>>
  PROVE  Placed(w, l)'
<1>1. /\ SilentMakes(w)' = SilentMakes(w) /\ OfferOf(w)' = OfferOf(w)
      /\ Adds' = Adds /\ \A c : AddsOf(c)' = AddsOf(c)
  BY DEF SilentMakes, OfferOf, Adds, AddsQueued, Call, Candidates, AddsOf
<1>2. OneOffer(w, l)'
  BY <1>1 DEF Placed, OneOffer, State, Settled
<1>3. Queued(w)' /\ Queued(l)'
  BY <1>1 DEF Placed, Queued
<1>4. Current(w)' = Current(w) /\ Current(l)' = Current(l)
  BY DEF Current
<1>5. Located(w, l)' /\ Located(l, w)'
  BY <1>1, <1>4 DEF Placed, Located, At
<1> QED BY <1>2, <1>3, <1>5 DEF Placed

LEMMA CandidateInit == Init => CandidateInv
<1> SUFFICES ASSUME Init PROVE Silent /\ SilentOnce
  BY DEF CandidateInv
<1>1. Attached /\ Undisturbed /\ \A p \in Peers : chain[p] = <<>>
  BY DEF Init, Attached, Undisturbed
<1>2. SilentOnce
  BY <1>1, Empty DEF SilentOnce
<1>3. Silent
  BY SilentInit
<1> QED BY <1>2, <1>3

\* Who has sent the first offer keeps that role.
LEMMA RolesStay ==
  ASSUME NegotiationTypes, Attached, NEW w, NEW l, Roles(w, l), Negotiates(w, l),
         FirstNegotiation, FirstNegotiation',
         \/ Unrelated
         \/ \E p \in Peers :
              InitiateConnection(p) \/ Delivery(p) \/ Settles(p) \/ OnIceCandidate(p)
  PROVE  Negotiates(w, l)'
<1>0. Peers = {w, l}
  BY RolesKnown
<1>1. CASE Unrelated
  <2>1. SameSide(w) /\ SameSide(l) /\ toPeer' = toPeer /\ w \in Peers
    BY <1>0, <1>1 DEF Unrelated, SameSide, SameDescriptions
  <2> QED BY <2>1, BothKept
<1>2. ASSUME NEW p \in Peers, InitiateConnection(p) PROVE Negotiates(w, l)'
  BY <1>0, <1>2, EarlyCall, AskerInitiates, TakerInitiates
<1>3. ASSUME NEW p \in Peers, Delivery(p) PROVE Negotiates(w, l)'
  BY <1>0, <1>3, AskerHears, TakerHears
<1>4. ASSUME NEW p \in Peers, Settles(p) PROVE Negotiates(w, l)'
  BY <1>0, <1>4, AskerSettles, TakerSettles
<1>5. ASSUME NEW p \in Peers, OnIceCandidate(p) PROVE Negotiates(w, l)'
  BY <1>0, <1>5, IceCandidateEffect, BothKept
<1> QED BY <1>1, <1>2, <1>3, <1>4, <1>5

LEMMA CandidateNext ==
  IInv /\ AgreementInv /\ CandidateInv /\ [Next]_vars => CandidateInv'
<1> SUFFICES ASSUME IInv, AgreementInv, CandidateInv, [Next]_vars,
                    Undisturbed', FirstNegotiation', Once'
             PROVE  \/ Silent' /\ SilentOnce'
                    \/ \E w, l \in Peers : w # l /\ Negotiates(w, l)' /\ Placed(w, l)'
  BY DEF CandidateInv
<1>1. /\ NegotiationTypes /\ initiations \in [Peers -> Nat] /\ disturbances \in Nat
      /\ renegotiations \in Nat
  BY NegotiationBounds DEF IInv, NegotiationInv, ChannelInv, OtherTypes
<1>2. Undisturbed /\ FirstNegotiation /\ Once
  <2>1. CountersGrow
    BY <1>1, NextCounts
  <2>2. Undisturbed /\ FirstNegotiation
    BY <1>1, <2>1 DEF CountersGrow, Undisturbed, FirstNegotiation
  <2>3. ASSUME NEW p \in Peers PROVE initiations[p] <= 1
    <3>1. initiations[p] \in Nat /\ initiations'[p] \in Nat
      BY <1>1, NextKeeps, NegotiationBounds DEF IInv, NegotiationInv, ChannelInv, OtherTypes
    <3>2. initiations[p] <= initiations'[p] /\ initiations'[p] <= 1
      BY <2>1 DEF CountersGrow, Once
    <3> QED BY <3>1, <3>2
  <2> QED BY <2>2, <2>3 DEF Once
<1>3. /\ Attached
      /\ \/ Silent /\ SilentOnce
         \/ \E w, l \in Peers : w # l /\ Negotiates(w, l) /\ Placed(w, l)
  BY <1>2 DEF AgreementInv, CandidateInv
<1>4. \/ Unrelated
      \/ \E p \in Peers :
           InitiateConnection(p) \/ Delivery(p) \/ Settles(p) \/ OnIceCandidate(p)
  BY <1>2, <1>3, StepKinds
<1>5. CASE Silent /\ SilentOnce
  <2>1. CASE Unrelated
    <3>1. Silent'
      BY <1>5, <2>1, SilentKept DEF Unrelated
    <3>2. \A r \in Peers : SilentMakes(r)' = SilentMakes(r)
      BY DEF SilentMakes, OfferOf
    <3>3. SilentOnce'
      BY <1>5, <2>1, <3>2 DEF Unrelated, SilentOnce
    <3> QED BY <3>1, <3>3
  <2>2. ASSUME NEW p \in Peers,
               InitiateConnection(p) \/ Delivery(p) \/ Settles(p) \/ OnIceCandidate(p)
        PROVE  \/ Silent' /\ SilentOnce'
               \/ \E w, l \in Peers : w # l /\ Negotiates(w, l)' /\ Placed(w, l)'
    <3>1. ~Delivery(p) /\ ~OnIceCandidate(p)
      BY <1>5, SilentStill
    <3>2. CASE InitiateConnection(p)
      BY <1>1, <1>5, <3>2, SilentInitiates, SilentOnceInitiates
    <3>3. CASE Settles(p)
      <4>1. chain[p] # <<>>
        BY <1>1, <3>3, SettlesEffect
      <4>2. OfferCreated(p) \/ LocalDescriptionSet(p)
        BY <1>1, <1>5, <3>3, <4>1, SilentHead DEF Settles, OfferCreated, AnswerCreated,
           LocalDescriptionSet, RolledBack, RemoteDescriptionSet, CandidateAdded, CallRejected,
           Resolves
      <4>3. CASE OfferCreated(p)
        BY <1>1, <1>3, <1>5, <4>3, SilentCreates, SilentOnceCreates
      <4>4. CASE LocalDescriptionSet(p)
        BY <1>1, <1>3, <1>5, <4>4, FirstOffer, FirstOfferPlaced, OtherIsPeer
      <4> QED BY <4>2, <4>3, <4>4
    <3> QED BY <2>2, <3>1, <3>2, <3>3
  <2> QED BY <1>4, <2>1, <2>2
<1>6. ASSUME NEW w \in Peers, NEW l \in Peers, w # l, Negotiates(w, l), Placed(w, l)
      PROVE  Negotiates(w, l)' /\ Placed(w, l)'
  <2>0. Roles(w, l)
    BY <1>6 DEF Roles
  <2>1. Negotiates(w, l)'
    BY <1>1, <1>2, <1>3, <1>4, <1>6, <2>0, RolesStay
  <2>2. CASE Unrelated
    <3>1. Placed(w, l)'
      BY <1>6, <2>2, PlacedKept DEF Unrelated
    <3> QED BY <2>1, <3>1
  <2>3. ASSUME NEW p \in Peers,
               InitiateConnection(p) \/ Delivery(p) \/ Settles(p) \/ OnIceCandidate(p)
        PROVE  Placed(w, l)'
    BY <1>1, <1>3, <1>6, <2>0, <2>3, PlacedInitiates, PlacedHears, PlacedSettles, PlacedGathers
  <2> QED BY <1>4, <2>1, <2>2, <2>3
<1> QED BY <1>3, <1>5, <1>6

LEMMA CandidatesHold == Spec => [](IInv /\ AgreementInv /\ CandidateInv)
<1>1. Init => IInv /\ AgreementInv /\ CandidateInv
  BY InitHolds, AgreementInit, CandidateInit
<1>2. (IInv /\ AgreementInv /\ CandidateInv) /\ [Next]_vars
        => (IInv /\ AgreementInv /\ CandidateInv)'
  BY NextKeeps, AgreementNext, CandidateNext
<1> QED BY <1>1, <1>2, PTL DEF Spec

\* For any number of candidates on each side, and however they cross with the descriptions
\* and the calls that are under way in the first negotiation: none that was gathered is lost
\* between two peers that agree, be it in the relay, in pendingIceCandidates or in a rejected
\* call.
THEOREM NoCandidateLost == Spec => [](FirstNegotiation => CandidatesArrive)
<1>1. IInv /\ AgreementInv /\ CandidateInv => (FirstNegotiation => CandidatesArrive)
  <2> SUFFICES ASSUME IInv, CandidateInv, FirstNegotiation, Quiet, Undisturbed,
                      \A p \in Peers : Stable(p) /\ Paired(p) /\ initiations[p] <= 1,
                      NEW p \in Peers, NEW n \in 1..pc[p].gathered
               PROVE  IceCandidateMessage(p, pc[p].generation, n) \in pc[Other(p)].added
    BY DEF CandidatesArrive
  <2> DEFINE c == IceCandidateMessage(p, pc[p].generation, n)
             q == Other(p)
  <2>1. q \in Peers /\ q # p /\ c \in Current(p)
    BY OtherIsPeer DEF Current
  <2>2. ~Silent
    <3>1. Fresh.local = Null
      BY DEF Fresh
    <3> QED BY <3>1 DEF Silent, Paired
  <2>3. PICK w \in Peers, l \in Peers : w # l /\ Placed(w, l)
    BY <2>2 DEF CandidateInv, Once
  <2>4. (p = w /\ q = l) \/ (p = l /\ q = w)
    BY <2>1, <2>3, RolesKnown DEF Roles
  <2>5. Located(p, q) /\ Queued(q)
    BY <2>3, <2>4 DEF Placed
  <2>6. remoteDescriptionSet[q]
    <3>1. pc[q].remote # Null
      BY <2>1 DEF Paired
    <3> QED BY <2>1, <3>1 DEF IInv, NegotiationInv, RemoteKnown, Remotes
  <2>7. chain[q] = <<>> /\ toPeer[q] = <<>> /\ pendingIceCandidates[q] = <<>>
    BY <2>1, <2>5, <2>6 DEF Quiet, Queued
  <2>8. At(q, c)
    BY <2>1, <2>5 DEF Located
  <2> HIDE DEF c, q
  <2>9. c \in pc[q].added
    BY <2>7, <2>8, Empty DEF At
  <2> QED BY <2>9 DEF c, q
<1> QED BY <1>1, CandidatesHold, PTL
=============================================================================
