--------------------------- MODULE PeerPlacementProofs ---------------------------
(***************************************************************************)
(* For any layouts, any numbers of peers and attempts and any grain, the   *)
(* cards keep their gaps and distances and stay where they may be.  What   *)
(* makes that inductive is BestFits and BestIsFar: the best candidate so   *)
(* far passes the tests against the cards placed, which do not change      *)
(* before it joins them.                                                   *)
(***************************************************************************)
EXTENDS PeerPlacement, WellFoundedInduction, TLAPS

Centres == [x : Int, y : Int]
Cards == [zone : Zones, x : Int, y : Int]
AnyLayout == [width : Nat, height : Nat,
              anchor : [left : Int, top : Int, right : Int, bottom : Int]]

PlaceTypes ==
  /\ layout \in AnyLayout
  /\ index \in Nat /\ attempt \in Nat /\ sideShift \in 0..3
  /\ best \in Centres
  /\ placements \in Seq(Cards)

\* A card of the zone at p is where it may be, clear of the cards placed.
Fits(p, zone) == InPlace(p, zone) /\ ~TooClose(RectFromCenter(p), zone)

BestFits == best # NoPoint => Fits(best, Zone(index))

\* d2 is at least 65% of the preferred distance, squared.
FarEnough(d2, zone) ==
  d2 * 400 >= (13 * PreferredDistance[zone]) * (13 * PreferredDistance[zone])

\* The same for the distance from the cards placed.
BestIsFar ==
  best # NoPoint =>
    \A i \in DOMAIN placements : FarEnough(SquaredDistance(placements[i], best), Zone(index))

IInv == PlaceTypes /\ BestFits /\ CardsApart /\ CardsInPlace

SpreadInv == IInv /\ BestIsFar /\ CardsSpread

LEMMA RandomBetweenInt ==
  ASSUME NEW min \in Int, NEW max \in Int
  PROVE  RandomBetween(min, max) \subseteq Int
<1>1. \A k \in 0..(Grain - 1) : min + ((max - min) * k) \div Grain \in Int
  <2> SUFFICES ASSUME NEW k \in 0..(Grain - 1)
               PROVE  min + ((max - min) * k) \div Grain \in Int
    OBVIOUS
  <2>1. Grain \in Nat \ {0} BY PlacementAssumption
  <2>2. (max - min) * k \in Int BY <2>1
  <2>3. ((max - min) * k) \div Grain \in Int BY <2>1, <2>2
  <2> QED BY <2>3
<1> QED BY <1>1 DEF RandomBetween

LEMMA AlongInt ==
  ASSUME NEW from \in Int, NEW to \in Int, NEW size \in Int
  PROVE  Along(from, to, size) \subseteq Int
<1>1. size \div 2 \in Int
  OBVIOUS
<1>2. from + size \div 2 \in Int /\ to - size \div 2 \in Int
  BY <1>1
<1> QED BY <1>2, RandomBetweenInt DEF Along

LEMMA PointsAreCentres ==
  ASSUME NEW xs \in SUBSET Int, NEW ys \in SUBSET Int
  PROVE  Points(xs, ys) \subseteq Centres
BY DEF Points, Centres

LEMMA CandidatesAreCentres ==
  ASSUME PlaceTypes, NEW zone \in Zones
  PROVE  Candidates(zone) \subseteq Centres
<1> DEFINE card == layout.anchor
           side == (sideShift + attempt) % 4
           xs == Along(card.left, card.right, FloatingCardWidth)
           ys == Along(card.top, card.bottom, FloatingCardHeight)
           above == card.top + EdgeCardOverlap - FloatingCardHeight \div 2
           right == card.right - EdgeCardOverlap + FloatingCardWidth \div 2
           below == card.bottom - EdgeCardOverlap + FloatingCardHeight \div 2
           left == card.left + EdgeCardOverlap - FloatingCardWidth \div 2
<1>1. layout.width \in Int /\ layout.height \in Int
  BY DEF PlaceTypes, AnyLayout
<1>2. card.left \in Int /\ card.top \in Int /\ card.right \in Int /\ card.bottom \in Int
  BY DEF PlaceTypes, AnyLayout
<1>3. FloatingCardWidth \in Int /\ FloatingCardHeight \in Int
  BY DEF FloatingCardWidth, FloatingCardHeight
<1>4. xs \in SUBSET Int /\ ys \in SUBSET Int
  BY <1>2, <1>3, AlongInt
<1>5. {above} \in SUBSET Int /\ {right} \in SUBSET Int /\ {below} \in SUBSET Int
        /\ {left} \in SUBSET Int
  BY <1>2 DEF EdgeCardOverlap, FloatingCardWidth, FloatingCardHeight
<1>6. side \in 0..3
  BY DEF PlaceTypes
<1>7. EdgeCandidates = CASE side = 0 -> Points(xs, {above})
                         [] side = 1 -> Points({right}, ys)
                         [] side = 2 -> Points(xs, {below})
                         [] side = 3 -> Points({left}, ys)
  BY DEF EdgeCandidates
<1>8. EdgeCandidates \in {Points(xs, {above}), Points({right}, ys), Points(xs, {below}),
                          Points({left}, ys)}
  <2> HIDE DEF xs, ys, above, right, below, left, side
  <2> QED BY <1>6, <1>7
<1>9. EdgeCandidates \subseteq Centres
  <2> HIDE DEF xs, ys, above, right, below, left
  <2>1. /\ Points(xs, {above}) \subseteq Centres /\ Points({right}, ys) \subseteq Centres
        /\ Points(xs, {below}) \subseteq Centres /\ Points({left}, ys) \subseteq Centres
    BY <1>4, <1>5, PointsAreCentres
  <2> QED BY <1>8, <2>1
<1>10. PageCandidates \subseteq Centres
  <2>1. /\ PageCardPadding \in Int
        /\ layout.width - PageCardPadding \in Int /\ layout.height - PageCardPadding \in Int
    BY <1>1 DEF PageCardPadding
  <2>2. /\ Along(PageCardPadding, layout.width - PageCardPadding, FloatingCardWidth) \in SUBSET Int
        /\ Along(PageCardPadding, layout.height - PageCardPadding, FloatingCardHeight)
             \in SUBSET Int
    BY <2>1, <1>3, AlongInt
  <2> QED BY <2>2, PointsAreCentres DEF PageCandidates
<1> QED BY <1>9, <1>10 DEF Candidates

-----------------------------------------------------------------------------
(* Distances.                                                              *)

LEMMA Monotone ==
  ASSUME NEW a \in Int, NEW b \in Int, NEW k \in Nat, a <= b
  PROVE  a * k <= b * k
OBVIOUS

LEMMA Cancel ==
  ASSUME NEW a \in Int, NEW b \in Int, NEW k \in Nat \ {0}, a * k <= b * k
  PROVE  a <= b
OBVIOUS

LEMMA AboveQuotient ==
  ASSUME NEW a \in Int, NEW b \in Nat \ {0}, NEW d \in Int, d > a \div b
  PROVE  a < d * b
<1>1. a = b * (a \div b) + (a % b) /\ a % b < b /\ a \div b \in Int /\ a % b \in Nat
  OBVIOUS
<1>2. ((a \div b) + 1) * b <= d * b
  BY <1>1, Monotone
<1> QED
  BY <1>1, <1>2

\* The last attempt relaxes the threshold by less than 35%.
LEMMA RelaxedThreshold ==
  ASSUME NEW zone \in Zones, NEW tried \in 0..(CandidateCount[zone] - 1), NEW d2 \in Nat,
         ~TooNear(d2, zone, tried)
  PROVE  FarEnough(d2, zone)
<1> DEFINE c == CandidateCount[zone]
           p == PreferredDistance[zone]
           whole == 20 * c
           relaxed == p * (whole - 7 * tried)
<1>1. c \in Nat \ {0} /\ p \in Nat
  BY PlacementAssumption DEF Zones, PreferredDistance
<1>2. tried \in Nat /\ tried < c
  BY <1>1
<1>3. d2 > (relaxed * relaxed - 1) \div (whole * whole)
  <2>1. relaxed \in Int /\ whole \in Int
    BY <1>1, <1>2
  <2>2. ~(d2 <= (relaxed * relaxed - 1) \div (whole * whole))
    BY DEF TooNear
  <2>3. whole * whole \in Nat \ {0}
    BY <1>1
  <2> QED
    BY <2>1, <2>2, <2>3
<1> HIDE DEF c, p
<1>4. whole * whole \in Nat \ {0} /\ relaxed * relaxed - 1 \in Int
  BY <1>1, <1>2
<1>5. relaxed * relaxed - 1 < d2 * (whole * whole)
  <2> HIDE DEF whole, relaxed
  <2> QED
    BY <1>3, <1>4, AboveQuotient
<1>6. (13 * p) * c <= relaxed
  <2>1. 13 * c <= whole - 7 * tried
    BY <1>1, <1>2
  <2>2. (13 * c) * p <= (whole - 7 * tried) * p
    BY <1>1, <1>2, <2>1, Monotone
  <2> QED
    BY <1>1, <1>2, <2>2
<1>7. ((13 * p) * c) * ((13 * p) * c) <= relaxed * relaxed
  <2>1. (13 * p) * c \in Nat /\ relaxed \in Nat
    BY <1>1, <1>2, <1>6
  <2> HIDE DEF relaxed
  <2>2. ((13 * p) * c) * ((13 * p) * c) <= relaxed * ((13 * p) * c)
    BY <1>6, <2>1, Monotone
  <2>3. ((13 * p) * c) * relaxed <= relaxed * relaxed
    BY <1>6, <2>1, Monotone
  <2>4. relaxed * ((13 * p) * c) = ((13 * p) * c) * relaxed
    BY <2>1
  <2>5. /\ ((13 * p) * c) * ((13 * p) * c) \in Nat /\ relaxed * relaxed \in Nat
        /\ relaxed * ((13 * p) * c) \in Nat
    BY <2>1
  <2> QED
    BY <2>2, <2>3, <2>4, <2>5
<1>8. ((13 * p) * (13 * p)) * (c * c) <= (d2 * 400) * (c * c)
  <2>1. ((13 * p) * c) * ((13 * p) * c) = ((13 * p) * (13 * p)) * (c * c)
    BY <1>1
  <2>2. d2 * (whole * whole) = (d2 * 400) * (c * c)
    BY <1>1
  <2>3. /\ ((13 * p) * (13 * p)) * (c * c) \in Int /\ relaxed * relaxed \in Int
        /\ (d2 * 400) * (c * c) \in Int
    BY <1>1, <1>2
  <2> HIDE DEF whole, relaxed
  <2> QED
    BY <1>5, <1>7, <2>1, <2>2, <2>3
<1>9. c * c \in Nat \ {0} /\ (13 * p) * (13 * p) \in Int /\ d2 * 400 \in Int
  BY <1>1
<1>10. (13 * p) * (13 * p) <= d2 * 400
  BY <1>8, <1>9, Cancel
<1> QED
  BY <1>9, <1>10 DEF FarEnough, p

LEMMA SquaredDistanceNat ==
  ASSUME NEW p, NEW q, p.x \in Int, p.y \in Int, q.x \in Int, q.y \in Int
  PROVE  SquaredDistance(p, q) \in Nat /\ SquaredDistance(p, q) = SquaredDistance(q, p)
<1>1. \A a \in Int : a * a \in Nat
  OBVIOUS
<1>2. \A a, b \in Int : (a - b) * (a - b) = (b - a) * (b - a) /\ (a - b) * (a - b) \in Nat
  BY <1>1
<1> QED
  BY <1>2 DEF SquaredDistance

LEMMA Least ==
  ASSUME NEW T \in SUBSET Nat, T # {}
  PROVE  \E d \in T : \A e \in T : d <= e
<1>1. PICK d \in T : \A e \in T : <<e, d>> \notin OpToRel(<, Nat)
  BY NatLessThanWellFounded, WFMin
<1>2. \A e \in Nat : <<e, d>> \in OpToRel(<, Nat) <=> e < d
  BY DEF OpToRel
<1>3. \A e \in T : ~(e < d)
  BY <1>1, <1>2, Zenon
<1> QED
  BY <1>3

\* The closest distance is a distance, and no card is closer.
LEMMA ClosestDistance ==
  ASSUME placements \in Seq(Cards), NEW p \in Centres, NEW i \in DOMAIN placements
  PROVE  /\ ClosestDistanceSquared(p) \in Nat
         /\ ClosestDistanceSquared(p) <= SquaredDistance(p, placements[i])
<1> DEFINE Far == {SquaredDistance(p, placements[j]) : j \in DOMAIN placements}
<1>1. \A j \in DOMAIN placements : SquaredDistance(p, placements[j]) \in Nat
  <2> SUFFICES ASSUME NEW j \in DOMAIN placements
               PROVE  SquaredDistance(p, placements[j]) \in Nat
    OBVIOUS
  <2>1. placements[j] \in Cards
    OBVIOUS
  <2>2. p.x \in Int /\ p.y \in Int /\ placements[j].x \in Int /\ placements[j].y \in Int
    BY <2>1 DEF Cards, Centres
  <2> QED
    BY <2>2, SquaredDistanceNat
<1>2. Far \subseteq Nat /\ Far # {}
  <2>1. SquaredDistance(p, placements[i]) \in Far
    OBVIOUS
  <2> QED
    BY <1>1, <2>1
<1>3. PICK d \in Far : \A e \in Far : d <= e
  <2> HIDE DEF Far
  <2> QED
    BY <1>2, Least
<1>4. \A j \in DOMAIN placements : d <= SquaredDistance(p, placements[j])
  BY <1>3
<1>5. placements # <<>>
  OBVIOUS
<1> HIDE DEF Far
<1>6. ClosestDistanceSquared(p)
        = CHOOSE e \in Far : \A j \in DOMAIN placements : e <= SquaredDistance(p, placements[j])
  BY <1>5 DEF ClosestDistanceSquared, Far
<1>7. /\ ClosestDistanceSquared(p) \in Far
      /\ \A j \in DOMAIN placements :
           ClosestDistanceSquared(p) <= SquaredDistance(p, placements[j])
  BY <1>3, <1>4, <1>6
<1> QED
  BY <1>2, <1>7

-----------------------------------------------------------------------------
(* The invariant.                                                          *)

LEMMA InitIInv == PlaceInit => IInv
BY DEF PlaceInit, IInv, PlaceTypes, BestFits, CardsApart, CardsInPlace, Unmeasured, AnyLayout,
       NoPoint, Centres

\* Where cards may be depends on the layout only.
LEMMA SameLayout ==
  ASSUME layout' = layout, NEW p, NEW zone
  PROVE  InPlace(p, zone)' <=> InPlace(p, zone)
BY DEF InPlace, InsideViewport, ForbiddenRect, CardContentSafeRect, PageExclusionRect

LEMMA SameRect ==
  ASSUME NEW p, NEW card, card.x = p.x, card.y = p.y
  PROVE  RectFromCenter(card) = RectFromCenter(p)
BY DEF RectFromCenter

\* A card that fits is the last of an arrangement that is in order again.
LEMMA CardJoins ==
  ASSUME placements \in Seq(Cards), CardsApart, CardsInPlace,
         NEW p \in Centres, NEW zone \in Zones, Fits(p, zone),
         layout' = layout,
         placements' = Append(placements, [zone |-> zone, x |-> p.x, y |-> p.y])
  PROVE  placements' \in Seq(Cards) /\ CardsApart' /\ CardsInPlace'
<1> DEFINE card == [zone |-> zone, x |-> p.x, y |-> p.y]
           n == Len(placements)
<1>1. card \in Cards /\ placements' \in Seq(Cards)
  BY DEF Cards, Centres
<1>2. RectFromCenter(card) = RectFromCenter(p) /\ card.zone = zone
  BY SameRect
<1>3. /\ n \in Nat /\ DOMAIN placements = 1..n /\ DOMAIN placements' = 1..(n + 1)
      /\ placements'[n + 1] = card
      /\ \A i \in 1..n : placements'[i] = placements[i]
  BY <1>1
<1>4. \A i \in 1..n :
        ~Intersects(ExpandRect(RectFromCenter(card), Gap[zone]), RectFromCenter(placements[i]))
  BY <1>2, <1>3 DEF Fits, TooClose
<1>5. CardsApart'
  <2> SUFFICES ASSUME NEW i \in 1..(n + 1), NEW j \in 1..(n + 1), i < j
               PROVE ~Intersects(ExpandRect(RectFromCenter(placements'[j]),
                                            Gap[placements'[j].zone]),
                                 RectFromCenter(placements'[i]))
    BY <1>3 DEF CardsApart
  <2>1. i \in 1..n
    BY <1>3
  <2>2. CASE j = n + 1
    BY <2>1, <2>2, <1>3, <1>4
  <2>3. CASE j \in 1..n
    BY <2>1, <2>3, <1>3 DEF CardsApart
  <2> QED BY <2>2, <2>3, <1>3
<1>6. CardsInPlace'
  <2>1. \A i \in 1..(n + 1) : InPlace(placements'[i], placements'[i].zone)
    <3>1. InPlace(card, zone)
      BY <1>2 DEF Fits, InPlace
    <3>2. \A i \in 1..n : InPlace(placements[i], placements[i].zone)
      BY <1>3 DEF CardsInPlace
    <3> HIDE DEF card, n
    <3> QED BY <3>1, <3>2, <1>2, <1>3
  <2>2. \A q, z : InPlace(q, z)' <=> InPlace(q, z)
    BY SameLayout
  <2> QED BY <2>1, <2>2, <1>3 DEF CardsInPlace
<1> QED BY <1>1, <1>5, <1>6

LEMMA NextIInv == IInv /\ [PlaceNext]_placeVars => IInv'
<1> SUFFICES ASSUME IInv, [PlaceNext]_placeVars PROVE IInv'
  OBVIOUS
<1> USE DEF IInv
<1>1. CASE UpdateMetrics
  BY <1>1, PlacementAssumption
     DEF UpdateMetrics, PlacementsFor, PlaceTypes, AnyLayout, BestFits, CardsApart, CardsInPlace,
         NoPoint, Centres
<1>2. CASE TryCandidate
  <2>1. Zone(index) \in Zones
    BY DEF Zone, Zones
  <2>2. PICK p \in Candidates(Zone(index)) :
          IF Acceptable(p, Zone(index)) /\ ClosestDistanceSquared(p) > bestScore
          THEN best' = p /\ bestScore' = ClosestDistanceSquared(p)
          ELSE UNCHANGED <<best, bestScore>>
    BY <1>2 DEF TryCandidate
  <2>3. p \in Centres
    BY <2>1, CandidatesAreCentres
  <2>4. UNCHANGED <<layout, index, sideShift, placements>> /\ attempt' = attempt + 1
    BY <1>2 DEF TryCandidate
  <2>5. PlaceTypes'
    BY <2>2, <2>3, <2>4 DEF PlaceTypes
  <2>6. CardsApart' /\ CardsInPlace'
    BY <2>4, SameLayout DEF CardsApart, CardsInPlace
  <2>7. \A q : Fits(q, Zone(index)) => Fits(q, Zone(index))'
    BY <2>4, SameLayout DEF Fits, TooClose, Zone
  <2>8. best' # NoPoint => Fits(best', Zone(index))
    BY <2>2 DEF Acceptable, Fits, BestFits
  <2>9. BestFits'
    BY <2>4, <2>7, <2>8 DEF BestFits, Zone
  <2> QED BY <2>5, <2>6, <2>9
<1>3. CASE EndPeer
  <2>1. /\ index' = index + 1 /\ attempt' = 0 /\ sideShift' \in 0..3 /\ best' = NoPoint
        /\ layout' = layout
    BY <1>3 DEF EndPeer
  <2>2. BestFits' /\ NoPoint \in Centres
    BY <2>1 DEF BestFits, NoPoint, Centres
  <2>3. placements' \in Seq(Cards) /\ CardsApart' /\ CardsInPlace'
    <3>1. CASE best = NoPoint
      <4>1. placements' = placements
        BY <1>3, <3>1 DEF EndPeer
      <4> QED BY <4>1, <2>1, SameLayout DEF PlaceTypes, CardsApart, CardsInPlace
    <3>2. CASE best # NoPoint
      <4>1. placements' = Append(placements, [zone |-> Zone(index), x |-> best.x, y |-> best.y])
        BY <1>3, <3>2 DEF EndPeer
      <4>2. Zone(index) \in Zones
        BY DEF Zone, Zones
      <4>3. placements \in Seq(Cards) /\ best \in Centres /\ Fits(best, Zone(index))
        BY <3>2 DEF PlaceTypes, BestFits
      <4> QED BY <4>1, <4>2, <4>3, <2>1, CardJoins
    <3> QED BY <3>1, <3>2
  <2> QED BY <2>1, <2>2, <2>3 DEF PlaceTypes
<1>4. CASE UNCHANGED placeVars
  BY <1>4, SameLayout
     DEF placeVars, PlaceTypes, BestFits, Fits, CardsApart, CardsInPlace, TooClose, Zone
<1> QED BY <1>1, <1>2, <1>3, <1>4 DEF PlaceNext

-----------------------------------------------------------------------------
(* The spread.                                                             *)

LEMMA InitSpread == PlaceInit => SpreadInv
BY InitIInv DEF PlaceInit, SpreadInv, BestIsFar, CardsSpread

\* An accepted candidate is far from every card placed.
LEMMA AcceptedIsFar ==
  ASSUME PlaceTypes, NEW p \in Centres, NEW zone \in Zones, Acceptable(p, zone),
         attempt < CandidateCount[zone], NEW i \in DOMAIN placements
  PROVE  FarEnough(SquaredDistance(placements[i], p), zone)
<1> DEFINE closest == ClosestDistanceSquared(p)
           d2 == SquaredDistance(placements[i], p)
<1>1. placements \in Seq(Cards) /\ attempt \in Nat /\ CandidateCount[zone] \in Nat
  BY PlacementAssumption DEF PlaceTypes, Zones
<1>2. closest \in Nat /\ closest <= SquaredDistance(p, placements[i])
  BY <1>1, ClosestDistance
<1>3. attempt \in 0..(CandidateCount[zone] - 1)
  BY <1>1
<1>4. ~TooNear(closest, zone, attempt)
  BY DEF Acceptable
<1>5. FarEnough(closest, zone)
  BY <1>2, <1>3, <1>4, RelaxedThreshold
<1>6. d2 \in Nat /\ closest <= d2
  <2>1. placements[i] \in Cards
    BY <1>1
  <2>2. p.x \in Int /\ p.y \in Int /\ placements[i].x \in Int /\ placements[i].y \in Int
    BY <2>1 DEF Cards, Centres
  <2> QED
    BY <1>2, <2>2, SquaredDistanceNat
<1> HIDE DEF closest, d2
<1>7. FarEnough(d2, zone)
  <2>1. PreferredDistance[zone] \in Nat
    BY DEF Zones, PreferredDistance
  <2>2. (13 * PreferredDistance[zone]) * (13 * PreferredDistance[zone]) \in Nat
    BY <2>1
  <2> QED
    BY <1>2, <1>5, <1>6, <2>2 DEF FarEnough
<1> QED
  BY <1>7 DEF d2

LEMMA NextSpread == SpreadInv /\ [PlaceNext]_placeVars => SpreadInv'
<1> SUFFICES ASSUME SpreadInv, [PlaceNext]_placeVars PROVE SpreadInv'
  OBVIOUS
<1>1. IInv' /\ PlaceTypes /\ PlaceTypes'
  BY NextIInv DEF SpreadInv, IInv
<1>2. CASE UpdateMetrics
  BY <1>1, <1>2 DEF UpdateMetrics, PlacementsFor, SpreadInv, BestIsFar, CardsSpread
<1>3. CASE TryCandidate
  <2>1. Zone(index) \in Zones
    BY DEF Zone, Zones
  <2>2. PICK p \in Candidates(Zone(index)) :
          IF Acceptable(p, Zone(index)) /\ ClosestDistanceSquared(p) > bestScore
          THEN best' = p /\ bestScore' = ClosestDistanceSquared(p)
          ELSE UNCHANGED <<best, bestScore>>
    BY <1>3 DEF TryCandidate
  <2>3. p \in Centres
    BY <1>1, <2>1, CandidatesAreCentres
  <2>4. UNCHANGED <<index, placements>> /\ attempt < CandidateCount[Zone(index)]
    BY <1>3 DEF TryCandidate
  <2>5. best' # NoPoint =>
          \A i \in DOMAIN placements :
            FarEnough(SquaredDistance(placements[i], best'), Zone(index))
    <3>1. CASE best' = best
      BY <3>1 DEF SpreadInv, BestIsFar
    <3>2. CASE best' = p /\ Acceptable(p, Zone(index))
      BY <1>1, <2>1, <2>3, <2>4, <3>2, AcceptedIsFar
    <3> QED
      BY <2>2, <3>1, <3>2
  <2>6. BestIsFar'
    BY <2>4, <2>5 DEF BestIsFar, Zone
  <2> QED
    BY <1>1, <2>4, <2>6 DEF SpreadInv, CardsSpread
<1>4. CASE EndPeer
  <2>1. BestIsFar'
    BY <1>4 DEF EndPeer, BestIsFar
  <2>2. CASE best = NoPoint
    BY <1>1, <1>4, <2>1, <2>2 DEF EndPeer, SpreadInv, CardsSpread
  <2>3. CASE best # NoPoint
    <3> DEFINE card == [zone |-> Zone(index), x |-> best.x, y |-> best.y]
               n == Len(placements)
    <3>1. placements' = Append(placements, card) /\ placements \in Seq(Cards)
      BY <1>1, <1>4, <2>3 DEF EndPeer, PlaceTypes
    <3>2. card \in Cards /\ card.x = best.x /\ card.y = best.y /\ card.zone = Zone(index)
      BY <1>1 DEF Cards, PlaceTypes, Centres, Zone, Zones
    <3>3. /\ n \in Nat /\ DOMAIN placements = 1..n /\ DOMAIN placements' = 1..(n + 1)
          /\ placements'[n + 1] = card
          /\ \A i \in 1..n : placements'[i] = placements[i]
      BY <3>1, <3>2
    <3>4. \A i \in 1..n : FarEnough(SquaredDistance(placements[i], card), card.zone)
      BY <2>3, <3>2, <3>3 DEF SpreadInv, BestIsFar, SquaredDistance
    <3> HIDE DEF card, n
    <3>5. \A i, j \in 1..n : i < j =>
            FarEnough(SquaredDistance(placements[i], placements[j]), placements[j].zone)
      BY <3>3 DEF SpreadInv, CardsSpread, FarEnough
    <3>6. \A i, j \in 1..(n + 1) : i < j =>
            FarEnough(SquaredDistance(placements'[i], placements'[j]), placements'[j].zone)
      <4> SUFFICES ASSUME NEW i \in 1..(n + 1), NEW j \in 1..(n + 1), i < j
                   PROVE  FarEnough(SquaredDistance(placements'[i], placements'[j]),
                                    placements'[j].zone)
        OBVIOUS
      <4>1. i \in 1..n
        BY <3>3
      <4>2. CASE j = n + 1
        BY <3>3, <3>4, <4>1, <4>2
      <4>3. CASE j \in 1..n
        BY <3>3, <3>5, <4>1, <4>3
      <4> QED
        BY <3>3, <4>2, <4>3
    <3>7. CardsSpread'
      BY <3>3, <3>6 DEF CardsSpread, FarEnough
    <3> QED
      BY <1>1, <2>1, <3>7 DEF SpreadInv
  <2> QED
    BY <2>2, <2>3
<1>5. CASE UNCHANGED placeVars
  BY <1>1, <1>5 DEF placeVars, SpreadInv, BestIsFar, CardsSpread, Zone
<1> QED
  BY <1>2, <1>3, <1>4, <1>5 DEF PlaceNext

\* Whatever was placed before, every card keeps its gap (isTooCloseToOtherCards).
THEOREM CardsStayApart == PlaceSpec => []CardsApart
<1>1. IInv => CardsApart
  BY DEF IInv
<1> QED BY <1>1, InitIInv, NextIInv, PTL DEF PlaceSpec

\* After every resize each card is where its zone allows it in the measured layout.
THEOREM CardsStayInPlace == PlaceSpec => []CardsInPlace
<1>1. IInv => CardsInPlace
  BY DEF IInv
<1> QED BY <1>1, InitIInv, NextIInv, PTL DEF PlaceSpec

\* However far the threshold is relaxed over the attempts, no two centres are closer than
\* 65% of the preferred distance of the card placed later (minimumDistanceThreshold).
THEOREM CardsStaySpread == PlaceSpec => []CardsSpread
<1>1. SpreadInv => CardsSpread
  BY DEF SpreadInv
<1> QED BY <1>1, InitSpread, NextSpread, PTL DEF PlaceSpec
=============================================================================
