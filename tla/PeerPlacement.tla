------------------------------- MODULE PeerPlacement -------------------------------
(***************************************************************************)
(* The placement of peer cards on the landing page                         *)
(* (apps/web/src/app/components/DiscoveryPeersOverlay.tsx): each peer in   *)
(* turn tries a number of positions, at the edge of the role card for the  *)
(* first ones and anywhere on the page for the others, and takes the best. *)
(* The distances are the source's, in pixels.  The seeded generator is a   *)
(* choice among Grain positions per range.  One step is one attempt.       *)
(***************************************************************************)
EXTENDS Integers, Sequences, FiniteSets

CONSTANTS
  Layouts,         \* what updateMetrics may measure: [width, height, anchor]
  PeerCount,
  EdgeSpawnLimit,
  CandidateCount,  \* attempts per zone: [edge |-> 72, page |-> 120]
  Grain            \* bound: positions tried in a range of the generator

ASSUME PlacementAssumption ==
  /\ Layouts \subseteq [width : Nat, height : Nat,
                        anchor : [left : Int, top : Int, right : Int, bottom : Int]]
  /\ PeerCount \in Nat /\ EdgeSpawnLimit \in Nat
  /\ \A zone \in {"edge", "page"} : CandidateCount[zone] \in Nat \ {0}
  /\ Grain \in Nat \ {0}

VARIABLES
  layout,      \* viewportSize and anchorRect
  index,       \* the peer being placed, from 0
  sideShift,
  attempt,
  best,        \* bestCandidate, NoPoint before there is one
  bestScore,
  placements   \* the cards placed: their zone and centre

placeVars == <<layout, index, sideShift, attempt, best, bestScore, placements>>

Zones == {"edge", "page"}
FloatingCardWidth == 184
FloatingCardHeight == 64
EdgeCardOverlap == 14
Gap == [edge |-> 12, page |-> 22]
PageCardPadding == 16
SafeInsetX == 44
SafeInsetY == 54
PageCardExclusionMargin == 40
PreferredDistance == [edge |-> 210, page |-> 250]

NoPoint == [x |-> -1, y |-> -1]
Infinity == 2 ^ 30
NegativeInfinity == -1

-----------------------------------------------------------------------------
(* Rectangles and points.                                                  *)

\* The values of randomBetween(rng, min, max).
RandomBetween(min, max) ==
  IF max <= min THEN {min} ELSE {min + ((max - min) * k) \div Grain : k \in 0..(Grain - 1)}

Points(xs, ys) == {[x |-> x, y |-> y] : x \in xs, y \in ys}

RectFromCenter(p) ==
  [left |-> p.x - FloatingCardWidth \div 2, top |-> p.y - FloatingCardHeight \div 2,
   right |-> p.x + FloatingCardWidth \div 2, bottom |-> p.y + FloatingCardHeight \div 2]

InsetRect(r, dx, dy) ==
  [left |-> r.left + dx, top |-> r.top + dy, right |-> r.right - dx, bottom |-> r.bottom - dy]

ExpandRect(r, margin) == InsetRect(r, -margin, -margin)

Intersects(a, b) ==
  a.right > b.left /\ a.left < b.right /\ a.bottom > b.top /\ a.top < b.bottom

InsideViewport(r) ==
  /\ r.left >= PageCardPadding /\ r.top >= PageCardPadding
  /\ r.right <= layout.width - PageCardPadding
  /\ r.bottom <= layout.height - PageCardPadding

SquaredDistance(a, b) == (a.x - b.x) * (a.x - b.x) + (a.y - b.y) * (a.y - b.y)

\* getClosestDistanceSquared to the cards placed.
ClosestDistanceSquared(p) ==
  IF placements = <<>> THEN Infinity
  ELSE CHOOSE d \in {SquaredDistance(p, placements[i]) : i \in DOMAIN placements} :
         \A i \in DOMAIN placements : d <= SquaredDistance(p, placements[i])

-----------------------------------------------------------------------------
(* Candidates.                                                             *)

\* Centres of a card of the given size between two borders.
Along(from, to, size) == RandomBetween(from + size \div 2, to - size \div 2)

\* buildEdgeCandidate: one side of the role card, another with each attempt.
EdgeCandidates ==
  LET card == layout.anchor
      side == (sideShift + attempt) % 4
      xs == Along(card.left, card.right, FloatingCardWidth)
      ys == Along(card.top, card.bottom, FloatingCardHeight)
  IN CASE side = 0 -> Points(xs, {card.top + EdgeCardOverlap - FloatingCardHeight \div 2})
       [] side = 1 -> Points({card.right - EdgeCardOverlap + FloatingCardWidth \div 2}, ys)
       [] side = 2 -> Points(xs, {card.bottom - EdgeCardOverlap + FloatingCardHeight \div 2})
       [] side = 3 -> Points({card.left + EdgeCardOverlap - FloatingCardWidth \div 2}, ys)

\* buildPageCandidate.
PageCandidates ==
  Points(Along(PageCardPadding, layout.width - PageCardPadding, FloatingCardWidth),
         Along(PageCardPadding, layout.height - PageCardPadding, FloatingCardHeight))

Zone(i) == IF i < EdgeSpawnLimit THEN "edge" ELSE "page"

Candidates(zone) == IF zone = "edge" THEN EdgeCandidates ELSE PageCandidates

CardContentSafeRect == InsetRect(layout.anchor, SafeInsetX, SafeInsetY)
PageExclusionRect == ExpandRect(layout.anchor, PageCardExclusionMargin)

\* What a card of a zone keeps off.
ForbiddenRect(zone) == IF zone = "edge" THEN CardContentSafeRect ELSE PageExclusionRect

\* Mutant: the gap is forgotten.
TooCloseTouching(r, zone) ==
  \E i \in DOMAIN placements : Intersects(r, RectFromCenter(placements[i]))

TooClose(r, zone) ==
  \E i \in DOMAIN placements :
    Intersects(ExpandRect(r, Gap[zone]), RectFromCenter(placements[i]))

\* Mutant: the squared distance is compared with the threshold.
TooNearUnsquared(d2, zone, tried) ==
  d2 < PreferredDistance[zone] - (PreferredDistance[zone] * 7 * tried) \div (20 * CandidateCount[zone])

\* The distance is under the preferred one, which is relaxed by 35% (7/20) over the
\* attempts: rounded up, threshold^2 is a bound for the squared distance.
TooNear(d2, zone, tried) ==
  LET whole == 20 * CandidateCount[zone]
      relaxed == PreferredDistance[zone] * (whole - 7 * tried)
  IN d2 <= (relaxed * relaxed - 1) \div (whole * whole)

\* Where a card of the zone may be.
InPlace(p, zone) ==
  /\ InsideViewport(RectFromCenter(p))
  /\ ~Intersects(RectFromCenter(p), ForbiddenRect(zone))

\* The tests of an attempt.
Acceptable(p, zone) ==
  /\ InPlace(p, zone)
  /\ ~TooClose(RectFromCenter(p), zone)
  /\ ~TooNear(ClosestDistanceSquared(p), zone, attempt)

-----------------------------------------------------------------------------
Unmeasured == [width |-> 0, height |-> 0,
               anchor |-> [left |-> 0, top |-> 0, right |-> 0, bottom |-> 0]]

PlaceInit ==
  /\ layout = Unmeasured
  /\ index = 0 /\ attempt = 0
  /\ sideShift \in 0..3
  /\ best = NoPoint /\ bestScore = NegativeInfinity
  /\ placements = <<>>

\* Mutant: the placement is not computed anew for a new layout.
PlacementsForStale(measured) == placements

\* The dependencies of useMemo: a new layout starts the placement over.
PlacementsFor(measured) == <<>>

\* Mount, a resize of the window or of the role card; the placement itself is never
\* interrupted.
UpdateMetrics ==
  /\ layout = Unmeasured \/ index = PeerCount
  /\ \E measured \in Layouts \ {layout} :
       /\ layout' = measured
       /\ placements' = PlacementsFor(measured)
  /\ index' = 0 /\ attempt' = 0
  /\ sideShift' \in 0..3
  /\ best' = NoPoint /\ bestScore' = NegativeInfinity

TryCandidate ==
  LET zone == Zone(index)
  IN /\ layout.width > 0 /\ layout.height > 0
     /\ index < PeerCount
     /\ attempt < CandidateCount[zone]
     /\ attempt' = attempt + 1
     /\ \E p \in Candidates(zone) :
          IF Acceptable(p, zone) /\ ClosestDistanceSquared(p) > bestScore
          THEN best' = p /\ bestScore' = ClosestDistanceSquared(p)
          ELSE UNCHANGED <<best, bestScore>>
     /\ UNCHANGED <<layout, index, sideShift, placements>>

\* A peer that found no place is left out.
EndPeer ==
  /\ index < PeerCount
  /\ attempt = CandidateCount[Zone(index)]
  /\ placements' = IF best = NoPoint THEN placements
                   ELSE Append(placements, [zone |-> Zone(index), x |-> best.x, y |-> best.y])
  /\ index' = index + 1 /\ attempt' = 0
  /\ sideShift' \in 0..3
  /\ best' = NoPoint /\ bestScore' = NegativeInfinity
  /\ UNCHANGED layout

PlaceNext == UpdateMetrics \/ TryCandidate \/ EndPeer

PlaceSpec == PlaceInit /\ [][PlaceNext]_placeVars

-----------------------------------------------------------------------------
\* Two cards are never closer than the gap of the one placed later, whatever mix of
\* edge and page cards came before (isTooCloseToOtherCards).
CardsApart ==
  \A i, j \in DOMAIN placements :
    i < j => ~Intersects(ExpandRect(RectFromCenter(placements[j]), Gap[placements[j].zone]),
                         RectFromCenter(placements[i]))

\* However far the threshold was relaxed, centres keep 65% of the preferred distance
\* of the card placed later (minimumDistanceThreshold).
CardsSpread ==
  \A i, j \in DOMAIN placements :
    i < j => LET preferred == PreferredDistance[placements[j].zone]
             IN SquaredDistance(placements[i], placements[j]) * 400
                  >= (13 * preferred) * (13 * preferred)

\* After every resize each card is inside the viewport it is shown in, no edge card
\* covers the content of the role card and no page card comes near it.
CardsInPlace ==
  \A i \in DOMAIN placements : InPlace(placements[i], placements[i].zone)
=============================================================================
