------------------------------- MODULE MCStandalone -------------------------------
(***************************************************************************)
(* Four components that share no variable, checked in one run: each        *)
(* behaviour is one of one of them, and takes its actions.                 *)
(***************************************************************************)
EXTENDS JoinCode, PeerPlacement, TestClient, ConnectionGuard

VARIABLE part  \* the component of this behaviour

\* Room on all sides of the card, and room for edge cards above it only.
MCLayouts ==
  {[width |-> 1280, height |-> 800,
    anchor |-> [left |-> 256, top |-> 150, right |-> 1024, bottom |-> 650]],
   [width |-> 1024, height |-> 640,
    anchor |-> [left |-> 170, top |-> 150, right |-> 924, bottom |-> 620]]}

MCCandidateCount == [edge |-> 3, page |-> 2]

MCVars == <<codeVars, placeVars, mailVars, vars, part>>

MCInit ==
  /\ CodeInit /\ PlaceInit /\ MailInit /\ Init
  /\ part \in {"code", "placement", "mail", "guard"}
  /\ part # "code" => alphabetLen = 1 /\ codeLength = 1
  /\ part # "placement" => sideShift = 0

Code(step) == part = "code" /\ step /\ UNCHANGED <<placeVars, mailVars, vars, part>>
Placement(step) == part = "placement" /\ step /\ UNCHANGED <<codeVars, mailVars, vars, part>>
Mail(step) == part = "mail" /\ step /\ UNCHANGED <<codeVars, placeVars, vars, part>>
Guard(step) == part = "guard" /\ step /\ UNCHANGED <<codeVars, placeVars, mailVars, part>>

MCNext ==
  \/ Code(DrawByte)
  \/ Placement(UpdateMetrics) \/ Placement(TryCandidate) \/ Placement(EndPeer)
  \/ Mail(MailNext)
  \/ Guard(Next)

MCSpec == MCInit /\ [][MCNext]_MCVars /\ Fairness
=============================================================================
