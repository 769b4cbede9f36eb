----------------------------- MODULE MCMeshMail -----------------------------
(* What the mesh may never do, where everything may go wrong, and what it must do in    *)
(* the end, where only losses do: a behaviour plays one of the two meshes and leaves     *)
(* the other where it began.                                                             *)
EXTENDS MCMesh

VARIABLES sentL, heldL, seenL, airL, openingL, openedL, partsL, deliveredL, inboxL,
          confirmedL, deadL, nowL, faultsL, plays
lineVars == <<sentL, heldL, seenL, airL, openingL, openedL, partsL, deliveredL, inboxL,
              confirmedL, deadL, nowL, faultsL>>

(* Two packets of one message along a line, with a hop for each node of it and no tick.  *)
OnLine == INSTANCE MeshDelivery WITH
  Fragments <- Two, Links <- Line, FaultKinds <- {"lose"}, MaxNow <- 0, MaxFaults <- 3,
  sent <- sentL, held <- heldL, seen <- seenL, air <- airL, opening <- openingL,
  opened <- openedL, parts <- partsL, delivered <- deliveredL, inbox <- inboxL,
  confirmed <- confirmedL, dead <- deadL, now <- nowL, faults <- faultsL

MailInit == Init /\ OnLine!Init /\ plays \in {"mesh", "line"}
MailNext ==
  /\ \/ plays = "mesh" /\ Next /\ UNCHANGED lineVars
     \/ plays = "line" /\ OnLine!Next /\ UNCHANGED vars
  /\ UNCHANGED plays
MailSpec ==
  /\ MailInit /\ [][MailNext]_<<vars, lineVars, plays>>
  /\ WF_lineVars(plays = "line" /\ OnLine!Progress)

(* A message posted to a node that links reach, and keep reaching, arrives over as many  *)
(* hops as its TTL allows, and its ACK comes back (grassroots_network.dart, 1682-1693).   *)
MailIsServedOnLine == OnLine!MailIsServed
=============================================================================
