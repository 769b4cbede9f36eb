------------------------------ MODULE MCAnalysis ------------------------------
(* What trace_server reads off the records of the phones: the runs of a step and their    *)
(* messages (Trials, TrialFigures), the legs between phones (LinkTrace), the packets of   *)
(* one message in the mesh (PacketTrace), the peers one phone met (SessionCap).  No two   *)
(* read each other's state, so a behaviour plays one of them and leaves the others where  *)
(* they began.                                                                            *)
EXTENDS LinkTrace, TrialFigures

CONSTANTS
  alice, bob,
  Nodes, Src, Dst, Message, Fragments, AckPacket, DefaultTtl, PacketRegimes, r1,
  Contacts, Gap, Caps, Missing, TFail, THandshake, MaxTime

VARIABLES
  ttl, via, sightings, wire, handoffs, packetRegime,
  time, heard, met, table, found,
  plays

packetVars == <<ttl, via, sightings, wire, handoffs, packetRegime>>
capVars == <<time, heard, met, table, found>>

Mesh == INSTANCE PacketTrace WITH trace <- sightings, regime <- packetRegime, Regimes <- PacketRegimes
Sizing == INSTANCE SessionCap WITH trace <- heard

AnalysisInit ==
  /\ Init /\ LinkInit /\ Mesh!Init /\ Sizing!CapInit
  /\ plays \in {"trials", "legs", "packets", "contacts"}
  /\ plays = "trials" \/ regime = CHOOSE r \in Regimes : TRUE
  /\ plays = "legs" \/ linkRegime = CHOOSE r \in LinkRegimes : TRUE
  /\ plays = "packets" \/ packetRegime = CHOOSE r \in PacketRegimes : TRUE
AnalysisNext ==
  /\ \/ plays = "trials" /\ Next /\ UNCHANGED <<linkVars, packetVars, capVars>>
     \/ plays = "legs" /\ LinkNext /\ UNCHANGED <<vars, packetVars, capVars>>
     \/ plays = "packets" /\ Mesh!Next /\ UNCHANGED <<vars, linkVars, capVars>>
     \/ plays = "contacts" /\ Sizing!CapNext /\ UNCHANGED <<vars, linkVars, packetVars>>
  /\ UNCHANGED plays
AnalysisSpec == AnalysisInit /\ [][AnalysisNext]_<<vars, linkVars, packetVars, capVars, plays>>

(* A trial's window is cut where its phones were in position, and holds what was sent in it, *)
(* however late a phone's radio comes up (marker_segments, field_runner.dart).                *)
WindowsAreTrue == TrialsAreCutApart /\ SteadyWindowsHold

(* A message's journey is read as it went: when it was sent, heard and acknowledged, and   *)
(* whether it failed, came directly or was conveyed from a buffer, within one trial.        *)
FatesAreTrue == JourneysAreTrue /\ OutcomesAreTrue

(* The tables, the figures and the per-phone ledgers, each with windows and joins of its    *)
(* own, count one trial alike.                                                               *)
FiguresAgree == TablesAgree /\ LedgersAgree

(* The legs a phone is said to hold, at an instant and on average, are those it held.       *)
LegsAreTrue == HeldMeansAreTrue /\ SingleLegsAreCovered

(* The stages of a link, its sessions and its dials are measured from the radio-up or the   *)
(* leg they followed, and none is attributed to another peer.                                *)
EstablishmentIsTrue == StagesAreFromRadioUp /\ SessionsAreCounted /\ EstablishmentsAreTrue

(* The path of a message, the sightings joined to it, its cost and its fate, as read from   *)
(* the traces of the phones that uploaded, contradict nothing that happened to its packets.  *)
PacketsAreTrue ==
  plays = "packets" =>
    Mesh!PathsAreTrue /\ Mesh!JoinIsSound /\ Mesh!MessagesAreCountedTrue /\ Mesh!StagesNest

(* The hit rates that size the session table are those of a table kept while the peers came *)
(* and went, and the cap they recommend is priced by what it would do.                       *)
CapsAreTrue == plays = "contacts" => Sizing!CurveIsTheTables /\ Sizing!CapsArePriced

(* What the scripts' own comments promise and the records refute: see the README. *)
ExactPathsAreTrue == plays = "packets" => Mesh!ExactPathsAreTrue
LostNeverLeft == plays = "packets" => Mesh!LostNeverLeft
CarriedAreCounted == plays = "packets" => Mesh!CarriedAreCounted
TouchedAreAll == plays = "packets" => Mesh!TouchedAreAll
EndsSayAsMuch == plays = "contacts" => Sizing!EndsSayAsMuch

-----------------------------------------------------------------------------
(* Trials *)

MCFrom == [m \in Messages |-> IF m = 1 THEN alice ELSE bob]
MCTo == [m \in Messages |-> IF m = 1 THEN bob ELSE alice]

Radio(slow, bounce, refires) ==
  [slow |-> slow, bounce |-> bounce, refires |-> refires, behind |-> None, reseals |-> FALSE, recover |-> FALSE]
Steady ==
  UNION {{Radio(p, Phones, FALSE), [Radio(alice, {}, FALSE) EXCEPT !.behind = p]} : p \in Phones}
    \cup {Radio(bob, {}, TRUE), [Radio(bob, {}, FALSE) EXCEPT !.reseals = TRUE]}
Failing == {[Radio(bob, {}, FALSE) EXCEPT !.recover = TRUE]}
Resealing == {[Radio(bob, {}, FALSE) EXCEPT !.reseals = TRUE]}

(* Legs *)

Legs(uploads, legs, bounces, redials, silent) ==
  [uploads |-> uploads, legs |-> legs, bounces |-> bounces, redials |-> redials, silent |-> silent]
Quiet == {Legs({alice}, 2, FALSE, FALSE, FALSE), Legs({alice}, 2, FALSE, FALSE, TRUE),
          Legs({alice, bob}, 1, FALSE, FALSE, FALSE), Legs({alice, bob}, 1, TRUE, FALSE, FALSE)}
Redialling == {Legs({alice}, 2, FALSE, TRUE, FALSE)}

(* Packets *)

Packet(writes, fragmented, closed, blind, silent) ==
  [writes |-> writes, fragmented |-> fragmented, closed |-> closed, blind |-> blind, silent |-> silent]
Whole == {Packet(5, FALSE, {}, {}, {})}
Pieces == {Packet(5, TRUE, {}, {}, {})}
Every ==   \* the relays are alike
  Whole \cup Pieces \cup
  {Packet(4, FALSE, {}, Nodes \ {Src, Dst}, {}), Packet(4, FALSE, {r1}, {}, {})} \cup
  {Packet(4, FALSE, {}, {}, {x}) : x \in {Src, Dst, r1}}
=============================================================================
