----------------------------- MODULE MCCampaign -----------------------------
(* Two testbeds side by side: the runs and uploads of two phones (Campaign), and the ring *)
(* experiment of a fleet (RingTestbed).  Neither reads the other's state, so a behaviour  *)
(* plays one of them and leaves the other where it began.                                 *)
EXTENDS Campaign

CONSTANTS Fleet, RingSize, Talker, Listener, RingRegimes, None

VARIABLES table, ring, at, dwelling, legs, ups, copies, trace, ringRegime, plays
ringVars == <<table, ring, at, dwelling, legs, ups, copies, trace, ringRegime>>

Ring == INSTANCE RingTestbed WITH
  Src <- Talker, Dst <- Listener, Regimes <- RingRegimes, regime <- ringRegime

FieldInit ==
  /\ Init /\ Ring!Init
  /\ \/ plays = "campaign" /\ ringRegime = CHOOSE r \in RingRegimes : TRUE
     \/ plays = "ring" /\ regime = CHOOSE r \in Regimes : TRUE
FieldNext ==
  /\ \/ plays = "campaign" /\ Next /\ UNCHANGED ringVars
     \/ plays = "ring" /\ Ring!Next /\ UNCHANGED vars
  /\ UNCHANGED plays
FieldSpec == FieldInit /\ [][FieldNext]_<<vars, ringVars, plays>>

RingIsReadTrue == Ring!RingIsReadTrue
GateIsReadTrue == Ring!GateIsReadTrue
DeliveryIsReadTrue == Ring!DeliveryIsReadTrue
HungNeverArrive == Ring!HungNeverArrive

-----------------------------------------------------------------------------
(* The campaigns *)

MCArms == [d \in Devices |-> IF d = Src THEN 2 ELSE 1]
MCPresses == [d \in Devices |-> IF d = Src THEN 2 ELSE 1]

Every == {[appends |-> TRUE, clears |-> FALSE], [appends |-> FALSE, clears |-> FALSE],
          [appends |-> FALSE, clears |-> TRUE]}
Older == {[appends |-> TRUE, clears |-> FALSE]}

(* A file discarded after its upload, and the next one uploaded as it grew and once whole. *)
Discards == {[appends |-> FALSE, clears |-> FALSE]}
ThreePresses == [d \in Devices |-> IF d = Src THEN 3 ELSE 0]

-----------------------------------------------------------------------------
(* The ring experiments *)

PairsOf(S) == {{p, q} : p, q \in S} \ {{p} : p \in S}
Staged(dials, radii, n) ==
  [table |-> PairsOf(1..4), warms |-> {}, launched |-> 1..4, dials |-> dials, sends |-> {}, fades |-> FALSE,
   radii |-> radii, bounce |-> FALSE, slow |-> 3, legs |-> n]

(* Five phones with fewer sessions than pairs, launched one by one while sessions still come about. *)
Launching ==
  [Staged({}, <<1>>, 0) EXCEPT !.table = PairsOf(2..4), !.launched = {}, !.slow = 5,
     !.warms = {{1, 2}, {1, 3}, {1, 4}, {2, 5}, {3, 5}, {4, 5}}]

Rings ==
  { Launching,
    Staged({<<1, 3>>, <<3, 1>>}, <<2, 1>>, 2),  \* both legs of a pair, and then a ring too small for it
    [Staged({<<1, 3>>}, <<1, 2>>, 2) EXCEPT !.fades = TRUE],  \* a ring that grows, and a leg lost and made again
    [Staged({<<1, 3>>}, <<2, 1>>, 1) EXCEPT !.sends = BOOLEAN],  \* a direct message, and then one that cannot be
    [Staged({<<1, 3>>}, <<2, 1>>, 1) EXCEPT !.bounce = TRUE],
    [Staged({<<1, 2>>, <<2, 3>>}, <<1>>, 2) EXCEPT !.sends = {TRUE}, !.slow = 2]  \* a message over a relay
  }
=============================================================================
