---------------------------- MODULE MCDtnCustody ----------------------------
(* The promise of the store, on an instance of its own; MCDtnStore checks the map of lists. *)
EXTENDS DtnCustody, TLC

CONSTANTS p1, p2, p3, a, b, s1, s2

(* Three packets for two recipients; p1 collides under s1 only, p2   *)
(* under both salts: its live copy can really be lost.                      *)
MCSalts == {s1, s2}
MCPackets == {p1, p2, p3}
MCRecipients == {a, b}
MCTo == p1 :> a @@ p2 :> a @@ p3 :> b
MCCreatedAt == p1 :> 1 @@ p2 :> 2 @@ p3 :> 1
MCSize == p1 :> 40 @@ p2 :> 50 @@ p3 :> 30
MCCollides == s1 :> {p1, p2} @@ s2 :> {p2}
=============================================================================
