---------------------------- MODULE MCSyncRound ----------------------------
(* SyncRound on packets of which two share a stamp, with a gap before the  *)
(* two newest.                                                             *)
EXTENDS SyncRound, TLC
CONSTANTS p1, p2, p3, p4, p5, ble, udx
Stamp == p1 :> 1 @@ p2 :> 2 @@ p3 :> 2 @@ p4 :> 4 @@ p5 :> 5
StampsUsed == [p \in Packets |-> Stamp[p]]
=============================================================================
