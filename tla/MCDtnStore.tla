----------------------------- MODULE MCDtnStore -----------------------------
EXTENDS DtnStore, TLC

CONSTANTS p1, p2, p3, p4, a, b, c, s1, s2

(* Four packets for three recipients, more than either byte cap and one more recipient than  *)
(* the recipient cap.  The recipient of the last packet keeps sending filters; its packet     *)
(* collides under both salts.                                                                 *)
MCSalts == {s1, s2}
MCPackets == {p1, p2, p3, p4}
MCRecipients == {a, b, c}
MCTo == p1 :> a @@ p2 :> a @@ p3 :> b @@ p4 :> c
MCCreatedAt == [p \in MCPackets |-> 1]
MCSize == p1 :> 40 @@ p2 :> 30 @@ p3 :> 20 @@ p4 :> 30
MCCollides == s1 :> {p4} @@ s2 :> {p4}
=============================================================================
