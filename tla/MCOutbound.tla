----------------------------- MODULE MCOutbound -----------------------------
(* OutboundMessage with a message of one packet and one of two.            *)
EXTENDS OutboundMessage, TLC
CONSTANTS short, long
FragmentsUsed == [m \in Messages |-> IF m = long THEN 2 ELSE 1]
=============================================================================
