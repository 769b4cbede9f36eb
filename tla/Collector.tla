------------------------------ MODULE Collector ------------------------------
(***************************************************************************)
(* What the trace server promises the phones: an upload is kept whole, at  *)
(* most once, and only an upload that is kept is acknowledged.             *)
(* (trace_server/server.py, module docstring: "Idempotent", "Lossless".)   *)
(***************************************************************************)
CONSTANT Uploads

VARIABLES kept, acked

Init == kept = {} /\ acked = {}

Keep(u) == kept' = kept \cup {u} /\ UNCHANGED acked

Acknowledge(u) == u \in kept /\ acked' = acked \cup {u} /\ UNCHANGED kept

KeepAndAcknowledge(u) == kept' = kept \cup {u} /\ acked' = acked \cup {u}

Next == \E u \in Uploads : Keep(u) \/ Acknowledge(u) \/ KeepAndAcknowledge(u)

Spec == Init /\ [][Next]_<<kept, acked>>
=============================================================================
