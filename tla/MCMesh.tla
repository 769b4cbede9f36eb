------------------------------- MODULE MCMesh -------------------------------
(* A sends to C; R stands between them.                                    *)
EXTENDS MeshDelivery
CONSTANTS a, r, c

MCFrom == [m \in Messages |-> a]
MCTo == [m \in Messages |-> c]
One == [m \in Messages |-> 1]
Two == [m \in Messages |-> 2]
Both(x, y, v) == {[from |-> x, to |-> y, via |-> v], [from |-> y, to |-> x, via |-> v]}
Line == Both(a, r, "ble") \cup Both(r, c, "ble")
LineAndUdx == Line \cup Both(a, c, "udx")
Triangle == Line \cup Both(a, c, "ble")
=============================================================================
