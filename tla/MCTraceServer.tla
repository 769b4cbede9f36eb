---------------------------- MODULE MCTraceServer ----------------------------
EXTENDS TraceServer
CONSTANTS b1, b2, q, g

(* A sender's sealed message and its ack, a relay that carries it, a receiver. *)
Rec(n, d, k, e, ps, m) == [n |-> n, dev |-> d, kind |-> k, ev |-> e, pkts |-> ps, msg |-> m]
MCUploads == {"s", "d"}
MCBatch == [u \in MCUploads |->
  CASE u = "s" -> {Rec(1, 1, "sealed", None, {1, 2}, 7), Rec(2, 1, "ackRx", None, {3}, 7)}
    [] u = "d" -> {Rec(3, 2, "relay", "relay", {2}, 0), Rec(4, 2, "custody", "convey", {1}, 0),
                   Rec(5, 2, "recv", None, {}, 7), Rec(6, 2, "marker", None, {}, 0)}]

Regime(threads, dashboard, fails, locks, kills) ==
  [threads |-> threads, dashboard |-> dashboard, writesFail |-> fails,
   locksTimeOut |-> locks, kills |-> kills]
Several == {Regime(Builds, FALSE, TRUE, FALSE, 0),
            Regime({b1}, TRUE, FALSE, TRUE, 0),
            Regime({b1}, FALSE, FALSE, TRUE, 1)}
Torn == {Regime({b1}, TRUE, FALSE, FALSE, 0)}
Lost == {Regime({}, FALSE, TRUE, FALSE, 0)}
Wedged == {Regime({b1}, FALSE, FALSE, TRUE, 0)}
=============================================================================
