---------------------------- MODULE TrialFigures ----------------------------
(***************************************************************************)
(* The counts of one trial as the figures and scripts of trace_server take *)
(* them: each reads the records of the merged trace (Trials) once more,    *)
(* with windows and joins of its own.                                      *)
(***************************************************************************)
EXTENDS Trials

(* clique_delivery_vs active pairs *)
ByActivePairs(seg) ==
  [pairs |-> Cardinality(ActivePairs(seg)),
   sent |-> Cardinality(SentIds(seg)),
   arrived |-> Cardinality(SentIds(seg) \cap Named("recv")),
   acked |-> Cardinality(SentIds(seg) \cap Named("ackRx"))]

\* Mutant: the messages a buffer conveyed are counted whether they came or not.
Mechanism_Unjoined(seg) ==
  [delivered |-> Cardinality(SentIds(seg) \cap Named("recv")),
   via_buffer |-> Cardinality(SentIds(seg) \cap Named("convey"))]

(* Of the delivered messages, those a buffer conveyed at least once *)
Mechanism(seg) ==
  LET delivered == SentIds(seg) \cap Named("recv")
  IN [delivered |-> Cardinality(delivered),
      via_buffer |-> Cardinality(delivered \cap Named("convey"))]

(* What became of each sent record, to be summed by the sessions live at its stamp *)
SentOutcomes(seg) ==
  LET fate(m) == IF m \notin Named("recv") THEN "failed"
                 ELSE IF m \in Named("convey") THEN "conveyed" ELSE "direct"
      count(f) == Cardinality({i \in SentRecords(seg) : fate(trace[i].val) = f})
  IN [failed |-> count("failed"), direct |-> count("direct"), conveyed |-> count("conveyed")]

(* One point per trial: shares of the sent *)
PerTrial(seg) ==
  [ids |-> Cardinality(SentIds(seg)),
   arr |-> Cardinality(SentIds(seg) \cap Named("recv")),
   ack |-> Cardinality(SentIds(seg) \cap Named("ackRx"))]

(* The figure by clique size: ratios of sums over the trials of a size, here all of them *)
SumOf(f(_), S) == FoldSet(LAMBDA s, n : n + f(s), 0, S)
Pairs == {pq \in Phones \X Phones : pq[1] # pq[2]}
Pooled(segs) ==
  LET sent == SumOf(LAMBDA s : StepsRow(s).sent, segs)
      offered == SumOf(LAMBDA s : SumOf(LAMBDA pq : PairRow(s, pq[1], pq[2]).sent, Pairs), segs)
      acked == SumOf(LAMBDA s : SumOf(LAMBDA pq : PairRow(s, pq[1], pq[2]).acked, Pairs), segs)
  IN [sent |-> sent, arr |-> SumOf(LAMBDA s : StepsRow(s).arrived, segs),
      ack |-> acked, failed |-> offered - acked]

(* establishment_table sums the trials of one distance, here all of them as well. *)
EstablishmentTable(segs) ==
  [trials |-> Cardinality(segs), msg_sent |-> SumOf(LAMBDA s : StepsRow(s).sent, segs),
   recv |-> SumOf(LAMBDA s : StepsRow(s).recv, segs), delivered |-> SumOf(LAMBDA s : StepsRow(s).acked, segs)]

(* mesh_scale windows the reception as well as the send. *)
InWindow(seg, kind) == {i \in DOMAIN trace : trace[i].kind = kind /\ seg.t0 <= i /\ i < seg.t1}
MeshScale(seg) ==
  [sent |-> Cardinality(InWindow(seg, "sent")), recv |-> Cardinality(InWindow(seg, "recv"))]

(* _dwell_from_resets: the first run-end after a step's marker, whoever stamped it *)
DwellEnd(seg) == First({i \in DOMAIN trace : trace[i].kind = "run-end" /\ seg.t0 < i /\ i <= seg.t1})

(* verify_trials.py joins the files of two phones, each with windows from its own markers: a   *)
(* step's ends at the first run-end before the next step, or else half a minute on.            *)
Own(p, kind) == {i \in DOMAIN trace : trace[i].dev = p /\ trace[i].kind = kind}

OwnWindow(p, i) ==
  LET next == First({j \in Own(p, "step") : j > i})
      ends == {j \in Own(p, "run-end") : j > i /\ (next # None => j < next)}
  IN [label |-> trace[i].val, t0 |-> i, end |-> IF ends = {} THEN Len(trace) + 1 ELSE First(ends)]
OwnWindows(p) == {OwnWindow(p, i) : i \in Own(p, "step")}
Vals(S) == {trace[i].val : i \in S}
Ledger(w, p, peer) ==
  LET ids == Vals({i \in Own(p, "sent") : To[trace[i].val] = peer /\ w.t0 <= i /\ i < w.end})
  IN [ids |-> ids, arrived |-> ids \cap Vals(Own(peer, "recv")), acked |-> ids \cap Vals(Own(p, "ackRx"))]

-----------------------------------------------------------------------------
(* Properties *)

(* The tables and the figures, which window and join the records each in their own way, count  *)
(* one trial alike, as a whole and pair by pair; a window on both ends of a message alone may  *)
(* miss a reception, and then counts fewer.  Not so in recordings that log a sending again.    *)
TablesAgree ==
  (Over /\ ~regime.recover /\ ~regime.reseals) =>
    LET segs == Segs
        all == Pooled(segs)
    IN
    /\ \A s \in segs :
        LET row == StepsRow(s)
            o == Outcome(s)
            mech == Mechanism(s)
            each == SentOutcomes(s)
            by == ByActivePairs(s)
        IN /\ row.sent = Cardinality(o.sent) /\ row.acked = Cardinality(o.acked)
           /\ row.recv = Cardinality(o.direct \cup o.conveyed)
           /\ row.arrived = row.sent - Cardinality(o.failed \ o.acked)
           /\ row.sent = FoldSet(LAMBDA p, n : n + DeviceRow(s, p).msg_sent, 0, Phones)
           /\ o.pairs = {pq \in Pairs : PairRow(s, pq[1], pq[2]).sent > 0}
           /\ by = [pairs |-> Cardinality(o.pairs), sent |-> row.sent, arrived |-> row.recv, acked |-> row.acked]
           /\ PerTrial(s) = [ids |-> row.sent, arr |-> row.recv, ack |-> row.acked]
           /\ mech = [delivered |-> row.recv, via_buffer |-> Cardinality(o.conveyed)]
           /\ each = [failed |-> Cardinality(o.failed), direct |-> Cardinality(o.direct),
                      conveyed |-> Cardinality(o.conveyed)]
           /\ MeshScale(s).sent = row.sent
    /\ SumOf(LAMBDA s : MeshScale(s).recv, segs) <= SumOf(LAMBDA s : StepsRow(s).recv, segs)
    /\ EstablishmentTable(segs) =
         [trials |-> Cardinality(segs), msg_sent |-> all.sent,
          recv |-> SumOf(LAMBDA s : Mechanism(s).delivered, segs), delivered |-> all.ack]
    /\ all.failed = all.sent - all.ack /\ all.ack <= all.arr

(* A side's ledger of a trial, from the two files alone, holds what that phone sent in it, and *)
(* agrees with the merged table of its pair, even where a radio recovers inside a dwell or a    *)
(* clock runs behind.                                                                          *)
LedgersAgree ==
  (Over /\ ~regime.reseals) => \A pq \in Pairs : \A w \in OwnWindows(pq[1]) :
            LET led == Ledger(w, pq[1], pq[2])
            IN /\ led.ids = {m \in TrulySent(w.label) : From[m] = pq[1] /\ To[m] = pq[2]}
               /\ \A s \in Segs : s.label = w.label =>
                    LET row == PairRow(s, pq[1], pq[2])
                    IN <<row.sent, row.recv, row.acked>> =
                         <<Cardinality(led.ids), Cardinality(led.arrived), Cardinality(led.acked)>>

(* The dwell a step declares ends with the run of that step. *)
DwellsAreDeclared ==
  Over => \A s \in Segs : DwellEnd(s) = s.t1
=============================================================================
