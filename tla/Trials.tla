-------------------------------- MODULE Trials --------------------------------
(***************************************************************************)
(* A wall-clock run of several trials as its phones record it, and how     *)
(* trace_server/analyze.py cuts the merged trace back into trials and      *)
(* attributes messages to them.  A record's stamp is its place in the      *)
(* trace, by the clock of its own phone: the plan's instants are stamped   *)
(* alike by all, as each phone acts when ITS clock shows them, but what    *)
(* one phone logs on another's doing may be stamped before that was.  The  *)
(* trial a record's message truly belongs to and the way a copy truly came *)
(* are kept beside it, for the properties alone.                           *)
(***************************************************************************)
EXTENDS Integers, SequencesExt

CONSTANTS
  Phones,
  Messages,      \* each sent once, with its sender and recipient
  From, To,
  Trials,
  Regimes,       \* how the radios behave: see RegimeType
  None           \* no value: Python's None, pandas' NaN

RegimeType == [
  bounce : SUBSET Phones,  \* phones that bounce the radio in every reset slot
  slow : Phones,           \* BOUND: the phone that is the last to act on every instant of the plan
  behind : Phones \cup {None}, \* BOUND: the one phone whose clock runs behind the others'
  refires : BOOLEAN,       \* an older recording: a repeated ack is recorded as delivered again
  reseals : BOOLEAN,       \* another: a held message sealed again is recorded as sent again
  recover : BOOLEAN]       \* a radio may fail and recover inside a dwell

ASSUME TrialsAssumption ==
  /\ From \in [Messages -> Phones] /\ To \in [Messages -> Phones]
  /\ Trials \in Nat \ {0} /\ Regimes \subseteq RegimeType

VARIABLES
  at,       \* the trial each phone has opened last; 0 is the placement window
  phase,    \* what it is doing: reset, dwell, over (sends cancelled), done, ended
  copies,   \* where each message is: fresh, flying (by which way), held, arrived, acked
  trace,    \* the records of all phones, in the order of their stamps
  regime

vars == <<at, phase, copies, trace, regime>>

Init ==
  /\ at = [p \in Phones |-> 0]
  /\ phase = [p \in Phones |-> "done"]
  /\ copies = [m \in Messages |-> "fresh"]
  /\ trace = <<>>
  /\ regime \in Regimes

Rec(p, kind, val, trial, way) == [dev |-> p, kind |-> kind, val |-> val, trial |-> trial, way |-> way]
Stamp(p, kind, val) == trace' = Append(trace, Rec(p, kind, val, at[p], None))

(* What p logs when another phone's doing reaches it: after all it has logged itself, and, unless *)
(* its clock is behind, after all the others have.                                                *)
LastOf(p) == Max({0} \cup {i \in DOMAIN trace : trace[i].dev = p})
Logs(p, recs) ==
  \E i \in (IF p = regime.behind THEN LastOf(p) ELSE Len(trace))..Len(trace) :
    trace' = SubSeq(trace, 1, i) \o recs \o SubSeq(trace, i + 1, Len(trace))

Stamps(kind, m) == {i \in DOMAIN trace : trace[i].kind = kind /\ trace[i].val = m}

-----------------------------------------------------------------------------
(* The runner (lib/src/testbed/field_runner.dart) *)

(* Timers of two phones for one instant fire apart, the slow phone's last. *)
Turn(p) == p = regime.slow => \A q \in Phones \ {p} : <<at[q], phase[q]>> # <<at[p], phase[p]>>

(* A step opens at the wall-clock instant of its reset slot, which is past every phone's dwell; *)
(* what a phone stamps after its dwell may still be under way.                                  *)
OpenStep(p) ==
  /\ at[p] < Trials
  /\ phase[p] = "done" /\ Turn(p)
  /\ \A q \in Phones : at[q] > at[p] \/ phase[q] \in {"over", "done"}
  /\ trace' = Append(trace, Rec(p, "step", at[p] + 1, at[p] + 1, None))
  /\ at' = [at EXCEPT ![p] = @ + 1]
  /\ phase' = [phase EXCEPT ![p] = "reset"]
  /\ UNCHANGED <<copies, regime>>

(* The reset slot ends: a bounced radio has come up, and nobody is early. *)
OpenDwell(p) ==
  /\ phase[p] = "reset" /\ Turn(p)
  /\ \A q \in Phones : at[q] = at[p]
  /\ IF p \in regime.bounce THEN Stamp(p, "bt-on", None) ELSE UNCHANGED trace
  /\ phase' = [phase EXCEPT ![p] = "dwell"]
  /\ UNCHANGED <<at, copies, regime>>

(* The radio went down and came up again by itself.  BOUND: once. *)
Recover(p) ==
  /\ regime.recover
  /\ phase[p] = "dwell"
  /\ \A i \in DOMAIN trace : trace[i].kind # "bt-on"
  /\ Stamp(p, "bt-on", None)
  /\ UNCHANGED <<at, phase, copies, regime>>

(* Every phone closes its dwell at the same instant; the run-end follows when it gets there. *)
CloseDwells ==
  /\ \A p \in Phones : phase[p] = "dwell"
  /\ phase' = [p \in Phones |-> "over"]
  /\ UNCHANGED <<at, copies, trace, regime>>

RunEnd(p) ==
  /\ phase[p] = "over" /\ Turn(p)
  /\ Stamp(p, "run-end", None)
  /\ phase' = [phase EXCEPT ![p] = "done"]
  /\ UNCHANGED <<at, copies, regime>>

End(p) ==
  /\ at[p] = Trials /\ phase[p] = "done" /\ Turn(p)
  /\ \A q \in Phones : at[q] = Trials /\ phase[q] \in {"over", "done", "ended"}
  /\ Stamp(p, "end", None)
  /\ phase' = [phase EXCEPT ![p] = "ended"]
  /\ UNCHANGED <<at, copies, regime>>

(* A send is stamped as its first write begins: accepted by the transport, or buffered alone. *)
Send(m, aired) ==
  /\ copies[m] = "fresh"
  /\ phase[From[m]] = "dwell"
  /\ trace' = Append(trace, [Rec(From[m], "sent", m, at[From[m]], None) EXCEPT !.way = aired])
  /\ copies' = [copies EXCEPT ![m] = IF aired THEN "direct" ELSE "held"]
  /\ UNCHANGED <<at, phase, regime>>

(* The radio loses the copy; the buffer still has its own. *)
Lose(m) ==
  /\ copies[m] \in {"direct", "convey"}
  /\ copies' = [copies EXCEPT ![m] = "held"]
  /\ UNCHANGED <<at, phase, trace, regime>>

(* A later session takes a held message, sealed anew, and logs its sending again.  BOUND: once. *)
SendAgain(m) ==
  /\ regime.reseals
  /\ copies[m] = "held" /\ phase[From[m]] # "ended"
  /\ Cardinality(Stamps("sent", m)) = 1
  /\ \E i \in Stamps("sent", m) : Logs(From[m], <<[trace[i] EXCEPT !.way = TRUE]>>)
  /\ copies' = [copies EXCEPT ![m] = "direct"]
  /\ UNCHANGED <<at, phase, regime>>

(* The buffer, which has its copy until the ack comes, conveys it in answer to the peer's sync *)
(* filter; one that has arrived already is dropped there.  BOUND: once.                        *)
Convey(m) ==
  /\ copies[m] \in {"held", "arrived"}
  /\ ~\E i \in DOMAIN trace : trace[i].kind = "convey" /\ trace[i].val = m
  /\ Stamp(From[m], "convey", m)
  /\ copies' = [copies EXCEPT ![m] = IF @ = "held" THEN "convey" ELSE @]
  /\ UNCHANGED <<at, phase, regime>>

(* An arrival is recorded while the phone's recorder runs. *)
Recv(m) ==
  /\ copies[m] \in {"direct", "convey"}
  /\ IF phase[To[m]] = "ended" THEN UNCHANGED trace
     ELSE Logs(To[m], <<Rec(To[m], "recv", m, at[To[m]], copies[m])>>)
  /\ copies' = [copies EXCEPT ![m] = "arrived"]
  /\ UNCHANGED <<at, phase, regime>>

(* The ack comes home: ackRx, and the sender's delivered record, marked as the first. *)
Ack(m) ==
  /\ copies[m] = "arrived"
  /\ phase[From[m]] # "ended"
  /\ Logs(From[m], << Rec(From[m], "ackRx", m, at[From[m]], None),
                       Rec(From[m], "delivered", m, at[From[m]], "first") >>)
  /\ copies' = [copies EXCEPT ![m] = "acked"]
  /\ UNCHANGED <<at, phase, regime>>

(* BOUND: once. *)
AckAgain(m) ==
  /\ regime.refires
  /\ copies[m] = "acked"
  /\ phase[From[m]] # "ended"
  /\ ~\E i \in DOMAIN trace : trace[i].kind = "delivered" /\ trace[i].way = "again"
  /\ Logs(From[m], <<Rec(From[m], "delivered", m, at[From[m]], "again")>>)
  /\ UNCHANGED <<at, phase, copies, regime>>

Next ==
  \/ CloseDwells
  \/ \E p \in Phones : OpenStep(p) \/ OpenDwell(p) \/ Recover(p) \/ RunEnd(p) \/ End(p)
  \/ \E m \in Messages :
       \/ \E aired \in BOOLEAN : Send(m, aired)
       \/ SendAgain(m) \/ Lose(m) \/ Convey(m) \/ Recv(m) \/ Ack(m) \/ AckAgain(m)

Spec == Init /\ [][Next]_vars

-----------------------------------------------------------------------------
(* The analysis *)

(* marker_segments: one segment per step marker, its windows closed by markers of the phones *)
(* whose own latest step it is.                                                              *)
NoSegments == [segs |-> <<>>, idx |-> [l \in 1..Trials |-> 0], own |-> [p \in Phones |-> 0], end |-> None]

Segment(t, m) == [label |-> m.val, dev |-> m.dev, t0 |-> t, t1 |-> None,
                  t0_dwell |-> None, t0_drain |-> None, t1_drain |-> None]

Closing(segs, t) ==
  IF segs = <<>> THEN segs
  ELSE [segs EXCEPT ![Len(segs)] =
         [@ EXCEPT !.t0_drain = IF @ = None THEN (IF segs[Len(segs)].t1 # None THEN segs[Len(segs)].t1
                                                  ELSE segs[Len(segs)].t0) ELSE @,
                   !.t1_drain = t, !.t1 = IF @ = None THEN t ELSE @]]

\* Mutant: a closing marker goes to the segment opened last.
OwnSegment_Last(acc, p) == Len(acc.segs)

OwnSegment(acc, p) == IF acc.own[p] = 0 THEN 0 ELSE acc.idx[acc.own[p]]

Mark(acc, t, m) ==
  LET i == OwnSegment(acc, m.dev) IN
  CASE m.kind = "end" -> [acc EXCEPT !.end = IF @ = None THEN t ELSE @]
    [] m.kind = "run-end" /\ i # 0 -> [acc EXCEPT !.segs[i].t1 = IF @ = None THEN t ELSE @]
    [] m.kind = "bt-on" /\ i # 0 ->
         IF acc.segs[i].t0_dwell = None /\ acc.segs[i].t1 = None
         THEN [acc EXCEPT !.segs[i].t0_dwell = t] ELSE acc
    [] m.kind = "step" ->
         IF acc.segs # <<>> /\ Last(acc.segs).label = m.val /\ Last(acc.segs).dev # m.dev
         THEN [acc EXCEPT !.own[m.dev] = m.val]
         ELSE [acc EXCEPT !.segs = Append(Closing(acc.segs, t), Segment(t, m)),
                          !.idx[m.val] = Len(acc.segs) + 1,
                          !.own[m.dev] = m.val]
    [] OTHER -> acc

MarkerSegments ==
  LET acc == FoldLeftDomain(LAMBDA a, t : Mark(a, t, trace[t]), NoSegments, trace)
      end == IF acc.end = None THEN Len(trace) ELSE acc.end
      last == Len(acc.segs)
  IN IF last = 0 THEN <<>>
     ELSE [acc.segs EXCEPT ![last] =
            [@ EXCEPT !.t1 = IF @ = None THEN end ELSE @,
                      !.t0_drain = IF acc.segs[last].t1 = None THEN end ELSE acc.segs[last].t1,
                      !.t1_drain = end]]

First(S) == IF S = {} THEN None ELSE CHOOSE i \in S : \A j \in S : i <= j

\* Mutant: the last delivered record of a message counts.
LatencyTable_Last ==
  {[id |-> m, sender |-> trace[First(Stamps("sent", m))].dev, peer |-> To[m],
    aired |-> trace[First(Stamps("sent", m))].way, sentAt |-> First(Stamps("sent", m)),
    deliveredAt |-> IF Stamps("delivered", m) = {} THEN None
                    ELSE CHOOSE i \in Stamps("delivered", m) : \A j \in Stamps("delivered", m) : j <= i,
    receivedAt |-> First(Stamps("recv", m))] :
     m \in {x \in Messages : Stamps("sent", x) # {}}}

(* latency_table: the first sent record of a message, its first ack, its first recv. *)
LatencyTable ==
  {[id |-> m, sender |-> trace[First(Stamps("sent", m))].dev, peer |-> To[m],
    aired |-> trace[First(Stamps("sent", m))].way, sentAt |-> First(Stamps("sent", m)),
    deliveredAt |-> First(Stamps("delivered", m)), receivedAt |-> First(Stamps("recv", m))] :
     m \in {x \in Messages : Stamps("sent", x) # {}}}

(* mesh_summary's impossible orderings: an arrival stamped before its sending *)
ImpossibleOrderings == {r \in LatencyTable : r.receivedAt # None /\ r.receivedAt < r.sentAt}

(* steps_table's counts of the messages sent in a run *)
SentIn(seg) == {r \in LatencyTable : seg.t0 <= r.sentAt /\ r.sentAt < seg.t1}
Tally(S) ==
  [sent |-> Cardinality(S),
   accepted |-> Cardinality({r \in S : r.aired}),
   recv |-> Cardinality({r \in S : r.receivedAt # None}),
   acked |-> Cardinality({r \in S : r.deliveredAt # None}),
   arrived |-> Cardinality({r \in S : r.receivedAt # None \/ r.deliveredAt # None})]
StepsRow(seg) == Tally(SentIn(seg))

(* pair_matrix: the same, per directed pair *)
PairRow(seg, p, q) == Tally({r \in SentIn(seg) : r.sender = p /\ r.peer = q})

(* steps_by_device_table: what a phone stamped in a run, and what became of what it sent; the *)
(* column `msg_arrived` counts the acks and `msg_acked` the receptions.                         *)
InRun(seg, kind, p) == {i \in DOMAIN trace : trace[i].kind = kind /\ trace[i].dev = p /\ seg.t0 <= i /\ i < seg.t1}
DeviceRow(seg, p) ==
  LET mine == {r \in SentIn(seg) : r.sender = p}
  IN [msg_sent |-> Cardinality(InRun(seg, "sent", p)),
      msg_recv |-> Cardinality(InRun(seg, "recv", p)),
      msg_arrived |-> Cardinality({r \in mine : r.deliveredAt # None}),
      msg_acked |-> Cardinality({r \in mine : r.receivedAt # None})]

(* The figures of the thesis window the send, from the dwell to the end of the drain. *)
SentRecords(seg) ==
  LET a == IF seg.t0_dwell # None THEN seg.t0_dwell ELSE seg.t0
  IN {i \in DOMAIN trace : trace[i].kind = "sent" /\ a <= i /\ i < seg.t1_drain}
SentIds(seg) == {trace[i].val : i \in SentRecords(seg)}
ActivePairs(seg) == {<<trace[i].dev, To[trace[i].val]>> : i \in SentRecords(seg)}

Named(kind) == {trace[i].val : i \in {j \in DOMAIN trace : trace[j].kind = kind}}

(* Outcomes of the messages a trial sent: failed, delivered direct, delivered through a buffer. *)
Outcome(seg) ==
  LET sent == SentIds(seg)
      delivered == sent \cap Named("recv")
  IN [sent |-> sent, failed |-> sent \ delivered, direct |-> delivered \ Named("convey"),
      conveyed |-> delivered \cap Named("convey"), acked |-> sent \cap Named("ackRx"),
      pairs |-> ActivePairs(seg)]

-----------------------------------------------------------------------------
(* Properties *)

Segs == ToSet(MarkerSegments)
Over == \A p \in Phones : phase[p] = "ended"
TrulySent(k) == {trace[i].val : i \in {j \in DOMAIN trace : trace[j].kind = "sent" /\ trace[j].trial = k}}

(* Every trial is one segment, whose windows nest and do not overlap the next one's; its run   *)
(* window holds no other trial's send and in the end all of its own, however late the slower   *)
(* phone stamps the run-end of the trial before.                                               *)
TrialsAreCutApart ==
  LET segs == Segs IN
  /\ \A s \in segs : s.t0 <= s.t1 /\ s.t1 <= s.t1_drain /\ s.t0_drain <= s.t1_drain
  /\ \A s, u \in segs : s.t0 < u.t0 => s.t1_drain <= u.t0 /\ s.label < u.label
  /\ \A s \in segs : {r.id : r \in SentIn(s)} \subseteq TrulySent(s.label)
  /\ Over => \A s \in segs : {r.id : r \in SentIn(s)} = TrulySent(s.label)

(* When every trial is over, the window of each holds just the messages sent in it. *)
WindowsHoldTheirSends ==
  Over => LET segs == Segs
          IN \A k \in 1..Trials : \E s \in segs : s.label = k /\ SentIds(s) = TrulySent(k)

(* It is so as long as no radio comes up in the middle of a dwell and no message is recorded *)
(* as sent twice.                                                                            *)
SteadyWindowsHold == ~regime.recover /\ ~regime.reseals => WindowsHoldTheirSends

(* The journey of a message is read from its first sending to the ack that came first, both by *)
(* the sender's clock; between two phones the table's order is the true one, except that an     *)
(* impossible ordering shows the clock of its recipient behind, never a message sent again; and *)
(* what the table calls arrived has arrived, what it does not, either has not or came too late  *)
(* for the recorders of both ends.                                                              *)
JourneysAreTrue ==
  \A r \in LatencyTable :
    LET arrived == r.receivedAt # None \/ r.deliveredAt # None
    IN /\ r.deliveredAt # None => r.sentAt < r.deliveredAt /\ trace[r.deliveredAt].way = "first"
       /\ r \in ImpossibleOrderings => To[r.id] = regime.behind
       /\ (r.receivedAt # None /\ r.deliveredAt # None /\ r.deliveredAt < r.receivedAt)
            => r.sender = regime.behind
       /\ arrived => copies[r.id] \in {"arrived", "acked"}
       /\ ~arrived => \/ copies[r.id] \notin {"arrived", "acked"}
                      \/ phase[To[r.id]] = "ended"

(* A message counted as delivered without the buffer came by a write of its sender, since no *)
(* copy was ever conveyed; one counted as acknowledged or delivered has come.                 *)
OutcomesAreTrue ==
  \A s \in Segs :
    LET o == Outcome(s)
    IN /\ \A m \in o.direct : \A i \in Stamps("recv", m) : trace[i].way = "direct"
       /\ \A m \in o.direct \cup o.conveyed \cup o.acked : copies[m] \in {"arrived", "acked"}
       /\ \A m \in o.failed : copies[m] \in {"arrived", "acked"} => phase[To[m]] = "ended"

(* A sender's acknowledged messages are among those that arrived: an ACK is proof of receipt. *)
AckedHaveArrived ==
  \A s \in Segs : \A p \in Phones :
    s.t1 # None => DeviceRow(s, p).msg_acked <= DeviceRow(s, p).msg_arrived
=============================================================================
