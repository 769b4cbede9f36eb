---------------------------- MODULE RingTestbed ----------------------------
(***************************************************************************)
(* The ring experiment: each phone freezes a ring from its own session     *)
(* table at launch (lib/src/testbed/field_runner.dart), its transport      *)
(* holds only the legs the stage's radius allows                           *)
(* (lib/src/testbed/ring_topology.dart, ble_transport_service.dart), and   *)
(* trace_server/ring_report.py and analyze.py read from the merged trace   *)
(* which ring was enforced, how well, and how the messages came.           *)
(* A stage is a settle and the trial it prepares; one message is sent in   *)
(* it.  A stamp is a record's place in the trace; the legs its phone truly *)
(* held after it are kept beside it, for the properties alone.             *)
(***************************************************************************)
EXTENDS Integers, SequencesExt, FiniteSetsExt

CONSTANTS
  Fleet,      \* the phones, as naturals in the order of their public keys
  RingSize,   \* the size the plan declares, at least 4
  Src, Dst,   \* the phones that talk
  Regimes,    \* see RegimeType
  None

RegimeType == [
  table : SUBSET SUBSET Fleet,  \* the pairs that have a session from the start
  warms : SUBSET SUBSET Fleet,  \* the pairs that may still get one
  launched : SUBSET Fleet,      \* the phones launched already
  dials : SUBSET (Fleet \X Fleet), \* who sights whom, and is elected to dial
  sends : SUBSET BOOLEAN,       \* a message is sent in every stage: is its write answered?
  fades : BOOLEAN,              \* legs may be lost
  radii : Seq(Nat),             \* the plan: the radius of each stage
  bounce : BOOLEAN,             \* a stage opens with a bounce of the radio
  slow : Fleet,                 \* the phone that opens every stage last
  legs : Nat]                   \* BOUND: how many legs come up in a run

VARIABLES
  table,    \* the pairs with a session
  ring,     \* the ring each phone froze; None: it has not been launched
  at,       \* the stage each phone has opened last; its gate is armed with that radius
  dwelling, \* the stage's sends are under way
  legs,     \* the legs that are up, with the ends that know whom they lead to
  ups,      \* how many have come up
  copies,   \* the message a phone has seen in this stage, and the hops it has made
  trace,
  regime

vars == <<table, ring, at, dwelling, legs, ups, copies, trace, regime>>

SessionRing(p) == {p} \cup {q \in Fleet : {p, q} \in table}

Init ==
  /\ regime \in Regimes
  /\ table = regime.table
  /\ ring = [p \in Fleet |-> IF p \in regime.launched THEN SessionRing(p) ELSE None]
  /\ at = [p \in Fleet |-> 0]
  /\ dwelling = FALSE /\ legs = {} /\ ups = 0
  /\ copies = [p \in Fleet |-> None]
  /\ trace = <<>>

-----------------------------------------------------------------------------
(* The ring and its gate (ring_topology.dart) *)

Launched == {p \in Fleet : ring[p] # None}
Index(x, R) == Cardinality({y \in R : y < x})
Shorter(i, j) == IF i < j THEN i ELSE j
RingDistance(i, j, n) ==
  LET direct == IF i < j THEN j - i ELSE i - j
  IN Shorter(direct, n - direct)

Verdict(p, q) ==
  CASE at[p] = 0 -> "inactive"
    [] p \notin ring[p] -> "selfOffRoster"
    [] q \notin ring[p] -> "offRoster"
    [] OTHER -> IF RingDistance(Index(p, ring[p]), Index(q, ring[p]), Cardinality(ring[p]))
                     <= regime.radii[at[p]]
                THEN "withinRadius" ELSE "outOfRadius"
Allows(p, q) == Verdict(p, q) \notin {"outOfRadius", "offRoster"}

-----------------------------------------------------------------------------
(* The records *)

OtherEnd(l, p) == IF l.central = p THEN l.peripheral ELSE l.central
PathOf(l, p) == <<IF l.central = p THEN "central" ELSE "peripheral", OtherEnd(l, p)>>
HeldBy(p, L) == {[peer |-> OtherEnd(l, p), leg |-> l.id] : l \in {x \in L : p \in {x.central, x.peripheral}}}

Blank(p, type) == [dev |-> p, type |-> type, ev |-> None, ring |-> {}, stage |-> None,
                   path |-> None, peer |-> None, leg |-> None, msg |-> None, hops |-> None, held |-> {}]
LinkRec(p, ev, l, peer, after) ==
  [Blank(p, "link") EXCEPT !.ev = ev, !.path = PathOf(l, p), !.leg = l.id,
                           !.peer = peer, !.held = HeldBy(p, after)]
NameOf(l, p) == IF p \in l.known THEN OtherEnd(l, p) ELSE None

(* Legs go down one after the other: the ends that prune it stamp that, and both ends the drop. *)
Falls(gone, rest, prunes) ==
  FlattenSeq([i \in DOMAIN gone |->
     LET l == gone[i]
         after == rest \cup {gone[j] : j \in (i + 1)..Len(gone)}
         by == SetToSortSeq({p \in Fleet : <<p, l>> \in prunes}, <)
     IN [j \in DOMAIN by |-> LinkRec(by[j], "ringPrune", l, OtherEnd(l, by[j]), after)]
        \o << LinkRec(l.central, "drop", l, NameOf(l, l.central), after),
              LinkRec(l.peripheral, "drop", l, NameOf(l, l.peripheral), after) >>])

-----------------------------------------------------------------------------
(* The runner *)

(* A handshake, while the operator warms the mesh up. *)
Pair(p, q) ==
  /\ p # q /\ {p, q} \in regime.warms \ table
  /\ \A x \in Fleet : at[x] = 0
  /\ table' = table \cup {{p, q}}
  /\ UNCHANGED <<ring, at, dwelling, legs, ups, copies, trace, regime>>

(* The ring is frozen before any step runs, and the launch refused unless it has the declared size. *)
Launch(p) ==
  /\ p \notin Launched /\ \A x \in Fleet : at[x] = 0
  /\ Cardinality(SessionRing(p)) = RingSize
  /\ ring' = [ring EXCEPT ![p] = SessionRing(p)]
  /\ UNCHANGED <<table, at, dwelling, legs, ups, copies, trace, regime>>

(* A stage: the marker with the ring, the bounce, the buffer and its seen-set cleared, the gate *)
(* armed with the stage's radius and the legs to the peers it disallows pruned.                  *)
Marker(p, k) == [Blank(p, "marker") EXCEPT !.ring = ring[p], !.stage = k, !.held = HeldBy(p, legs)]
Disallowed(p, k) ==
  {q \in ring[p] \ {p} : RingDistance(Index(p, ring[p]), Index(q, ring[p]), Cardinality(ring[p])) > regime.radii[k]}
Prunes(S, k) ==
  {<<p, l>> \in S \X legs : ~regime.bounce /\ p \in l.known /\ OtherEnd(l, p) \in Disallowed(p, k)}
Doomed(S, k) ==
  {l \in legs : \E p \in S : (regime.bounce /\ p \in {l.central, l.peripheral}) \/ <<p, l>> \in Prunes(S, k)}

OpenStage(S) ==
  /\ S # {} /\ ~dwelling
  /\ \E k \in 1..Len(regime.radii) :
       /\ \A p \in S : at[p] = k - 1
       /\ \A p \in Launched \ S : at[p] = (IF regime.slow \in S THEN k ELSE k - 1)
       /\ at' = [p \in Fleet |-> IF p \in S THEN k ELSE at[p]]
       /\ LET order == SetToSortSeq(S, <)
              gone == Doomed(S, k)
          IN /\ legs' = legs \ gone
             /\ trace' = trace \o [i \in DOMAIN order |-> Marker(order[i], k)]
                               \o Falls(SetToSeq(gone), legs \ gone, Prunes(S, k))
  /\ copies' = [p \in Fleet |-> IF p \in S THEN None ELSE copies[p]]
  /\ UNCHANGED <<table, ring, dwelling, ups, regime>>

OnTime == IF Launched = {regime.slow} THEN {} ELSE Launched \ {regime.slow}
Together(k) == Launched # {} /\ \A p \in Launched : at[p] = k

OpenDwell ==
  /\ ~dwelling
  /\ \E k \in 1..Len(regime.radii) :
       /\ Together(k)
       /\ ~\E i \in DOMAIN trace : trace[i].type = "run-end" /\ trace[i].stage = k
  /\ dwelling' = TRUE
  /\ UNCHANGED <<table, ring, at, legs, ups, copies, trace, regime>>

CloseDwell ==
  /\ dwelling /\ dwelling' = FALSE
  /\ LET order == SetToSortSeq(Launched, <)
     IN trace' = trace \o [i \in DOMAIN order |->
          [Blank(order[i], "run-end") EXCEPT !.stage = at[order[i]], !.held = HeldBy(order[i], legs)]]
  /\ UNCHANGED <<table, ring, at, legs, ups, copies, regime>>

-----------------------------------------------------------------------------
(* The transport *)

(* A dial is refused to a peer the gate does not allow; a bounced radio is dark until all are. *)
Dial(c, p) ==
  /\ <<c, p>> \in regime.dials /\ ups < regime.legs
  /\ at[c] > 0 /\ at[p] > 0 /\ Allows(c, p)
  /\ regime.bounce => at[c] = at[p]
  /\ ~\E l \in legs : l.central = c /\ l.peripheral = p
  /\ ups' = ups + 1
  /\ LET l == [id |-> ups + 1, central |-> c, peripheral |-> p, known |-> {}]
     IN /\ legs' = legs \cup {l}
        /\ trace' = trace \o << LinkRec(c, "connected", l, None, legs'), LinkRec(p, "connected", l, None, legs') >>
  /\ UNCHANGED <<table, ring, at, dwelling, copies, regime>>

\* Mutant: the gate is asked at the dial alone.
Identify_Ungated(l, p) ==
  /\ p \in {l.central, l.peripheral} \ l.known
  /\ legs' = (legs \ {l}) \cup {[l EXCEPT !.known = @ \cup {p}]}
  /\ trace' = Append(trace, LinkRec(p, "identified", l, OtherEnd(l, p), legs'))
  /\ UNCHANGED <<table, ring, at, dwelling, ups, copies, regime>>

(* The far end's ANNOUNCE names it; the gate takes the link if it refuses the peer. *)
Identify(l, p) ==
  /\ p \in {l.central, l.peripheral} \ l.known
  /\ LET q == OtherEnd(l, p)
         named == [l EXCEPT !.known = @ \cup {p}]
         kept == (legs \ {l}) \cup {named}
     IN IF Allows(p, q)
        THEN legs' = kept /\ trace' = Append(trace, LinkRec(p, "identified", l, q, kept))
        ELSE /\ legs' = legs \ {l}
             /\ trace' = trace \o << LinkRec(p, "identified", l, q, kept), LinkRec(p, "ringDrop", l, q, kept) >>
                               \o Falls(<<named>>, legs', {})
  /\ UNCHANGED <<table, ring, at, dwelling, ups, copies, regime>>

Close(l) ==
  /\ regime.fades
  /\ legs' = legs \ {l}
  /\ trace' = trace \o Falls(<<l>>, legs', {})
  /\ UNCHANGED <<table, ring, at, dwelling, ups, copies, regime>>

(* A message is sealed and put in the sender's own buffer before it is written; the stack may *)
(* never answer the write.                                                                   *)
MessageRec(p, dir, m, hops) ==
  [Blank(p, "message") EXCEPT !.ev = dir, !.msg = m, !.hops = hops, !.held = HeldBy(p, legs)]
Seal(answered) ==
  /\ answered \in regime.sends /\ dwelling /\ at[Src] > 0 /\ {Src, Dst} \in table /\ copies[Src] = None
  /\ ~\E i \in DOMAIN trace : trace[i].ev = "sealed" /\ trace[i].msg = at[Src]
  /\ trace' = trace \o << MessageRec(Src, "sealed", at[Src], None) >>
                    \o IF answered THEN << MessageRec(Src, "sent", at[Src], None) >> ELSE <<>>
  /\ copies' = [copies EXCEPT ![Src] = [msg |-> at[Src], hops |-> 0]]
  /\ UNCHANGED <<table, ring, at, dwelling, legs, ups, regime>>

(* A holder writes its copy on a leg it knows; a third party takes it into custody a hop on. *)
Convey(x, y) ==
  /\ copies[x] # None /\ x # Dst
  /\ ~\E c \in {copies[y]} \ {None} : c.msg = copies[x].msg
  /\ \E l \in legs : {l.central, l.peripheral} = {x, y} /\ x \in l.known
  /\ copies' = [copies EXCEPT ![y] = [copies[x] EXCEPT !.hops = IF y = Dst THEN @ ELSE @ + 1]]
  /\ trace' = IF y # Dst \/ \E i \in DOMAIN trace : trace[i].ev = "recv" /\ trace[i].msg = copies[x].msg
              THEN trace
              ELSE Append(trace, MessageRec(Dst, "recv", copies[x].msg, copies[x].hops))
  /\ UNCHANGED <<table, ring, at, dwelling, legs, ups, regime>>

Next ==
  \/ OpenStage(OnTime) \/ OpenStage(Launched \cap {regime.slow}) \/ OpenDwell \/ CloseDwell
  \/ \E p \in Fleet : Launch(p) \/ \E q \in Fleet : Pair(p, q) \/ Dial(p, q) \/ Convey(p, q)
  \/ \E l \in legs : Close(l) \/ \E p \in Fleet : Identify(l, p)
  \/ \E answered \in BOOLEAN : Seal(answered)

Spec == Init /\ [][Next]_vars

-----------------------------------------------------------------------------
(* The reports on the trace of the phones that uploaded: which ring.  stamps *)
(* gives for each of those the rings it stamped.                            *)

(* stamp_sequence: the rings of a device's markers, collapsed to transitions *)
StampSequence(d) ==
  FoldLeft(LAMBDA s, r : IF s # <<>> /\ Last(s) = r.ring THEN s ELSE Append(s, r.ring),
           <<>>, SelectSeq(trace, LAMBDA r : r.dev = d /\ r.type = "marker"))
Stamping(stamps) == {d \in DOMAIN stamps : stamps[d] # <<>>}
Changed(stamps) == {d \in Stamping(stamps) : Len(stamps[d]) > 1}
Votes(stamps, R) == Cardinality({d \in Stamping(stamps) : Last(stamps[d]) = R})

(* resolve_ring: the ring all stamped last; of several the modal, and of equals the larger; *)
(* with no stamp at all, whoever uploaded.                                                  *)
ResolveRing(stamps) ==
  LET variants == {Last(stamps[d]) : d \in Stamping(stamps)}
      best == {R \in variants : \A o \in variants :
                 \/ Votes(stamps, R) > Votes(stamps, o)
                 \/ Votes(stamps, R) = Votes(stamps, o) /\ Cardinality(R) >= Cardinality(o)}
  IN IF variants = {} THEN [ring |-> DOMAIN stamps, source |-> "guessed"]
     ELSE [ring |-> CHOOSE R \in best : TRUE,
           source |-> IF Cardinality(variants) = 1 THEN "stamped" ELSE "modal"]
Absent(stamps) == ResolveRing(stamps).ring \ DOMAIN stamps
Stray(stamps) == DOMAIN stamps \ ResolveRing(stamps).ring

(* The distance the report gives a pair; a phone outside the ring has none. *)
ReportedDistance(R, p, q) ==
  IF {p, q} \subseteq R THEN RingDistance(Index(p, R), Index(q, R), Cardinality(R)) ELSE None

\* Mutant: a phone of the ring without a trace goes unnoticed.
RingAgreement_Present(stamps) ==
  (IF Cardinality(UNION {ToSet(stamps[d]) : d \in Stamping(stamps)}) > 1 THEN {"disagreed"} ELSE {})
    \cup (IF Changed(stamps) # {} THEN {"changed"} ELSE {})

(* ring_agreement of analyze.py, from all the rings each device ever stamped *)
RingAgreement(stamps) ==
  LET seen == UNION {ToSet(stamps[d]) : d \in Stamping(stamps)}
  IN (IF Cardinality(seen) > 1 THEN {"disagreed"} ELSE {})
     \cup (IF Changed(stamps) # {} THEN {"changed"} ELSE {})
     \cup (IF Cardinality(seen) = 1 /\ \E R \in seen : R \ DOMAIN stamps # {} THEN {"absent"} ELSE {})

-----------------------------------------------------------------------------
(* The reports: the gate, the delivery, the losses *)

FirstOf(S) == CHOOSE i \in S : \A j \in S : i <= j
Trials == {k \in 1..Len(regime.radii) : \E i \in DOMAIN trace : trace[i].type = "marker" /\ trace[i].stage = k}
Opens(k) == FirstOf({i \in DOMAIN trace : trace[i].type = "marker" /\ trace[i].stage = k})
Closes(k) == FirstOf({i \in DOMAIN trace : trace[i].type = "run-end" /\ trace[i].stage = k}
                       \cup {i \in DOMAIN trace : trace[i].type = "marker" /\ trace[i].stage = k + 1}
                       \cup {Len(trace)})

(* The intervals a device held a leg, by its own records; the last record ends what is open. *)
Intervals(d) ==
  LET step(acc, t) ==
        LET r == trace[t]
            cur == {x \in acc.live : x.path = r.path}
        IN CASE r.ev \in {"connected", "identified"} ->
                       IF cur = {} THEN [acc EXCEPT !.live = @ \cup {[path |-> r.path, t0 |-> t, peer |-> r.peer]}]
                       ELSE IF r.peer = None THEN acc
                       ELSE [acc EXCEPT !.live = (@ \ cur) \cup {[x EXCEPT !.peer = r.peer] : x \in cur}]
                  [] r.ev \in {"drop", "ringPrune", "duplicateLeg"} ->
                       [live |-> acc.live \ cur,
                        ivs |-> acc.ivs \cup {[t0 |-> x.t0, t1 |-> t, path |-> x.path,
                                               peer |-> IF x.peer = None THEN r.peer ELSE x.peer] : x \in cur}]
                  [] OTHER -> acc
      own == SelectSeq([t \in DOMAIN trace |-> t], LAMBDA t : trace[t].dev = d /\ trace[t].type = "link")
      end == FoldLeft(step, [live |-> {}, ivs |-> {}], own)
  IN end.ivs \cup {[t0 |-> x.t0, t1 |-> Len(trace), path |-> x.path, peer |-> x.peer] : x \in end.live}

\* Mutant: the legs to one peer are added up.
LiveTime_Summed(intervals, peer, a, b) ==
  FoldSet(LAMBDA v, n : n + (IF v.t1 < b THEN v.t1 ELSE b) - (IF v.t0 > a THEN v.t0 ELSE a), 0,
          {w \in intervals : w.peer = peer /\ w.t0 < b /\ w.t1 > a})

(* live_ms: how long within [a, b) a device held a leg to a peer, its legs to it taken together *)
LiveTime(intervals, peer, a, b) ==
  LET clipped == {<<IF v.t0 > a THEN v.t0 ELSE a, IF v.t1 < b THEN v.t1 ELSE b>> :
                    v \in {w \in intervals : w.peer = peer /\ w.t0 < b /\ w.t1 > a}}
      sorted == SetToSortSeq(clipped, LAMBDA v, w : v[1] < w[1] \/ (v[1] = w[1] /\ v[2] < w[2]))
      add(acc, v) == IF v[2] <= acc.cur THEN acc
                     ELSE [got |-> acc.got + v[2] - (IF v[1] > acc.cur THEN v[1] ELSE acc.cur), cur |-> v[2]]
  IN FoldLeft(add, [got |-> 0, cur |-> a], sorted).got

(* A trial whose radius forbids no pair tests nothing; slack is the time a prune may take. *)
Forbidden(R, r) == {pq \in R \X R : ReportedDistance(R, pq[1], pq[2]) > r}
GateVerdict(held, R, k, slack) ==
  LET forbidden == Forbidden(R, regime.radii[k])
  IN IF forbidden = {} THEN "untested"
     ELSE IF \E pq \in forbidden : LiveTime(held[pq[1]], pq[2], Opens(k), Closes(k)) > slack THEN "breach"
     ELSE "clean"

(* The messages sealed and sent in a trial between phones of the ring, by what became of them *)
SegOf(t) == {k \in Trials : Opens(k) <= t /\ t < Closes(k)}
Stamped(dir) == {trace[i].msg : i \in {j \in DOMAIN trace : trace[j].ev = dir}}
SealedIn(k) == {trace[i].msg : i \in {j \in DOMAIN trace : trace[j].ev = "sealed" /\ k \in SegOf(j)}}
FirstRecv(m) == trace[FirstOf({i \in DOMAIN trace : trace[i].ev = "recv" /\ trace[i].msg = m})]
Delivery(R, k) ==
  LET tot == IF {Src, Dst} \subseteq R THEN SealedIn(k) \cap Stamped("sent") ELSE {}
      arr == tot \cap Stamped("recv")
  IN [tot |-> tot, arr |-> arr, relayed |-> {m \in arr : FirstRecv(m).hops > 0}]
Hung(R) == IF {Src, Dst} \subseteq R THEN Stamped("sealed") \ Stamped("sent") ELSE {}
Lost(R) == IF {Src, Dst} \subseteq R THEN (Stamped("sealed") \cap Stamped("sent")) \ Stamped("recv") ELSE {}

-----------------------------------------------------------------------------
(* Properties *)

(* A ring the trace shows no problem with is the one every phone of it enforces, however many *)
(* others were launched and whoever uploaded; the report that calls it stamped and whole sees *)
(* no problem either; and its distances are those each phone's own gate goes by.               *)
RingIsReadTrue ==
  LET all == [d \in Fleet |-> StampSequence(d)]
  IN \A U \in SUBSET {r.dev : r \in ToSet(trace)} :
       LET stamps == [d \in U |-> all[d]]
           found == ResolveRing(stamps)
           trouble == RingAgreement(stamps)
       IN Stamping(stamps) # {} =>
            /\ trouble = {} => \A p \in found.ring : at[p] > 0 /\ ring[p] = found.ring
            /\ trouble = {} <=> (found.source = "stamped" /\ Absent(stamps) = {} /\ Changed(stamps) = {})
            /\ Stray(stamps) # {} => found.source = "modal"
            /\ \A p \in U \cap found.ring : (at[p] > 0 /\ ring[p] = found.ring) =>
                 {q \in found.ring : Verdict(p, q) = "outOfRadius"}
                   = {q \in found.ring : <<p, q>> \in Forbidden(found.ring, regime.radii[at[p]])}

(* The time a pair held a leg inside a trial is the true one, however many legs it had; a trial *)
(* is called untested just when its radius reaches round half the ring.                          *)
TrulyHeld(p) ==
  LET named == {trace[i].leg : i \in {j \in DOMAIN trace : trace[j].dev = p /\ trace[j].ev = "identified"}}
      held[t \in DOMAIN trace] ==
        IF trace[t].dev = p THEN trace[t].held ELSE IF t = 1 THEN {} ELSE held[t - 1]
  IN [t \in DOMAIN trace |-> {h.peer : h \in {x \in held[t] : x.leg \in named}}]
GateIsReadTrue ==
  LET held == [p \in Fleet |-> Intervals(p)]
      truth == [p \in Fleet |-> TrulyHeld(p)]
  IN \A k \in Trials : \A R \in {ring[p] : p \in Launched} :
       /\ (GateVerdict(held, R, k, 0) = "untested") <=> (regime.radii[k] >= Cardinality(R) \div 2)
       /\ \A p \in R : \A q \in R \ {p} :
            LiveTime(held[p], q, Opens(k), Closes(k)) =
              Cardinality({t \in Opens(k)..(Closes(k) - 1) : q \in truth[p][t]})

(* THE result: where the fleet agrees on the ring, what is counted in a trial between phones     *)
(* further apart than its radius came through a relay; a message that came is counted in its     *)
(* trial, and as relayed just when it was, unless its write was never answered; none of it lost. *)
DeliveryIsReadTrue ==
  \A R \in {ring[p] : p \in Launched} : (\A p \in Launched : ring[p] = R) =>
    /\ \A k \in Trials : ({Src, Dst} \subseteq R /\ ReportedDistance(R, Src, Dst) > regime.radii[k]) =>
         Delivery(R, k).arr \subseteq Delivery(R, k).relayed
    /\ \A got \in {copies[Dst]} \ {None} : {Src, Dst} \subseteq R =>
         LET row == Delivery(R, got.msg)
         IN /\ got.msg \in row.arr \cup Hung(R)
            /\ got.msg \in row.arr => (got.msg \in row.relayed <=> got.hops > 0)
            /\ got.msg \notin Lost(R)

(* The report's account of a wedged write: the packet is destroyed, its message never arrives. *)
HungNeverArrive == \A R \in {ring[p] : p \in Launched} : Hung(R) \cap Stamped("recv") = {}

(* No phone keeps a leg it knows to a peer its gate refuses. *)
GateHolds == \A l \in legs : \A p \in l.known : Allows(p, OtherEnd(l, p))
=============================================================================
