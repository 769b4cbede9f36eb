------------------------------ MODULE LinkTrace ------------------------------
(***************************************************************************)
(* The legs between phones as the transport records them, end by end       *)
(* (lib/src/transport/ble_transport_service.dart), and how                 *)
(* trace_server/analyze.py replays the records into degrees, stages and    *)
(* sessions.  A leg has two ends, each with a path id of its own, which    *)
(* names the role and the far phone's rotating address.  A record's stamp  *)
(* is its place in the trace; the ends its phone truly held after it are   *)
(* kept beside it, for the properties alone.                               *)
(***************************************************************************)
EXTENDS Trials, FiniteSetsExt

CONSTANT LinkRegimes   \* see LinkRegimeType

LinkRegimeType == [
  uploads : SUBSET Phones, \* whose records are in the merged trace
  legs : Nat,          \* BOUND: how many legs come up in a run
  bounces : BOOLEAN,   \* the step opens with a bounce of every radio
  redials : BOOLEAN,   \* a phone may dial a new address of a peer it has a leg to
  silent : BOOLEAN]    \* a leg may die before it is ready, or degraded, which leaves no record

ASSUME LinkAssumption == LinkRegimes \subseteq LinkRegimeType

VARIABLES
  ends,       \* the ends that are up, of the phones that upload
  addr,       \* the address each phone advertises
  opened,     \* how many legs have come up
  paired,     \* the <<phone, peer>> whose phone has completed a session
  radio,      \* warm (not bounced yet), off, on
  links,      \* the records of all phones, in the order of their stamps
  linkRegime

linkVars == <<ends, addr, opened, paired, radio, links, linkRegime>>

Path(e) == <<e.role, e.peer, e.addr>>   \* analyze.py reads no more of it than its role
EndsOf(p, S) == {e \in S : e.dev = p}

LinkInit ==
  /\ ends = {} /\ opened = 0 /\ paired = {}
  /\ addr = [p \in Phones |-> 0]
  /\ linkRegime \in LinkRegimes
  /\ radio = [p \in Phones |-> IF linkRegime.bounces THEN "warm" ELSE "on"]
  /\ links = <<>>

Link(p, ev, path, peer, after) ==
  [dev |-> p, ev |-> ev, path |-> path, peer |-> peer, held |-> EndsOf(p, after)]
NamedPeer(e) == IF e.stage = "known" THEN e.peer ELSE None

-----------------------------------------------------------------------------
(* The transport *)

(* A dial succeeds: both ends are up, and both stamp it; neither knows whom it reached. *)
Connect(c, p) ==
  /\ c # p /\ radio[c] # "off" /\ radio[p] # "off" /\ opened < linkRegime.legs
  /\ linkRegime.redials \/
       ~\E e \in ends : <<e.dev, e.role, e.peer>> \in {<<c, "central", p>>, <<p, "peripheral", c>>}
  /\ LET near == [dev |-> c, role |-> "central", peer |-> p, addr |-> addr[p], stage |-> "up"]
         far == [dev |-> p, role |-> "peripheral", peer |-> c, addr |-> addr[c], stage |-> "up"]
           up == SelectSeq(<<near, far>>, LAMBDA e : e.dev \in linkRegime.uploads)
     IN /\ up # <<>>
        /\ ~\E e \in ends : <<e.dev, Path(e)>> \in {<<c, Path(near)>>, <<p, Path(far)>>}
        /\ ends' = ends \cup ToSet(up)
        /\ links' = links \o [i \in DOMAIN up |-> Link(up[i].dev, "gattConnected", Path(up[i]), None, ends')]
  /\ opened' = opened + 1
  /\ UNCHANGED <<addr, paired, radio, linkRegime>>

Advance(e, stage, records) ==
  /\ ends' = (ends \ {e}) \cup {[e EXCEPT !.stage = stage]}
  /\ links' = links \o records
  /\ UNCHANGED <<addr, opened, radio, linkRegime>>

(* GATT-usable: the `connected` stage, still without a peer. *)
Ready(e) ==
  /\ e.stage = "up"
  /\ Advance(e, "ready", <<Link(e.dev, "connected", Path(e), None, ends')>>)
  /\ UNCHANGED paired

(* A verified ANNOUNCE names the far end.  Where a ready leg of the role already leads to it, *)
(* the new one is a duplicate and is closed.                                                  *)
Duplicated(e) == \E o \in ends \ {e} : <<o.dev, o.role, NamedPeer(o)>> = <<e.dev, e.role, e.peer>>
Identify(e) ==
  /\ e.stage = "ready"
  /\ IF Duplicated(e)
     THEN /\ ends' = ends \ {e}
          /\ links' = links \o << Link(e.dev, "identified", Path(e), e.peer, ends),
                                  Link(e.dev, "duplicateLeg", Path(e), e.peer, ends),
                                  Link(e.dev, "drop", Path(e), e.peer, ends') >>
          /\ UNCHANGED <<addr, opened, radio, linkRegime>>
     ELSE Advance(e, "known", <<Link(e.dev, "identified", Path(e), e.peer, ends')>>)
  /\ UNCHANGED paired

(* The handshake completes at this end. *)
Session(e) ==
  /\ e.stage = "known" /\ <<e.dev, e.peer>> \notin paired
  /\ paired' = paired \cup {<<e.dev, e.peer>>}
  /\ links' = Append(links, Link(e.dev, "session", Path(e), e.peer, ends))
  /\ UNCHANGED <<ends, addr, opened, radio, linkRegime>>

(* An end goes down: a drop is stamped only from the ready state, so not by one that never *)
(* got there, nor by one that degraded first.                                              *)
Close(e) ==
  /\ ends' = ends \ {e}
  /\ \/ e.stage # "up" /\ links' = Append(links, Link(e.dev, "drop", Path(e), NamedPeer(e), ends'))
     \/ linkRegime.silent /\ UNCHANGED links
  /\ UNCHANGED <<addr, opened, paired, radio, linkRegime>>

Rotate(p) ==
  /\ addr[p] < opened /\ opened < linkRegime.legs
  /\ addr' = [addr EXCEPT ![p] = @ + 1]
  /\ UNCHANGED <<ends, opened, paired, radio, links, linkRegime>>

(* The reset: the app states the death of the legs it knows the peer of.  BOUND: every radio *)
(* is down before one comes up; a phone's sessions go with the radio.                        *)
RadioOff(p) ==
  /\ radio[p] = "warm"
  /\ LET gone == SetToSeq({e \in EndsOf(p, ends) : e.stage = "known"})
         rest == ends \ EndsOf(p, ends)
     IN /\ ends' = rest
        /\ links' = links \o [i \in DOMAIN gone |->
                      Link(p, "drop", Path(gone[i]), gone[i].peer,
                           rest \cup {gone[j] : j \in (i + 1)..Len(gone)})]
  /\ radio' = [radio EXCEPT ![p] = "off"]
  /\ paired' = {pq \in paired : pq[1] # p}
  /\ UNCHANGED <<addr, opened, linkRegime>>

RadioOn(p) ==
  /\ radio[p] = "off" /\ \A q \in Phones : radio[q] # "warm"
  /\ radio' = [radio EXCEPT ![p] = "on"]
  /\ links' = IF p \in linkRegime.uploads THEN Append(links, Link(p, "bt-on", None, None, ends)) ELSE links
  /\ UNCHANGED <<ends, addr, opened, paired, linkRegime>>

LinkNext ==
  \/ \E p \in Phones : Rotate(p) \/ RadioOff(p) \/ RadioOn(p) \/ \E q \in Phones : Connect(p, q)
  \/ \E e \in ends : Ready(e) \/ Identify(e) \/ Session(e) \/ Close(e)

LinkSpec == LinkInit /\ [][LinkNext]_linkVars

-----------------------------------------------------------------------------
(* The analysis: degrees *)

Now == Len(links)
Final(S) == CHOOSE i \in S : \A j \in S : j <= i
Earliest(S) == IF S = {} THEN None ELSE CHOOSE i \in S : \A j \in S : i <= j
Opens == {"connected", "gattConnected"}

(* Whom a path leads to is learned from any record that names both: link_events_table takes *)
(* the last of them, of any device; the degree figure its own device's last `identified`.   *)
PathPeer(path, devs, evs) ==
  LET S == {i \in 1..Now : /\ links[i].path = path /\ links[i].peer # None
                           /\ links[i].dev \in devs /\ links[i].ev \in evs}
  IN IF S = {} THEN None ELSE links[Final(S)].peer
AnyStage == {"gattConnected", "connected", "identified", "session", "duplicateLeg", "drop"}
Peers(S, devs, evs) == {PathPeer(x, devs, evs) : x \in S} \ {None}

\* Mutant: one leg per peer, whatever its role.
Slotted_AnyRole(acc, r, who) == {s \in acc.slot : <<s[1], s[2]>> = <<r.dev, who>>}

(* link_events_table: the paths a device holds, where a new path for a peer and role supersedes *)
(* the one in that slot; a row counts the distinct peers.                                       *)
Slotted(acc, r, who) == {s \in acc.slot : <<s[1], s[2], s[3]>> = <<r.dev, who, r.path[1]>>}
Hold(acc, t) ==
  LET r == links[t]
      who == IF r.peer # None THEN r.peer ELSE PathPeer(r.path, Phones, AnyStage)
      prev == IF who = None THEN {} ELSE Slotted(acc, r, who)
      kept == acc.held[r.dev] \ {s[4] : s \in prev}
      a == CASE r.ev \in Opens ->
                  [acc EXCEPT !.held[r.dev] = kept \cup {r.path},
                              !.slot = IF who = None THEN @
                                       ELSE (@ \ prev) \cup {<<r.dev, who, r.path[1], r.path>>}]
             [] r.ev = "drop" ->
                  [acc EXCEPT !.held[r.dev] = @ \ {r.path},
                              !.slot = @ \ {s \in prev : s[4] = r.path}]
             [] OTHER -> acc
  IN IF r.ev \in Opens \cup {"drop"}
     THEN [a EXCEPT !.rows = Append(@, [t |-> t, device |-> r.dev, peer |-> who,
                        links_self |-> Cardinality(Peers(a.held[r.dev], Phones, AnyStage))])]
     ELSE a
Holding == [held |-> [p \in Phones |-> {}], slot |-> {}, rows |-> <<>>]
LinkEvents == FoldLeftDomain(Hold, Holding, links).rows

(* The level of a device at an instant: its last row's. *)
Level(rows, d, t) ==
  LET S == {i \in DOMAIN rows : rows[i].device = d /\ rows[i].t <= t}
  IN IF S = {} THEN 0 ELSE rows[Final(S)].links_self

(* _links_held_mean, as the integral its mean divides: each level holds until the next row. *)
LinksHeldArea(rows, d, t0, t1) ==
  LET inside == SelectSeq(rows, LAMBDA r : r.device = d /\ t0 < r.t /\ r.t < t1)
      end == FoldLeft(LAMBDA a, r : [area |-> a.area + a.level * (r.t - a.cur),
                                     cur |-> r.t, level |-> r.links_self],
                      [area |-> 0, cur |-> t0, level |-> Level(rows, d, t0)], inside)
  IN end.area + end.level * (t1 - end.cur)

(* The degree figure replays the records once more: paths named by an `identified` alone, and *)
(* each held until its own drop.                                                               *)
Degree(acc, t) ==
  LET r == links[t]
      a == CASE r.ev \in Opens -> [acc EXCEPT !.live[r.dev] = @ \cup {r.path}]
             [] r.ev = "drop" -> [acc EXCEPT !.live[r.dev] = @ \ {r.path}]
             [] OTHER -> acc
  IN IF r.ev \in Opens \cup {"drop"}
     THEN [a EXCEPT !.rows = Append(@, [t |-> t, device |-> r.dev,
                        links_self |-> Cardinality(Peers(a.live[r.dev], {r.dev}, {"identified"}))])]
     ELSE a
DegreeRows == FoldLeftDomain(Degree, [live |-> [p \in Phones |-> {}], rows |-> <<>>], links).rows

-----------------------------------------------------------------------------
(* The analysis: stages, sessions and the dial grid *)

(* steps_table: when a step first reaches a stage, and the radio-up it is measured from. *)
RadioUps(t0, t1) == {i \in t0..(t1 - 1) : links[i].ev = "bt-on"}
StageAt(stage, t0, t1) ==
  LET ups == RadioUps(t0, t1)
  IN Earliest({i \in t0..(t1 - 1) : links[i].ev = stage /\ (ups # {} => i >= Earliest(ups))})
StageBase(hit, t0, t1) == Final({t0} \cup {u \in RadioUps(t0, t1) : u <= hit})

(* establishment_time.py: the sessions a phone joined with, from the last radio-up before its *)
(* first session; and how many of the standing peers it never reached.                        *)
JoinRow(d, t0, t1) ==
  LET ons == {i \in RadioUps(t0, t1) : links[i].dev = d}
      sess == {i \in t0..(t1 - 1) : links[i].dev = d /\ links[i].ev = "session"}
      pre == {i \in ons : sess = {} \/ i <= Earliest(sess)}
      bt_on == Final(IF pre = {} THEN ons ELSE pre)
      after == {i \in sess : bt_on <= i}
      formed == {Earliest({i \in after : links[i].peer = q}) : q \in {links[i].peer : i \in after}}
  IN IF ons = {} THEN None
     ELSE [bt_on |-> bt_on, formed |-> formed, missing |-> Cardinality(Phones) - 1 - Cardinality(formed)]

\* Mutant: each end counts a session of its own.
Pair_Directed(r) == <<r.dev, r.peer>>

(* _clique_session_pair_times: the earlier end's stamp of every unordered pair. *)
Pair(r) == {r.dev, r.peer}
SessionStamps == {i \in 1..Now : links[i].ev = "session"}
PairTimes == {Earliest({i \in SessionStamps : Pair(links[i]) = pq}) : pq \in {Pair(links[i]) : i \in SessionStamps}}
SessionsAt(t) == Cardinality({u \in PairTimes : u <= t})

(* dial_probe_table: a phone's window, the central legs that came up in it, and how far each got. *)
Bound(d, path) ==
  LET i == Earliest({k \in 1..Now : links[k].dev = d /\ links[k].path = path /\ links[k].peer # None})
  IN IF i = None THEN None ELSE links[i].peer
OfPath(d, path, ev) == {i \in 1..Now : links[i].dev = d /\ links[i].path = path /\ links[i].ev = ev}
Live(d, path) ==   \* [connected, drop), the drop of a leg still up being beyond the trace
  LET opensAt(x) == \A y \in OfPath(d, path, "connected") :
                      y < x => \E z \in OfPath(d, path, "drop") : y < z /\ z < x
      closes(x) == Earliest({z \in OfPath(d, path, "drop") : x < z} \cup {Now + 1})
  IN {<<x, closes(x)>> : x \in {y \in OfPath(d, path, "connected") : opensAt(y)}}
Established(d, t0, t1) ==
  {i \in t0..(t1 - 1) : links[i].dev = d /\ links[i].ev = "gattConnected" /\ links[i].path[1] = "central"}
Converged(d, i, t1) ==
  LET target == links[i].path
      peer == Bound(d, target)
      own == {v \in Live(d, target) : v[1] <= i /\ i < v[2]}
      c_end == IF own = {} THEN Now + 1 ELSE (CHOOSE v \in own : TRUE)[2]
      inbound == {x \in {links[k].path : k \in {j \in 1..Now : links[j].dev = d}} \ {None} :
                    x[1] = "peripheral" /\ Bound(d, x) = peer}
      cands == {c \in {<<IF v[1] > i THEN v[1] ELSE i, v[2]>> : v \in UNION {Live(d, x) : x \in inbound}} :
                  c[1] < c[2] /\ c[1] < c_end}
      best == Earliest({c[1] : c \in cands})
  IN IF peer = None \/ best = None THEN None ELSE IF best < t1 THEN best ELSE None
DialRow(d, i, t1) ==
  LET target == links[i].path
      after == {k \in i..(t1 - 1) : links[k].dev = d}
      peer == Bound(d, target)
  IN [establish |-> i,
      identified |-> Earliest({k \in after : links[k].ev = "identified" /\ links[k].path = target}),
      session |-> Earliest({k \in after : links[k].ev = "session"
                              /\ (links[k].path = target \/ (peer # None /\ links[k].peer = peer))}),
      converged |-> Converged(d, i, t1)]

-----------------------------------------------------------------------------
(* Properties *)

(* What a device truly held after a record, of what the trace names at all *)
TrulyHeld(t, devs) == Peers({Path(e) : e \in links[t].held}, devs, AnyStage)
TrueLevel(d, t, devs) ==
  LET S == {i \in 1..t : links[i].dev = d}
  IN IF S = {} THEN 0 ELSE Cardinality(TrulyHeld(Final(S), devs))

(* No peer a device has a leg to is missing from its count. *)
LinksHeldCover ==
  \A r \in ToSet(LinkEvents) : r.links_self >= TrueLevel(r.device, r.t, Phones)

(* Where every leg dies with a record and none is opened beside another, the count, and the mean *)
(* over a window, are the true ones, whether rows open the window or not; and the figure, which  *)
(* replays the trace in its own way, has the same mean.                                          *)
HeldMeansAreTrue ==
  (~linkRegime.silent /\ ~linkRegime.redials) =>
    \A d \in linkRegime.uploads :
      LET level(devs) == [t \in 1..Now |-> TrueLevel(d, t, devs)]
          tables == {<<LinkEvents, level(Phones)>>, <<DegreeRows, level({d})>>}
      IN \A table \in tables : \A w \in {<<1, t + 1>> : t \in 1..Now} \cup {<<t, Now + 1>> : t \in 1..Now} :
           LinksHeldArea(table[1], d, w[1], w[2]) = FoldFunctionOnSet(+, 0, table[2], w[1]..(w[2] - 1))

(* Without a duplicate leg the count never misses a peer, whatever dies unseen. *)
SingleLegsAreCovered == ~linkRegime.redials => LinksHeldCover

(* The latency of a stage runs from the instant the radios of both ends were up; and the join *)
(* figures have every peer a phone has paired with since its own radio came up, and no other.  *)
StagesAreFromRadioUp ==
  (linkRegime.bounces /\ linkRegime.uploads = Phones) =>
   /\ \A d \in Phones :
       LET row == JoinRow(d, 1, Now + 1)
       IN row # None =>
            /\ {links[i].peer : i \in row.formed} = {pq[2] : pq \in {x \in paired : x[1] = d}}
            /\ row.missing = Cardinality({q \in Phones \ {d} : <<d, q>> \notin paired})
   /\ \A stage \in {"gattConnected", "connected", "identified", "session"} :
      LET hit == StageAt(stage, 1, Now + 1)
          ups(d) == {u \in 1..Now : links[u].dev = d /\ links[u].ev = "bt-on"}
      IN (hit # None /\ RadioUps(1, Now + 1) # {}) =>
           LET both == UNION {ups(d) : d \in {links[hit].dev, links[hit].path[2]}}
           IN both # {} /\ StageBase(hit, 1, Now + 1) = Final(both)

(* A message sent at an instant is filed under the pairs that had a session by then. *)
SessionsAreCounted ==
  (~linkRegime.bounces /\ linkRegime.uploads = Phones) => SessionsAt(Now) = Cardinality({{pq[1], pq[2]} : pq \in paired})

(* The stages of an establishment follow it in their order, and stand for the leg it is. *)
EstablishmentsAreTrue ==
  \A d \in Phones : \A i \in Established(d, 1, Now + 1) :
    LET row == DialRow(d, i, Now + 1) IN
    /\ row.identified # None => row.establish < row.identified
    /\ row.session # None => row.establish < row.session /\ links[row.session].peer = links[i].path[2]

(* The instant of convergence finds the phone with both legs to the peer. *)
ConvergedHoldsBoth ==
  \A d \in Phones : \A i \in Established(d, 1, Now + 1) :
    LET c == Converged(d, i, Now + 1)
    IN c # None => \E e \in links[Final({k \in 1..c : links[k].dev = d})].held : Path(e) = links[i].path
=============================================================================
