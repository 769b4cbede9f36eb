------------------------------ MODULE SessionCap ------------------------------
(***************************************************************************)
(* How many Noise sessions a phone should keep: the cost of every cap, as  *)
(* analyze.py (session_cap) reads it from the phone's own sightings and    *)
(* contact_trace.py from a published contact trace.  Beside the trace, a   *)
(* table of each size is kept as a phone would keep it, least recently met *)
(* peer out first: what the figures claim to price.                        *)
(***************************************************************************)
EXTENDS Naturals, Sequences, FiniteSets, SequencesExt

CONSTANTS
  Contacts,    \* the peers the phone meets
  Gap,         \* ENCOUNTER_GAP_S: a longer silence starts a new encounter
  Caps,        \* the candidate sizes
  Missing,     \* r_miss: the rates of packets that open under no session
  TFail,       \* the cost of one failed open
  THandshake,  \* the cost of one handshake
  MaxTime      \* BOUND: the moments of the trace

VARIABLES
  time,        \* the moment
  trace,       \* the ANNOUNCEs heard: [t, peer], in the order of their stamps
  met,         \* the encounters, as they happen
  table,       \* cap -> the peers with a session, the last met first
  found        \* cap -> the encounters that found the session of their peer still there

capVars == <<time, trace, met, table, found>>

CapInit ==
  /\ time = 0
  /\ trace = <<>> /\ met = <<>>
  /\ table = [n \in Caps |-> <<>>]
  /\ found = [n \in Caps |-> 0]

Lesser(a, b) == IF a < b THEN a ELSE b

(* The peer was out of earshot for longer than Gap, or is new. *)
Anew(p) == ~\E i \in DOMAIN trace : trace[i].peer = p /\ time + 1 - trace[i].t <= Gap

(* Of an encounter, a table forgets the peer met the longest ago, if it is full. *)
Kept(sessions, p, n) ==
  LET line == <<p>> \o Remove(sessions, p)
  IN SubSeq(line, 1, Lesser(n, Len(line)))

(* A verified ANNOUNCE: onPeerAnnounced stamps `discovered`, whether a session stands or not. *)
Discovered(p) ==
  /\ time < MaxTime
  /\ time' = time + 1
  /\ trace' = Append(trace, [t |-> time + 1, peer |-> p])
  /\ IF Anew(p)
     THEN /\ met' = Append(met, p)
          /\ found' = [n \in Caps |-> found[n] + IF p \in ToSet(table[n]) THEN 1 ELSE 0]
          /\ table' = [n \in Caps |-> Kept(table[n], p, n)]
     ELSE UNCHANGED <<met, table, found>>

Silence ==
  /\ time < MaxTime
  /\ time' = time + 1
  /\ UNCHANGED <<trace, met, table, found>>

CapNext == Silence \/ \E p \in Contacts : Discovered(p)
CapSpec == CapInit /\ [][CapNext]_capVars

-----------------------------------------------------------------------------
(* The analysis *)

(* A sighting more than Gap after the last of the same peer starts an encounter. *)
EncounterSequence(rows) ==
  FoldLeft(LAMBDA acc, r :
             [last |-> [acc.last EXCEPT ![r.peer] = {r.t}],
              order |-> IF \E prev \in acc.last[r.peer] : r.t - prev <= Gap THEN acc.order
                        ELSE Append(acc.order, r.peer)],
           [last |-> [p \in Contacts |-> {}], order |-> <<>>], rows).order

(* Stack distances: at every recurrence, the distinct others since the last occurrence. *)
Distances(seq) ==
  LET prev(i) == {j \in 1..(i - 1) : seq[j] = seq[i] /\ \A k \in (j + 1)..(i - 1) : seq[k] # seq[i]}
  IN {<<i, Cardinality({seq[k] : k \in (j + 1)..(i - 1)})>> :
        <<i, j>> \in {ij \in (DOMAIN seq) \X (DOMAIN seq) : ij[2] \in prev(ij[1])}}

\* Mutant: a table of n is taken to hold the peer met n others ago.
HitRate_Upto(seq, n) ==
  [hits |-> Cardinality({d \in Distances(seq) : d[2] <= n}), of |-> Cardinality(Distances(seq))]

(* The hit rate at a cap, as a fraction; without a recurrence it is nought. *)
HitRate(seq, n) ==
  [hits |-> Cardinality({d \in Distances(seq) : d[2] < n}), of |-> Cardinality(Distances(seq))]

(* encounters x (1 - hit), scaled by the fraction's denominator *)
Scale(seq) == IF Distances(seq) = {} THEN 1 ELSE Cardinality(Distances(seq))
Handshakes(seq, n) == Len(seq) * (Scale(seq) - HitRate(seq, n).hits)
Walked(seq, n) == Lesser(n, Cardinality(ToSet(seq)))

(* A row of session_cap; the costs are of the whole trace, scaled. *)
CostOf(seq, n, miss) == miss * Walked(seq, n) * TFail * Scale(seq) + Handshakes(seq, n) * THandshake
Cheapest(seq, miss) ==
  CHOOSE n \in Caps : /\ \A o \in Caps : CostOf(seq, n, miss) <= CostOf(seq, o, miss)
                      /\ \A o \in Caps : o < n => CostOf(seq, n, miss) < CostOf(seq, o, miss)

(* contact_trace.py: a file tells every moment of a contact, its two ends, or its beginning. *)
Nearby(rows, r) == {o \in ToSet(rows) : o.peer = r.peer /\ o # r}
Begins(rows, r) == ~\E o \in Nearby(rows, r) : o.t < r.t /\ r.t - o.t <= Gap
Ends(rows, r) == ~\E o \in Nearby(rows, r) : r.t < o.t /\ o.t - r.t <= Gap
LoadContacts(rows, format) ==
  SelectSeq(rows, LAMBDA r : \/ format = "moments"
                             \/ Begins(rows, r)
                             \/ format = "intervals" /\ Ends(rows, r))

(* cap_table takes a cap over the best so far if it is cheaper. *)
BestHere(seq, miss) ==
  LET caps == SetToSortSeq(Caps, <)
  IN FoldLeft(LAMBDA best, n : IF CostOf(seq, n, miss) < CostOf(seq, best, miss) THEN n ELSE best,
              caps[1], caps)

-----------------------------------------------------------------------------
(* Properties *)

(* The stack distances of one pass over the sightings, or over a contact trace of moments or *)
(* of beginnings, give for every cap the encounters that a table of that size, kept while    *)
(* the peers came and went, found a session for.                                             *)
CurveIsTheTables ==
  \A rows \in {trace, LoadContacts(trace, "moments"), LoadContacts(trace, "ups")} :
    LET seq == EncounterSequence(rows)
    IN \A n \in Caps : HitRate(seq, n) = [hits |-> found[n], of |-> Len(met) - Cardinality(ToSet(met))]

(* What a cap is charged for is what its table does: the walk is over the sessions it holds, and *)
(* the handshakes are no fewer than the evicted sessions made again, no more than all that were  *)
(* made.  The cap either script picks has room left only if no smaller one holds every peer.     *)
CapsArePriced ==
  LET seq == EncounterSequence(trace)
      largest == Cardinality(ToSet(seq))
  IN \A n \in Caps :
      /\ Walked(seq, n) = Len(table[n])
      /\ (HitRate(seq, n).of - found[n]) * Scale(seq) <= Handshakes(seq, n)
      /\ Handshakes(seq, n) <= (Len(met) - found[n]) * Scale(seq)
      /\ \A miss \in Missing :
           LET best == Cheapest(seq, miss)
           IN /\ BestHere(seq, miss) = best
              /\ n < best => \/ n < largest \/ CostOf(seq, n, miss) > CostOf(seq, best, miss)

(* load_contacts: reading a long contact moment by moment would "change nothing" over its ends. *)
EndsSayAsMuch ==
  EncounterSequence(LoadContacts(trace, "intervals")) = EncounterSequence(LoadContacts(trace, "moments"))
=============================================================================
