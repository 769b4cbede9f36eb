----------------------------- MODULE TraceServer -----------------------------
(***************************************************************************)
(* The trace collector, trace_server/server.py: uploads on the shared      *)
(* SQLite connection, and the packet index that requests in the thread     *)
(* pool build and read beside them.  One experiment's index is modelled.   *)
(***************************************************************************)
EXTENDS Naturals, FiniteSets

CONSTANTS
  Uploads,         \* upload ids the phones post
  Batch,           \* the records in each upload
  Like,            \* the uploads the pattern of the indexed experiment matches
  Builds,          \* threads that may build the index
  Readers,         \* threads that may list its packets
  Layouts,         \* measured geometries that may be put
  Regimes,         \* the circumstances looked at: see RegimeType
  None             \* no value: Python's None, SQL's NULL

ASSUME BatchAssumption == Batch \in [Uploads -> SUBSET [n : Nat, dev : Nat,
  kind : {"sealed", "ackTx", "ackRx", "recv", "relay", "custody", "packetDup", "drop", "marker"},
  ev : {"relay", "dup", "store", "convey", "packetDup", "drop", None}, pkts : SUBSET Nat, msg : Nat]]
ASSUME FiniteAssumption == \A u \in Uploads :
  IsFiniteSet(Batch[u]) /\ \A r \in Batch[u] : IsFiniteSet(r.pkts)

RegimeType == [
  threads : SUBSET Builds,    \* the threads that build in this behaviour
  dashboard : BOOLEAN,        \* packets are listed and geometries put
  writesFail : BOOLEAN,       \* a write may raise half-way (disk full, a record SQLite refuses)
  locksTimeOut : BOOLEAN,     \* a summary may hold the write lock past the upload's five seconds
  kills : Nat]                \* how often the process may still be killed

ASSUME ServerAssumption == Like \subseteq Uploads /\ Regimes \subseteq RegimeType

VARIABLES
  db,       \* what is committed: uploads, records, events, summary, meta, geometry
  conn,     \* the shared connection: open transaction, pinned snapshot, its writes
  archive,  \* uploads with a line, or more than one, in the NDJSON archive
  handler,  \* the upload request being served; the handler never awaits after its body
  build,    \* the index build of each thread
  reader,   \* the /v1/packets request of each thread
  acked,    \* uploads whose phone has been answered 2xx
  alone,    \* the build that last wrote meta had the index to itself, and none has begun since
  regime    \* the circumstances of this behaviour

vars == <<db, conn, archive, handler, build, reader, acked, alone, regime>>

NoWrites == [uploads |-> {}, records |-> {}]
Closed == [txn |-> FALSE, snap |-> None, stale |-> FALSE, writes |-> NoWrites]
Idle == [pc |-> "idle", pend |-> {}, total |-> 0, base |-> {}, solo |-> FALSE]
AtRest == [pc |-> "idle", u |-> None]

Init ==
  /\ db = [uploads |-> {}, records |-> {}, events |-> {}, summary |-> {},
           meta |-> None, geometry |-> None]
  /\ conn = Closed
  /\ archive = {}
  /\ handler = AtRest
  /\ build = [b \in Builds |-> Idle]
  /\ reader = [r \in Readers |-> [pc |-> "idle", meta |-> None, rows |-> {}]]
  /\ acked = {}
  /\ alone = FALSE
  /\ regime \in Regimes

\* Mutant: the duplicate check looks in the archive.
View_Archive == [db EXCEPT !.uploads = archive]

(* What the shared connection sees: its own writes; else, inside a transaction *)
(* that has read, the snapshot that read pinned; else what is committed.       *)
View ==
  IF conn.writes # NoWrites
  THEN [db EXCEPT !.uploads = @ \cup conn.writes.uploads, !.records = @ \cup conn.writes.records]
  ELSE IF conn.snap # None THEN conn.snap ELSE db

(* A read inside a transaction left open pins the snapshot it reads from. *)
AfterRead == IF conn.txn /\ conn.snap = None THEN [conn EXCEPT !.snap = db] ELSE conn

(* Who holds SQLite's one write lock. *)
ConnWrites == conn.writes # NoWrites
Summing == {b \in Builds : build[b].pc = "summing"}
LockFree == Summing = {} /\ ~ConnWrites

(* Another connection commits: a snapshot pinned before it is stale. *)
CommitBeside(new) ==
  /\ db' = new
  /\ conn' = [conn EXCEPT !.stale = @ \/ (conn.snap # None /\ new # db)]

-----------------------------------------------------------------------------
(* POST /v1/traces *)

Receive(u) ==
  /\ handler.pc = "idle"
  /\ conn' = AfterRead
  /\ IF u \in View.uploads
     THEN \/ acked' = acked \cup {u} /\ UNCHANGED handler
          \/ UNCHANGED <<acked, handler>>                 \* the answer is lost
     ELSE handler' = [pc |-> "checked", u |-> u] /\ UNCHANGED acked
  /\ UNCHANGED <<db, archive, build, reader, alone, regime>>

\* Mutant: the line is written after the answer, and so never by a server that dies.
Archive_Skipped ==
  /\ handler.pc = "checked"
  /\ handler' = [handler EXCEPT !.pc = "archived"]
  /\ UNCHANGED <<db, conn, archive, build, reader, acked, alone, regime>>

Archive ==
  /\ handler.pc = "checked"
  /\ archive' = archive \cup {handler.u}
  /\ handler' = [handler EXCEPT !.pc = "archived"]
  /\ UNCHANGED <<db, conn, build, reader, acked, alone, regime>>

Rows(u) == {[u |-> u, r |-> r] : r \in Batch[u]}

(* The write lock is there to take, and the snapshot, if any, is the latest. *)
MayWrite == Summing = {} /\ ~conn.stale

\* Mutant: the upload row is committed without its records.
Committed_RowOnly(uploads, records) ==
  [db EXCEPT !.uploads = @ \cup conn.writes.uploads \cup uploads,
             !.records = @ \cup conn.writes.records]

(* A commit of the shared connection takes with it whatever an earlier request left. *)
Committed(uploads, records) ==
  [db EXCEPT !.uploads = @ \cup conn.writes.uploads \cup uploads,
             !.records = @ \cup conn.writes.records \cup records]

Persist ==
  /\ handler.pc = "archived"
  /\ MayWrite
  /\ handler.u \notin db.uploads
  /\ db' = Committed({handler.u}, Rows(handler.u))
  /\ conn' = Closed
  /\ handler' = AtRest
  /\ acked' \in {acked, acked \cup {handler.u}}
  /\ UNCHANGED <<archive, build, reader, alone, regime>>

(* executemany raises at one of the rows: nothing rolls the transaction back. *)
PersistRaises ==
  /\ regime.writesFail
  /\ handler.pc = "archived"
  /\ MayWrite
  /\ \E last \in Rows(handler.u) :
       conn' = [txn |-> TRUE, snap |-> db, stale |-> FALSE,
                   writes |-> [uploads |-> conn.writes.uploads \cup {handler.u},
                               records |-> conn.writes.records
                                             \cup {x \in Rows(handler.u) : x.r.n < last.r.n}]]
  /\ handler' = AtRest
  /\ UNCHANGED <<db, archive, build, reader, acked, alone, regime>>

(* "database is locked": the lock is held past the timeout, or the pinned snapshot *)
(* is stale, which SQLite refuses at once.  BEGIN has run and stays in force.      *)
TimesOut == (regime.locksTimeOut /\ Summing # {}) \/ conn.stale

PersistLocked ==
  /\ handler.pc = "archived"
  /\ TimesOut
  /\ conn' = [conn EXCEPT !.txn = TRUE]
  /\ handler' = AtRest
  /\ UNCHANGED <<db, archive, build, reader, acked, alone, regime>>

(* PUT /v1/geometry commits the same connection. *)
PutGeometry(g) ==
  /\ regime.dashboard
  /\ MayWrite
  /\ db' = [Committed({}, {}) EXCEPT !.geometry = g]
  /\ conn' = Closed
  /\ UNCHANGED <<archive, handler, build, reader, acked, alone, regime>>

PutGeometryLocked ==
  /\ regime.dashboard
  /\ TimesOut
  /\ conn' = [conn EXCEPT !.txn = TRUE]
  /\ UNCHANGED <<db, archive, handler, build, reader, acked, alone, regime>>

-----------------------------------------------------------------------------
(* The index of one experiment: rows of packet_events, with the record each  *)
(* comes from and the thread that wrote it.                                  *)

Scan == {row \in db.records : row.u \in Like}

Event(row, p, e, b) == [src |-> row, pkt |-> p, ev |-> e, by |-> b]

(* Pass A: a delivery names a message, which the sender's sealed record maps to packets. *)
MessageRows(recs, b) ==
  UNION {CASE row.r.kind = "sealed" -> {Event(row, p, "mint", b) : p \in row.r.pkts}
           [] row.r.kind = "ackTx" -> {Event(row, p, "mint", b) : p \in row.r.pkts}
           [] row.r.kind = "ackRx" -> {Event(row, p, "ackRx", b) : p \in row.r.pkts}
           [] row.r.kind = "recv" ->
                {Event(row, p, "deliver", b) :
                   p \in UNION {s.r.pkts : s \in {x \in recs : x.r.kind = "sealed" /\ x.r.msg = row.r.msg}}}
           [] OTHER -> {} : row \in recs}

(* Pass B: what a node recorded about another's packet; no id joins to nothing. *)
TransitRows(recs, b) ==
  UNION {{Event(row, p, row.r.ev, b) : p \in row.r.pkts} :
           row \in {x \in recs : x.r.kind \in {"relay", "custody", "packetDup", "drop"}}}

Sightings(recs) == MessageRows(recs, None) \cup TransitRows(recs, None)

Summarised(events) ==
  {[pkt |-> p,
    nodes |-> Cardinality({e.src.r.dev : e \in {x \in events : x.pkt = p}}),
    relays |-> Cardinality({e \in events : e.pkt = p /\ e.ev = "relay"}),
    delivers |-> Cardinality({e \in events : e.pkt = p /\ e.ev = "deliver"}),
    conveys |-> Cardinality({e \in events : e.pkt = p /\ e.ev = "convey"}),
    acked |-> Cardinality({e \in events : e.pkt = p /\ e.ev = "ackRx"})] :
     p \in {e.pkt : e \in events}}

Unindexed == [db EXCEPT !.events = {}, !.summary = {}]

BuildClear(b) ==
  /\ b \in regime.threads
  /\ build[b].pc = "idle"
  /\ LockFree
  /\ CommitBeside(Unindexed)
  /\ build' = [c \in Builds |->
       IF c = b THEN [Idle EXCEPT !.pc = "cleared", !.base = Scan,
                                  !.solo = \A o \in Builds \ {b} : build[o].pc = "idle"]
       ELSE [build[c] EXCEPT !.solo = FALSE]]
  /\ alone' = FALSE
  /\ UNCHANGED <<archive, handler, reader, acked, regime>>

Emit(b, rows, pc) ==
  build' = [build EXCEPT ![b].pend = @ \cup rows, ![b].total = @ + Cardinality(rows), ![b].pc = pc]

BuildPassA(b) ==
  /\ build[b].pc = "cleared"
  /\ Emit(b, MessageRows(Scan, b), "passA")
  /\ UNCHANGED <<db, conn, archive, handler, reader, acked, alone, regime>>

BuildPassB(b) ==
  /\ build[b].pc = "passA"
  /\ Emit(b, TransitRows(Scan, b), "passB")
  /\ UNCHANGED <<db, conn, archive, handler, reader, acked, alone, regime>>

(* Batches are committed as they fill, and the last when both passes are done. *)
BuildFlush(b) ==
  /\ build[b].pend # {}
  /\ LockFree
  /\ CommitBeside([db EXCEPT !.events = @ \cup build[b].pend])
  /\ build' = [build EXCEPT ![b].pend = {}]
  /\ UNCHANGED <<archive, handler, reader, acked, alone, regime>>

SummaryConflicts == \E p \in {e.pkt : e \in db.events} : \E s \in db.summary : s.pkt = p

\* Mutant: the summary is taken before the last batch is flushed.
BuildSummarise_Unflushed(b) ==
  /\ build[b].pc = "passB"
  /\ LockFree
  /\ ~SummaryConflicts
  /\ build' = [build EXCEPT ![b].pc = "summing"]
  /\ UNCHANGED <<db, conn, archive, handler, reader, acked, alone, regime>>

(* INSERT ... SELECT takes the lock, and keeps it through a GROUP BY of every row. *)
BuildSummarise(b) ==
  /\ build[b].pc = "passB"
  /\ build[b].pend = {}
  /\ LockFree
  /\ ~SummaryConflicts
  /\ build' = [build EXCEPT ![b].pc = "summing"]
  /\ UNCHANGED <<db, conn, archive, handler, reader, acked, alone, regime>>

\* Mutant: the summary is written, but its transaction left open.
BuildCommit_Held(b) ==
  /\ build[b].pc = "summing"
  /\ CommitBeside([db EXCEPT
       !.summary = @ \cup Summarised(db.events),
       !.meta = [events |-> build[b].total, base |-> build[b].base]])
  /\ alone' = build[b].solo
  /\ UNCHANGED <<archive, handler, build, reader, acked, regime>>

BuildCommit(b) ==
  /\ build[b].pc = "summing"
  /\ CommitBeside([db EXCEPT
       !.summary = @ \cup Summarised(db.events),
       !.meta = [events |-> build[b].total, base |-> build[b].base]])
  /\ build' = [build EXCEPT ![b] = Idle]
  /\ alone' = build[b].solo
  /\ UNCHANGED <<archive, handler, reader, acked, regime>>

(* An exception: the primary key of the summary, two minutes without the lock, a write *)
(* that fails.  The rows are deleted, if the lock can be had; the meta row is left.    *)
BuildRaises(b) ==
  /\ \/ build[b].pc = "passB" /\ build[b].pend = {} /\ LockFree /\ SummaryConflicts
     \/ regime.writesFail /\ build[b].pc # "idle"
     \/ /\ build[b].pend # {} \/ build[b].pc = "passB"
        /\ ConnWrites \/ (regime.locksTimeOut /\ Summing \ {b} # {})
  /\ IF Summing \subseteq {b} /\ ~ConnWrites THEN CommitBeside(Unindexed) ELSE UNCHANGED <<db, conn>>
  /\ build' = [build EXCEPT ![b] = Idle]
  /\ alone' = FALSE
  /\ UNCHANGED <<archive, handler, reader, acked, regime>>

(* GET /v1/packets reads the state of the index, then, with the lock released between, its rows. *)
ReadState(r) ==
  /\ regime.dashboard
  /\ reader[r].pc \in {"idle", "answered"}
  /\ conn' = AfterRead
  /\ reader' = [reader EXCEPT ![r] = [pc |-> IF View.meta = None THEN "idle" ELSE "stated",
                                      meta |-> View.meta, rows |-> {}]]
  /\ UNCHANGED <<db, archive, handler, build, acked, alone, regime>>

ReadRows(r) ==
  /\ reader[r].pc = "stated"
  /\ conn' = AfterRead
  /\ reader' = [reader EXCEPT ![r].pc = "answered", ![r].rows = View.summary]
  /\ UNCHANGED <<db, archive, handler, build, acked, alone, regime>>

(* The process is killed: what is committed and what is archived stay. *)
Crash ==
  /\ regime.kills > 0
  /\ regime' = [regime EXCEPT !.kills = @ - 1]
  /\ conn' = Closed
  /\ handler' = AtRest
  /\ build' = [b \in Builds |-> Idle]
  /\ reader' = [r \in Readers |-> [pc |-> "idle", meta |-> None, rows |-> {}]]
  /\ UNCHANGED <<db, archive, acked, alone>>

Building(b) ==
  \/ BuildClear(b) \/ BuildPassA(b) \/ BuildPassB(b) \/ BuildFlush(b)
  \/ BuildSummarise(b) \/ BuildCommit(b) \/ BuildRaises(b)

Next ==
  \/ \E u \in Uploads : Receive(u)
  \/ Archive \/ Persist \/ PersistRaises \/ PersistLocked \/ PutGeometryLocked
  \/ \E g \in Layouts : PutGeometry(g)
  \/ \E b \in Builds : Building(b)
  \/ \E r \in Readers : ReadState(r) \/ ReadRows(r)
  \/ Crash

Spec == Init /\ [][Next]_vars

(* The server serves the request it has taken and the build it has begun; the phones' *)
(* owners press Upload again until every chunk is answered.                           *)
Fairness ==
  /\ WF_vars(Archive)
  /\ SF_vars(Persist)
  /\ WF_vars(PersistLocked)
  /\ \A u \in Uploads : SF_vars(Receive(u) /\ (handler' # handler \/ acked' # acked))
  /\ \A b \in Builds : WF_vars(BuildCommit(b))

FairSpec == Spec /\ Fairness

-----------------------------------------------------------------------------
(* What the read-only endpoints answer from a view of the database. *)

Experiments(v) ==
  LET mine == v.uploads \cap Like
  IN [uploads |-> mine, records |-> Cardinality(UNION {Rows(u) : u \in mine})]

Stats(v) == [uploads |-> Cardinality(v.uploads), records |-> Cardinality(v.records)]

Route(v, p) == {e \in v.events : e.pkt = p}

Topology(v) == {row \in v.records : row.u \in Like /\ row.r.kind = "marker"}

(* One term of the packet filter, as itself and as its negation. *)
Meets(s, t) ==
  CASE t.name = "relayed" -> IF t.neg THEN s.relays = 0 ELSE s.relays > 0
    [] t.name = "delivered" -> IF t.neg THEN s.delivers = 0 /\ s.acked = 0
                                        ELSE s.delivers > 0 \/ s.acked > 0
    [] t.name = "carried" -> IF t.neg THEN s.conveys = 0 ELSE s.conveys > 0
    [] t.name = "seen" -> IF t.neg THEN s.nodes < 2 ELSE s.nodes >= 2

Packets(rows, terms, mode) ==
  {s \in rows : terms = {} \/ IF mode = "or" THEN \E t \in terms : Meets(s, t)
                                            ELSE \A t \in terms : Meets(s, t)}

-----------------------------------------------------------------------------
(* Properties *)

TypeOK ==
  /\ db.uploads \subseteq Uploads
  /\ db.records \subseteq UNION {Rows(u) : u \in Uploads}
  /\ archive \subseteq Uploads
  /\ handler \in [pc : {"idle", "checked", "archived"}, u : Uploads \cup {None}]
  /\ handler.pc # "idle" => handler.u \in Uploads
  /\ acked \subseteq Uploads

(* Every upload the database names, or a request is about to name, has a line in the *)
(* archive, through crashes and failed writes (upload_traces archives first).        *)
ArchivedFirst ==
  db.uploads \cup conn.writes.uploads \cup acked \subseteq archive

(* An upload answered 2xx, the first time or as a duplicate, is read back whole by every *)
(* later request on the shared connection, its markers in the topology included.         *)
AckedIsServed ==
  \A u \in acked :
    /\ Rows(u) \subseteq View.records
    /\ u \in Like => {x \in Rows(u) : x.r.kind = "marker"} \subseteq Topology(View)

(* It is so as long as no write raises half-way; and the list of experiments then counts the *)
(* records that the statistics find.                                                          *)
WholeWritesAreServed ==
  ~regime.writesFail =>
    /\ AckedIsServed
    /\ Like = Uploads => Experiments(View).records = Stats(View).records

(* What the route of a packet shows of it *)
Shows(route, name) ==
  CASE name = "relayed" -> \E e \in route : e.ev = "relay"
    [] name = "delivered" -> \E e \in route : e.ev \in {"deliver", "ackRx"}
    [] name = "carried" -> \E e \in route : e.ev = "convey"
    [] name = "seen" -> \E e, f \in route : e.src.r.dev # f.src.r.dev

(* An index built with no other build at work, and not begun again, holds each sighting *)
(* of the records that were stored when it began exactly once, none of a record that is *)
(* not stored, and one summary row per packet; its meta row counts them, and the lists   *)
(* by each term, or by its negation, are the packets whose routes show it, or do not.    *)
IndexIsWhole ==
  (alone /\ db.meta # None) =>
    LET seen == {[e EXCEPT !.by = None] : e \in db.events}
    IN /\ Sightings(db.meta.base) \subseteq seen
       /\ seen \subseteq Sightings(Scan)
       /\ Cardinality(seen) = Cardinality(db.events)
       /\ db.meta.events = Cardinality(db.events)
       /\ db.summary = Summarised(db.events)
       /\ \A name \in {"relayed", "delivered", "carried", "seen"} :
            LET listed == Packets(db.summary, {[name |-> name, neg |-> FALSE]}, "and")
                others == Packets(db.summary, {[name |-> name, neg |-> TRUE]}, "or")
            IN /\ listed \cap others = {} /\ listed \cup others = db.summary
               /\ listed = {s \in db.summary : Shows(Route(db, s.pkt), name)}

(* A list of packets that says the index was built names every packet that was sighted *)
(* in the records it was built from ("Leave nothing behind instead").                  *)
AnswersAreWhole ==
  \A r \in Readers : reader[r].pc = "answered" =>
    {e.pkt : e \in Sightings(reader[r].meta.base)} \subseteq {s.pkt : s \in reader[r].rows}

(* Every upload is answered in the end, if its owner keeps pressing Upload. *)
UploadsLand == \A u \in Uploads : <>(u \in acked)

(* It is so as long as no upload waits for the write lock in vain. *)
UploadsLandUnlocked == regime.locksTimeOut \/ UploadsLand

(* The server implements the collector: as long as no write raises half-way, an upload is *)
(* kept, whole, before it is answered.                                                    *)
Whole == {u \in db.uploads : Rows(u) \subseteq db.records}
Promise == INSTANCE Collector WITH
  kept <- IF regime.writesFail THEN {} ELSE Whole,
  acked <- IF regime.writesFail THEN {} ELSE acked
KeepsWhatItAnswers == Promise!Spec
=============================================================================
