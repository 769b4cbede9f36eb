-------------------------- MODULE TraceServerProofs --------------------------
(***************************************************************************)
(* Proofs about the trace server.  Its types hold; no upload is known to   *)
(* the database, to a transaction left open or to a phone before its line  *)
(* is in the archive; while no write raises half-way, what was answered    *)
(* for is kept whole and served whole; and an index that was built alone   *)
(* is exact, whatever happened between its commits.                        *)
(***************************************************************************)
EXTENDS TraceServer, FiniteSetTheorems, FunctionTheorems, TLAPS

-----------------------------------------------------------------------------
(* Numbers and finite sets. *)

LEMMA ImageIsFinite ==
  ASSUME NEW S, IsFiniteSet(S), NEW f, DOMAIN f = S
  PROVE  IsFiniteSet({f[x] : x \in S}) /\ Cardinality({f[x] : x \in S}) <= Cardinality(S)
<1> DEFINE T == {f[x] : x \in S}
<1> DEFINE g == [x \in S |-> f[x]]
<1>1. g \in Surjection(S, T)
  BY DEF Surjection
<1> QED BY <1>1, FS_Surjection

LEMMA PairIsFinite ==
  ASSUME NEW a, NEW b
  PROVE  IsFiniteSet({a, b})
<1>1. IsFiniteSet({a}) /\ {a, b} = {a} \cup {b}
  BY FS_Singleton
<1> QED BY <1>1, FS_AddElement

(* A set within another finite one. *)
LEMMA Fewer ==
  ASSUME NEW T, IsFiniteSet(T), NEW S \in SUBSET T
  PROVE  /\ IsFiniteSet(S) /\ Cardinality(S) \in Nat /\ Cardinality(T) \in Nat
         /\ Cardinality(S) <= Cardinality(T)
         /\ S # T => Cardinality(S) < Cardinality(T)
  BY FS_Subset, FS_CardinalityType

-----------------------------------------------------------------------------

(* The records of the state have the fields they are updated at. *)
IsDb(d) == d = [uploads |-> d.uploads, records |-> d.records, events |-> d.events,
                summary |-> d.summary, meta |-> d.meta, geometry |-> d.geometry]
IsWrites(w) == w = [uploads |-> w.uploads, records |-> w.records]
Shapes ==
  /\ IsDb(db)
  /\ conn = [txn |-> conn.txn, snap |-> conn.snap, stale |-> conn.stale, writes |-> conn.writes]
  /\ IsWrites(conn.writes)
  /\ handler = [pc |-> handler.pc, u |-> handler.u]

AllRows == UNION {Rows(u) : u \in Uploads}

(* A request is past the duplicate check with an upload in hand; what the open transaction *)
(* wrote are records of uploads; and whatever names an upload, the snapshot that a read    *)
(* pinned and the request that is about to be kept included, names one of the archive.     *)
IInv ==
  /\ Shapes
  /\ handler.pc \in {"idle", "checked", "archived"}
  /\ handler.u \in Uploads \cup {None}
  /\ handler.pc # "idle" => handler.u \in Uploads
  /\ db.records \subseteq AllRows /\ conn.writes.records \subseteq AllRows
  /\ archive \subseteq Uploads
  /\ db.uploads \subseteq archive
  /\ conn.writes.uploads \subseteq archive
  /\ conn.snap # None => conn.snap.uploads \subseteq archive
  /\ acked \subseteq archive
  /\ handler.pc = "archived" => handler.u \in archive

(* An update of the index alone, one field at a time. *)
SameUploads(e, d) == IsDb(e) /\ e.uploads = d.uploads /\ e.records = d.records

LEMMA FieldUpdate ==
  ASSUME NEW d, IsDb(d), NEW x
  PROVE  /\ SameUploads([d EXCEPT !.events = x], d)
         /\ SameUploads([d EXCEPT !.summary = x], d)
         /\ SameUploads([d EXCEPT !.meta = x], d)
  BY DEF IsDb, SameUploads

LEMMA UnindexedKeeps ==
  ASSUME IsDb(db)
  PROVE  SameUploads(Unindexed, db)
<1> DEFINE cleared == [db EXCEPT !.events = {}]
<1>1. SameUploads(cleared, db)
  BY FieldUpdate
<1>2. Unindexed = [cleared EXCEPT !.summary = {}]
  BY DEF Unindexed
<1> HIDE DEF cleared
<1>3. SameUploads([cleared EXCEPT !.summary = {}], cleared)
  BY <1>1, FieldUpdate DEF SameUploads
<1> QED BY <1>1, <1>2, <1>3 DEF SameUploads

LEMMA SummaryKeeps ==
  ASSUME IsDb(db), NEW rows, NEW meta
  PROVE  SameUploads([db EXCEPT !.summary = rows, !.meta = meta], db)
<1> DEFINE summed == [db EXCEPT !.summary = rows]
<1>1. SameUploads(summed, db)
  BY FieldUpdate
<1>2. [db EXCEPT !.summary = rows, !.meta = meta] = [summed EXCEPT !.meta = meta]
  OBVIOUS
<1> HIDE DEF summed
<1>3. SameUploads([summed EXCEPT !.meta = meta], summed)
  BY <1>1, FieldUpdate DEF SameUploads
<1> QED BY <1>1, <1>2, <1>3 DEF SameUploads

LEMMA RowsAreRows ==
  ASSUME NEW u \in Uploads
  PROVE  Rows(u) \subseteq AllRows
  BY DEF AllRows

LEMMA InitIInv == Init => IInv
  BY DEF Init, IInv, Shapes, IsDb, IsWrites, Closed, NoWrites, AtRest

(* A read leaves the connection as it was, or pins what is committed. *)
LEMMA ReadKeeps ==
  ASSUME IInv, conn' = AfterRead, UNCHANGED <<db, archive>>
  PROVE  /\ conn' = [txn |-> conn'.txn, snap |-> conn'.snap, stale |-> conn'.stale, writes |-> conn'.writes]
         /\ conn'.writes = conn.writes
         /\ conn'.snap # None => conn'.snap.uploads \subseteq archive
  BY DEF IInv, Shapes, AfterRead

(* What the connection sees names archived uploads only. *)
LEMMA ViewArchived ==
  ASSUME IInv
  PROVE  View.uploads \subseteq archive
<1>1. CASE conn.writes # NoWrites
  BY <1>1 DEF IInv, Shapes, IsDb, View
<1>2. CASE conn.writes = NoWrites
  BY <1>2 DEF IInv, View
<1> QED BY <1>1, <1>2

(* A commit beside the connection that leaves the uploads alone. *)
LEMMA CommitKeeps ==
  ASSUME IInv, NEW new, SameUploads(new, db),
         CommitBeside(new), UNCHANGED <<archive, handler, acked>>
  PROVE  IInv'
  BY DEF SameUploads, IInv, Shapes, IsDb, IsWrites, CommitBeside

LEMMA StepIInv == IInv /\ [Next]_vars => IInv'
<1> SUFFICES ASSUME IInv, [Next]_vars PROVE IInv'
  OBVIOUS
<1>1. CASE UNCHANGED vars
  BY <1>1 DEF vars, IInv, Shapes, IsDb, IsWrites
<1>2. ASSUME NEW u \in Uploads, Receive(u) PROVE IInv'
  <2> USE <1>2 DEF Receive
  <2>1. UNCHANGED <<db, archive>> /\ conn' = AfterRead
    OBVIOUS
  <2>2. /\ conn' = [txn |-> conn'.txn, snap |-> conn'.snap, stale |-> conn'.stale, writes |-> conn'.writes]
        /\ conn'.writes = conn.writes
        /\ conn'.snap # None => conn'.snap.uploads \subseteq archive
    BY <2>1, ReadKeeps
  <2>3. CASE u \in View.uploads
    <3>1. acked' \subseteq archive /\ UNCHANGED handler
      BY <2>3, ViewArchived DEF IInv
    <3> QED BY <2>1, <2>2, <3>1 DEF IInv, Shapes, IsDb, IsWrites
  <2>4. CASE u \notin View.uploads
    BY <2>1, <2>2, <2>4 DEF IInv, Shapes, IsDb, IsWrites
  <2> QED BY <2>3, <2>4
<1>3. CASE Archive
  BY <1>3 DEF Archive, IInv, Shapes, IsDb, IsWrites
<1>4. CASE Persist
  <2>1. handler.u \in archive /\ Rows(handler.u) \subseteq AllRows
    BY <1>4, RowsAreRows DEF Persist, IInv
  <2>2. IsDb(db') /\ db'.uploads \subseteq archive /\ db'.records \subseteq AllRows
    BY <1>4, <2>1 DEF Persist, Committed, IInv, Shapes, IsDb
  <2>3. acked' \subseteq archive /\ conn' = Closed /\ handler' = AtRest /\ UNCHANGED archive
    BY <1>4, <2>1 DEF Persist, IInv
  <2> QED BY <2>2, <2>3 DEF IInv, Shapes, IsWrites, Closed, NoWrites, AtRest
<1>5. CASE PersistRaises
  <2>1. handler.u \in archive /\ Rows(handler.u) \subseteq AllRows
    BY <1>5, RowsAreRows DEF PersistRaises, IInv
  <2>2. PICK last \in Rows(handler.u) :
          conn' = [txn |-> TRUE, snap |-> db, stale |-> FALSE,
                   writes |-> [uploads |-> conn.writes.uploads \cup {handler.u},
                               records |-> conn.writes.records
                                             \cup {x \in Rows(handler.u) : x.r.n < last.r.n}]]
    BY <1>5 DEF PersistRaises
  <2>3. conn'.writes.uploads \subseteq archive /\ conn'.writes.records \subseteq AllRows
    BY <2>1, <2>2 DEF IInv
  <2> QED BY <1>5, <2>2, <2>3 DEF PersistRaises, IInv, Shapes, IsDb, IsWrites, AtRest
<1>6. CASE PersistLocked
  BY <1>6 DEF PersistLocked, IInv, Shapes, IsDb, IsWrites, AtRest
<1>7. CASE PutGeometryLocked
  BY <1>7 DEF PutGeometryLocked, IInv, Shapes, IsDb, IsWrites
<1>8. ASSUME NEW g \in Layouts, PutGeometry(g) PROVE IInv'
  <2>1. IsDb(db') /\ db'.uploads \subseteq archive /\ db'.records \subseteq AllRows
    BY <1>8 DEF PutGeometry, Committed, IInv, Shapes, IsDb
  <2>2. conn' = Closed /\ UNCHANGED <<archive, handler, acked>>
    BY <1>8 DEF PutGeometry
  <2> QED BY <2>1, <2>2 DEF IInv, Shapes, IsWrites, Closed, NoWrites
<1>9. ASSUME NEW b \in Builds, Building(b) PROVE IInv'
  <2>1. IsDb(db)
    BY DEF IInv, Shapes
  <2>2. ASSUME NEW new, SameUploads(new, db), CommitBeside(new), UNCHANGED <<archive, handler, acked>>
        PROVE  IInv'
    BY <2>2, CommitKeeps
  <2>3. CASE BuildClear(b)
    BY <2>1, <2>2, <2>3, UnindexedKeeps DEF BuildClear
  <2>4. CASE BuildPassA(b) \/ BuildPassB(b) \/ BuildSummarise(b)
    BY <2>4 DEF BuildPassA, BuildPassB, BuildSummarise, IInv, Shapes, IsDb, IsWrites
  <2>5. CASE BuildFlush(b)
    <3> DEFINE new == [db EXCEPT !.events = @ \cup build[b].pend]
    <3>1. SameUploads(new, db)
      BY <2>1, FieldUpdate
    <3>2. CommitBeside(new) /\ UNCHANGED <<archive, handler, acked>>
      BY <2>5 DEF BuildFlush
    <3> QED BY <2>2, <3>1, <3>2
  <2>6. CASE BuildCommit(b)
    <3> DEFINE new == [db EXCEPT !.summary = @ \cup Summarised(db.events),
                                 !.meta = [events |-> build[b].total, base |-> build[b].base]]
    <3>1. SameUploads(new, db)
      BY <2>1, SummaryKeeps
    <3>2. CommitBeside(new) /\ UNCHANGED <<archive, handler, acked>>
      BY <2>6 DEF BuildCommit
    <3> QED BY <2>2, <3>1, <3>2
  <2>7. CASE BuildRaises(b)
    <3>1. CASE Summing \subseteq {b} /\ ~ConnWrites
      BY <2>1, <2>2, <2>7, <3>1, UnindexedKeeps DEF BuildRaises
    <3>2. CASE ~(Summing \subseteq {b} /\ ~ConnWrites)
      BY <2>7, <3>2 DEF BuildRaises, IInv, Shapes, IsDb, IsWrites
    <3> QED BY <3>1, <3>2
  <2> QED BY <1>9, <2>3, <2>4, <2>5, <2>6, <2>7 DEF Building
<1>10. ASSUME NEW r \in Readers, ReadState(r) \/ ReadRows(r) PROVE IInv'
  <2>1. conn' = AfterRead /\ UNCHANGED <<db, archive, handler, acked>>
    BY <1>10 DEF ReadState, ReadRows
  <2> QED BY <2>1, ReadKeeps DEF IInv, Shapes, IsDb, IsWrites
<1>11. CASE Crash
  BY <1>11 DEF Crash, IInv, Shapes, IsDb, IsWrites, Closed, NoWrites, AtRest
<1> QED
  BY <1>1, <1>2, <1>3, <1>4, <1>5, <1>6, <1>7, <1>8, <1>9, <1>10, <1>11 DEF Next

LEMMA IInvHolds == Spec => []IInv
  BY InitIInv, StepIInv, PTL DEF Spec

(* The state of the collector is well formed: a request past the duplicate check has an  *)
(* upload in hand, and every stored record is one of an upload's batch.                  *)
THEOREM ServerTypeCorrect == Spec => []TypeOK
<1>1. IInv => TypeOK
  <2> SUFFICES ASSUME IInv PROVE TypeOK
    OBVIOUS
  <2>1. handler \in [pc : {"idle", "checked", "archived"}, u : Uploads \cup {None}]
    BY DEF IInv, Shapes
  <2> QED BY <2>1 DEF IInv, TypeOK, AllRows
<1> QED BY <1>1, IInvHolds, PTL

(* upload_traces archives before it persists and persists before it answers: through     *)
(* crashes, writes that raise half-way and transactions that later requests inherit, no  *)
(* upload is in the database, in an open transaction or answered without its archive     *)
(* line, however many uploads, builders and readers there are.                           *)
THEOREM UploadsAreArchivedFirst == Spec => []ArchivedFirst
<1>1. IInv => ArchivedFirst
  BY DEF IInv, ArchivedFirst
<1> QED BY <1>1, IInvHolds, PTL

-----------------------------------------------------------------------------
(* The refinement *)

(* While no write raises half-way the shared connection never has a write of its own, so a *)
(* commit adds one whole upload, and a snapshot, however old, shows no upload that is not   *)
(* kept: what a request calls a duplicate has been committed.                               *)
KeptWhole ==
  ~regime.writesFail =>
    /\ conn.writes = NoWrites
    /\ \A u \in db.uploads : Rows(u) \subseteq db.records
    /\ acked \subseteq db.uploads
    /\ conn.snap # None => conn.snap.uploads \subseteq db.uploads

(* What may be read while no write raises half-way: the records of the database, and of a   *)
(* snapshot however old, are those of its uploads and no others, and it shows every upload  *)
(* that was answered.                                                                       *)
RowsOf(uploads) == UNION {Rows(u) : u \in uploads}
ReadWhole ==
  ~regime.writesFail =>
    /\ db.records = RowsOf(db.uploads)
    /\ conn.snap # None => acked \subseteq conn.snap.uploads
                           /\ conn.snap.records = RowsOf(conn.snap.uploads)

RInv ==
  /\ IInv
  /\ regime = [threads |-> regime.threads, dashboard |-> regime.dashboard,
               writesFail |-> regime.writesFail, locksTimeOut |-> regime.locksTimeOut,
               kills |-> regime.kills]
  /\ KeptWhole
  /\ ReadWhole

(* What a step does to the uploads and the answers, seen from outside. *)
Kept(u) == /\ db'.uploads = db.uploads \cup {u}
           /\ acked' \in {acked, acked \cup {u}}
Answered(u) == /\ u \in db.uploads /\ acked' = acked \cup {u}
               /\ UNCHANGED db
Silent == db'.uploads = db.uploads /\ db'.records = db.records /\ acked' = acked
NoNewSnap == conn'.snap # None => conn'.snap \in {conn.snap, db}

LEMMA InitRInv == Init => RInv
<1> SUFFICES ASSUME Init PROVE RInv
  OBVIOUS
<1>1. IInv
  BY InitIInv
<1>2. regime \in RegimeType
  BY ServerAssumption DEF Init
<1> QED BY <1>1, <1>2 DEF Init, RInv, ReadWhole, RowsOf, RegimeType, KeptWhole, Closed, NoWrites

LEMMA RegimeKept ==
  ASSUME RInv, [Next]_vars
  PROVE  /\ regime'.writesFail = regime.writesFail
         /\ regime' = [threads |-> regime'.threads, dashboard |-> regime'.dashboard,
                       writesFail |-> regime'.writesFail, locksTimeOut |-> regime'.locksTimeOut,
                       kills |-> regime'.kills]
<1>1. CASE UNCHANGED regime
  BY <1>1 DEF RInv
<1>2. CASE Crash
  BY <1>2, SMTT(30) DEF Crash, RInv
<1>3. UNCHANGED regime \/ Crash
  BY DEF Next, vars, Receive, Archive, Persist, PersistRaises, PersistLocked, PutGeometryLocked,
         PutGeometry, Building, BuildClear, BuildPassA, BuildPassB, BuildFlush, BuildSummarise,
         BuildCommit, BuildRaises, ReadState, ReadRows
<1> QED BY <1>1, <1>2, <1>3

(* A step that commits nothing, or commits beside, is silent. *)
LEMMA BuildingIsSilent ==
  ASSUME RInv, NEW b \in Builds, Building(b)
  PROVE  Silent /\ conn'.writes = conn.writes /\ NoNewSnap
<1>1. IsDb(db)
  BY DEF RInv, IInv, Shapes
<1>2. ASSUME NEW new, SameUploads(new, db), CommitBeside(new), UNCHANGED acked
      PROVE  Silent /\ conn'.writes = conn.writes /\ NoNewSnap
  BY <1>2 DEF SameUploads, CommitBeside, Silent, NoNewSnap, RInv, IInv, Shapes
<1>3. CASE BuildClear(b)
  BY <1>1, <1>2, <1>3, UnindexedKeeps DEF BuildClear
<1>4. CASE BuildPassA(b) \/ BuildPassB(b) \/ BuildSummarise(b)
  BY <1>4 DEF BuildPassA, BuildPassB, BuildSummarise, Silent, NoNewSnap
<1>5. CASE BuildFlush(b)
  <2>1. SameUploads([db EXCEPT !.events = @ \cup build[b].pend], db)
    BY <1>1, FieldUpdate
  <2> QED BY <1>2, <1>5, <2>1 DEF BuildFlush
<1>6. CASE BuildCommit(b)
  <2>1. SameUploads([db EXCEPT !.summary = @ \cup Summarised(db.events),
                               !.meta = [events |-> build[b].total, base |-> build[b].base]], db)
    BY <1>1, SummaryKeeps
  <2> QED BY <1>2, <1>6, <2>1 DEF BuildCommit
<1>7. CASE BuildRaises(b)
  <2>1. CASE Summing \subseteq {b} /\ ~ConnWrites
    BY <1>1, <1>2, <1>7, <2>1, UnindexedKeeps DEF BuildRaises
  <2>2. CASE ~(Summing \subseteq {b} /\ ~ConnWrites)
    BY <1>7, <2>2 DEF BuildRaises, Silent, NoNewSnap
  <2> QED BY <2>1, <2>2
<1> QED BY <1>3, <1>4, <1>5, <1>6, <1>7 DEF Building

(* A step keeps an upload whole, answers for one that is kept, or is silent. *)
LEMMA StepSeen ==
  ASSUME RInv, [Next]_vars, ~regime.writesFail
  PROVE  /\ conn'.writes = NoWrites
         /\ \/ Silent /\ (conn'.snap # None => conn'.snap \in {conn.snap, db})
            \/ \E u \in Uploads : Answered(u) /\ (conn'.snap # None => conn'.snap \in {conn.snap, db}
                                                                     /\ u \in conn'.snap.uploads)
            \/ \E u \in Uploads : /\ Kept(u) /\ conn'.snap = None
                                  /\ db'.records = db.records \cup Rows(u)
<1> USE DEF NoNewSnap
<1>0. conn.writes = NoWrites
  BY DEF RInv, KeptWhole
<1>1. CASE UNCHANGED vars
  BY <1>0, <1>1 DEF vars, Silent
<1>2. ASSUME NEW u \in Uploads, Receive(u) PROVE
    /\ conn'.writes = NoWrites /\ NoNewSnap
    /\ Silent \/ (Answered(u) /\ (conn'.snap # None => u \in conn'.snap.uploads))
  <2>1. conn'.writes = NoWrites /\ NoNewSnap
    BY <1>0, <1>2 DEF Receive, AfterRead, RInv, IInv, Shapes
  <2>2. View.uploads \subseteq db.uploads
    BY <1>0 DEF View, RInv, KeptWhole
  <2>3. u \in View.uploads /\ conn'.snap # None => u \in conn'.snap.uploads
    BY <1>0, <1>2 DEF Receive, View, AfterRead, RInv, IInv, Shapes
  <2> QED BY <1>2, <2>1, <2>2, <2>3 DEF Receive, Silent, Answered
<1>3. CASE Archive
  BY <1>0, <1>3 DEF Archive, Silent
<1>4. CASE Persist
  <2>1. handler.u \in Uploads
    BY <1>4 DEF Persist, RInv, IInv
  <2>2. /\ db'.uploads = db.uploads \cup {handler.u}
        /\ db'.records = db.records \cup Rows(handler.u)
    BY <1>0, <1>4 DEF Persist, Committed, NoWrites, RInv, IInv, Shapes, IsDb
  <2>3. conn'.writes = NoWrites /\ conn'.snap = None
    BY <1>4 DEF Persist, Closed
  <2>4. acked' \in {acked, acked \cup {handler.u}}
    BY <1>4 DEF Persist
  <2> QED BY <2>1, <2>2, <2>3, <2>4 DEF Kept
<1>5. CASE PersistRaises
  BY <1>5 DEF PersistRaises
<1>6. CASE PersistLocked \/ PutGeometryLocked
  BY <1>0, <1>6 DEF PersistLocked, PutGeometryLocked, Silent, RInv, IInv, Shapes
<1>7. ASSUME NEW g \in Layouts, PutGeometry(g) PROVE Silent /\ conn'.writes = NoWrites /\ NoNewSnap
  BY <1>0, <1>7 DEF PutGeometry, Committed, Closed, NoWrites, Silent, RInv, IInv, Shapes, IsDb
<1>8. ASSUME NEW b \in Builds, Building(b) PROVE Silent /\ conn'.writes = NoWrites /\ NoNewSnap
  BY <1>0, <1>8, BuildingIsSilent
<1>9. ASSUME NEW r \in Readers, ReadState(r) \/ ReadRows(r)
      PROVE  Silent /\ conn'.writes = NoWrites /\ NoNewSnap
  BY <1>0, <1>9 DEF ReadState, ReadRows, AfterRead, Silent, RInv, IInv, Shapes
<1>10. CASE Crash
  BY <1>10 DEF Crash, Closed, Silent
<1> QED
  BY <1>1, <1>2, <1>3, <1>4, <1>5, <1>6, <1>7, <1>8, <1>9, <1>10 DEF Next

LEMMA StepRInv == RInv /\ [Next]_vars => RInv'
<1> SUFFICES ASSUME RInv, [Next]_vars PROVE RInv'
  OBVIOUS
<1>1. IInv'
  BY StepIInv DEF RInv
<1>2. KeptWhole'
  <2> SUFFICES ASSUME ~regime.writesFail PROVE KeptWhole'
    BY RegimeKept DEF KeptWhole
  <2>1. /\ conn.snap # None => conn.snap.uploads \subseteq db.uploads
        /\ acked \subseteq db.uploads
        /\ \A u \in db.uploads : Rows(u) \subseteq db.records
    BY DEF RInv, KeptWhole
  <2>2. conn'.writes = NoWrites
    BY StepSeen
  <2>3. CASE Silent /\ (conn'.snap # None => conn'.snap \in {conn.snap, db})
    BY <2>1, <2>2, <2>3 DEF Silent, KeptWhole, NoWrites, Rows
  <2>4. ASSUME NEW u \in Uploads, Answered(u),
               conn'.snap # None => conn'.snap \in {conn.snap, db} /\ u \in conn'.snap.uploads
        PROVE  KeptWhole'
    BY <2>1, <2>2, <2>4 DEF Answered, KeptWhole, NoWrites, Rows
  <2>5. ASSUME NEW u \in Uploads, Kept(u), conn'.snap = None, db'.records = db.records \cup Rows(u)
        PROVE  KeptWhole'
    BY <2>1, <2>2, <2>5 DEF Kept, KeptWhole, NoWrites, Rows
  <2> QED BY <2>3, <2>4, <2>5, StepSeen
<1>3. ReadWhole'
  <2> SUFFICES ASSUME ~regime.writesFail PROVE ReadWhole'
    BY RegimeKept DEF ReadWhole
  <2>1. /\ db.records = RowsOf(db.uploads) /\ acked \subseteq db.uploads
        /\ conn.snap # None => acked \subseteq conn.snap.uploads
                               /\ conn.snap.records = RowsOf(conn.snap.uploads)
    BY DEF RInv, KeptWhole, ReadWhole
  <2>2. CASE Silent /\ (conn'.snap # None => conn'.snap \in {conn.snap, db})
    BY <2>1, <2>2 DEF Silent, ReadWhole, RowsOf, Rows
  <2>3. ASSUME NEW u \in Uploads, Answered(u),
               conn'.snap # None => conn'.snap \in {conn.snap, db} /\ u \in conn'.snap.uploads
        PROVE  ReadWhole'
    BY <2>1, <2>3 DEF Answered, ReadWhole, RowsOf, Rows
  <2>4. ASSUME NEW u \in Uploads, Kept(u), conn'.snap = None, db'.records = db.records \cup Rows(u)
        PROVE  ReadWhole'
    BY <2>1, <2>4 DEF Kept, ReadWhole, RowsOf, Rows
  <2> QED BY <2>2, <2>3, <2>4, StepSeen
<1> QED BY <1>1, <1>2, <1>3, RegimeKept DEF RInv

LEMMA RInvHolds == Spec => []RInv
  BY InitRInv, StepRInv, PTL DEF Spec

(* As long as no write raises half-way, what a phone was answered is read back whole, on a   *)
(* connection a refused write has left in an old snapshot as well; and the experiments list  *)
(* and the statistics count the same records.                                                *)
THEOREM AnsweredUploadsAreServed == Spec => []WholeWritesAreServed
<1>1. RInv => WholeWritesAreServed
  <2> SUFFICES ASSUME RInv, ~regime.writesFail
               PROVE  /\ AckedIsServed
                      /\ Like = Uploads => Experiments(View).records = Stats(View).records
    BY DEF WholeWritesAreServed
  <2>1. conn.writes = NoWrites /\ View \in {db, conn.snap}
    BY DEF RInv, KeptWhole, View
  <2>2. acked \subseteq View.uploads /\ View.records = RowsOf(View.uploads)
    BY <2>1 DEF RInv, KeptWhole, ReadWhole, View
  <2>3. View.uploads \subseteq Uploads
    BY ViewArchived DEF RInv, IInv
  <2> HIDE DEF View
  <2>4. AckedIsServed
    <3> SUFFICES ASSUME NEW u \in acked
                 PROVE  /\ Rows(u) \subseteq View.records
                        /\ u \in Like => {x \in Rows(u) : x.r.kind = "marker"} \subseteq Topology(View)
      BY DEF AckedIsServed
    <3>1. Rows(u) \subseteq View.records
      BY <2>2 DEF RowsOf
    <3>2. \A x \in Rows(u) : x.u = u
      BY DEF Rows
    <3> QED BY <3>1, <3>2 DEF Topology
  <2>5. Like = Uploads => View.uploads \cap Like = View.uploads
    BY <2>3
  <2> QED BY <2>2, <2>4, <2>5 DEF Experiments, Stats, RowsOf
<1> QED BY <1>1, RInvHolds, PTL

(* While writes do not raise, the uploads of the database are all whole. *)
LEMMA AllWhole ==
  ASSUME RInv, ~regime.writesFail
  PROVE  Whole = db.uploads
  BY DEF RInv, KeptWhole, Whole

LEMMA StepRefines ==
  RInv /\ RInv' /\ [Next]_vars =>
    [Promise!Next]_<<IF regime.writesFail THEN {} ELSE Whole, IF regime.writesFail THEN {} ELSE acked>>
<1> SUFFICES ASSUME RInv, RInv', [Next]_vars
    PROVE [Promise!Next]_<<IF regime.writesFail THEN {} ELSE Whole, IF regime.writesFail THEN {} ELSE acked>>
  OBVIOUS
<1>1. regime'.writesFail = regime.writesFail
  BY RegimeKept
<1>2. CASE regime.writesFail
  BY <1>1, <1>2
<1>3. CASE ~regime.writesFail
  <2>1. Whole = db.uploads /\ Whole' = db'.uploads
    <3>1. Whole = db.uploads
      BY <1>3, AllWhole
    <3>2. Whole' = db'.uploads
      BY <1>1, <1>3 DEF RInv, KeptWhole, Whole
    <3> QED BY <3>1, <3>2
  <2>2. CASE Silent
    BY <1>1, <1>3, <2>1, <2>2 DEF Silent
  <2>3. ASSUME NEW u \in Uploads, Answered(u) PROVE Promise!Next
    BY <1>1, <1>3, <2>1, <2>3 DEF Answered, Promise!Next, Promise!Acknowledge
  <2>4. ASSUME NEW u \in Uploads, Kept(u) PROVE Promise!Next
    BY <1>1, <1>3, <2>1, <2>4 DEF Kept, Promise!Next, Promise!Keep, Promise!KeepAndAcknowledge
  <2> QED BY <1>3, <2>2, <2>3, <2>4, StepSeen
<1> QED BY <1>2, <1>3

(* The server implements the collector, for any uploads, builders, readers and geometries and *)
(* any number of kills: as long as no write raises half-way, an upload is kept whole and at    *)
(* once, stays kept, and is kept before any request answers for it.                            *)
THEOREM ServerKeepsItsPromise == Spec => KeepsWhatItAnswers
<1>1. Init => Promise!Init
  BY DEF Init, Promise!Init, Whole
<1> QED BY <1>1, RInvHolds, StepRefines, PTL DEF Spec, KeepsWhatItAnswers, Promise!Spec

-----------------------------------------------------------------------------
(* The rows of the index                                                   *)

(* What each record makes of a packet, beside the records it is read with. *)
Sealed(recs, row, p) ==
  \E s \in recs : s.r.kind = "sealed" /\ s.r.msg = row.r.msg /\ p \in s.r.pkts
Tells(recs, row, p, ev) ==
  \/ row.r.kind \in {"sealed", "ackTx"} /\ ev = "mint" /\ p \in row.r.pkts
  \/ row.r.kind = "ackRx" /\ ev = "ackRx" /\ p \in row.r.pkts
  \/ row.r.kind = "recv" /\ ev = "deliver" /\ Sealed(recs, row, p)
Relays(row, p, ev) ==
  row.r.kind \in {"relay", "custody", "packetDup", "drop"} /\ ev = row.r.ev /\ p \in row.r.pkts

LEMMA InMessageRows ==
  ASSUME NEW recs, NEW b, NEW e
  PROVE  e \in MessageRows(recs, b) <=>
           \E row \in recs : \E p, ev : Tells(recs, row, p, ev) /\ e = Event(row, p, ev, b)
<1> DEFINE Of(row) ==
      CASE row.r.kind = "sealed" -> {Event(row, p, "mint", b) : p \in row.r.pkts}
        [] row.r.kind = "ackTx" -> {Event(row, p, "mint", b) : p \in row.r.pkts}
        [] row.r.kind = "ackRx" -> {Event(row, p, "ackRx", b) : p \in row.r.pkts}
        [] row.r.kind = "recv" ->
             {Event(row, p, "deliver", b) :
                p \in UNION {s.r.pkts : s \in {x \in recs : x.r.kind = "sealed" /\ x.r.msg = row.r.msg}}}
        [] OTHER -> {}
<1>1. MessageRows(recs, b) = UNION {Of(row) : row \in recs}
  BY DEF MessageRows
<1>2. ASSUME NEW row \in recs
      PROVE  e \in Of(row) <=> \E p, ev : Tells(recs, row, p, ev) /\ e = Event(row, p, ev, b)
  <2>1. CASE row.r.kind \in {"sealed", "ackTx"}
    <3>1. Of(row) = {Event(row, p, "mint", b) : p \in row.r.pkts}
      BY <2>1
    <3> HIDE DEF Of
    <3> QED BY <2>1, <3>1 DEF Tells
  <2>2. CASE row.r.kind = "ackRx"
    <3>1. Of(row) = {Event(row, p, "ackRx", b) : p \in row.r.pkts}
      BY <2>2
    <3> HIDE DEF Of
    <3> QED BY <2>2, <3>1 DEF Tells
  <2>3. CASE row.r.kind = "recv"
    <3> DEFINE P == UNION {s.r.pkts : s \in {x \in recs : x.r.kind = "sealed" /\ x.r.msg = row.r.msg}}
    <3>1. Of(row) = {Event(row, p, "deliver", b) : p \in P}
      BY <2>3
    <3>2. \A p : p \in P <=> Sealed(recs, row, p)
      BY DEF Sealed
    <3> HIDE DEF Of, P
    <3> QED BY <2>3, <3>1, <3>2 DEF Tells
  <2>4. CASE row.r.kind \notin {"sealed", "ackTx", "ackRx", "recv"}
    <3>1. Of(row) = {}
      BY <2>4
    <3> HIDE DEF Of
    <3> QED BY <2>4, <3>1 DEF Tells
  <2> QED BY <2>1, <2>2, <2>3, <2>4
<1> HIDE DEF Of
<1> QED BY <1>1, <1>2

LEMMA InTransitRows ==
  ASSUME NEW recs, NEW b, NEW e
  PROVE  e \in TransitRows(recs, b) <=>
           \E row \in recs : \E p, ev : Relays(row, p, ev) /\ e = Event(row, p, ev, b)
  BY DEF TransitRows, Relays

(* The rows of more records are more rows. *)
LEMMA RowsGrow ==
  ASSUME NEW few, NEW many, few \subseteq many, NEW b
  PROVE  /\ MessageRows(few, b) \subseteq MessageRows(many, b)
         /\ TransitRows(few, b) \subseteq TransitRows(many, b)
<1>1. \A row, p, ev : Tells(few, row, p, ev) => Tells(many, row, p, ev)
  BY DEF Tells, Sealed
<1> QED BY <1>1, InMessageRows, InTransitRows

(* The two passes never make the same row. *)
LEMMA PassesApart ==
  ASSUME NEW recs, NEW others, NEW b
  PROVE  MessageRows(recs, b) \cap TransitRows(others, b) = {}
<1> SUFFICES ASSUME NEW e \in MessageRows(recs, b), e \in TransitRows(others, b) PROVE FALSE
  OBVIOUS
<1>1. e.src.r.kind \in {"sealed", "ackTx", "ackRx", "recv"}
  BY InMessageRows DEF Tells, Event
<1>2. e.src.r.kind \in {"relay", "custody", "packetDup", "drop"}
  BY InTransitRows DEF Relays, Event
<1> QED BY <1>1, <1>2

Unsigned(e) == [e EXCEPT !.by = None]
Signed(e, b) == [e EXCEPT !.by = b]

(* The rows that a thread wrote, without its name, are those that nobody wrote. *)
LEMMA RowsUnsigned ==
  ASSUME NEW recs, NEW others, NEW b
  PROVE  LET rows == MessageRows(recs, b) \cup TransitRows(others, b)
         IN  /\ {Unsigned(e) : e \in rows} = MessageRows(recs, None) \cup TransitRows(others, None)
             /\ \A e \in rows : Signed(Unsigned(e), b) = e
<1> DEFINE rows == MessageRows(recs, b) \cup TransitRows(others, b)
           bare == MessageRows(recs, None) \cup TransitRows(others, None)
<1>1. \A row, p, ev : /\ Unsigned(Event(row, p, ev, b)) = Event(row, p, ev, None)
                      /\ Signed(Event(row, p, ev, None), b) = Event(row, p, ev, b)
  BY DEF Unsigned, Signed, Event
<1> DEFINE Made(row, p, ev) == \/ row \in recs /\ Tells(recs, row, p, ev)
                               \/ row \in others /\ Relays(row, p, ev)
<1>2. \A e : e \in rows <=> \E row, p, ev : Made(row, p, ev) /\ e = Event(row, p, ev, b)
  BY InMessageRows, InTransitRows
<1>3. \A e : e \in bare <=> \E row, p, ev : Made(row, p, ev) /\ e = Event(row, p, ev, None)
  BY InMessageRows, InTransitRows
<1> HIDE DEF rows, bare, Made
<1>4. {Unsigned(e) : e \in rows} = bare
  <2>1. ASSUME NEW e \in rows PROVE Unsigned(e) \in bare
    BY <1>1, <1>2, <1>3
  <2>2. ASSUME NEW f \in bare PROVE \E e \in rows : f = Unsigned(e)
    BY <1>1, <1>2, <1>3
  <2> QED BY <2>1, <2>2
<1>5. \A e \in rows : Signed(Unsigned(e), b) = e
  BY <1>1, <1>2
<1> QED BY <1>4, <1>5 DEF rows, bare

(* Finitely many records make finitely many rows. *)
LEMMA RowsFinite ==
  ASSUME NEW recs, IsFiniteSet(recs), recs \subseteq AllRows, NEW b
  PROVE  IsFiniteSet(MessageRows(recs, b)) /\ IsFiniteSet(TransitRows(recs, b))
<1> DEFINE of == [row \in recs |-> row.r.pkts]
           P == UNION {of[row] : row \in recs}
           what == [row \in recs |-> row.r.ev]
           E == {"mint", "ackRx", "deliver"} \cup {what[row] : row \in recs}
           D == recs \X (P \X E)
           make == [d \in D |-> Event(d[1], d[2][1], d[2][2], b)]
           M == {make[d] : d \in D}
<1>1. IsFiniteSet(P)
  <2>1. \A row \in recs : IsFiniteSet(of[row])
    BY FiniteAssumption DEF AllRows, Rows
  <2>2. IsFiniteSet({of[row] : row \in recs})
    BY ImageIsFinite
  <2> QED BY <2>1, <2>2, FS_UNION
<1>2. IsFiniteSet(E)
  <2>1. IsFiniteSet({"mint", "ackRx"}) /\ IsFiniteSet({"deliver"})
    BY PairIsFinite, FS_Singleton
  <2>2. IsFiniteSet({"mint", "ackRx"} \cup {"deliver"})
    BY <2>1, FS_Union
  <2>3. IsFiniteSet({what[row] : row \in recs})
    BY ImageIsFinite
  <2>4. {"mint", "ackRx", "deliver"} = {"mint", "ackRx"} \cup {"deliver"}
    OBVIOUS
  <2> QED BY <2>2, <2>3, <2>4, FS_Union
<1>3. \A row \in recs : row.r.pkts \subseteq P /\ row.r.ev \in E
  OBVIOUS
<1>4. {"mint", "ackRx", "deliver"} \subseteq E
  OBVIOUS
<1> HIDE DEF P, E
<1>5. IsFiniteSet(D)
  BY <1>1, <1>2, FS_Product
<1>6. \A row \in recs, p \in P, ev \in E : Event(row, p, ev, b) \in M
  <2> TAKE row \in recs, p \in P, ev \in E
  <2>1. <<row, <<p, ev>> >> \in D /\ make[<<row, <<p, ev>> >>] = Event(row, p, ev, b)
    OBVIOUS
  <2> QED BY <2>1
<1>7. IsFiniteSet(M)
  <2>1. DOMAIN make = D
    OBVIOUS
  <2> HIDE DEF make, D
  <2> QED BY <1>5, <2>1, ImageIsFinite
<1> HIDE DEF M
<1>8. MessageRows(recs, b) \in SUBSET M
  <2> SUFFICES ASSUME NEW e \in MessageRows(recs, b) PROVE e \in M
    OBVIOUS
  <2>1. PICK row, p, ev : row \in recs /\ Tells(recs, row, p, ev) /\ e = Event(row, p, ev, b)
    BY InMessageRows
  <2>2. p \in P /\ ev \in E
    BY <1>3, <1>4, <2>1 DEF Tells, Sealed
  <2> QED BY <1>6, <2>1, <2>2
<1>9. TransitRows(recs, b) \in SUBSET M
  <2> SUFFICES ASSUME NEW e \in TransitRows(recs, b) PROVE e \in M
    OBVIOUS
  <2>1. PICK row, p, ev : row \in recs /\ Relays(row, p, ev) /\ e = Event(row, p, ev, b)
    BY InTransitRows
  <2>2. p \in P /\ ev \in E
    BY <1>3, <2>1 DEF Relays
  <2> QED BY <1>6, <2>1, <2>2
<1> QED BY <1>7, <1>8, <1>9, FS_Subset

-----------------------------------------------------------------------------
(* The lists of the index                                                  *)

LEMMA CountTells ==
  ASSUME NEW T, IsFiniteSet(T)
  PROVE  /\ Cardinality(T) \in Nat
         /\ Cardinality(T) > 0 <=> T # {}
         /\ Cardinality(T) >= 2 <=> \E x, y \in T : x # y
<1>1. Cardinality(T) \in Nat /\ (Cardinality(T) = 0 <=> T = {})
  BY FS_CardinalityType, FS_EmptySet
<1>2. ASSUME Cardinality(T) >= 2 PROVE \E x, y \in T : x # y
  <2>1. PICK x \in T : TRUE
    BY <1>1, <1>2
  <2>2. IsFiniteSet({x}) /\ Cardinality({x}) = 1
    BY FS_Singleton
  <2>3. T # {x}
    BY <1>2, <2>2
  <2> QED BY <2>1, <2>3
<1>3. ASSUME NEW x \in T, NEW y \in T, x # y PROVE Cardinality(T) >= 2
  <2>1. IsFiniteSet({x}) /\ Cardinality({x}) = 1
    BY FS_Singleton
  <2>2. {x} \in SUBSET T /\ {x} # T
    BY <1>3
  <2>3. Cardinality({x}) < Cardinality(T)
    BY <2>2, Fewer
  <2> QED BY <1>1, <2>1, <2>3
<1> QED BY <1>1, <1>2, <1>3

Terms == {"relayed", "delivered", "carried", "seen"}

(* One summary row meets a term or its negation, and meets the term if the route shows it. *)
LEMMA RowMeetsTerm ==
  ASSUME NEW events, IsFiniteSet(events), NEW s \in Summarised(events), NEW name \in Terms
  PROVE  LET route == {e \in events : e.pkt = s.pkt}
         IN  /\ Meets(s, [name |-> name, neg |-> FALSE]) <=> Shows(route, name)
             /\ Meets(s, [name |-> name, neg |-> TRUE]) <=> ~Shows(route, name)
<1> DEFINE route == {e \in events : e.pkt = s.pkt}
           Of(ev) == {e \in events : e.pkt = s.pkt /\ e.ev = ev}
           devs == {e.src.r.dev : e \in {x \in events : x.pkt = s.pkt}}
<1>1. /\ s.nodes = Cardinality(devs)
      /\ s.relays = Cardinality(Of("relay"))
      /\ s.delivers = Cardinality(Of("deliver"))
      /\ s.conveys = Cardinality(Of("convey"))
      /\ s.acked = Cardinality(Of("ackRx"))
  <2> DEFINE at(p, ev) == {e \in events : e.pkt = p /\ e.ev = ev}
             seenBy(p) == {e.src.r.dev : e \in {x \in events : x.pkt = p}}
  <2>1. \E p : s = [pkt |-> p, nodes |-> Cardinality(seenBy(p)),
                   relays |-> Cardinality(at(p, "relay")), delivers |-> Cardinality(at(p, "deliver")),
                   conveys |-> Cardinality(at(p, "convey")), acked |-> Cardinality(at(p, "ackRx"))]
    BY DEF Summarised
  <2>2. devs = seenBy(s.pkt) /\ \A ev : Of(ev) = at(s.pkt, ev)
    OBVIOUS
  <2> HIDE DEF at, seenBy, devs, Of
  <2> QED BY <2>1, <2>2
<1>2. \A ev : IsFiniteSet(Of(ev))
  <2> TAKE ev
  <2>1. Of(ev) \in SUBSET events
    OBVIOUS
  <2> QED BY <2>1, FS_Subset
<1>3. IsFiniteSet(devs)
  <2> DEFINE f == [e \in route |-> e.src.r.dev]
  <2>1. IsFiniteSet(route)
    <3>1. route \in SUBSET events
      OBVIOUS
    <3> QED BY <3>1, FS_Subset
  <2>2. IsFiniteSet({f[e] : e \in route})
    BY <2>1, ImageIsFinite
  <2>3. {f[e] : e \in route} = devs
    OBVIOUS
  <2> QED BY <2>2, <2>3
<1>4. \A ev : Of(ev) # {} <=> \E e \in route : e.ev = ev
  OBVIOUS
<1>5. (\E x, y \in devs : x # y) <=> \E e, f \in route : e.src.r.dev # f.src.r.dev
  OBVIOUS
<1> HIDE DEF route, Of, devs
<1>6. CASE name = "relayed"
  <2>1. Shows(route, name) <=> \E e \in route : e.ev = "relay"
    BY <1>6 DEF Shows
  <2>2. s.relays \in Nat /\ (s.relays > 0 <=> Shows(route, name))
    BY <1>1, <1>2, <1>4, <2>1, CountTells
  <2>3. /\ Meets(s, [name |-> name, neg |-> FALSE]) <=> s.relays > 0
        /\ Meets(s, [name |-> name, neg |-> TRUE]) <=> s.relays = 0
    BY <1>6 DEF Meets
  <2> QED BY <2>2, <2>3 DEF route
<1>7. CASE name = "delivered"
  <2>1. Shows(route, name) <=> \E e \in route : e.ev \in {"deliver", "ackRx"}
    BY <1>7 DEF Shows
  <2>2. /\ s.delivers \in Nat /\ s.acked \in Nat
        /\ s.delivers > 0 <=> \E e \in route : e.ev = "deliver"
        /\ s.acked > 0 <=> \E e \in route : e.ev = "ackRx"
    BY <1>1, <1>2, <1>4, CountTells
  <2>3. /\ Meets(s, [name |-> name, neg |-> FALSE]) <=> (s.delivers > 0 \/ s.acked > 0)
        /\ Meets(s, [name |-> name, neg |-> TRUE]) <=> (s.delivers = 0 /\ s.acked = 0)
    BY <1>7 DEF Meets
  <2>4. (s.delivers > 0 \/ s.acked > 0) <=> Shows(route, name)
    BY <2>1, <2>2
  <2> QED BY <2>2, <2>3, <2>4 DEF route
<1>8. CASE name = "carried"
  <2>1. Shows(route, name) <=> \E e \in route : e.ev = "convey"
    BY <1>8 DEF Shows
  <2>2. s.conveys \in Nat /\ (s.conveys > 0 <=> Shows(route, name))
    BY <1>1, <1>2, <1>4, <2>1, CountTells
  <2>3. /\ Meets(s, [name |-> name, neg |-> FALSE]) <=> s.conveys > 0
        /\ Meets(s, [name |-> name, neg |-> TRUE]) <=> s.conveys = 0
    BY <1>8 DEF Meets
  <2> QED BY <2>2, <2>3 DEF route
<1>9. CASE name = "seen"
  <2>1. Shows(route, name) <=> \E e, f \in route : e.src.r.dev # f.src.r.dev
    BY <1>9 DEF Shows
  <2>2. s.nodes \in Nat /\ (s.nodes >= 2 <=> Shows(route, name))
    BY <1>1, <1>3, <1>5, <2>1, CountTells
  <2>3. /\ Meets(s, [name |-> name, neg |-> FALSE]) <=> s.nodes >= 2
        /\ Meets(s, [name |-> name, neg |-> TRUE]) <=> s.nodes < 2
    BY <1>9 DEF Meets
  <2> QED BY <2>2, <2>3 DEF route
<1> QED BY <1>6, <1>7, <1>8, <1>9 DEF Terms

LEMMA ListsAreTrue ==
  ASSUME IsFiniteSet(db.events), db.summary = Summarised(db.events), NEW name \in Terms
  PROVE  LET listed == Packets(db.summary, {[name |-> name, neg |-> FALSE]}, "and")
             others == Packets(db.summary, {[name |-> name, neg |-> TRUE]}, "or")
         IN  /\ listed \cap others = {} /\ listed \cup others = db.summary
             /\ listed = {s \in db.summary : Shows(Route(db, s.pkt), name)}
<1> DEFINE is == [name |-> name, neg |-> FALSE]
           isNot == [name |-> name, neg |-> TRUE]
<1>1. Packets(db.summary, {is}, "and") = {s \in db.summary : Meets(s, is)}
  <2> HIDE DEF is
  <2> QED BY DEF Packets
<1>2. Packets(db.summary, {isNot}, "or") = {s \in db.summary : Meets(s, isNot)}
  <2> HIDE DEF isNot
  <2> QED BY DEF Packets
<1>3. \A s \in db.summary : /\ Meets(s, is) <=> Shows(Route(db, s.pkt), name)
                            /\ Meets(s, isNot) <=> ~Shows(Route(db, s.pkt), name)
  BY RowMeetsTerm DEF Route
<1> HIDE DEF is, isNot
<1> QED BY <1>1, <1>2, <1>3 DEF is, isNot

-----------------------------------------------------------------------------
(* A build that has the index to itself                                    *)

MadeBy(events, b, base, scan) ==
  \E few, many \in SUBSET scan :
    /\ base \subseteq few /\ base \subseteq many
    /\ events = MessageRows(few, b) \cup TransitRows(many, b)

(* What a build has written and has in hand is what its passes made of the records it saw, *)
(* each of them once, and it has counted them.                                             *)
Progress(b, d, events, scan) ==
  LET all == events \cup d.pend
  IN  /\ d.base \subseteq scan
      /\ events \cap d.pend = {} /\ d.total = Cardinality(all)
      /\ d.pc = "cleared" => all = {}
      /\ d.pc = "passA" => \E few \in SUBSET scan : d.base \subseteq few /\ all = MessageRows(few, b)
      /\ d.pc \in {"passB", "summing"} => MadeBy(all, b, d.base, scan)
      /\ d.pc = "summing" => d.pend = {}
Solo(b) ==
  /\ \A o \in Builds \ {b} : build[o].pc = "idle"
  /\ db.summary = {}
  /\ Progress(b, build[b], db.events, Scan)
Indexed ==
  /\ \E b \in Builds : MadeBy(db.events, b, db.meta.base, Scan)
  /\ db.meta.events = Cardinality(db.events)
  /\ db.summary = Summarised(db.events)

IsBuild(d) ==
  /\ d = [pc |-> d.pc, pend |-> d.pend, total |-> d.total, base |-> d.base, solo |-> d.solo]
  /\ d.pc = "idle" => d = Idle
  /\ d.pc \in {"idle", "cleared", "passA", "passB", "summing"}
IndexInv ==
  /\ IInv
  /\ build = [b \in Builds |-> build[b]] /\ \A b \in Builds : IsBuild(build[b])
  /\ IsFiniteSet(db.records) /\ IsFiniteSet(conn.writes.records)
  /\ \A b \in Builds : build[b].solo => Solo(b)
  /\ alone => Indexed /\ \A b \in Builds : build[b].pc = "idle"

LEMMA IdleIsBuild ==
  IsBuild(Idle) /\ ~Idle.solo /\ Idle.pend = {} /\ Idle.pc = "idle" /\ Idle.total = 0
  BY DEF IsBuild, Idle

LEMMA InitIndexInv == Init => IndexInv
<1> SUFFICES ASSUME Init PROVE IndexInv
  OBVIOUS
<1>1. IInv
  BY InitIInv
<1>2. build = [b \in Builds |-> Idle] /\ ~alone
  BY DEF Init
<1>3. IsFiniteSet(db.records) /\ IsFiniteSet(conn.writes.records)
  BY FS_EmptySet DEF Init, Closed, NoWrites
<1> QED BY <1>1, <1>2, <1>3, IdleIsBuild DEF IndexInv

(* While one builds, no other has the index to itself, and the index is not settled. *)
LEMMA OthersWork ==
  ASSUME IndexInv, NEW b \in Builds, build[b].pc # "idle"
  PROVE  ~alone /\ \A o \in Builds \ {b} : ~build[o].solo
  BY DEF IndexInv, Solo

LEMMA MoreRecords ==
  ASSUME NEW few, NEW many, few \subseteq many
  PROVE  /\ \A events, b, base : MadeBy(events, b, base, few) => MadeBy(events, b, base, many)
         /\ \A b, d, events : Progress(b, d, events, few) => Progress(b, d, events, many)
<1>1. \A s : s \in SUBSET few => s \in SUBSET many
  OBVIOUS
<1>2. \A events, b, base : MadeBy(events, b, base, few) => MadeBy(events, b, base, many)
  BY <1>1 DEF MadeBy
<1>3. ASSUME NEW b, NEW d, NEW events, Progress(b, d, events, few) PROVE Progress(b, d, events, many)
  <2> DEFINE all == events \cup d.pend
  <2>1. /\ d.base \subseteq few
        /\ events \cap d.pend = {} /\ d.total = Cardinality(all)
        /\ d.pc = "cleared" => all = {}
        /\ d.pc = "passA" => \E s \in SUBSET few : d.base \subseteq s /\ all = MessageRows(s, b)
        /\ d.pc \in {"passB", "summing"} => MadeBy(all, b, d.base, few)
        /\ d.pc = "summing" => d.pend = {}
    BY <1>3 DEF Progress
  <2> HIDE DEF all
  <2>2. /\ d.base \subseteq many
        /\ d.pc = "passA" => \E s \in SUBSET many : d.base \subseteq s /\ all = MessageRows(s, b)
        /\ d.pc \in {"passB", "summing"} => MadeBy(all, b, d.base, many)
    BY <1>1, <1>2, <2>1
  <2> QED BY <2>1, <2>2 DEF Progress, all
<1> QED BY <1>2, <1>3

LEMMA BatchRowsFinite ==
  ASSUME NEW u \in Uploads
  PROVE  IsFiniteSet(Rows(u))
<1> DEFINE f == [r \in Batch[u] |-> [u |-> u, r |-> r]]
<1>1. IsFiniteSet({f[r] : r \in Batch[u]})
  BY FiniteAssumption, ImageIsFinite
<1>2. {f[r] : r \in Batch[u]} = Rows(u)
  BY DEF Rows
<1> QED BY <1>1, <1>2

(* Steps that leave the index to itself: records may be added, or every build killed. *)
LEMMA IndexUntouched ==
  ASSUME IndexInv, IInv', alone' = alone,
         build' = build \/ build' = [b \in Builds |-> Idle],
         db'.events = db.events, db'.summary = db.summary, db'.meta = db.meta,
         db.records \subseteq db'.records,
         IsFiniteSet(db'.records), IsFiniteSet(conn'.writes.records)
  PROVE  IndexInv'
<1>1. Scan \subseteq Scan'
  BY DEF Scan
<1>2. alone' => Indexed'
  BY <1>1, MoreRecords DEF IndexInv, Indexed
<1>3. CASE build' = build
  <2>1. ASSUME NEW b \in Builds, build'[b].solo PROVE Solo(b)'
    <3>1. Solo(b)
      BY <1>3, <2>1 DEF IndexInv
    <3>2. Progress(b, build[b], db.events, Scan')
      BY <1>1, <3>1, MoreRecords DEF Solo
    <3> QED BY <1>3, <3>1, <3>2 DEF Solo
  <2> QED BY <1>2, <1>3, <2>1 DEF IndexInv
<1>4. CASE build' = [b \in Builds |-> Idle]
  BY <1>2, <1>4, IdleIsBuild DEF IndexInv
<1> QED BY <1>3, <1>4

(* A step of one build that is under way. *)
LEMMA OneBuilds ==
  ASSUME IndexInv, IInv', NEW b \in Builds, build[b].pc # "idle", NEW d, IsBuild(d),
         build' = [build EXCEPT ![b] = d], ~alone',
         db'.records = db.records, conn'.writes = conn.writes,
         d.solo => build[b].solo /\ db'.summary = db.summary /\ Progress(b, d, db'.events, Scan)
  PROVE  IndexInv'
<1>1. \A o \in Builds \ {b} : build'[o] = build[o] /\ ~build[o].solo
  BY OthersWork DEF IndexInv
<1>2. build'[b] = d /\ build' = [c \in Builds |-> build'[c]]
  BY DEF IndexInv
<1>3. Scan' = Scan
  BY DEF Scan
<1>4. d.solo => Solo(b)'
  <2> SUFFICES ASSUME d.solo PROVE Solo(b)'
    OBVIOUS
  <2>1. Solo(b)
    BY DEF IndexInv
  <2> QED BY <1>1, <1>2, <1>3, <2>1 DEF Solo
<1>5. \A c \in Builds : IsBuild(build'[c]) /\ (build'[c].solo => Solo(c)')
  BY <1>1, <1>2, <1>4 DEF IndexInv
<1> QED BY <1>2, <1>5 DEF IndexInv

LEMMA Emitted ==
  ASSUME IndexInv, NEW b \in Builds, NEW rows, NEW pc, Emit(b, rows, pc)
  PROVE  LET d == build[b]
         IN  build' = [build EXCEPT ![b] =
               [pc |-> pc, pend |-> d.pend \cup rows, total |-> d.total + Cardinality(rows),
                base |-> d.base, solo |-> d.solo]]
<1> DEFINE d == build[b]
           e == [pc |-> pc, pend |-> d.pend \cup rows, total |-> d.total + Cardinality(rows),
                 base |-> d.base, solo |-> d.solo]
<1>1. d = [pc |-> d.pc, pend |-> d.pend, total |-> d.total, base |-> d.base, solo |-> d.solo]
  BY DEF IndexInv, IsBuild
<1>2. DOMAIN build = Builds
  BY DEF IndexInv
<1>3. build' = [build EXCEPT ![b].pend = @ \cup rows, ![b].total = @ + Cardinality(rows), ![b].pc = pc]
  BY DEF Emit
<1>4. build'[b] = [[[d EXCEPT !.pend = @ \cup rows] EXCEPT !.total = @ + Cardinality(rows)] EXCEPT !.pc = pc]
  BY <1>2, <1>3
<1>5. build'[b] = e
  <2> HIDE DEF d
  <2> QED BY <1>1, <1>4
<1> HIDE DEF e
<1>6. build' = [build EXCEPT ![b] = e]
  BY <1>2, <1>3, <1>5
<1> QED BY <1>6 DEF e

(* What is scanned is finite and made of uploads. *)
LEMMA ScanIsFinite ==
  ASSUME IndexInv, NEW some \in SUBSET Scan
  PROVE  IsFiniteSet(some) /\ some \subseteq AllRows
<1>1. some \in SUBSET db.records
  BY DEF Scan
<1> QED BY <1>1, FS_Subset DEF IndexInv, IInv

LEMMA PassAKeepsIndex ==
  ASSUME IndexInv, IInv', NEW b \in Builds, BuildPassA(b)
  PROVE  IndexInv'
<1> DEFINE c == build[b]
           rows == MessageRows(Scan, b)
           d == [pc |-> "passA", pend |-> c.pend \cup rows, total |-> c.total + Cardinality(rows),
                 base |-> c.base, solo |-> c.solo]
<1>1. build' = [build EXCEPT ![b] = d]
  BY Emitted DEF BuildPassA
<1>2. IsBuild(d)
  BY DEF IsBuild
<1>3. c.pc = "cleared" /\ ~alone' /\ UNCHANGED <<db, conn>>
  BY OthersWork DEF BuildPassA
<1>4. c.solo => Progress(b, d, db.events, Scan)
  <2> SUFFICES ASSUME c.solo PROVE Progress(b, d, db.events, Scan)
    OBVIOUS
  <2>1. Progress(b, c, db.events, Scan)
    BY DEF IndexInv, Solo
  <2>2. c.base \subseteq Scan /\ db.events = {} /\ c.pend = {} /\ c.total = 0
    BY <1>3, <2>1, FS_EmptySet DEF Progress
  <2>3. IsFiniteSet(rows)
    BY ScanIsFinite, RowsFinite
  <2> HIDE DEF rows
  <2>4. Cardinality(rows) \in Nat
    BY <2>3, FS_CardinalityType
  <2>5. d.pend = rows /\ d.total = Cardinality(rows) /\ d.base = c.base /\ d.pc = "passA"
    BY <2>2, <2>4
  <2> HIDE DEF d
  <2> QED BY <2>2, <2>5 DEF Progress, rows
<1> HIDE DEF d
<1>5. c.pc # "idle" /\ (d.solo => c.solo)
  BY <1>3 DEF d
<1> QED BY <1>1, <1>2, <1>3, <1>4, <1>5, OneBuilds

LEMMA PassBKeepsIndex ==
  ASSUME IndexInv, IInv', NEW b \in Builds, BuildPassB(b)
  PROVE  IndexInv'
<1> DEFINE c == build[b]
           rows == TransitRows(Scan, b)
           d == [pc |-> "passB", pend |-> c.pend \cup rows, total |-> c.total + Cardinality(rows),
                 base |-> c.base, solo |-> c.solo]
<1>1. build' = [build EXCEPT ![b] = d]
  BY Emitted DEF BuildPassB
<1>2. IsBuild(d)
  BY DEF IsBuild
<1>3. c.pc = "passA" /\ ~alone' /\ UNCHANGED <<db, conn>>
  BY OthersWork DEF BuildPassB
<1>4. c.solo => Progress(b, d, db.events, Scan)
  <2> SUFFICES ASSUME c.solo PROVE Progress(b, d, db.events, Scan)
    OBVIOUS
  <2> DEFINE all == db.events \cup c.pend
  <2>1. Progress(b, c, db.events, Scan)
    BY DEF IndexInv, Solo
  <2>2. PICK few \in SUBSET Scan : c.base \subseteq few /\ all = MessageRows(few, b)
    BY <1>3, <2>1 DEF Progress
  <2>3. c.base \subseteq Scan /\ db.events \cap c.pend = {} /\ c.total = Cardinality(all)
    BY <2>1 DEF Progress
  <2>4. IsFiniteSet(rows) /\ IsFiniteSet(all)
    BY <2>2, ScanIsFinite, RowsFinite
  <2>5. all \cap rows = {}
    BY <2>2, PassesApart
  <2>6. db.events \cup d.pend = all \cup rows /\ d.base = c.base /\ d.pc = "passB"
    OBVIOUS
  <2>7. db.events \cap d.pend = {}
    BY <2>3, <2>5
  <2>8. d.total = Cardinality(all) + Cardinality(rows)
    BY <2>3
  <2>9. MadeBy(all \cup rows, b, c.base, Scan)
    BY <2>2, <2>3 DEF MadeBy
  <2> HIDE DEF rows, all, d
  <2>10. /\ Cardinality(all \cup rows) = Cardinality(all) + Cardinality(rows) - Cardinality(all \cap rows)
         /\ Cardinality(all \cap rows) = 0
         /\ Cardinality(all) \in Nat /\ Cardinality(rows) \in Nat
    BY <2>4, <2>5, FS_Union, FS_EmptySet, FS_CardinalityType
  <2>11. d.total = Cardinality(all \cup rows)
    BY <2>8, <2>10
  <2> QED BY <2>3, <2>6, <2>7, <2>9, <2>11 DEF Progress
<1> HIDE DEF d
<1>5. c.pc # "idle" /\ (d.solo => c.solo)
  BY <1>3 DEF d
<1> QED BY <1>1, <1>2, <1>3, <1>4, <1>5, OneBuilds

LEMMA FlushKeepsIndex ==
  ASSUME IndexInv, IInv', NEW b \in Builds, BuildFlush(b)
  PROVE  IndexInv'
<1> DEFINE c == build[b]
           d == [pc |-> c.pc, pend |-> {}, total |-> c.total, base |-> c.base, solo |-> c.solo]
<1>1. /\ c = [pc |-> c.pc, pend |-> c.pend, total |-> c.total, base |-> c.base, solo |-> c.solo]
      /\ c.pc \in {"cleared", "passA", "passB", "summing"}
  BY DEF IndexInv, IsBuild, BuildFlush, Idle
<1>2. build' = [build EXCEPT ![b] = d]
  <2>1. build' = [build EXCEPT ![b] = [c EXCEPT !.pend = {}]]
    BY DEF BuildFlush
  <2>2. [c EXCEPT !.pend = {}] = d
    <3> HIDE DEF c
    <3> QED BY <1>1
  <2> QED BY <2>1, <2>2
<1>3. IsBuild(d)
  BY <1>1 DEF IsBuild
<1>4. /\ db'.events = db.events \cup c.pend /\ db'.summary = db.summary /\ db'.records = db.records
      /\ conn'.writes = conn.writes /\ ~alone'
  BY <1>1, OthersWork DEF BuildFlush, CommitBeside, IndexInv, IInv, Shapes, IsDb
<1>5. c.solo => Progress(b, d, db'.events, Scan)
  <2> SUFFICES ASSUME c.solo PROVE Progress(b, d, db'.events, Scan)
    OBVIOUS
  <2>1. Progress(b, c, db.events, Scan)
    BY DEF IndexInv, Solo
  <2>2. d.pend = {} /\ d.pc = c.pc /\ d.total = c.total /\ d.base = c.base
    OBVIOUS
  <2>3. db'.events \cup d.pend = db.events \cup c.pend
    BY <1>4, <2>2
  <2> HIDE DEF d
  <2> QED BY <2>1, <2>2, <2>3 DEF Progress
<1> HIDE DEF d
<1>6. c.pc # "idle" /\ (d.solo => c.solo)
  BY <1>1 DEF d
<1> QED BY <1>2, <1>3, <1>4, <1>5, <1>6, OneBuilds

LEMMA SummariseKeepsIndex ==
  ASSUME IndexInv, IInv', NEW b \in Builds, BuildSummarise(b)
  PROVE  IndexInv'
<1> DEFINE c == build[b]
           d == [pc |-> "summing", pend |-> c.pend, total |-> c.total, base |-> c.base, solo |-> c.solo]
<1>1. c = [pc |-> c.pc, pend |-> c.pend, total |-> c.total, base |-> c.base, solo |-> c.solo]
  BY DEF IndexInv, IsBuild
<1>2. build' = [build EXCEPT ![b] = d]
  <2>1. build' = [build EXCEPT ![b] = [c EXCEPT !.pc = "summing"]]
    BY DEF BuildSummarise
  <2>2. [c EXCEPT !.pc = "summing"] = d
    <3> HIDE DEF c
    <3> QED BY <1>1
  <2> QED BY <2>1, <2>2
<1>3. IsBuild(d)
  BY <1>1 DEF IsBuild
<1>4. c.pc = "passB" /\ c.pend = {} /\ ~alone' /\ UNCHANGED <<db, conn>>
  BY OthersWork DEF BuildSummarise
<1>5. c.solo => Progress(b, d, db.events, Scan)
  BY <1>4 DEF IndexInv, Solo, Progress
<1> HIDE DEF d
<1>6. c.pc # "idle" /\ (d.solo => c.solo)
  BY <1>4 DEF d
<1> QED BY <1>2, <1>3, <1>4, <1>5, <1>6, OneBuilds

LEMMA RaiseKeepsIndex ==
  ASSUME IndexInv, IInv', NEW b \in Builds, BuildRaises(b)
  PROVE  IndexInv'
<1>1. build[b].pc # "idle"
  BY DEF IndexInv, IsBuild, BuildRaises, Idle
<1>2. build' = [build EXCEPT ![b] = Idle] /\ ~alone'
  BY DEF BuildRaises
<1>3. SameUploads(Unindexed, db)
  BY UnindexedKeeps DEF IndexInv, IInv, Shapes
<1>4. db'.records = db.records /\ conn'.writes = conn.writes
  <2>1. conn = [txn |-> conn.txn, snap |-> conn.snap, stale |-> conn.stale, writes |-> conn.writes]
    BY DEF IndexInv, IInv, Shapes
  <2> QED BY <1>3, <2>1 DEF BuildRaises, CommitBeside, SameUploads
<1> QED BY <1>1, <1>2, <1>4, IdleIsBuild, OneBuilds

LEMMA BuildFields ==
  ASSUME NEW d, d = [pc |-> d.pc, pend |-> d.pend, total |-> d.total, base |-> d.base, solo |-> d.solo]
  PROVE  /\ \A pc : [d EXCEPT !.pc = pc]
                    = [pc |-> pc, pend |-> d.pend, total |-> d.total, base |-> d.base, solo |-> d.solo]
         /\ \A base : [d EXCEPT !.base = base]
                    = [pc |-> d.pc, pend |-> d.pend, total |-> d.total, base |-> base, solo |-> d.solo]
         /\ \A solo : [d EXCEPT !.solo = solo]
                    = [pc |-> d.pc, pend |-> d.pend, total |-> d.total, base |-> d.base, solo |-> solo]
  OBVIOUS

LEMMA ClearKeepsIndex ==
  ASSUME IndexInv, IInv', NEW b \in Builds, BuildClear(b)
  PROVE  IndexInv'
<1> DEFINE d == [Idle EXCEPT !.pc = "cleared", !.base = Scan,
                             !.solo = \A o \in Builds \ {b} : build[o].pc = "idle"]
<1>1. /\ d.pc = "cleared" /\ d.base = Scan /\ d.pend = {} /\ d.total = 0
      /\ d.solo <=> \A o \in Builds \ {b} : build[o].pc = "idle"
      /\ IsBuild(d)
  <2> DEFINE free == \A o \in Builds \ {b} : build[o].pc = "idle"
  <2> HIDE DEF free
  <2>1. [Idle EXCEPT !.pc = "cleared", !.base = Scan, !.solo = free]
          = [pc |-> "cleared", pend |-> {}, total |-> 0, base |-> Scan, solo |-> free]
    <3> DEFINE x == [Idle EXCEPT !.pc = "cleared"]
               y == [x EXCEPT !.base = Scan]
    <3>1. Idle = [pc |-> Idle.pc, pend |-> Idle.pend, total |-> Idle.total, base |-> Idle.base,
                  solo |-> Idle.solo]
      BY IdleIsBuild DEF IsBuild
    <3>2. x = [pc |-> "cleared", pend |-> Idle.pend, total |-> Idle.total, base |-> Idle.base,
               solo |-> Idle.solo]
      BY <3>1, BuildFields
    <3> HIDE DEF x
    <3>3. /\ x = [pc |-> x.pc, pend |-> x.pend, total |-> x.total, base |-> x.base, solo |-> x.solo]
          /\ x.pc = "cleared" /\ x.pend = {} /\ x.total = 0
      BY <3>2, IdleIsBuild
    <3>4. y = [pc |-> x.pc, pend |-> x.pend, total |-> x.total, base |-> Scan, solo |-> x.solo]
      BY <3>3, BuildFields
    <3> HIDE DEF y
    <3>5. /\ y = [pc |-> y.pc, pend |-> y.pend, total |-> y.total, base |-> y.base, solo |-> y.solo]
          /\ y.pc = "cleared" /\ y.pend = {} /\ y.total = 0 /\ y.base = Scan
      BY <3>3, <3>4
    <3>6. [y EXCEPT !.solo = free] = [pc |-> "cleared", pend |-> {}, total |-> 0, base |-> Scan, solo |-> free]
      BY <3>5, BuildFields
    <3> QED BY <3>6 DEF x, y
  <2>2. d = [pc |-> "cleared", pend |-> {}, total |-> 0, base |-> Scan, solo |-> free]
    BY <2>1 DEF free
  <2>3. IsBuild([pc |-> "cleared", pend |-> {}, total |-> 0, base |-> Scan, solo |-> free])
    BY DEF IsBuild
  <2>4. d.solo = free
    BY <2>2
  <2> HIDE DEF d
  <2> QED BY <2>2, <2>3, <2>4 DEF free
<1>2. build' = [c \in Builds |-> IF c = b THEN d ELSE [build[c] EXCEPT !.solo = FALSE]]
  BY DEF BuildClear
<1> HIDE DEF d
<1>3. ASSUME NEW c \in Builds, c # b
      PROVE  /\ build'[c].pc = build[c].pc /\ ~build'[c].solo
             /\ IsBuild(build'[c])
  <2>1. build'[c] = [build[c] EXCEPT !.solo = FALSE]
    BY <1>2, <1>3
  <2>2. IsBuild(build[c])
    BY DEF IndexInv
  <2> DEFINE e == build[c]
  <2>3. IsBuild(e) /\ build'[c] = [e EXCEPT !.solo = FALSE]
    BY <2>1, <2>2
  <2> HIDE DEF e
  <2>4. /\ build'[c] = [pc |-> e.pc, pend |-> e.pend, total |-> e.total, base |-> e.base, solo |-> FALSE]
        /\ build'[c].pc = e.pc
    BY <2>3 DEF IsBuild
  <2>5. e.pc = "idle" => build'[c] = Idle
    <3>1. [Idle EXCEPT !.solo = FALSE] = Idle
      BY IdleIsBuild, BuildFields DEF IsBuild, Idle
    <3>2. e.pc = "idle" => e = Idle
      BY <2>3 DEF IsBuild
    <3> QED BY <2>3, <3>1, <3>2
  <2>6. IsBuild(build'[c])
    BY <2>3, <2>4, <2>5 DEF IsBuild
  <2> QED BY <2>4, <2>6 DEF e
<1>4. build'[b] = d /\ build' = [c \in Builds |-> build'[c]] /\ ~alone'
  BY <1>2 DEF BuildClear
<1>5. /\ db'.events = {} /\ db'.summary = {} /\ db'.records = db.records
      /\ conn'.writes = conn.writes
  BY DEF BuildClear, CommitBeside, Unindexed, IndexInv, IInv, Shapes, IsDb
<1>6. Scan' = Scan
  BY <1>5 DEF Scan
<1>7. Progress(b, d, {}, Scan)
  BY <1>1, FS_EmptySet DEF Progress
<1>8. d.solo => Solo(b)'
  BY <1>1, <1>3, <1>4, <1>5, <1>6, <1>7 DEF Solo
<1>9. \A c \in Builds : IsBuild(build'[c]) /\ (build'[c].solo => Solo(c)')
  BY <1>1, <1>3, <1>4, <1>8
<1> QED BY <1>4, <1>5, <1>9 DEF IndexInv

LEMMA CommitKeepsIndex ==
  ASSUME IndexInv, IInv', NEW b \in Builds, BuildCommit(b)
  PROVE  IndexInv'
<1> DEFINE c == build[b]
<1>1. /\ db'.events = db.events /\ db'.summary = db.summary \cup Summarised(db.events)
      /\ db'.meta = [events |-> c.total, base |-> c.base] /\ db'.records = db.records
      /\ conn'.writes = conn.writes
  BY DEF BuildCommit, CommitBeside, IndexInv, IInv, Shapes, IsDb
<1>2. build' = [build EXCEPT ![b] = Idle] /\ alone' = c.solo /\ c.pc = "summing"
  BY DEF BuildCommit
<1>3. \A o \in Builds \ {b} : build'[o] = build[o] /\ ~build[o].solo
  BY <1>2, OthersWork DEF IndexInv
<1>4. build'[b] = Idle /\ build' = [o \in Builds |-> build'[o]]
  BY <1>2 DEF IndexInv
<1>5. Scan' = Scan
  BY <1>1 DEF Scan
<1>6. alone' => Indexed' /\ \A o \in Builds : build'[o].pc = "idle"
  <2> SUFFICES ASSUME c.solo PROVE Indexed' /\ \A o \in Builds : build'[o].pc = "idle"
    BY <1>2
  <2>1. Solo(b)
    BY DEF IndexInv
  <2>2. /\ c.pend = {} /\ c.total = Cardinality(db.events)
        /\ MadeBy(db.events, b, c.base, Scan)
    <3>1. Progress(b, c, db.events, Scan)
      BY <2>1 DEF Solo
    <3>2. c.pend = {}
      BY <1>2, <3>1 DEF Progress
    <3>3. db.events \cup c.pend = db.events
      BY <3>2
    <3> QED BY <1>2, <3>1, <3>2, <3>3 DEF Progress
  <2>3. db'.summary = Summarised(db.events)
    BY <1>1, <2>1 DEF Solo
  <2>4. db'.meta.events = c.total /\ db'.meta.base = c.base
    BY <1>1
  <2>5. Indexed'
    BY <1>1, <1>5, <2>2, <2>3, <2>4 DEF Indexed
  <2> QED BY <1>3, <1>4, <2>1, <2>5, IdleIsBuild DEF Solo
<1> QED BY <1>1, <1>3, <1>4, <1>6, IdleIsBuild DEF IndexInv

(* What a commit of the shared connection adds is finite. *)
LEMMA CommittedKeeps ==
  ASSUME IndexInv, NEW uploads, NEW records, IsFiniteSet(records)
  PROVE  LET new == Committed(uploads, records)
         IN  /\ new.events = db.events /\ new.summary = db.summary /\ new.meta = db.meta
             /\ db.records \subseteq new.records /\ IsFiniteSet(new.records)
<1>1. IsDb(db)
  BY DEF IndexInv, IInv, Shapes
<1>2. LET new == Committed(uploads, records)
      IN  /\ new.events = db.events /\ new.summary = db.summary /\ new.meta = db.meta
          /\ new.records = (db.records \cup conn.writes.records) \cup records
  BY <1>1 DEF Committed, IsDb
<1>3. IsFiniteSet((db.records \cup conn.writes.records) \cup records)
  BY FS_Union DEF IndexInv
<1> QED BY <1>2, <1>3

LEMMA StepIndexInv == IndexInv /\ [Next]_vars => IndexInv'
<1> SUFFICES ASSUME IndexInv, [Next]_vars PROVE IndexInv'
  OBVIOUS
<1>1. IInv'
  BY StepIInv DEF IndexInv
<1>2. IsFiniteSet(db.records) /\ IsFiniteSet(conn.writes.records) /\ Shapes /\ IInv
  BY DEF IndexInv, IInv
<1>3. ASSUME UNCHANGED <<db, build, alone>>, IsFiniteSet(conn'.writes.records) PROVE IndexInv'
  BY <1>1, <1>2, <1>3, IndexUntouched
<1>4. CASE UNCHANGED vars
  BY <1>2, <1>3, <1>4 DEF vars
<1>5. ASSUME NEW u \in Uploads, Receive(u) PROVE IndexInv'
  BY <1>2, <1>3, <1>5, ReadKeeps DEF Receive
<1>6. CASE Archive
  BY <1>2, <1>3, <1>6 DEF Archive
<1>7. CASE Persist
  <2>1. IsFiniteSet(Rows(handler.u))
    BY <1>2, <1>7, BatchRowsFinite DEF Persist, IInv
  <2>2. db' = Committed({handler.u}, Rows(handler.u)) /\ conn' = Closed /\ UNCHANGED <<build, alone>>
    BY <1>7 DEF Persist
  <2>3. IsFiniteSet(conn'.writes.records)
    BY <2>2, FS_EmptySet DEF Closed, NoWrites
  <2> QED BY <1>1, <2>1, <2>2, <2>3, CommittedKeeps, IndexUntouched
<1>8. CASE PersistRaises
  <2>1. PICK last \in Rows(handler.u) :
          conn' = [txn |-> TRUE, snap |-> db, stale |-> FALSE,
                   writes |-> [uploads |-> conn.writes.uploads \cup {handler.u},
                               records |-> conn.writes.records
                                             \cup {x \in Rows(handler.u) : x.r.n < last.r.n}]]
    BY <1>8 DEF PersistRaises
  <2> DEFINE begun == {x \in Rows(handler.u) : x.r.n < last.r.n}
  <2>2. IsFiniteSet(Rows(handler.u)) /\ begun \in SUBSET Rows(handler.u)
    BY <1>2, <1>8, BatchRowsFinite DEF PersistRaises, IInv
  <2>3. conn'.writes.records = conn.writes.records \cup begun
    BY <2>1
  <2> HIDE DEF begun
  <2>4. IsFiniteSet(conn'.writes.records)
    BY <1>2, <2>2, <2>3, FS_Subset, FS_Union
  <2> QED BY <1>3, <1>8, <2>4 DEF PersistRaises
<1>9. CASE PersistLocked \/ PutGeometryLocked
  <2>1. conn'.writes = conn.writes
    BY <1>2, <1>9 DEF PersistLocked, PutGeometryLocked, Shapes
  <2> QED BY <1>2, <1>3, <1>9, <2>1 DEF PersistLocked, PutGeometryLocked
<1>10. ASSUME NEW g \in Layouts, PutGeometry(g) PROVE IndexInv'
  <2> DEFINE new == Committed({}, {})
  <2>1. db' = [new EXCEPT !.geometry = g] /\ conn' = Closed /\ UNCHANGED <<build, alone>>
    BY <1>10 DEF PutGeometry
  <2>2. /\ new.events = db.events /\ new.summary = db.summary /\ new.meta = db.meta
        /\ db.records \subseteq new.records /\ IsFiniteSet(new.records)
    BY CommittedKeeps, FS_EmptySet
  <2>3. new = [uploads |-> new.uploads, records |-> new.records, events |-> new.events,
               summary |-> new.summary, meta |-> new.meta, geometry |-> new.geometry]
    <3> DEFINE ups == db.uploads \cup conn.writes.uploads \cup {}
               recs == db.records \cup conn.writes.records \cup {}
    <3>1. IsDb(db) /\ new = [db EXCEPT !.uploads = ups, !.records = recs]
      BY <1>2 DEF Committed, Shapes
    <3> HIDE DEF new, ups, recs
    <3>2. new = [uploads |-> ups, records |-> recs, events |-> db.events,
                 summary |-> db.summary, meta |-> db.meta, geometry |-> db.geometry]
      BY <3>1 DEF IsDb
    <3> QED BY <3>2
  <2> HIDE DEF new
  <2>4. /\ db'.events = db.events /\ db'.summary = db.summary /\ db'.meta = db.meta
        /\ db.records \subseteq db'.records /\ IsFiniteSet(db'.records)
    BY <2>1, <2>2, <2>3
  <2>5. IsFiniteSet(conn'.writes.records)
    BY <2>1, FS_EmptySet DEF Closed, NoWrites
  <2> QED BY <1>1, <2>1, <2>4, <2>5, IndexUntouched
<1>11. ASSUME NEW b \in Builds, Building(b) PROVE IndexInv'
  BY <1>1, <1>11, ClearKeepsIndex, PassAKeepsIndex, PassBKeepsIndex, FlushKeepsIndex,
     SummariseKeepsIndex, CommitKeepsIndex, RaiseKeepsIndex DEF Building
<1>12. ASSUME NEW r \in Readers, ReadState(r) \/ ReadRows(r) PROVE IndexInv'
  BY <1>2, <1>3, <1>12, ReadKeeps DEF ReadState, ReadRows
<1>13. CASE Crash
  <2>1. IsFiniteSet(conn'.writes.records)
    BY <1>13, FS_EmptySet DEF Crash, Closed, NoWrites
  <2> QED BY <1>1, <1>2, <1>13, <2>1, IndexUntouched DEF Crash
<1> QED
  BY <1>4, <1>5, <1>6, <1>7, <1>8, <1>9, <1>10, <1>11, <1>12, <1>13 DEF Next

LEMMA IndexInvHolds == Spec => []IndexInv
  BY InitIndexInv, StepIndexInv, PTL DEF Spec

(* A settled index lists every sighting once, and its lists are what its routes show. *)
LEMMA SettledIsWhole ==
  ASSUME IndexInv, alone
  PROVE  LET seen == {[e EXCEPT !.by = None] : e \in db.events}
         IN /\ Sightings(db.meta.base) \subseteq seen
            /\ seen \subseteq Sightings(Scan)
            /\ Cardinality(seen) = Cardinality(db.events)
            /\ IsFiniteSet(db.events)
<1> DEFINE E == db.events
           seen == {Unsigned(e) : e \in E}
<1>1. PICK b \in Builds : MadeBy(E, b, db.meta.base, Scan)
  BY DEF IndexInv, Indexed
<1>2. PICK few \in SUBSET Scan, many \in SUBSET Scan :
        /\ db.meta.base \subseteq few /\ db.meta.base \subseteq many
        /\ E = MessageRows(few, b) \cup TransitRows(many, b)
  BY <1>1 DEF MadeBy
<1>3. /\ seen = MessageRows(few, None) \cup TransitRows(many, None)
      /\ \A e \in E : Signed(Unsigned(e), b) = e
  BY <1>2, RowsUnsigned
<1>4. IsFiniteSet(E)
  <2>1. IsFiniteSet(MessageRows(few, b)) /\ IsFiniteSet(TransitRows(many, b))
    BY ScanIsFinite, RowsFinite
  <2> QED BY <1>2, <2>1, FS_Union
<1>5. Sightings(db.meta.base) \subseteq seen
  <2> DEFINE base == db.meta.base
  <2>1. base \subseteq few /\ base \subseteq many
    BY <1>2
  <2> HIDE DEF base, seen
  <2>2. MessageRows(base, None) \subseteq MessageRows(few, None)
    BY <2>1, RowsGrow
  <2>3. TransitRows(base, None) \subseteq TransitRows(many, None)
    BY <2>1, RowsGrow
  <2> QED BY <1>3, <2>2, <2>3 DEF Sightings, base
<1>6. seen \subseteq Sightings(Scan)
  <2>1. MessageRows(few, None) \subseteq MessageRows(Scan, None)
    BY RowsGrow
  <2>2. TransitRows(many, None) \subseteq TransitRows(Scan, None)
    BY RowsGrow
  <2> QED BY <1>3, <2>1, <2>2 DEF Sightings
<1>7. Cardinality(seen) = Cardinality(E)
  <2> DEFINE bare == [e \in E |-> Unsigned(e)]
             signed == [f \in seen |-> Signed(f, b)]
  <2>1. {bare[e] : e \in E} = seen
    OBVIOUS
  <2>2. IsFiniteSet(seen) /\ Cardinality(seen) <= Cardinality(E)
    <3>1. DOMAIN bare = E
      OBVIOUS
    <3> HIDE DEF bare, seen, E
    <3> QED BY <1>4, <2>1, <3>1, ImageIsFinite
  <2>3. {signed[f] : f \in seen} = E
    <3>1. \A e \in E : Unsigned(e) \in seen /\ signed[Unsigned(e)] = e
      BY <1>3
    <3>2. \A f \in seen : signed[f] \in E
      BY <1>3
    <3> QED BY <3>1, <3>2, ZenonT(60)
  <2>4. Cardinality(E) <= Cardinality(seen)
    <3>1. DOMAIN signed = seen
      OBVIOUS
    <3> HIDE DEF signed, seen
    <3> QED BY <2>2, <2>3, <3>1, ImageIsFinite
  <2> HIDE DEF seen, E
  <2> QED BY <1>4, <2>2, <2>4, FS_CardinalityType
<1> QED BY <1>4, <1>5, <1>6, <1>7 DEF Unsigned

(* A build with no other beside it, and none after, leaves an index that is whole: every      *)
(* sighting of the records stored when it began, once, whatever was uploaded while it ran,    *)
(* however its batches were flushed, and through any number of kills and failed builds before *)
(* it; and the lists by each term are those its routes show.                                  *)
THEOREM LoneBuildIsWhole == Spec => []IndexIsWhole
<1>1. IndexInv => IndexIsWhole
  <2> SUFFICES ASSUME IndexInv, alone, db.meta # None PROVE IndexIsWhole
    BY DEF IndexIsWhole
  <2>1. /\ db.meta.events = Cardinality(db.events) /\ db.summary = Summarised(db.events)
    BY DEF IndexInv, Indexed
  <2>2. LET seen == {[e EXCEPT !.by = None] : e \in db.events}
        IN /\ Sightings(db.meta.base) \subseteq seen
           /\ seen \subseteq Sightings(Scan)
           /\ Cardinality(seen) = Cardinality(db.events)
           /\ IsFiniteSet(db.events)
    BY SettledIsWhole
  <2>3. \A name \in {"relayed", "delivered", "carried", "seen"} :
          LET listed == Packets(db.summary, {[name |-> name, neg |-> FALSE]}, "and")
              others == Packets(db.summary, {[name |-> name, neg |-> TRUE]}, "or")
          IN /\ listed \cap others = {} /\ listed \cup others = db.summary
             /\ listed = {s \in db.summary : Shows(Route(db, s.pkt), name)}
    BY <2>1, <2>2, ListsAreTrue DEF Terms
  <2> QED BY <2>1, <2>2, <2>3 DEF IndexIsWhole
<1> QED BY <1>1, IndexInvHolds, PTL
==============================================================================
