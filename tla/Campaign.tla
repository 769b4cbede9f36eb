------------------------------ MODULE Campaign ------------------------------
(***************************************************************************)
(* A field campaign as the trace analysis meets it: two phones record runs *)
(* of one experiment (lib/src/trace/experiment_recorder.dart), upload      *)
(* their files in chunks, and trace_server/analyze.py loads what landed    *)
(* and decides which generation of a file, and which arm of a phone, to    *)
(* read.  Every record carries the run that truly caused it.               *)
(***************************************************************************)
EXTENDS Integers, SequencesExt

CONSTANTS
  Src, Dst,     \* the phone that sends, and the one that receives
  Messages,     \* messages a run sends, in order 1..Messages
  Arms,         \* BOUND: times each phone is armed
  Presses,      \* BOUND: times each phone's owner presses Upload
  Chunk,        \* records in one upload
  Regimes       \* the recordings looked at: see RegimeType

Devices == {Src, Dst}

RegimeType == [
  appends : BOOLEAN,  \* an older recording: an abort leaves its file, the next arm appends
                      \* to it, and message ids carry no term for the run
  clears : BOOLEAN]   \* files may be cleared between runs

ASSUME CampaignAssumption ==
  /\ Src # Dst /\ Chunk \in Nat \ {0} /\ Messages \in Nat \ {0}
  /\ Arms \in [Devices -> Nat] /\ Presses \in [Devices -> Nat]
  /\ Regimes \subseteq RegimeType

VARIABLES
  clock,     \* each phone's: every record is stamped with a later reading
  file,      \* the experiment's file on each phone
  armed,     \* is the phone recording a run?
  arms,      \* runs begun on each phone
  ended,     \* runs completed on each phone
  sent,      \* messages the run now on Src has sent
  air,       \* messages on their way
  seen,      \* ids Dst's packet bloom has seen
  presses,
  db,        \* rows of the server: who, under which upload id, which record
  regime

vars == <<clock, file, armed, arms, ended, sent, air, seen, presses, db, regime>>

Init ==
  /\ clock = [d \in Devices |-> 0]
  /\ file = [d \in Devices |-> <<>>]
  /\ armed = [d \in Devices |-> FALSE]
  /\ arms = [d \in Devices |-> 0]
  /\ ended = [d \in Devices |-> {}]
  /\ sent = 0 /\ air = {} /\ seen = {}
  /\ presses = [d \in Devices |-> 0]
  /\ db = {}
  /\ regime \in Regimes

(* The id a run gives its k-th message: a UUIDv5 of the plan's fields in the older *)
(* recordings, a random one now.                                                   *)
IdOf(run, k) == IF regime.appends THEN k ELSE run * (Messages + 1) + k

(* arm is the phone's own, run the one of Src that the message belongs to. *)
Rec(t, d, kind, id, arm, run) ==
  [t |-> t, dev |-> d, kind |-> kind, id |-> id, arm |-> arm, run |-> run]
NoId == 0

Log(d, records) ==
  /\ file' = [file EXCEPT ![d] = @ \o records]
  /\ clock' = [clock EXCEPT ![d] = @ + Len(records)]

(* startExperiment, then the runner's placement marker.  A file in the way sends the *)
(* run to another experiment id.                                                     *)
Arm(d) ==
  /\ ~armed[d]
  /\ arms[d] < Arms[d]
  /\ regime.appends \/ file[d] = <<>>
  /\ LET run == arms[d] + 1
     IN /\ Log(d, << Rec(clock[d] + 1, d, "expStart", NoId, run, run),
                    Rec(clock[d] + 2, d, "placement", NoId, run, run) >>)
        /\ arms' = [arms EXCEPT ![d] = run]
  /\ armed' = [armed EXCEPT ![d] = TRUE]
  /\ sent' = IF d = Src THEN 0 ELSE sent
  /\ UNCHANGED <<ended, air, seen, presses, db, regime>>

Send ==
  /\ armed[Src]
  /\ sent < Messages
  /\ LET id == IdOf(arms[Src], sent + 1)
     IN /\ Log(Src, << Rec(clock[Src] + 1, Src, "sent", id, arms[Src], arms[Src]) >>)
        /\ air' = air \cup {[id |-> id, run |-> arms[Src]]}
  /\ sent' = sent + 1
  /\ UNCHANGED <<armed, arms, ended, seen, presses, db, regime>>

(* A copy whose id the bloom has seen is dropped; an idle recorder notes nothing. *)
Deliver(m) ==
  /\ m \in air
  /\ air' = air \ {m}
  /\ seen' = seen \cup {m.id}
  /\ IF m.id \notin seen /\ armed[Dst]
     THEN Log(Dst, << Rec(clock[Dst] + 1, Dst, "recv", m.id, arms[Dst], m.run) >>)
     ELSE UNCHANGED <<file, clock>>
  /\ UNCHANGED <<armed, arms, ended, sent, presses, db, regime>>

End(d) ==
  /\ armed[d]
  /\ Log(d, << Rec(clock[d] + 1, d, "end", NoId, arms[d], arms[d]) >>)
  /\ armed' = [armed EXCEPT ![d] = FALSE]
  /\ ended' = [ended EXCEPT ![d] = @ \cup {arms[d]}]
  /\ UNCHANGED <<arms, sent, air, seen, presses, db, regime>>

(* abort, and discardAbortedExperiment *)
Abort(d) ==
  /\ armed[d]
  /\ clock' = [clock EXCEPT ![d] = @ + 1]
  /\ file' = [file EXCEPT ![d] =
       IF regime.appends THEN Append(@, Rec(clock[d] + 1, d, "aborted", NoId, arms[d], arms[d])) ELSE <<>>]
  /\ armed' = [armed EXCEPT ![d] = FALSE]
  /\ UNCHANGED <<arms, ended, sent, air, seen, presses, db, regime>>

(* The length that names a generation of a file; two files of a phone never have the same. *)
Length(d) == Len(file[d]) * (Arms[d] + 1) + file[d][1].arm

(* Upload sends the file in chunks under <<name, length, chunk>>, up to the first that fails; *)
(* a chunk the server has under that id is not stored again.                                  *)
Upload(d, landed) ==
  /\ presses[d] < Presses[d]
  /\ file[d] # <<>>
  /\ landed \in 1..((Len(file[d]) + Chunk - 1) \div Chunk)
  /\ db' = db \cup {[dev |-> d, len |-> Length(d), rec |-> file[d][i]] :
                      i \in 1..(IF landed * Chunk < Len(file[d]) THEN landed * Chunk ELSE Len(file[d]))}
  /\ presses' = [presses EXCEPT ![d] = @ + 1]
  /\ UNCHANGED <<clock, file, armed, arms, ended, sent, air, seen, regime>>

Clear(d) ==
  /\ regime.clears
  /\ ~armed[d]
  /\ file[d] # <<>>
  /\ file' = [file EXCEPT ![d] = <<>>]
  /\ UNCHANGED <<clock, armed, arms, ended, sent, air, seen, presses, db, regime>>

Next ==
  \/ Send
  \/ \E m \in air : Deliver(m)
  \/ \E d \in Devices :
       \/ Arm(d) \/ End(d) \/ Abort(d) \/ Clear(d)
       \/ \E landed \in 1..(2 * Len(file[d])) : Upload(d, landed)

Spec == Init /\ [][Next]_vars

-----------------------------------------------------------------------------
(* What the analysis reads *)

(* load_db, then _newest_upload_only: per phone, the longest generation alone if it holds *)
(* (within a twentieth) every distinct record, else all of them.                          *)
Mine(rows, d) == {r \in rows : r.dev = d}
Longest(rows) == {r \in rows : \A o \in rows : o.len <= r.len}

NewestUpload(rows) ==
  UNION {LET mine == Mine(rows, d)
             distinct == {r.rec : r \in mine}
         IN IF Cardinality(distinct) * 20 <= Cardinality(Longest(mine)) * 21
            THEN Longest(mine) ELSE mine : d \in Devices}

(* _drop_pre_arm.  An arm is the stamp of its placement marker. *)
ArmsOf(rows, d) == {r.rec.t : r \in {x \in Mine(rows, d) : x.rec.kind = "placement"}}
Block(rows, d, lo) ==
  {r \in Mine(rows, d) : r.rec.t >= lo /\ ~\E next \in ArmsOf(rows, d) : lo < next /\ next <= r.rec.t}
Completed(rows, d, lo) == \E r \in Block(rows, d, lo) : r.rec.kind = "end"

\* Mutant: the last arm counts, whole or not.
ChosenArm_Last(rows, d) == CHOOSE lo \in ArmsOf(rows, d) : \A o \in ArmsOf(rows, d) : o <= lo

(* The arm that counted: the last that completed, or else the last. *)
ChosenArm(rows, d) ==
  LET whole == {lo \in ArmsOf(rows, d) : Completed(rows, d, lo)}
      from == IF whole = {} THEN ArmsOf(rows, d) ELSE whole
  IN CHOOSE lo \in from : \A o \in from : o <= lo

OtherArms(rows) ==
  UNION {{[dev |-> d, lo |-> lo] : lo \in ArmsOf(rows, d) \ {ChosenArm(rows, d)}} :
           d \in {x \in Devices : Cardinality(ArmsOf(rows, x)) >= 2}}

\* Mutant: the ids an abandoned arm recorded are read on.
Tainted_None(rows) == {}

Tainted(rows) ==
  {r.rec.id : r \in UNION {Block(rows, a.dev, a.lo) :
                             a \in {x \in OtherArms(rows) : ~Completed(rows, x.dev, x.lo)}}} \ {NoId}

DropPreArm(rows) ==
  LET cut == UNION {Block(rows, a.dev, a.lo) : a \in OtherArms(rows)}
  IN {r \in rows \ cut : r.rec.id \notin Tainted(rows)}

Kept == DropPreArm(NewestUpload(db))

(* establishment_time.py looks for the arm that counted by itself, among the stamps of the      *)
(* markers of every file, and reads the records from it to the next.                             *)
StampsOf(d, kind) == {r.rec.t : r \in {x \in Mine(db, d) : x.rec.kind = kind}}
EstablishmentRecords(d) ==
  LET ts == StampsOf(d, "placement")
      in(lo, t) == lo <= t /\ \A hi \in ts : lo < hi => t < hi
      whole == {lo \in ts : \E e \in StampsOf(d, "end") : in(lo, e)}
      from == IF whole = {} THEN ts ELSE whole
      chosen == {lo \in from : \A o \in from : o <= lo}
  IN {r.rec : r \in {x \in Mine(db, d) : Cardinality(ts) < 2 \/ \E lo \in chosen : in(lo, x.rec.t)}}

-----------------------------------------------------------------------------
(* Properties *)

TypeOK ==
  /\ armed \in [Devices -> BOOLEAN]
  /\ \A d \in Devices : arms[d] \in 0..Arms[d] /\ presses[d] \in 0..Presses[d]
  /\ sent \in 0..Messages
  /\ \A d \in Devices : ended[d] \subseteq 1..arms[d]
  /\ \A r \in db : r.dev \in Devices /\ r.rec.dev = r.dev
  /\ regime \in RegimeType

(* Nobody is recording and the last press of Upload sent the whole file. *)
Settled ==
  \A d \in Devices : ~armed[d] /\ \A i \in 1..Len(file[d]) :
    [dev |-> d, len |-> Length(d), rec |-> file[d][i]] \in db

RanOnce == \A d \in Devices : Cardinality(ended[d]) <= 1

(* A sent record and a recv record that join on their id come from one run: cutting the arms *)
(* that did not count, and the ids they minted, leaves no join across runs.                  *)
JoinsStayInOneRun ==
  (Settled /\ RanOnce /\ ~regime.clears) =>
    \A s, r \in Kept :
      (s.rec.kind = "sent" /\ r.rec.kind = "recv" /\ s.rec.id = r.rec.id) => s.rec.run = r.rec.run

(* Ids that an arm which did not complete has recorded. *)
Dead == {r.rec.id : r \in {x \in db : x.rec.arm \notin ended[x.dev]}} \ {NoId}

(* The twentieth cannot tell every set of uploads apart.  It can where all are of the file that *)
(* stands; and, after uploads of files since discarded, where the file was uploaded under one   *)
(* length and none of theirs is twenty times as long.                                           *)
Standing(d) == {file[d][i] : i \in 1..Len(file[d])}
Readable(d) ==
  \/ \A r \in Mine(db, d) : r.rec \in Standing(d)
  \/ /\ \A r \in Mine(db, d) : r.rec \in Standing(d) => r.len = Length(d)
     /\ Cardinality(Longest(Mine(db, d))) < 20 * Cardinality(Standing(d))

Copies(rec) == {r \in Kept : r.rec = rec}

(* Every record of the one run a phone completed, from its placement marker on, is read, and *)
(* once, however often and in as many pieces as it was uploaded, unless an abandoned arm     *)
(* recorded its message id as well; and the join figures, where a phone armed again, are of  *)
(* that run alone.                                                                            *)
CompletedRunReadOnce ==
  (Settled /\ RanOnce /\ ~regime.clears) =>
    \A d \in Devices :
      /\ (ended[d] # {} /\ Cardinality(StampsOf(d, "placement")) >= 2) =>
           \A r \in EstablishmentRecords(d) : r.arm \in ended[d] \/ r.kind = "expStart"
      /\ Readable(d) => \A rec \in Standing(d) : Cardinality(Copies(rec)) <= 1
      /\ \A rec \in Standing(d) :
           (rec.arm \in ended[d] /\ rec.kind # "expStart" /\ rec.id \notin Dead) =>
             rec \in EstablishmentRecords(d) /\ (Readable(d) => Copies(rec) # {})

(* The loader's docstring: one generation is kept of every uploaded file. *)
OneGenerationKept ==
  (Settled /\ RanOnce /\ ~regime.clears) =>
    \A d \in Devices : \A rec \in Standing(d) : Cardinality(Copies(rec)) <= 1

(* The guard's docstring: keeping a block is what stops a stray re-arm at the tail from *)
(* deleting a completed run.                                                            *)
CompletedRunSurvives ==
  (Settled /\ RanOnce /\ ~regime.clears) =>
    \A s \in db :
      (/\ s.rec.kind = "sent" /\ s.rec.arm \in ended[Src]
       /\ \A arm \in 1..arms[Src] : arm \notin ended[Src] => arm > s.rec.arm)
      => \E r \in Kept : r.rec = s.rec
=============================================================================
