--------------------------- MODULE CampaignProofs ---------------------------
(***************************************************************************)
(* Proofs about the loading of a campaign, for any number of arms, presses *)
(* and messages, and any clocks.  The invariant says what of the order in  *)
(* which a phone wrote survives in the pieces that were uploaded: a stamp  *)
(* tells a record and rises with the arm, a record never lies on the       *)
(* server without the placement of its arm before it, an end is on record  *)
(* only of an arm that ended.  So the block that begins with a placement   *)
(* holds the records of that arm and of no other, the arm that is chosen   *)
(* is the one that completed, and what is cut or tainted is of another.    *)
(***************************************************************************)
EXTENDS Campaign, FiniteSetTheorems, FunctionTheorems, SequenceTheorems, WellFoundedInduction, TLAPS

-----------------------------------------------------------------------------
(* Numbers and finite sets. *)

(* A set of natural numbers that is not empty has a least element. *)
LEMMA LeastNatural ==
  ASSUME NEW T, T \subseteq Nat, T # {}
  PROVE  \E x \in T : \A y \in T : x <= y
<1>1. IsWellFoundedOn(OpToRel(<, Nat), Nat)
  BY NatLessThanWellFounded, Zenon
<1>2. PICK x \in T : \A y \in T : <<y, x>> \notin OpToRel(<, Nat)
  BY <1>1, WFMin, Zenon
<1>3. ASSUME NEW y \in T PROVE x <= y
  <2>1. <<y, x>> \notin OpToRel(<, Nat)
    BY <1>2
  <2>2. ~(y < x)
    BY <2>1, Zenon DEF OpToRel
  <2> QED BY <2>2
<1> QED BY <1>3

(* A bounded set of natural numbers that is not empty has a greatest element. *)
LEMMA GreatestBelow ==
  ASSUME NEW b \in Nat, NEW T, T \subseteq 0..b, T # {}
  PROVE  \E x \in T : \A y \in T : y <= x
<1> DEFINE U == {b - x : x \in T}
<1>1. PICK u \in U : \A v \in U : u <= v
  <2>1. \A x \in T : b - x \in Nat
    OBVIOUS
  <2>2. U \subseteq Nat /\ U # {}
    BY <2>1
  <2> HIDE DEF U
  <2> QED BY <2>2, LeastNatural
<1>2. PICK x \in T : u = b - x
  BY <1>1
<1>3. ASSUME NEW y \in T PROVE y <= x
  <2>1. b - y \in U
    OBVIOUS
  <2>2. u <= b - y
    BY <1>1, <2>1
  <2> QED BY <1>2, <2>2
<1> QED BY <1>3

LEMMA ImageIsFinite ==
  ASSUME NEW S, IsFiniteSet(S), NEW f, DOMAIN f = S
  PROVE  IsFiniteSet({f[x] : x \in S}) /\ Cardinality({f[x] : x \in S}) <= Cardinality(S)
<1> DEFINE T == {f[x] : x \in S}
<1> DEFINE g == [x \in S |-> f[x]]
<1>1. g \in Surjection(S, T)
  BY DEF Surjection
<1> QED BY <1>1, FS_Surjection

-----------------------------------------------------------------------------

Kinds == {"expStart", "placement", "sent", "recv", "end", "aborted"}
Record == [t : Nat, dev : Devices, kind : Kinds, id : Nat, arm : Nat, run : Nat]
Row == [dev : Devices, len : Nat, rec : Record]
Message == [id : Nat, run : Nat]

Shapes ==
  /\ clock \in [Devices -> Nat] /\ arms \in [Devices -> Nat] /\ presses \in [Devices -> Nat]
  /\ armed \in [Devices -> BOOLEAN] /\ ended \in [Devices -> SUBSET Nat]
  /\ file \in [Devices -> Seq(Record)]
  /\ sent \in 0..Messages /\ air \subseteq Message
  /\ db \subseteq Row /\ IsFiniteSet(db)
  /\ regime \in Regimes
  /\ \A d \in Devices : arms[d] <= Arms[d] /\ presses[d] <= Presses[d] /\ ended[d] \subseteq 1..arms[d]

(* What is known of a phone: what stands in its file and what it uploaded. *)
Known(d) == Standing(d) \cup {r.rec : r \in Mine(db, d)}

(* The stamp tells a record, and the order of stamps is that of the arms. *)
InOrder ==
  /\ \A d \in Devices : \A x \in Known(d) :
       /\ x.dev = d /\ x.t <= clock[d] /\ x.arm \in 1..arms[d]
       /\ \A y \in Known(d) :
            /\ x.t = y.t => x = y
            /\ x.t < y.t => x.arm <= y.arm
            /\ (x.kind = "placement" /\ y.kind = "placement" /\ x.arm = y.arm) => x = y
  /\ \A d \in Devices : \A i, j \in 1..Len(file[d]) : i < j => file[d][i].t < file[d][j].t

(* An arm places itself before it records anything else. *)
PlacedIn(d) ==
  \A i \in 1..Len(file[d]) : file[d][i].kind # "expStart" =>
    \E j \in 1..i : file[d][j].kind = "placement" /\ file[d][j].arm = file[d][i].arm
Running(d) == \E i \in 1..Len(file[d]) : file[d][i].kind = "placement" /\ file[d][i].arm = arms[d]
RowsPlaced ==
  \A r \in db : r.rec.kind # "expStart" =>
    \E p \in db : /\ p.dev = r.dev /\ p.len = r.len /\ p.rec.kind = "placement"
                  /\ p.rec.arm = r.rec.arm /\ p.rec.t <= r.rec.t
Placed == RowsPlaced /\ \A d \in Devices : PlacedIn(d) /\ (armed[d] => Running(d))

(* A run has completed when its end is on record, and what was uploaded of it still stands. *)
EndOnRecord(d) == \A x \in Known(d) : x.kind = "end" => x.arm \in ended[d]
(* Unless files are cleared: the file of a completed run stays, no other is begun where an      *)
(* abort would discard it, and neither an older recording nor a run that completed or may yet  *)
(* complete has a row that is not of the file.                                                 *)
Stays(d) ==
  /\ \A a \in ended[d] : \E x \in Standing(d) : x.kind = "end" /\ x.arm = a
  /\ (armed[d] /\ ~regime.appends) => ended[d] = {}
  /\ \A r \in Mine(db, d) :
       (regime.appends \/ r.rec.arm \in ended[d] \/ (armed[d] /\ r.rec.arm = arms[d])) =>
          r.rec \in Standing(d)
Ended ==
  \A d \in Devices :
    /\ EndOnRecord(d)
    /\ armed[d] => arms[d] \notin ended[d]
    /\ ~regime.clears => Stays(d)

(* No row of the file that stands is of a longer one. *)
Lengths == \A r \in db : r.rec \in Standing(r.dev) => r.len <= Length(r.dev)

(* An id names a message of the run; where the id leaves the run open, its sent record stands. *)
Named(id, run) == run \in Nat /\ \E k \in 1..Messages : id = IdOf(run, k)
SentOn(id, run) ==
  (regime.appends /\ ~regime.clears) =>
    \E y \in Standing(Src) : y.kind = "sent" /\ y.id = id /\ y.run = run
MintedOn(d, x) ==
  /\ x.kind \in {"sent", "recv"} => Named(x.id, x.run)
  /\ x.kind = "sent" => d = Src /\ x.run = x.arm
  /\ x.kind = "recv" => SentOn(x.id, x.run)
  /\ x.kind = "expStart" => x.id = NoId
Minted ==
  /\ \A d \in Devices : \A x \in Known(d) : MintedOn(d, x)
  /\ \A m \in air : Named(m.id, m.run) /\ SentOn(m.id, m.run)

IInv == Shapes /\ InOrder /\ Placed /\ Ended /\ Lengths /\ Minted
-----------------------------------------------------------------------------
(* The steps, by what they do to a file: records are added at its end, or it is emptied. *)
Added(rs) == {rs[i] : i \in 1..Len(rs)}
Adds(d, rs) ==
  /\ d \in Devices /\ rs \in Seq(Record)
  /\ file' = [file EXCEPT ![d] = @ \o rs]
  /\ clock' = [clock EXCEPT ![d] = @ + Len(rs)]
  /\ UNCHANGED <<db, presses, regime>>
  /\ \A i \in 1..Len(rs) : rs[i].dev = d /\ rs[i].t = clock[d] + i /\ rs[i].arm = arms'[d]
  /\ \/ /\ armed[d] /\ arms' = arms
        /\ \A i \in 1..Len(rs) : rs[i].kind \notin {"expStart", "placement"}
     \/ /\ ~armed[d] /\ arms' = [arms EXCEPT ![d] = @ + 1]
        /\ Len(rs) = 2 /\ rs[1].kind = "expStart" /\ rs[2].kind = "placement"

LEMMA Typed ==
  ASSUME Shapes, NEW d \in Devices
  PROVE  /\ file[d] \in Seq(Record) /\ clock[d] \in Nat /\ arms[d] \in Nat /\ Len(file[d]) \in Nat
         /\ \A i \in 1..Len(file[d]) : file[d][i] \in Record
         /\ Standing(d) \subseteq Record /\ Known(d) \subseteq Record
  <1>1. file[d] \in Seq(Record) /\ clock[d] \in Nat /\ arms[d] \in Nat
    BY DEF Shapes
  <1>2. \A i \in 1..Len(file[d]) : file[d][i] \in Record
    BY <1>1
  <1>3. {r.rec : r \in Mine(db, d)} \subseteq Record
    BY DEF Shapes, Mine, Row
  <1> QED BY <1>1, <1>2, <1>3 DEF Standing, Known

(* What a phone's file becomes. *)
Extends(g, f, rs) ==
  /\ Len(g) = Len(f) + Len(rs)
  /\ \A i \in 1..Len(f) : g[i] = f[i]
  /\ \A i \in 1..Len(rs) : g[Len(f) + i] = rs[i]
  /\ \A i \in 1..Len(g) : i \in 1..Len(f) \/ \E j \in 1..Len(rs) : i = Len(f) + j /\ g[i] = rs[j]

LEMMA GrownFile ==
  ASSUME Shapes, NEW d \in Devices, NEW rs, Adds(d, rs)
  PROVE  Extends(file'[d], file[d], rs)
<1>1. file[d] \in Seq(Record) /\ rs \in Seq(Record) /\ file'[d] = file[d] \o rs
  BY Typed DEF Adds, Shapes
<1>2. /\ Len(file'[d]) = Len(file[d]) + Len(rs)
      /\ \A i \in 1..Len(file[d]) : file'[d][i] = file[d][i]
      /\ \A i \in 1..Len(rs) : file'[d][Len(file[d]) + i] = rs[i]
  BY <1>1
<1>3. ASSUME NEW i \in 1..Len(file'[d]), i \notin 1..Len(file[d])
      PROVE  \E j \in 1..Len(rs) : i = Len(file[d]) + j /\ file'[d][i] = rs[j]
  <2>1. i - Len(file[d]) \in 1..Len(rs) /\ i = Len(file[d]) + (i - Len(file[d]))
    BY <1>1, <1>2, <1>3
  <2> QED BY <1>2, <2>1
<1> QED BY <1>2, <1>3 DEF Extends

(* What is known of it, and that the other phones keep theirs. *)
LEMMA Grown ==
  ASSUME Shapes, NEW d \in Devices, NEW rs, Adds(d, rs)
  PROVE  /\ Standing(d)' = Standing(d) \cup Added(rs)
         /\ Known(d)' = Known(d) \cup Added(rs)
         /\ \A e \in Devices \ {d} : file'[e] = file[e] /\ clock'[e] = clock[e] /\ arms'[e] = arms[e]
         /\ \A e \in Devices \ {d} : Standing(e)' = Standing(e) /\ Known(e)' = Known(e)
         /\ \A e \in Devices : Mine(db, e)' = Mine(db, e)
         /\ \A e \in Devices : Standing(e) \subseteq Standing(e)'
<1>1. file[d] \in Seq(Record) /\ rs \in Seq(Record)
  BY Typed DEF Adds
<1>2. /\ Len(file'[d]) = Len(file[d]) + Len(rs)
      /\ \A i \in 1..Len(file[d]) : file'[d][i] = file[d][i]
      /\ \A i \in 1..Len(rs) : file'[d][Len(file[d]) + i] = rs[i]
      /\ \A i \in 1..Len(file'[d]) :
           i \in 1..Len(file[d]) \/ \E j \in 1..Len(rs) : i = Len(file[d]) + j /\ file'[d][i] = rs[j]
  BY GrownFile, ZenonT(60) DEF Extends
<1>3. Standing(d)' = Standing(d) \cup Added(rs)
  <2>1. ASSUME NEW x \in Standing(d)' PROVE x \in Standing(d) \cup Added(rs)
    <3>1. PICK i \in 1..Len(file'[d]) : x = file'[d][i]
      BY <2>1 DEF Standing
    <3> QED BY <1>2, <3>1 DEF Standing, Added
  <2>2. ASSUME NEW x \in Standing(d) \cup Added(rs) PROVE x \in Standing(d)'
    <3>1. Len(file[d]) \in Nat /\ Len(rs) \in Nat
      BY <1>1
    <3>2. CASE x \in Standing(d)
      <4>1. PICK i \in 1..Len(file[d]) : x = file[d][i]
        BY <3>2 DEF Standing
      <4>2. i \in 1..(Len(file[d]) + Len(rs))
        BY <3>1
      <4>3. i \in 1..Len(file'[d]) /\ x = file'[d][i]
        BY <4>2, <1>2, <3>1, <4>1
      <4> QED BY <4>3 DEF Standing
    <3>3. CASE x \in Added(rs)
      <4>1. PICK i \in 1..Len(rs) : x = rs[i]
        BY <3>3 DEF Added
      <4>2. Len(file[d]) + i \in 1..Len(file'[d]) /\ x = file'[d][Len(file[d]) + i]
        BY ONLY <1>2, <3>1, <4>1
      <4> QED BY <4>2 DEF Standing
    <3> QED BY <2>2, <3>2, <3>3
  <2> QED BY <2>1, <2>2
<1>4. \A e \in Devices : Mine(db, e)' = Mine(db, e)
  BY DEF Adds, Mine
<1>5. Known(d)' = Known(d) \cup Added(rs)
  BY <1>3, <1>4 DEF Known
<1>6. \A e \in Devices \ {d} : file'[e] = file[e] /\ clock'[e] = clock[e] /\ arms'[e] = arms[e]
  BY DEF Adds, Shapes
<1>7. \A e \in Devices \ {d} : Standing(e)' = Standing(e) /\ Known(e)' = Known(e)
  BY <1>4, <1>6 DEF Standing, Known
<1>8. \A e \in Devices : Standing(e) \subseteq Standing(e)'
  BY <1>3, <1>7
<1> QED BY <1>3, <1>4, <1>5, <1>6, <1>7, <1>8

LEMMA ArmedPlaces ==
  ASSUME Shapes, InOrder, Placed, NEW d \in Devices, armed[d]
  PROVE  arms[d] \in Nat \ {0}
<1>1. PICK i \in 1..Len(file[d]) : file[d][i].kind = "placement" /\ file[d][i].arm = arms[d]
  BY DEF Placed, Running
<1>2. file[d][i] \in Known(d)
  BY DEF Known, Standing
<1> QED BY <1>1, <1>2, Typed DEF InOrder

LEMMA AddsInOrder ==
  ASSUME Shapes, InOrder, Placed, NEW d \in Devices, NEW rs, Adds(d, rs)
  PROVE  InOrder'
<1>0. d \in Devices /\ rs \in Seq(Record) /\ Len(rs) \in Nat
  BY DEF Adds
<1>1. clock[d] \in Nat /\ clock'[d] = clock[d] + Len(rs) /\ arms[d] \in Nat
  BY <1>0 DEF Adds, Shapes
<1>2. arms'[d] \in Nat \ {0} /\ arms[d] <= arms'[d]
  BY <1>0, <1>1, ArmedPlaces DEF Adds, Shapes
<1>3. Known(d) \subseteq Record
  BY <1>0, Typed
<1>4. \A x \in Added(rs) : \E i \in 1..Len(rs) : x = rs[i] /\ x.t = clock[d] + i
  BY DEF Adds, Added
<1>5. \A x \in Added(rs) : /\ x \in Record /\ x.dev = d /\ x.arm = arms'[d]
                           /\ clock[d] < x.t /\ x.t <= clock'[d]
  <2> SUFFICES ASSUME NEW i \in 1..Len(rs)
               PROVE  /\ rs[i] \in Record /\ rs[i].dev = d /\ rs[i].arm = arms'[d]
                      /\ clock[d] < rs[i].t /\ rs[i].t <= clock'[d]
    BY DEF Added
  <2>1. rs[i] \in Record /\ rs[i].dev = d /\ rs[i].arm = arms'[d] /\ rs[i].t = clock[d] + i
    BY <1>0 DEF Adds
  <2> QED BY <1>0, <1>1, <2>1
<1>6. \A x \in Known(d) : x.dev = d /\ x.t <= clock[d] /\ x.arm \in 1..arms[d]
  BY <1>0 DEF InOrder
<1>7. ASSUME NEW x \in Added(rs), NEW y \in Added(rs), x.t = y.t PROVE x = y
  <2>1. PICK i \in 1..Len(rs) : x = rs[i] /\ x.t = clock[d] + i
    BY <1>4
  <2>2. PICK j \in 1..Len(rs) : y = rs[j] /\ y.t = clock[d] + j
    BY <1>4
  <2>3. i = j
    BY <1>0, <1>1, <1>7, <2>1, <2>2
  <2> QED BY <2>1, <2>2, <2>3
<1>8. ASSUME NEW x \in Added(rs), x.kind = "placement"
      PROVE  arms[d] < arms'[d] /\ x = rs[2]
  <2>1. PICK i \in 1..Len(rs) : x = rs[i]
    BY DEF Added
  <2>2. ~(armed[d] /\ arms' = arms /\ \A k \in 1..Len(rs) : rs[k].kind \notin {"expStart", "placement"})
    BY <1>8, <2>1
  <2>3. arms' = [arms EXCEPT ![d] = @ + 1] /\ Len(rs) = 2 /\ rs[1].kind = "expStart"
    BY <2>2 DEF Adds
  <2>4. i = 2
    BY <1>8, <2>1, <2>3
  <2> QED BY <1>0, <1>1, <2>1, <2>3, <2>4 DEF Shapes
<1>9. ASSUME NEW e \in Devices, NEW x \in Known(e)'
      PROVE  /\ x.dev = e /\ x.t <= clock'[e] /\ x.arm \in 1..arms'[e]
             /\ \A y \in Known(e)' :
                  /\ x.t = y.t => x = y
                  /\ x.t < y.t => x.arm <= y.arm
                  /\ (x.kind = "placement" /\ y.kind = "placement" /\ x.arm = y.arm) => x = y
  <2>1. CASE e = d
    <3>1. x \in Known(d) \/ x \in Added(rs)
      BY <1>0, <1>9, <2>1, Grown
    <3>2. x.dev = e /\ x.t <= clock'[e] /\ x.arm \in 1..arms'[e] /\ x \in Record
      BY <1>0, <1>1, <1>2, <1>3, <1>5, <1>6, <2>1, <3>1 DEF Record
    <3>3. ASSUME NEW y \in Known(d)'
          PROVE  /\ x.t = y.t => x = y
                 /\ x.t < y.t => x.arm <= y.arm
                 /\ (x.kind = "placement" /\ y.kind = "placement" /\ x.arm = y.arm) => x = y
      <4>1. y \in Known(d) \/ y \in Added(rs)
        BY <1>0, <3>3, Grown
      <4>2. CASE x \in Known(d) /\ y \in Known(d)
        BY <1>0, <4>2 DEF InOrder
      <4>3. CASE x \in Known(d) /\ y \in Added(rs)
        BY <1>1, <1>2, <1>3, <1>5, <1>6, <1>8, <4>3 DEF Record
      <4>4. CASE x \in Added(rs) /\ y \in Known(d)
        BY <1>1, <1>2, <1>3, <1>5, <1>6, <1>8, <4>4 DEF Record
      <4>5. CASE x \in Added(rs) /\ y \in Added(rs)
        BY <1>2, <1>5, <1>7, <1>8, <4>5
      <4> QED BY <3>1, <4>1, <4>2, <4>3, <4>4, <4>5
    <3> QED BY <2>1, <3>2, <3>3
  <2>2. CASE e # d
    <3>1. Known(e)' = Known(e) /\ clock'[e] = clock[e] /\ arms'[e] = arms[e]
      BY <1>0, <2>2, Grown
    <3> QED BY <1>9, <3>1 DEF InOrder
  <2> QED BY <2>1, <2>2
<1>10. /\ Len(file'[d]) = Len(file[d]) + Len(rs)
       /\ \A i \in 1..Len(file[d]) : file'[d][i] = file[d][i]
       /\ \A i \in 1..Len(rs) : file'[d][Len(file[d]) + i] = rs[i]
       /\ \A i \in 1..Len(file'[d]) :
            i \in 1..Len(file[d]) \/ \E j \in 1..Len(rs) : i = Len(file[d]) + j /\ file'[d][i] = rs[j]
  BY GrownFile DEF Extends
<1>11. ASSUME NEW e \in Devices, NEW i \in 1..Len(file'[e]), NEW j \in 1..Len(file'[e]), i < j
       PROVE  file'[e][i].t < file'[e][j].t
  <2>1. CASE e # d
    <3>1. file'[e] = file[e]
      BY <1>0, <2>1, Grown
    <3> QED BY <1>11, <3>1 DEF InOrder
  <2>2. CASE e = d
    <3>1. Len(file[d]) \in Nat
      BY <1>0, Typed
    <3>2. \A k \in 1..Len(file[d]) : file'[d][k] = file[d][k] /\ file[d][k] \in Known(d)
      BY <1>0, GrownFile DEF Extends, Known, Standing
    <3>4. \A l \in 1..Len(rs) : rs[l].t = clock[d] + l
      BY DEF Adds
    <3>5. CASE j \in 1..Len(file[d])
      <4>1. i \in 1..Len(file[d])
        BY <1>11, <2>2, <3>1, <3>5
      <4> QED BY <1>0, <1>11, <2>2, <3>2, <3>5, <4>1 DEF InOrder
    <3>6. CASE j \notin 1..Len(file[d])
      <4>1. PICK l \in 1..Len(rs) : j = Len(file[d]) + l /\ file'[d][j] = rs[l]
        BY <1>11, <1>10, <2>2, <3>6
      <4>2. CASE i \in 1..Len(file[d])
        <5>1. file'[d][i] \in Record /\ file'[d][i].t <= clock[d]
          BY <1>3, <1>6, <3>2, <4>2
        <5>2. file'[d][j].t = clock[d] + l /\ l \in Nat /\ l > 0
          BY <1>0, <3>4, <4>1
        <5> QED BY <1>1, <2>2, <5>1, <5>2 DEF Record
      <4>3. CASE i \notin 1..Len(file[d])
        <5>1. PICK k \in 1..Len(rs) : i = Len(file[d]) + k /\ file'[d][i] = rs[k]
          BY <1>11, <1>10, <2>2, <4>3
        <5> QED BY <1>0, <1>1, <1>11, <2>2, <3>1, <3>4, <4>1, <5>1
      <4> QED BY <4>2, <4>3
    <3> QED BY <3>5, <3>6
  <2> QED BY <2>1, <2>2
<1> QED BY <1>9, <1>11 DEF InOrder

LEMMA AddsPlaced ==
  ASSUME Shapes, InOrder, Placed, NEW d \in Devices, NEW rs, Adds(d, rs),
         \A e \in Devices \ {d} : armed'[e] = armed[e]
  PROVE  Placed'
<1>1. /\ Len(file'[d]) = Len(file[d]) + Len(rs)
      /\ \A i \in 1..Len(file[d]) : file'[d][i] = file[d][i]
      /\ \A i \in 1..Len(rs) : file'[d][Len(file[d]) + i] = rs[i]
      /\ \A i \in 1..Len(file'[d]) :
           i \in 1..Len(file[d]) \/ \E j \in 1..Len(rs) : i = Len(file[d]) + j /\ file'[d][i] = rs[j]
  BY GrownFile DEF Extends
<1>2. Len(file[d]) \in Nat /\ Len(rs) \in Nat
  BY Typed DEF Adds
<1>3. \A i \in 1..Len(rs) : rs[i].arm = arms'[d]
  BY DEF Adds
<1>4. PICK p \in 1..Len(file'[d]) :
             /\ file'[d][p].kind = "placement" /\ file'[d][p].arm = arms'[d]
             /\ \A k \in 1..Len(rs) : rs[k].kind # "expStart" => p <= Len(file[d]) + k
  <2>1. CASE armed[d] /\ arms' = arms
    <3>1. PICK p \in 1..Len(file[d]) : file[d][p].kind = "placement" /\ file[d][p].arm = arms[d]
      BY <2>1 DEF Placed, Running
    <3>2. p \in 1..Len(file'[d]) /\ file'[d][p] = file[d][p] /\ \A k \in 1..Len(rs) : p <= Len(file[d]) + k
      BY <1>1, <1>2
    <3> QED BY <2>1, <3>1, <3>2
  <2>2. CASE Len(rs) = 2 /\ rs[1].kind = "expStart" /\ rs[2].kind = "placement"
    <3>1. 2 \in 1..Len(rs) /\ Len(file[d]) + 2 \in 1..Len(file'[d])
      BY <1>1, <1>2, <2>2
    <3>2. file'[d][Len(file[d]) + 2] = rs[2] /\ rs[2].arm = arms'[d]
      BY <1>1, <1>3, <3>1
    <3>3. \A k \in 1..Len(rs) : k = 1 \/ k = 2
      BY <2>2
    <3>4. \A k \in 1..Len(rs) : rs[k].kind # "expStart" => Len(file[d]) + 2 <= Len(file[d]) + k
      BY <1>2, <2>2, <3>3
    <3> QED BY <2>2, <3>1, <3>2, <3>4
  <2> QED BY <2>1, <2>2 DEF Adds
<1>5. PlacedIn(d)'
  <2> SUFFICES ASSUME NEW i \in 1..Len(file'[d]), file'[d][i].kind # "expStart"
               PROVE  \E j \in 1..i : file'[d][j].kind = "placement" /\ file'[d][j].arm = file'[d][i].arm
    BY DEF PlacedIn
  <2>1. CASE i \in 1..Len(file[d])
    <3>1. PlacedIn(d) /\ file'[d][i] = file[d][i]
      BY <1>1, <2>1 DEF Placed
    <3>2. PICK j \in 1..i : file[d][j].kind = "placement" /\ file[d][j].arm = file[d][i].arm
      BY <2>1, <3>1 DEF PlacedIn
    <3>3. j \in 1..Len(file[d])
      BY <1>2, <2>1, <3>2
    <3> QED BY <1>1, <3>1, <3>2, <3>3
  <2>2. CASE i \notin 1..Len(file[d])
    <3>1. PICK k \in 1..Len(rs) : i = Len(file[d]) + k /\ file'[d][i] = rs[k]
      BY <1>1, <2>2
    <3>2. rs[k].kind # "expStart" /\ rs[k].arm = arms'[d]
      BY <1>3, <3>1
    <3>3. p \in 1..i
      BY <1>2, <1>4, <3>1, <3>2
    <3> QED BY <1>4, <3>1, <3>2, <3>3
  <2> QED BY <2>1, <2>2
<1>6. Running(d)'
  BY <1>4 DEF Running
<1>7. ASSUME NEW e \in Devices, e # d PROVE PlacedIn(e)' /\ (armed'[e] => Running(e)')
  <2>1. file'[e] = file[e] /\ arms'[e] = arms[e] /\ armed'[e] = armed[e]
    BY <1>7, Grown
  <2> QED BY <2>1 DEF Placed, PlacedIn, Running
<1>8. RowsPlaced'
  BY DEF Adds, Placed, RowsPlaced
<1> QED BY <1>5, <1>6, <1>7, <1>8 DEF Placed

LEMMA LengthIsNatural ==
  ASSUME Shapes, NEW d \in Devices, file[d] # <<>>
  PROVE  Length(d) \in Nat
<1>1. Len(file[d]) \in Nat \ {0}
  BY Typed
<1>2. file[d][1] \in Record
  BY <1>1, Typed
<1>3. Arms[d] + 1 \in Nat /\ file[d][1].arm \in Nat
  BY <1>2, CampaignAssumption DEF Record
<1>4. \A l, k, a \in Nat : l * k + a \in Nat
  OBVIOUS
<1> QED BY <1>1, <1>3, <1>4 DEF Length

(* A longer file has a greater length, and its first record stays. *)
LEMMA LengthGrows ==
  ASSUME Shapes, NEW d \in Devices, NEW rs, Adds(d, rs), file[d] # <<>>
  PROVE  Length(d) \in Nat /\ Length(d)' \in Nat /\ Length(d) <= Length(d)'
<1>1. Len(file[d]) \in Nat \ {0} /\ Len(rs) \in Nat /\ file[d][1] \in Record
  <2>1. file[d] \in Seq(Record) /\ rs \in Seq(Record)
    BY Typed DEF Adds
  <2>2. Len(file[d]) \in Nat \ {0}
    BY <2>1
  <2> QED BY <2>1, <2>2
<1>2. Len(file'[d]) = Len(file[d]) + Len(rs) /\ file'[d][1] = file[d][1]
  <2>1. /\ Len(file'[d]) = Len(file[d]) + Len(rs)
        /\ \A i \in 1..Len(file[d]) : file'[d][i] = file[d][i]
        /\ \A i \in 1..Len(rs) : file'[d][Len(file[d]) + i] = rs[i]
        /\ \A i \in 1..Len(file'[d]) :
             i \in 1..Len(file[d]) \/ \E j \in 1..Len(rs) : i = Len(file[d]) + j /\ file'[d][i] = rs[j]
    BY GrownFile DEF Extends
  <2> QED BY <1>1, <2>1
<1>3. Arms[d] + 1 \in Nat
  BY CampaignAssumption
<1>4. \A l, n, k, a \in Nat :
        /\ l * k + a \in Nat /\ (l + n) * k + a \in Nat
        /\ l * k + a <= (l + n) * k + a
  <2> SUFFICES ASSUME NEW l \in Nat, NEW n \in Nat, NEW k \in Nat, NEW a \in Nat
               PROVE  /\ l * k + a \in Nat /\ (l + n) * k + a \in Nat
                      /\ l * k + a <= (l + n) * k + a
    OBVIOUS
  <2>1. l * k \in Nat /\ n * k \in Nat /\ (l + n) * k = l * k + n * k
    OBVIOUS
  <2> QED BY <2>1
<1>5. file[d][1].arm \in Nat
  BY <1>1 DEF Record
<1> QED BY <1>1, <1>2, <1>3, <1>4, <1>5 DEF Length

LEMMA AddsLengths ==
  ASSUME Shapes, InOrder, Lengths, NEW d \in Devices, NEW rs, Adds(d, rs)
  PROVE  Lengths'
<1> SUFFICES ASSUME NEW r \in db, r.rec \in Standing(r.dev)'
             PROVE  r.len <= Length(r.dev)'
  BY DEF Lengths, Adds
<1>1. r.dev \in Devices /\ r.len \in Nat /\ r.rec \in Known(r.dev)
  BY DEF Shapes, Row, Known, Mine
<1>2. CASE r.dev = d
  <2>1. r.rec.t <= clock[d] /\ clock[d] \in Nat
    BY <1>1, <1>2 DEF InOrder, Shapes
  <2>2. \A x \in Added(rs) : \E i \in 1..Len(rs) : x.t = clock[d] + i
    BY DEF Adds, Added
  <2>3. Len(rs) \in Nat
    BY DEF Adds
  <2>4. r.rec \notin Added(rs)
    BY <2>1, <2>2, <2>3
  <2>5. r.rec \in Standing(d)
    BY <1>2, <2>4, Grown
  <2>6. file[d] # <<>>
    BY <2>5 DEF Standing
  <2>7. r.len <= Length(d)
    BY <1>2, <2>5 DEF Lengths
  <2> QED BY <1>1, <1>2, <2>6, <2>7, LengthGrows
<1>3. CASE r.dev # d
  <2>1. Standing(r.dev)' = Standing(r.dev) /\ file'[r.dev] = file[r.dev]
    BY <1>1, <1>3, Grown
  <2> QED BY <2>1 DEF Lengths, Length
<1> QED BY <1>2, <1>3

LEMMA StaysNamed ==
  ASSUME regime' = regime, Standing(Src) \subseteq Standing(Src)' \/ ~regime.appends \/ regime.clears
  PROVE  \A id, run : /\ Named(id, run) => Named(id, run)'
                      /\ SentOn(id, run) => SentOn(id, run)'
  BY DEF Named, SentOn, IdOf

LEMMA AddsMinted ==
  ASSUME Shapes, Minted, NEW d \in Devices, NEW rs, Adds(d, rs),
         \A x \in Added(rs) : MintedOn(d, x)'
  PROVE  \A e \in Devices : \A x \in Known(e)' : MintedOn(e, x)'
<1> SUFFICES ASSUME NEW e \in Devices, NEW x \in Known(e)' PROVE MintedOn(e, x)'
  OBVIOUS
<1>1. Src \in Devices /\ regime' = regime
  BY DEF Devices, Adds
<1>2. Standing(Src) \subseteq Standing(Src)'
  BY <1>1, Grown
<1>3. ASSUME x \in Known(e) PROVE MintedOn(e, x)'
  <2>1. MintedOn(e, x)
    BY <1>3 DEF Minted
  <2>2. /\ Named(x.id, x.run) => Named(x.id, x.run)'
        /\ SentOn(x.id, x.run) => SentOn(x.id, x.run)'
    BY <1>1, <1>2, StaysNamed
  <2> QED BY <2>1, <2>2 DEF MintedOn
<1>4. x \in Known(e) \/ (e = d /\ x \in Added(rs))
  BY Grown
<1> QED BY <1>3, <1>4

LEMMA AddsEnded ==
  ASSUME Shapes, Ended, NEW d \in Devices, NEW rs, Adds(d, rs),
         \A e \in Devices \ {d} : armed'[e] = armed[e] /\ ended'[e] = ended[e],
         \A x \in Added(rs) : x.kind = "end" => x.arm \in ended'[d],
         ended[d] \subseteq ended'[d],
         \A a \in ended'[d] \ ended[d] : \E x \in Added(rs) : x.kind = "end" /\ x.arm = a,
         armed'[d] => arms'[d] \notin ended'[d],
         (~regime.clears /\ ~regime.appends /\ armed'[d]) => ended'[d] = {},
         ~regime.clears => \A r \in Mine(db, d) :
           (r.rec.arm \in ended'[d] \/ (armed'[d] /\ r.rec.arm = arms'[d])) =>
              (r.rec.arm \in ended[d] \/ (armed[d] /\ r.rec.arm = arms[d]))
  PROVE  Ended'
<1>1. regime' = regime
  BY DEF Adds
<1>2. ASSUME NEW e \in Devices, e # d
      PROVE  EndOnRecord(e)' /\ (armed'[e] => arms'[e] \notin ended'[e]) /\ (~regime'.clears => Stays(e)')
  <2>1. Known(e)' = Known(e) /\ Standing(e)' = Standing(e) /\ arms'[e] = arms[e] /\ Mine(db, e)' = Mine(db, e)
    BY <1>2, Grown
  <2> QED BY <1>1, <1>2, <2>1 DEF Ended, EndOnRecord, Stays
<1>3. EndOnRecord(d)'
  BY Grown DEF Ended, EndOnRecord
<1>4. ASSUME ~regime.clears PROVE Stays(d)'
  <2>1. \A a \in ended'[d] : \E x \in Standing(d)' : x.kind = "end" /\ x.arm = a
    BY <1>4, Grown DEF Ended, Stays
  <2>2. \A r \in Mine(db, d)' :
          (regime.appends \/ r.rec.arm \in ended'[d] \/ (armed'[d] /\ r.rec.arm = arms'[d])) =>
             r.rec \in Standing(d)'
    BY <1>4, Grown DEF Ended, Stays
  <2> QED BY <1>1, <1>4, <2>1, <2>2 DEF Stays
<1> QED BY <1>1, <1>2, <1>3, <1>4 DEF Ended
-----------------------------------------------------------------------------
(* A file is emptied: by Clear, and by an abort that discards it. *)
Empties(d) ==
  /\ d \in Devices /\ file' = [file EXCEPT ![d] = <<>>]
  /\ \A e \in Devices : clock'[e] \in Nat /\ clock[e] <= clock'[e]
  /\ ~armed'[d] /\ \A e \in Devices \ {d} : armed'[e] = armed[e]
  /\ ~regime.appends \/ regime.clears
  /\ UNCHANGED <<arms, ended, air, db, regime>>

LEMMA Emptied ==
  ASSUME Shapes, NEW d \in Devices, Empties(d)
  PROVE  /\ Len(file'[d]) = 0 /\ Standing(d)' = {}
         /\ \A e \in Devices \ {d} : file'[e] = file[e] /\ Standing(e)' = Standing(e)
         /\ \A e \in Devices : Known(e)' \subseteq Known(e) /\ Mine(db, e)' = Mine(db, e)
<1>1. file'[d] = <<>> /\ \A e \in Devices \ {d} : file'[e] = file[e]
  BY DEF Empties, Shapes
<1>2. Len(file'[d]) = 0
  BY <1>1
<1>3. Standing(d)' = {} /\ \A e \in Devices \ {d} : Standing(e)' = Standing(e)
  BY <1>1, <1>2 DEF Standing
<1>4. \A e \in Devices : Mine(db, e)' = Mine(db, e)
  BY DEF Empties, Mine
<1>5. \A e \in Devices : Standing(e)' \subseteq Standing(e)
  BY <1>3
<1> QED BY <1>1, <1>2, <1>3, <1>4, <1>5 DEF Known

LEMMA EmptiesKeeps ==
  ASSUME IInv, NEW d \in Devices, Empties(d),
         (~regime.clears /\ armed[d]) => ended[d] = {}, ~armed[d] => regime.clears
  PROVE  InOrder' /\ Placed' /\ Ended' /\ Lengths' /\ Minted'
<1> USE DEF IInv
<1>1. /\ Len(file'[d]) = 0 /\ Standing(d)' = {}
      /\ \A e \in Devices \ {d} : file'[e] = file[e] /\ Standing(e)' = Standing(e)
      /\ \A e \in Devices : Known(e)' \subseteq Known(e) /\ Mine(db, e)' = Mine(db, e)
  BY Emptied
<1>2. /\ arms' = arms /\ ended' = ended /\ air' = air /\ db' = db /\ regime' = regime
      /\ ~armed'[d] /\ \A e \in Devices \ {d} : armed'[e] = armed[e]
  BY DEF Empties
<1>3. InOrder'
  <2>1. ASSUME NEW e \in Devices, NEW x \in Known(e)'
        PROVE  /\ x.dev = e /\ x.t <= clock'[e] /\ x.arm \in 1..arms'[e]
               /\ \A y \in Known(e)' :
                    /\ x.t = y.t => x = y
                    /\ x.t < y.t => x.arm <= y.arm
                    /\ (x.kind = "placement" /\ y.kind = "placement" /\ x.arm = y.arm) => x = y
    <3>1. x \in Known(e) /\ x \in Record
      BY <1>1, <2>1, Typed
    <3>2. x.t <= clock[e] /\ x.t \in Nat /\ clock[e] \in Nat /\ clock'[e] \in Nat /\ clock[e] <= clock'[e]
      BY <3>1 DEF InOrder, Record, Empties, Shapes
    <3>3. x.t <= clock'[e]
      BY <3>2
    <3> QED BY <1>1, <1>2, <3>1, <3>3 DEF InOrder
  <2>2. ASSUME NEW e \in Devices, NEW i \in 1..Len(file'[e]), NEW j \in 1..Len(file'[e]), i < j
        PROVE  file'[e][i].t < file'[e][j].t
    <3>1. CASE e = d
      BY <1>1, <2>2, <3>1
    <3>2. CASE e # d
      <4>1. file'[e] = file[e]
        BY <1>1, <3>2
      <4> QED BY <2>2, <4>1 DEF InOrder
    <3> QED BY <3>1, <3>2
  <2> QED BY <2>1, <2>2 DEF InOrder
<1>4. Placed'
  <2>1. RowsPlaced'
    BY <1>2 DEF Placed, RowsPlaced
  <2>2. PlacedIn(d)' /\ ~armed'[d]
    BY <1>1, <1>2 DEF PlacedIn
  <2>3. ASSUME NEW e \in Devices, e # d PROVE PlacedIn(e)' /\ (armed'[e] => Running(e)')
    <3>1. file'[e] = file[e] /\ armed'[e] = armed[e] /\ arms'[e] = arms[e]
      BY <1>1, <1>2, <2>3
    <3> QED BY <3>1 DEF Placed, PlacedIn, Running
  <2> QED BY <2>1, <2>2, <2>3 DEF Placed
<1>5. Ended'
  <2>1. ASSUME NEW e \in Devices PROVE EndOnRecord(e)'
    BY <1>1, <1>2 DEF Ended, EndOnRecord
  <2>2. ASSUME NEW e \in Devices, ~regime.clears PROVE Stays(e)'
    <3>1. CASE e = d
      <4>1. ended[d] = {} /\ ~regime.appends
        BY <2>2, <3>1 DEF Empties
      <4> QED BY <1>2, <3>1, <4>1 DEF Stays
    <3>2. CASE e # d
      <4>1. Standing(e)' = Standing(e) /\ Mine(db, e)' = Mine(db, e) /\ armed'[e] = armed[e] /\ Stays(e)
        BY <1>1, <1>2, <2>2, <3>2 DEF Ended
      <4> QED BY <1>2, <4>1 DEF Stays
    <3> QED BY <3>1, <3>2
  <2> QED BY <1>2, <2>1, <2>2 DEF Ended
<1>6. Lengths'
  <2> SUFFICES ASSUME NEW r \in db, r.rec \in Standing(r.dev)' PROVE r.len <= Length(r.dev)'
    BY <1>2 DEF Lengths
  <2>1. r.dev \in Devices /\ r.dev # d
    BY <1>1 DEF Shapes, Row
  <2>2. file'[r.dev] = file[r.dev] /\ Standing(r.dev)' = Standing(r.dev)
    BY <1>1, <2>1
  <2> QED BY <2>2 DEF Lengths, Length
<1>7. Minted'
  <2>1. \A id, run : /\ Named(id, run) => Named(id, run)'
                     /\ SentOn(id, run) => SentOn(id, run)'
    BY <1>2, StaysNamed DEF Empties
  <2>2. \A e \in Devices : \A x \in Known(e)' : MintedOn(e, x)'
    BY <1>1, <2>1 DEF Minted, MintedOn
  <2> QED BY <1>2, <2>1, <2>2 DEF Minted
<1> QED BY <1>3, <1>4, <1>5, <1>6, <1>7

-----------------------------------------------------------------------------
(* The head of the file lands, under the length the file has now. *)
Lands(d, n) ==
  /\ d \in Devices /\ n \in 0..Len(file[d])
  /\ db' = db \cup {[dev |-> d, len |-> Length(d), rec |-> file[d][i]] : i \in 1..n}
  /\ UNCHANGED <<clock, file, armed, arms, ended, air, regime>>

LEMMA Landed ==
  ASSUME Shapes, NEW d \in Devices, NEW n, Lands(d, n)
  PROVE  /\ \A e \in Devices : Standing(e)' = Standing(e) /\ Known(e)' = Known(e) /\ Length(e)' = Length(e)
         /\ \A r \in db' : r \in db \/ (r.dev = d /\ r.len = Length(d) /\ \E i \in 1..n : r.rec = file[d][i])
         /\ n \in Nat /\ \A i \in 1..n : i \in 1..Len(file[d]) /\ file[d][i] \in Record
<1>1. n \in Nat /\ \A i \in 1..n : i \in 1..Len(file[d]) /\ file[d][i] \in Record
  BY Typed DEF Lands
<1>2. \A r \in db' : r \in db \/ (r.dev = d /\ r.len = Length(d) /\ \E i \in 1..n : r.rec = file[d][i])
  BY DEF Lands
<1>3. \A e \in Devices : Standing(e)' = Standing(e) /\ Length(e)' = Length(e)
  BY DEF Lands, Standing, Length
<1>4. ASSUME NEW e \in Devices PROVE Known(e)' = Known(e)
  <2>1. db \subseteq db'
    BY DEF Lands
  <2>2. ASSUME NEW r \in Mine(db, e)' PROVE r.rec \in Known(e)
    BY <1>1, <1>2, <2>2 DEF Mine, Known, Standing
  <2>3. Mine(db, e) \subseteq Mine(db, e)'
    BY <2>1 DEF Mine
  <2> QED BY <1>3, <2>2, <2>3 DEF Known
<1> QED BY <1>1, <1>2, <1>3, <1>4

LEMMA LandsKeeps ==
  ASSUME IInv, NEW d \in Devices, NEW n, Lands(d, n)
  PROVE  InOrder' /\ Placed' /\ Ended' /\ Lengths' /\ Minted'
<1> USE DEF IInv
<1>1. /\ \A e \in Devices : Standing(e)' = Standing(e) /\ Known(e)' = Known(e) /\ Length(e)' = Length(e)
      /\ \A r \in db' : r \in db \/ (r.dev = d /\ r.len = Length(d) /\ \E i \in 1..n : r.rec = file[d][i])
      /\ n \in Nat /\ \A i \in 1..n : i \in 1..Len(file[d]) /\ file[d][i] \in Record
  BY Landed
<1>2. clock' = clock /\ file' = file /\ armed' = armed /\ arms' = arms /\ ended' = ended /\ air' = air /\ regime' = regime
  BY DEF Lands
<1>3. InOrder'
  BY <1>1, <1>2 DEF InOrder
<1>4. Placed'
  <2>1. \A e \in Devices : PlacedIn(e)' /\ (armed'[e] => Running(e)')
    BY <1>2 DEF Placed, PlacedIn, Running
  <2>2. ASSUME NEW r \in db', r.rec.kind # "expStart"
        PROVE  \E p \in db' : /\ p.dev = r.dev /\ p.len = r.len /\ p.rec.kind = "placement"
                              /\ p.rec.arm = r.rec.arm /\ p.rec.t <= r.rec.t
    <3>1. CASE r \in db
      BY <2>2, <3>1 DEF Placed, RowsPlaced, Lands
    <3>2. CASE r \notin db
      <4>1. PICK i \in 1..n : r.rec = file[d][i] /\ r.dev = d /\ r.len = Length(d)
        BY <1>1, <3>2
      <4>2. PICK j \in 1..i : file[d][j].kind = "placement" /\ file[d][j].arm = file[d][i].arm
        BY <1>1, <2>2, <4>1 DEF Placed, PlacedIn
      <4>3. j \in 1..n /\ (j = i \/ j < i)
        BY <1>1, <4>2
      <4>4. file[d][j].t <= file[d][i].t
        <5>1. file[d][j].t \in Nat /\ file[d][i].t \in Nat
          BY <1>1, <4>1, <4>3 DEF Record
        <5>2. j < i => file[d][j].t < file[d][i].t
          BY <1>1, <4>1, <4>3 DEF InOrder
        <5> QED BY <4>3, <5>1, <5>2
      <4>5. [dev |-> d, len |-> Length(d), rec |-> file[d][j]] \in db'
        BY <4>3 DEF Lands
      <4> QED BY <4>1, <4>2, <4>4, <4>5
    <3> QED BY <3>1, <3>2
  <2> QED BY <2>1, <2>2 DEF Placed, RowsPlaced
<1>5. Ended'
  <2>1. \A e \in Devices : \A r \in Mine(db, e)' : r \in Mine(db, e) \/ r.rec \in Standing(e)
    BY <1>1 DEF Mine, Standing
  <2>2. \A e \in Devices : EndOnRecord(e)'
    BY <1>1, <1>2 DEF Ended, EndOnRecord
  <2>3. ASSUME NEW e \in Devices, ~regime.clears PROVE Stays(e)'
    <3>1. Stays(e)
      BY <2>3 DEF Ended
    <3> QED BY <1>1, <1>2, <2>1, <3>1 DEF Stays
  <2> QED BY <1>2, <2>2, <2>3 DEF Ended
<1>6. Lengths'
  <2> SUFFICES ASSUME NEW r \in db', r.rec \in Standing(r.dev)' PROVE r.len <= Length(r.dev)'
    BY DEF Lengths
  <2>1. CASE r \in db
    <3>1. r.dev \in Devices
      BY <2>1 DEF Shapes, Row
    <3> QED BY <1>1, <2>1, <3>1 DEF Lengths
  <2>2. CASE r \notin db
    <3>1. PICK i \in 1..n : r.rec = file[d][i] /\ r.dev = d /\ r.len = Length(d)
      BY <1>1, <2>2
    <3>2. file[d] # <<>>
      BY <1>1, <3>1
    <3> QED BY <1>1, <3>1, <3>2, LengthIsNatural
  <2> QED BY <2>1, <2>2
<1>7. Minted'
  <2>1. \A id, run : /\ Named(id, run) => Named(id, run)'
                     /\ SentOn(id, run) => SentOn(id, run)'
    <3>1. Src \in Devices
      BY DEF Devices
    <3> QED BY <1>1, <1>2, <3>1, StaysNamed
  <2>2. \A e \in Devices : \A x \in Known(e)' : MintedOn(e, x)'
    BY <1>1, <2>1 DEF Minted, MintedOn
  <2> QED BY <1>2, <2>1, <2>2 DEF Minted
<1> QED BY <1>3, <1>4, <1>5, <1>6, <1>7
-----------------------------------------------------------------------------
(* The invariant, action by action. *)

LEMMA InitIInv == Init => IInv
<1> SUFFICES ASSUME Init PROVE IInv
  OBVIOUS
<1>1. \A d \in Devices : clock[d] = 0 /\ file[d] = <<>> /\ ~armed[d] /\ arms[d] = 0 /\ ended[d] = {} /\ presses[d] = 0
  BY DEF Init
<1>2. \A d \in Devices : Len(file[d]) = 0
  BY <1>1
<1>3. db = {} /\ air = {} /\ \A d \in Devices : Standing(d) = {} /\ Known(d) = {} /\ Mine(db, d) = {}
  BY <1>2 DEF Init, Standing, Known, Mine
<1>4. Shapes
  <2>1. \A d \in Devices : arms[d] <= Arms[d] /\ presses[d] <= Presses[d] /\ ended[d] \subseteq 1..arms[d]
    BY <1>1, CampaignAssumption
  <2>2. sent \in 0..Messages
    BY CampaignAssumption DEF Init
  <2>3. file \in [Devices -> Seq(Record)]
    BY DEF Init
  <2>4. IsFiniteSet(db)
    BY <1>3, FS_EmptySet
  <2> QED BY <1>3, <2>1, <2>2, <2>3, <2>4 DEF Init, Shapes
<1>5. InOrder
  BY <1>2, <1>3 DEF InOrder
<1>6. Placed
  BY <1>1, <1>2, <1>3 DEF Placed, PlacedIn, RowsPlaced
<1>7. Ended
  BY <1>1, <1>3 DEF Ended, EndOnRecord, Stays
<1>8. Lengths /\ Minted
  BY <1>3 DEF Lengths, Minted
<1> QED BY <1>4, <1>5, <1>6, <1>7, <1>8 DEF IInv

LEMMA QuietKeeps ==
  ASSUME IInv, UNCHANGED <<clock, file, armed, arms, ended, db, regime>>, air' \subseteq air, Shapes'
  PROVE  IInv'
<1> USE DEF IInv
<1>1. \A d \in Devices : Standing(d)' = Standing(d) /\ Mine(db, d)' = Mine(db, d) /\ Known(d)' = Known(d)
  BY DEF Standing, Mine, Known
<1>2. InOrder'
  BY <1>1 DEF InOrder
<1>3. Placed'
  BY DEF Placed, PlacedIn, Running, RowsPlaced
<1>4. Ended'
  BY <1>1 DEF Ended, EndOnRecord, Stays
<1>5. Lengths'
  BY DEF Lengths, Standing, Length
<1>6. Minted'
  <2>1. \A id, run : /\ Named(id, run) => Named(id, run)'
                     /\ SentOn(id, run) => SentOn(id, run)'
    <3>1. Src \in Devices
      BY DEF Devices
    <3> QED BY <1>1, <3>1, StaysNamed
  <2> QED BY <1>1, <2>1 DEF Minted, MintedOn
<1> QED BY <1>2, <1>3, <1>4, <1>5, <1>6

LEMMA One == \A r : Added(<<r>>) = {r} /\ Len(<<r>>) = 1
  BY DEF Added

LEMMA AddsOne ==
  ASSUME Shapes, NEW d \in Devices, armed[d], NEW r \in Record,
         r.t = clock[d] + 1, r.dev = d, r.arm = arms[d], r.kind \notin {"expStart", "placement"},
         file' = [file EXCEPT ![d] = @ \o <<r>>], clock' = [clock EXCEPT ![d] = @ + 1],
         UNCHANGED <<arms, db, presses, regime>>
  PROVE  Adds(d, <<r>>)
<1>1. <<r>> \in Seq(Record) /\ Len(<<r>>) = 1 /\ \A i \in 1..Len(<<r>>) : i = 1 /\ <<r>>[i] = r
  OBVIOUS
<1>2. \A i \in 1..Len(<<r>>) : <<r>>[i].t = clock[d] + i
  BY <1>1
<1>3. clock' = [clock EXCEPT ![d] = @ + Len(<<r>>)]
  BY <1>1
<1> QED BY <1>1, <1>2, <1>3 DEF Adds

LEMMA AddsShapes ==
  ASSUME Shapes, NEW d \in Devices, NEW rs, Adds(d, rs),
         armed' \in [Devices -> BOOLEAN], ended' \in [Devices -> SUBSET Nat],
         sent' \in 0..Messages, air' \subseteq Message,
         arms'[d] <= Arms[d], \A e \in Devices : ended'[e] \subseteq 1..arms'[e]
  PROVE  Shapes'
<1>1. file' \in [Devices -> Seq(Record)]
  <2>1. file[d] \o rs \in Seq(Record)
    <3>1. file[d] \in Seq(Record) /\ rs \in Seq(Record)
      BY Typed DEF Adds
    <3> QED BY <3>1
  <2> QED BY <2>1 DEF Shapes, Adds
<1>2. clock' \in [Devices -> Nat] /\ arms' \in [Devices -> Nat]
  <2>1. Len(rs) \in Nat /\ clock' = [clock EXCEPT ![d] = @ + Len(rs)]
    BY DEF Adds
  <2>2. arms' = arms \/ arms' = [arms EXCEPT ![d] = @ + 1]
    BY DEF Adds
  <2>3. clock \in [Devices -> Nat] /\ arms \in [Devices -> Nat]
    BY DEF Shapes
  <2>4. clock' \in [Devices -> Nat]
    BY <2>1, <2>3
  <2> QED BY <2>2, <2>3, <2>4
<1>3. \A e \in Devices : arms'[e] <= Arms[e]
  BY Grown DEF Shapes
<1>4. db' = db /\ presses' = presses /\ regime' = regime
  BY DEF Adds
<1>5. /\ presses' \in [Devices -> Nat] /\ db' \subseteq Row /\ IsFiniteSet(db') /\ regime' \in Regimes
      /\ \A e \in Devices : presses'[e] <= Presses[e]
  BY <1>4 DEF Shapes
<1>6. /\ clock' \in [Devices -> Nat] /\ arms' \in [Devices -> Nat] /\ presses' \in [Devices -> Nat]
      /\ armed' \in [Devices -> BOOLEAN] /\ ended' \in [Devices -> SUBSET Nat]
      /\ file' \in [Devices -> Seq(Record)]
      /\ sent' \in 0..Messages /\ air' \subseteq Message
      /\ db' \subseteq Row /\ IsFiniteSet(db')
      /\ regime' \in Regimes
      /\ \A e \in Devices : arms'[e] <= Arms[e] /\ presses'[e] <= Presses[e] /\ ended'[e] \subseteq 1..arms'[e]
  BY <1>1, <1>2, <1>3, <1>5
<1> QED BY ONLY <1>6 DEF Shapes

LEMMA AddsKeeps ==
  ASSUME IInv, NEW d \in Devices, NEW rs, Adds(d, rs), Shapes', Ended',
         \A e \in Devices \ {d} : armed'[e] = armed[e],
         \A x \in Added(rs) : MintedOn(d, x)',
         \A m \in air' : Named(m.id, m.run)' /\ SentOn(m.id, m.run)'
  PROVE  IInv'
<1> USE DEF IInv
<1>1. InOrder'
  BY AddsInOrder
<1>2. Placed'
  BY AddsPlaced
<1>3. Lengths'
  BY AddsLengths
<1>4. Minted'
  <2>1. \A e \in Devices : \A x \in Known(e)' : MintedOn(e, x)'
    BY AddsMinted
  <2> QED BY <2>1 DEF Minted
<1> QED BY <1>1, <1>2, <1>3, <1>4

(* What was named, and what is sent, stays so while records are added. *)
LEMMA AddsNamed ==
  ASSUME Shapes, NEW d \in Devices, NEW rs, Adds(d, rs)
  PROVE  \A id, run : /\ Named(id, run) => Named(id, run)'
                      /\ SentOn(id, run) => SentOn(id, run)'
<1>1. Src \in Devices /\ regime' = regime
  BY DEF Devices, Adds
<1> QED BY <1>1, Grown, StaysNamed

LEMMA ArmKeeps ==
  ASSUME IInv, NEW d \in Devices, Arm(d)
  PROVE  IInv'
<1> USE DEF IInv
<1> PICK run : run = arms[d] + 1
  OBVIOUS
<1> PICK start : start = Rec(clock[d] + 1, d, "expStart", NoId, run, run)
  OBVIOUS
<1> PICK place : place = Rec(clock[d] + 2, d, "placement", NoId, run, run)
  OBVIOUS
<1> PICK rs : rs = <<start, place>>
  OBVIOUS
<1>1. clock[d] \in Nat /\ arms[d] \in Nat /\ arms'[d] = run /\ arms' = [arms EXCEPT ![d] = @ + 1]
  BY DEF Arm, Shapes
<1>2. start \in Record /\ place \in Record
  BY <1>1 DEF Rec, Record, Kinds, NoId
<1>3. /\ rs \in Seq(Record) /\ Len(rs) = 2 /\ rs[1] = start /\ rs[2] = place
      /\ \A i \in 1..Len(rs) : i = 1 \/ i = 2
  <2> QED BY <1>2
<1>4. Adds(d, rs)
  <2>1. /\ file' = [file EXCEPT ![d] = @ \o rs] /\ clock' = [clock EXCEPT ![d] = @ + Len(rs)]
        /\ UNCHANGED <<db, presses, regime>> /\ ~armed[d]
    BY DEF Arm, Log
  <2>2. /\ start.dev = d /\ start.t = clock[d] + 1 /\ start.arm = run /\ start.kind = "expStart"
        /\ place.dev = d /\ place.t = clock[d] + 2 /\ place.arm = run /\ place.kind = "placement"
    BY DEF Rec
  <2> QED BY <1>1, <1>3, <2>1, <2>2 DEF Adds
<1>5. Added(rs) = {start, place}
  <2>1. 1 \in 1..Len(rs) /\ 2 \in 1..Len(rs)
    BY <1>3
  <2> QED BY <1>3, <2>1 DEF Added
<1>6. /\ armed' = [armed EXCEPT ![d] = TRUE] /\ ended' = ended /\ air' = air
      /\ sent' \in {0, sent}
  BY DEF Arm
<1>7. armed'[d] /\ \A e \in Devices \ {d} : armed'[e] = armed[e] /\ ended'[e] = ended[e]
  BY <1>6 DEF Shapes
<1>8. Shapes'
  <2>1. arms'[d] <= Arms[d]
    BY <1>1, CampaignAssumption DEF Arm
  <2>2. \A e \in Devices : ended'[e] \subseteq 1..arms'[e]
    BY <1>1, <1>6 DEF Shapes
  <2>3. sent' \in 0..Messages
    BY <1>6, CampaignAssumption DEF Shapes
  <2>4. armed' \in [Devices -> BOOLEAN] /\ ended' \in [Devices -> SUBSET Nat] /\ air' \subseteq Message
    BY <1>6 DEF Shapes
  <2> QED BY <1>4, <2>1, <2>2, <2>3, <2>4, AddsShapes
<1>9. Ended'
  <2>1. \A x \in Added(rs) : x.kind # "end"
    BY <1>5 DEF Rec
  <2>2. \A a \in ended[d] : a <= arms[d] /\ a \in Nat
    BY <1>1 DEF Shapes
  <2>3. armed'[d] => arms'[d] \notin ended'[d]
    BY <1>1, <1>6, <2>2
  <2>4. (~regime.clears /\ ~regime.appends /\ armed'[d]) => ended'[d] = {}
    <3> SUFFICES ASSUME ~regime.clears, ~regime.appends PROVE ended[d] = {}
      BY <1>6
    <3>1. Len(file[d]) = 0
      BY DEF Arm
    <3>2. Standing(d) = {}
      BY <3>1 DEF Standing
    <3> QED BY <3>2 DEF Ended, Stays
  <2>5. \A r \in Mine(db, d) : r.rec.arm # arms'[d]
    <3>1. \A r \in Mine(db, d) : r.rec.arm \in 1..arms[d]
      BY DEF InOrder, Known
    <3> QED BY <1>1, <3>1
  <2>6. \A r \in Mine(db, d) : (r.rec.arm \in ended'[d] \/ (armed'[d] /\ r.rec.arm = arms'[d])) =>
              (r.rec.arm \in ended[d] \/ (armed[d] /\ r.rec.arm = arms[d]))
    BY <1>6, <2>5
  <2> QED BY <1>4, <1>6, <1>7, <2>1, <2>3, <2>4, <2>6, AddsEnded
<1>10. \A x \in Added(rs) : MintedOn(d, x)'
  BY <1>5 DEF Rec, MintedOn
<1>11. \A m \in air' : Named(m.id, m.run)' /\ SentOn(m.id, m.run)'
  <2> QED BY <1>4, <1>6, AddsNamed DEF Minted
<1> QED BY <1>4, <1>7, <1>8, <1>9, <1>10, <1>11, AddsKeeps

LEMMA IdIsNatural ==
  ASSUME NEW run \in Nat, NEW k \in 1..Messages
  PROVE  IdOf(run, k) \in Nat \ {0}
<1>1. Messages + 1 \in Nat /\ k \in Nat \ {0}
  BY CampaignAssumption
<1>2. \A m \in Nat : run * m \in Nat
  OBVIOUS
<1> QED BY <1>1, <1>2 DEF IdOf

LEMMA SendKeeps ==
  ASSUME IInv, Send
  PROVE  IInv'
<1> USE DEF IInv
<1> PICK id : id = IdOf(arms[Src], sent + 1)
  OBVIOUS
<1> PICK r : r = Rec(clock[Src] + 1, Src, "sent", id, arms[Src], arms[Src])
  OBVIOUS
<1>0. Src \in Devices
  BY DEF Devices
<1>1. clock[Src] \in Nat /\ arms[Src] \in Nat /\ armed[Src] /\ sent + 1 \in 1..Messages
  BY <1>0, CampaignAssumption DEF Send, Shapes
<1>2. id \in Nat
  BY <1>1, IdIsNatural
<1>3. /\ r \in Record /\ r.t = clock[Src] + 1 /\ r.dev = Src /\ r.arm = arms[Src] /\ r.run = arms[Src]
      /\ r.kind = "sent" /\ r.id = id
  BY <1>0, <1>1, <1>2 DEF Rec, Record, Kinds
<1>4. /\ file' = [file EXCEPT ![Src] = @ \o <<r>>] /\ clock' = [clock EXCEPT ![Src] = @ + Len(<<r>>)]
      /\ air' = air \cup {[id |-> id, run |-> r.run]} /\ sent' = sent + 1
      /\ UNCHANGED <<armed, arms, ended, db, presses, regime>>
  BY <1>3 DEF Send, Log
<1>5. Adds(Src, <<r>>)
  BY <1>0, <1>1, <1>3, <1>4, One, AddsOne
<1>6. Added(<<r>>) = {r}
  BY One
<1>7. Shapes'
  <2>1. sent' \in 0..Messages /\ air' \subseteq Message
    BY <1>1, <1>2, <1>3, <1>4, CampaignAssumption DEF Shapes, Message
  <2> QED BY <1>0, <1>4, <1>5, <2>1, AddsShapes DEF Shapes
<1>8. Ended'
  <2>1. (~regime.clears /\ ~regime.appends) => ended[Src] = {}
    BY <1>0, <1>1 DEF Ended, Stays
  <2>2. arms[Src] \notin ended[Src]
    BY <1>0, <1>1 DEF Ended
  <2>3. \A x \in Added(<<r>>) : x.kind # "end"
    BY <1>3, <1>6
  <2> QED BY <1>0, <1>4, <1>5, <2>1, <2>2, <2>3, AddsEnded
<1>9. Named(id, r.run)' /\ SentOn(id, r.run)'
  <2>1. Named(id, r.run)'
    BY <1>1, <1>3, <1>4 DEF Named, IdOf
  <2>2. r \in Standing(Src)'
    BY <1>0, <1>5, <1>6, Grown
  <2> QED BY <1>3, <2>1, <2>2 DEF SentOn
<1>10. MintedOn(Src, r)'
  BY <1>3, <1>9 DEF MintedOn
<1>11. \A m \in air' : Named(m.id, m.run)' /\ SentOn(m.id, m.run)'
  BY <1>0, <1>4, <1>5, <1>9, AddsNamed DEF Minted
<1> QED BY <1>0, <1>4, <1>5, <1>6, <1>7, <1>8, <1>10, <1>11, AddsKeeps

LEMMA DeliverKeeps ==
  ASSUME IInv, NEW m \in air, Deliver(m)
  PROVE  IInv'
<1> USE DEF IInv
<1>0. Dst \in Devices /\ m \in Message /\ air' = air \ {m} /\ UNCHANGED <<armed, arms, ended, sent, presses, db, regime>>
  BY DEF Devices, Deliver, Shapes
<1>1. CASE UNCHANGED <<file, clock>>
  <2>1. air' \subseteq air
    BY <1>0
  <2>2. Shapes'
    BY <1>0, <1>1 DEF Shapes
  <2> QED BY <1>0, <1>1, <2>1, <2>2, QuietKeeps
<1>2. CASE armed[Dst] /\ Log(Dst, << Rec(clock[Dst] + 1, Dst, "recv", m.id, arms[Dst], m.run) >>)
  <2> PICK r : r = Rec(clock[Dst] + 1, Dst, "recv", m.id, arms[Dst], m.run)
    OBVIOUS
  <2>1. clock[Dst] \in Nat /\ arms[Dst] \in Nat
    BY <1>0 DEF Shapes
  <2>2. /\ r \in Record /\ r.t = clock[Dst] + 1 /\ r.dev = Dst /\ r.arm = arms[Dst] /\ r.run = m.run
        /\ r.kind = "recv" /\ r.id = m.id
    BY <1>0, <2>1 DEF Rec, Record, Kinds, Message
  <2>3. file' = [file EXCEPT ![Dst] = @ \o <<r>>] /\ clock' = [clock EXCEPT ![Dst] = @ + Len(<<r>>)]
    BY <1>2 DEF Log
  <2>4. Adds(Dst, <<r>>)
    BY <1>0, <1>2, <2>2, <2>3, One, AddsOne
  <2>5. Added(<<r>>) = {r}
    BY One
  <2>6. Shapes'
    BY <1>0, <2>4, AddsShapes DEF Shapes
  <2>7. Ended'
    <3>1. (~regime.clears /\ ~regime.appends) => ended[Dst] = {}
      BY <1>0, <1>2 DEF Ended, Stays
    <3>2. arms[Dst] \notin ended[Dst]
      BY <1>0, <1>2 DEF Ended
    <3>3. \A x \in Added(<<r>>) : x.kind # "end"
      BY <2>2, <2>5
    <3> QED BY <1>0, <2>4, <3>1, <3>2, <3>3, AddsEnded
  <2>8. \A o \in air : Named(o.id, o.run)' /\ SentOn(o.id, o.run)'
    BY <1>0, <2>4, AddsNamed DEF Minted
  <2>9. MintedOn(Dst, r)'
    BY <2>2, <2>8 DEF MintedOn
  <2>10. \A o \in air' : Named(o.id, o.run)' /\ SentOn(o.id, o.run)'
    BY <1>0, <2>8
  <2> QED BY <1>0, <2>4, <2>5, <2>6, <2>7, <2>9, <2>10, AddsKeeps
<1> QED BY <1>1, <1>2 DEF Deliver

LEMMA EndKeeps ==
  ASSUME IInv, NEW d \in Devices, End(d)
  PROVE  IInv'
<1> USE DEF IInv
<1> PICK r : r = Rec(clock[d] + 1, d, "end", NoId, arms[d], arms[d])
  OBVIOUS
<1>1. clock[d] \in Nat /\ arms[d] \in Nat \ {0} /\ armed[d]
  <2>1. armed[d] /\ clock[d] \in Nat
    BY DEF End, Shapes
  <2> QED BY <2>1, ArmedPlaces
<1>2. /\ r \in Record /\ r.t = clock[d] + 1 /\ r.dev = d /\ r.arm = arms[d] /\ r.kind = "end"
  BY <1>1 DEF Rec, Record, Kinds, NoId
<1>3. /\ file' = [file EXCEPT ![d] = @ \o <<r>>] /\ clock' = [clock EXCEPT ![d] = @ + Len(<<r>>)]
      /\ armed' = [armed EXCEPT ![d] = FALSE] /\ ended' = [ended EXCEPT ![d] = @ \cup {arms[d]}]
      /\ UNCHANGED <<arms, sent, air, db, presses, regime>>
  BY DEF End, Log
<1>4. Adds(d, <<r>>)
  BY <1>1, <1>2, <1>3, One, AddsOne
<1>5. Added(<<r>>) = {r}
  BY One
<1>6. /\ ~armed'[d] /\ ended'[d] = ended[d] \cup {arms[d]}
      /\ \A e \in Devices \ {d} : armed'[e] = armed[e] /\ ended'[e] = ended[e]
  BY <1>3 DEF Shapes
<1>7. Shapes'
  <2>1. armed' \in [Devices -> BOOLEAN] /\ ended' \in [Devices -> SUBSET Nat]
    BY <1>1, <1>3 DEF Shapes
  <2>2. \A e \in Devices : ended'[e] \subseteq 1..arms'[e]
    BY <1>1, <1>3, <1>6 DEF Shapes
  <2>3. sent' \in 0..Messages /\ air' \subseteq Message /\ arms'[d] <= Arms[d]
    BY <1>3 DEF Shapes
  <2> QED BY <1>4, <2>1, <2>2, <2>3, AddsShapes
<1>8. Ended'
  <2>1. \A x \in Added(<<r>>) : x.kind = "end" => x.arm \in ended'[d]
    BY <1>2, <1>5, <1>6
  <2>2. \A a \in ended'[d] \ ended[d] : \E x \in Added(<<r>>) : x.kind = "end" /\ x.arm = a
    BY <1>2, <1>5, <1>6
  <2>3. \A a \in ended'[d] : a \in ended[d] \/ (armed[d] /\ a = arms[d])
    BY <1>1, <1>6
  <2> QED BY <1>4, <1>6, <2>1, <2>2, <2>3, AddsEnded
<1>9. MintedOn(d, r)'
  BY <1>2 DEF MintedOn
<1>10. \A m \in air' : Named(m.id, m.run)' /\ SentOn(m.id, m.run)'
  BY <1>3, <1>4, AddsNamed DEF Minted
<1> QED BY <1>4, <1>5, <1>6, <1>7, <1>8, <1>9, <1>10, AddsKeeps

LEMMA AbortKeeps ==
  ASSUME IInv, NEW d \in Devices, Abort(d)
  PROVE  IInv'
<1> USE DEF IInv
<1>1. clock[d] \in Nat /\ arms[d] \in Nat /\ armed[d]
  BY DEF Abort, Shapes
<1>2. /\ armed' = [armed EXCEPT ![d] = FALSE] /\ clock' = [clock EXCEPT ![d] = @ + 1]
      /\ UNCHANGED <<arms, ended, sent, air, seen, presses, db, regime>>
  BY DEF Abort
<1>3. ~armed'[d] /\ \A e \in Devices \ {d} : armed'[e] = armed[e] /\ ended'[e] = ended[e]
  BY <1>2 DEF Shapes
<1>4. CASE regime.appends
  <2> PICK r : r = Rec(clock[d] + 1, d, "aborted", NoId, arms[d], arms[d])
    OBVIOUS
  <2>1. r \in Record /\ r.t = clock[d] + 1 /\ r.dev = d /\ r.arm = arms[d] /\ r.kind = "aborted"
    BY <1>1 DEF Rec, Record, Kinds, NoId
  <2>2. file' = [file EXCEPT ![d] = @ \o <<r>>]
    <3>1. Append(file[d], r) = file[d] \o <<r>>
      <4>1. file[d] \in Seq(Record)
        BY Typed
      <4> QED BY <2>1, <4>1, AppendIsConcat
    <3>2. file' = [file EXCEPT ![d] = Append(@, r)]
      BY <1>4 DEF Abort
    <3> QED BY <3>1, <3>2
  <2>3. Adds(d, <<r>>)
    BY <1>1, <1>2, <2>1, <2>2, AddsOne
  <2>4. Added(<<r>>) = {r}
    BY One
  <2>5. Shapes'
    BY <1>2, <2>3, AddsShapes DEF Shapes
  <2>6. Ended'
    <3>1. \A x \in Added(<<r>>) : x.kind # "end"
      BY <2>1, <2>4
    <3> QED BY <1>2, <1>3, <2>3, <3>1, AddsEnded
  <2>7. MintedOn(d, r)'
    BY <2>1 DEF MintedOn
  <2>8. \A m \in air' : Named(m.id, m.run)' /\ SentOn(m.id, m.run)'
    BY <1>2, <2>3, AddsNamed DEF Minted
  <2> QED BY <1>3, <2>3, <2>4, <2>5, <2>6, <2>7, <2>8, AddsKeeps
<1>5. CASE ~regime.appends
  <2>1. file' = [file EXCEPT ![d] = <<>>]
    BY <1>5 DEF Abort
  <2>2. Empties(d)
    BY <1>2, <1>3, <1>5, <2>1 DEF Empties, Shapes
  <2>3. (~regime.clears /\ armed[d]) => ended[d] = {}
    BY <1>5 DEF Ended, Stays
  <2>4. Shapes'
    BY <1>2, <2>1 DEF Shapes
  <2> QED BY <1>1, <2>2, <2>3, <2>4, EmptiesKeeps
<1> QED BY <1>4, <1>5

LEMMA ClearKeeps ==
  ASSUME IInv, NEW d \in Devices, Clear(d)
  PROVE  IInv'
<1> USE DEF IInv
<1>1. Empties(d) /\ regime.clears
  BY DEF Clear, Empties, Shapes
<1>2. Shapes'
  BY DEF Clear, Shapes
<1> QED BY <1>1, <1>2, EmptiesKeeps

LEMMA UploadKeeps ==
  ASSUME IInv, NEW d \in Devices, NEW landed \in Nat, Upload(d, landed)
  PROVE  IInv'
<1> USE DEF IInv
<1> PICK n : n = IF landed * Chunk < Len(file[d]) THEN landed * Chunk ELSE Len(file[d])
  OBVIOUS
<1>1. file[d] # <<>> /\ file[d] \in Seq(Record) /\ Len(file[d]) \in Nat /\ Length(d) \in Nat
  BY Typed, LengthIsNatural DEF Upload
<1>2. n \in 0..Len(file[d])
  <2>1. landed * Chunk \in Nat
    <3>1. \A a, b \in Nat : a * b \in Nat
      OBVIOUS
    <3> QED BY <3>1, CampaignAssumption
  <2> QED BY <1>1, <2>1
<1>3. Lands(d, n)
  BY <1>2 DEF Upload, Lands
<1>4. Shapes'
  <2> DEFINE rows == {[dev |-> d, len |-> Length(d), rec |-> file[d][i]] : i \in 1..n}
  <2>1. rows \subseteq Row /\ db' = db \cup rows
    BY <1>1, <1>2, <1>3, Typed DEF Row, Lands
  <2>2. IsFiniteSet(rows)
    <3> DEFINE f == [i \in 1..n |-> [dev |-> d, len |-> Length(d), rec |-> file[d][i]]]
    <3>1. IsFiniteSet(1..n)
      BY <1>2, FS_Interval
    <3>2. DOMAIN f = 1..n
      OBVIOUS
    <3>3. {f[i] : i \in 1..n} = rows
      OBVIOUS
    <3>4. IsFiniteSet({f[i] : i \in 1..n})
      <4> HIDE DEF f, rows
      <4> QED BY <3>1, <3>2, ImageIsFinite
    <3> HIDE DEF f, rows
    <3> QED BY <3>3, <3>4
  <2>3. db' \subseteq Row /\ IsFiniteSet(db')
    <3> HIDE DEF rows
    <3> QED BY <2>1, <2>2, FS_Union DEF Shapes
  <2>4. presses' \in [Devices -> Nat] /\ \A e \in Devices : presses'[e] <= Presses[e]
    <3>1. presses[d] < Presses[d] /\ presses' = [presses EXCEPT ![d] = @ + 1]
      BY DEF Upload
    <3>2. presses \in [Devices -> Nat] /\ \A e \in Devices : presses[e] <= Presses[e]
      BY DEF Shapes
    <3>3. \A e \in Devices : Presses[e] \in Nat
      BY CampaignAssumption
    <3> QED BY <3>1, <3>2, <3>3
  <2>5. UNCHANGED <<clock, file, armed, arms, ended, sent, air, regime>>
    BY DEF Upload
  <2> QED BY <2>3, <2>4, <2>5 DEF Shapes
<1> QED BY <1>3, <1>4, LandsKeeps

(* Every step of the phones and of the network keeps the invariant. *)
LEMMA NextIInv == IInv /\ [Next]_vars => IInv'
<1> SUFFICES ASSUME IInv, [Next]_vars PROVE IInv'
  OBVIOUS
<1>1. CASE Send
  BY <1>1, SendKeeps
<1>2. ASSUME NEW m \in air, Deliver(m) PROVE IInv'
  BY <1>2, DeliverKeeps
<1>3. ASSUME NEW d \in Devices, Arm(d) PROVE IInv'
  BY <1>3, ArmKeeps
<1>4. ASSUME NEW d \in Devices, End(d) PROVE IInv'
  BY <1>4, EndKeeps
<1>5. ASSUME NEW d \in Devices, Abort(d) PROVE IInv'
  BY <1>5, AbortKeeps
<1>6. ASSUME NEW d \in Devices, Clear(d) PROVE IInv'
  BY <1>6, ClearKeeps
<1>7. ASSUME NEW d \in Devices, NEW landed \in 1..(2 * Len(file[d])), Upload(d, landed) PROVE IInv'
  <2>1. landed \in Nat
    BY <1>7, Typed DEF IInv
  <2> QED BY <1>7, <2>1, UploadKeeps
<1>8. CASE UNCHANGED vars
  <2>1. Shapes'
    BY <1>8 DEF vars, IInv, Shapes
  <2> QED BY <1>8, <2>1, QuietKeeps DEF vars
<1> QED BY <1>1, <1>2, <1>3, <1>4, <1>5, <1>6, <1>7, <1>8 DEF Next

(* Through arms, ends, aborts, uploads and clears, what is known of each phone keeps its order *)
(* and its placements, by which analyze.py's loader tells the arms apart.                      *)
THEOREM Invariant == Spec => []IInv
  BY InitIInv, NextIInv, PTL DEF Spec

-----------------------------------------------------------------------------
(* Reading a set of rows in which every record has the placement of its arm. *)
Whole(N) ==
  /\ N \subseteq db
  /\ \A r \in N : r.rec.kind # "expStart" =>
       \E p \in N : /\ p.dev = r.dev /\ p.rec.kind = "placement"
                    /\ p.rec.arm = r.rec.arm /\ p.rec.t <= r.rec.t

LEMMA RowsAreKnown ==
  ASSUME IInv, NEW r \in db
  PROVE  /\ r \in Row /\ r.dev \in Devices /\ r.rec \in Record /\ r.rec \in Known(r.dev) /\ r \in Mine(db, r.dev)
         /\ r.len \in Nat /\ r.rec.t \in Nat /\ r.rec.arm \in Nat /\ r.rec.dev = r.dev
<1>1. r \in Row /\ r.dev \in Devices /\ r.len \in Nat /\ r.rec \in Record
  BY DEF IInv, Shapes, Row
<1>2. r \in Mine(db, r.dev) /\ r.rec \in Known(r.dev)
  BY DEF Mine, Known
<1> QED BY <1>1, <1>2 DEF Record, IInv, InOrder

LEMMA Order ==
  ASSUME IInv, NEW d \in Devices, NEW x \in db, NEW y \in db, x.dev = d, y.dev = d
  PROVE  /\ x.rec.t = y.rec.t => x.rec = y.rec
         /\ x.rec.t <= y.rec.t => x.rec.arm <= y.rec.arm
         /\ (x.rec.kind = "placement" /\ y.rec.kind = "placement" /\ x.rec.arm = y.rec.arm) => x.rec = y.rec
<1>1. x.rec \in Known(d) /\ y.rec \in Known(d)
  BY RowsAreKnown
<1>2. x.rec.t \in Nat /\ y.rec.t \in Nat /\ x.rec.arm \in Nat /\ y.rec.arm \in Nat
  BY RowsAreKnown
<1>3. /\ x.rec.t = y.rec.t => x.rec = y.rec
      /\ x.rec.t < y.rec.t => x.rec.arm <= y.rec.arm
      /\ (x.rec.kind = "placement" /\ y.rec.kind = "placement" /\ x.rec.arm = y.rec.arm) => x.rec = y.rec
  BY <1>1 DEF IInv, InOrder
<1> QED BY <1>2, <1>3

LEMMA StampOfPlacement ==
  ASSUME IInv, NEW N, Whole(N), NEW d \in Devices
  PROVE  /\ \A lo \in ArmsOf(N, d) : \E p \in N : p.dev = d /\ p.rec.kind = "placement" /\ p.rec.t = lo
         /\ \A p \in N : (p.dev = d /\ p.rec.kind = "placement") => p.rec.t \in ArmsOf(N, d)
         /\ ArmsOf(N, d) \subseteq 0..clock[d] /\ clock[d] \in Nat /\ IsFiniteSet(ArmsOf(N, d))
<1>1. /\ \A lo \in ArmsOf(N, d) : \E p \in N : p.dev = d /\ p.rec.kind = "placement" /\ p.rec.t = lo
      /\ \A p \in N : (p.dev = d /\ p.rec.kind = "placement") => p.rec.t \in ArmsOf(N, d)
  BY DEF ArmsOf, Mine
<1>2. clock[d] \in Nat
  BY DEF IInv, Shapes
<1>3. ASSUME NEW lo \in ArmsOf(N, d) PROVE lo \in 0..clock[d]
  <2>1. PICK p \in N : p.dev = d /\ p.rec.kind = "placement" /\ p.rec.t = lo
    BY <1>1
  <2>2. p \in db /\ p.rec \in Known(d) /\ p.rec.t \in Nat
    BY <2>1, RowsAreKnown DEF Whole
  <2> QED BY <1>2, <2>1, <2>2 DEF IInv, InOrder
<1>4. IsFiniteSet(ArmsOf(N, d))
  <2>1. IsFiniteSet(0..clock[d]) /\ ArmsOf(N, d) \in SUBSET (0..clock[d])
    BY <1>2, <1>3, FS_Interval
  <2> QED BY <2>1, FS_Subset
<1> QED BY <1>1, <1>2, <1>3, <1>4

(* A record lies in the block of its own arm and in no other. *)
LEMMA OwnBlock ==
  ASSUME IInv, NEW N, Whole(N), NEW d \in Devices,
         NEW r \in N, r.dev = d, r.rec.kind # "expStart",
         NEW p \in N, p.dev = d, p.rec.kind = "placement", p.rec.arm = r.rec.arm
  PROVE  r \in Block(N, d, p.rec.t) /\ p.rec.t <= r.rec.t
<1>1. PICK o \in N : o.dev = d /\ o.rec.kind = "placement" /\ o.rec.arm = r.rec.arm /\ o.rec.t <= r.rec.t
  BY DEF Whole
<1>2. \A x \in N : x \in db
  BY DEF Whole
<1>3. p.rec.t <= r.rec.t
  BY <1>1, <1>2, Order
<1>4. ASSUME NEW next \in ArmsOf(N, d), p.rec.t < next, next <= r.rec.t PROVE FALSE
  <2>1. PICK q \in N : q.dev = d /\ q.rec.kind = "placement" /\ q.rec.t = next
    BY StampOfPlacement
  <2>2. p.rec.t \in Nat /\ q.rec.t \in Nat /\ r.rec.t \in Nat /\ p.rec.arm \in Nat /\ q.rec.arm \in Nat
    BY <1>2, RowsAreKnown
  <2>3. p.rec.arm <= q.rec.arm
    BY <1>2, <1>4, <2>1, <2>2, Order
  <2>4. q.rec.arm <= r.rec.arm
    BY <1>2, <1>4, <2>1, Order
  <2>5. q.rec.arm = p.rec.arm
    BY <2>2, <2>3, <2>4
  <2>6. q.rec = p.rec
    BY <1>2, <2>1, <2>5, Order
  <2> QED BY <1>4, <2>1, <2>2, <2>6
<1> QED BY <1>3, <1>4 DEF Block, Mine

LEMMA BlockArm ==
  ASSUME IInv, NEW N, Whole(N), NEW d \in Devices,
         NEW p \in N, p.dev = d, p.rec.kind = "placement",
         NEW r \in Block(N, d, p.rec.t), r.rec.kind # "expStart"
  PROVE  r \in N /\ r.dev = d /\ r.rec.arm = p.rec.arm
<1>1. /\ r \in N /\ r.dev = d /\ r.rec.t >= p.rec.t
      /\ ~\E next \in ArmsOf(N, d) : p.rec.t < next /\ next <= r.rec.t
  BY DEF Block, Mine
<1>2. \A x \in N : x \in db
  BY DEF Whole
<1>3. PICK o \in N : o.dev = d /\ o.rec.kind = "placement" /\ o.rec.arm = r.rec.arm /\ o.rec.t <= r.rec.t
  BY <1>1 DEF Whole
<1>4. o.rec.t \in ArmsOf(N, d)
  BY <1>3, StampOfPlacement
<1>5. o.rec.t \in Nat /\ p.rec.t \in Nat /\ r.rec.t \in Nat /\ o.rec.arm \in Nat /\ p.rec.arm \in Nat
  BY <1>2, <1>1, RowsAreKnown
<1>6. o.rec.t <= p.rec.t
  BY <1>1, <1>3, <1>4, <1>5
<1>7. o.rec.arm <= p.rec.arm
  BY <1>2, <1>3, <1>6, Order
<1>8. p.rec.arm <= r.rec.arm
  BY <1>1, <1>2, <1>5, Order
<1> QED BY <1>1, <1>3, <1>5, <1>7, <1>8

(* An arm's block has an end where the arm completed. *)
LEMMA CompletedArm ==
  ASSUME IInv, NEW N, Whole(N), NEW d \in Devices,
         NEW p \in N, p.dev = d, p.rec.kind = "placement"
  PROVE  /\ Completed(N, d, p.rec.t) => p.rec.arm \in ended[d]
         /\ \A e \in N : (e.dev = d /\ e.rec.kind = "end" /\ e.rec.arm = p.rec.arm) => Completed(N, d, p.rec.t)
<1>1. ASSUME Completed(N, d, p.rec.t) PROVE p.rec.arm \in ended[d]
  <2>1. PICK e \in Block(N, d, p.rec.t) : e.rec.kind = "end"
    BY <1>1 DEF Completed
  <2>2. e \in N /\ e.dev = d /\ e.rec.arm = p.rec.arm
    BY <2>1, BlockArm
  <2>3. e.rec \in Known(d)
    BY <2>2, RowsAreKnown DEF Whole
  <2> QED BY <2>1, <2>2, <2>3 DEF IInv, Ended, EndOnRecord
<1>2. ASSUME NEW e \in N, e.dev = d, e.rec.kind = "end", e.rec.arm = p.rec.arm
      PROVE  Completed(N, d, p.rec.t)
  BY <1>2, OwnBlock DEF Completed
<1> QED BY <1>1, <1>2

LEMMA TwoMembers ==
  ASSUME NEW S, IsFiniteSet(S), NEW a \in S, NEW b \in S, a # b
  PROVE  Cardinality(S) >= 2
<1>1. IsFiniteSet({a}) /\ Cardinality({a}) = 1
  BY FS_Singleton
<1>2. IsFiniteSet({a} \cup {b}) /\ Cardinality({a} \cup {b}) = 2
  BY <1>1, FS_AddElement
<1>3. {a} \cup {b} \in SUBSET S
  OBVIOUS
<1> QED BY <1>2, <1>3, FS_Subset, FS_CardinalityType

LEMMA OneEnded ==
  ASSUME IInv, RanOnce, NEW d \in Devices, NEW a \in ended[d], NEW b \in ended[d]
  PROVE  a = b
<1>1. IsFiniteSet(1..arms[d]) /\ ended[d] \in SUBSET (1..arms[d])
  BY FS_Interval DEF IInv, Shapes
<1>2. IsFiniteSet(ended[d])
  BY <1>1, FS_Subset
<1>3. Cardinality(ended[d]) <= 1 /\ Cardinality(ended[d]) \in Nat
  BY <1>2, FS_CardinalityType DEF RanOnce
<1> QED BY <1>2, <1>3, TwoMembers

(* The arm that is chosen is one with an end, if there is any. *)
LEMMA ChosenIsAnArm ==
  ASSUME IInv, NEW N, Whole(N), NEW d \in Devices, ArmsOf(N, d) # {}
  PROVE  /\ ChosenArm(N, d) \in ArmsOf(N, d)
         /\ \A lo \in ArmsOf(N, d) : Completed(N, d, lo) => Completed(N, d, ChosenArm(N, d))
<1> DEFINE whole == {lo \in ArmsOf(N, d) : Completed(N, d, lo)}
<1> DEFINE from == IF whole = {} THEN ArmsOf(N, d) ELSE whole
<1>1. from \subseteq 0..clock[d] /\ clock[d] \in Nat /\ from # {}
  BY StampOfPlacement
<1>2. \E lo \in from : \A o \in from : o <= lo
  <2> HIDE DEF from
  <2> QED BY <1>1, GreatestBelow
<1>3. ChosenArm(N, d) = CHOOSE lo \in from : \A o \in from : o <= lo
  BY DEF ChosenArm
<1>4. ChosenArm(N, d) \in from
  <2> HIDE DEF from
  <2> QED BY <1>2, <1>3
<1> QED BY <1>4

LEMMA ChosenIsEnded ==
  ASSUME IInv, RanOnce, NEW N, Whole(N), NEW d \in Devices,
         NEW p \in N, p.dev = d, p.rec.kind = "placement",
         NEW e \in N, e.dev = d, e.rec.kind = "end", e.rec.arm = p.rec.arm
  PROVE  ChosenArm(N, d) = p.rec.t
<1>1. p.rec.t \in ArmsOf(N, d) /\ Completed(N, d, p.rec.t)
  BY StampOfPlacement, CompletedArm
<1>2. ChosenArm(N, d) \in ArmsOf(N, d) /\ Completed(N, d, ChosenArm(N, d))
  BY <1>1, ChosenIsAnArm
<1>3. PICK q \in N : q.dev = d /\ q.rec.kind = "placement" /\ q.rec.t = ChosenArm(N, d)
  BY <1>2, StampOfPlacement
<1>4. q.rec.arm \in ended[d] /\ p.rec.arm \in ended[d]
  BY <1>1, <1>2, <1>3, CompletedArm
<1>5. q.rec.arm = p.rec.arm
  BY <1>4, OneEnded
<1>6. q.rec = p.rec
  BY <1>3, <1>5, Order DEF Whole
<1> QED BY <1>3, <1>6

-----------------------------------------------------------------------------
(* What is read of the rows of one phone. *)
ReadOf(d) ==
  LET mine == Mine(db, d)
      distinct == {r.rec : r \in mine}
  IN IF Cardinality(distinct) * 20 <= Cardinality(Longest(mine)) * 21 THEN Longest(mine) ELSE mine

Newest == NewestUpload(db)

LEMMA NewestRows ==
  ASSUME IInv
  PROVE  /\ \A r \in Newest : r.dev \in Devices /\ r \in ReadOf(r.dev)
         /\ \A d \in Devices : ReadOf(d) \subseteq Newest
         /\ \A d \in Devices : ReadOf(d) \in {Mine(db, d), Longest(Mine(db, d))}
         /\ \A d \in Devices : \A r \in ReadOf(d) : r \in db /\ r.dev = d
<1>1. Newest = UNION {ReadOf(d) : d \in Devices}
  BY DEF Newest, NewestUpload, ReadOf
<1>2. \A d \in Devices : ReadOf(d) \in {Mine(db, d), Longest(Mine(db, d))}
  BY DEF ReadOf
<1>3. \A d \in Devices : \A r \in ReadOf(d) : r \in db /\ r.dev = d
  BY <1>2 DEF Mine, Longest
<1> QED BY <1>1, <1>2, <1>3

LEMMA NewestIsWhole ==
  ASSUME IInv
  PROVE  Whole(Newest)
<1>1. Newest \subseteq db
  BY NewestRows
<1>2. ASSUME NEW r \in Newest, r.rec.kind # "expStart"
      PROVE  \E p \in Newest : /\ p.dev = r.dev /\ p.rec.kind = "placement"
                               /\ p.rec.arm = r.rec.arm /\ p.rec.t <= r.rec.t
  <2>1. r \in db /\ r.dev \in Devices /\ r \in ReadOf(r.dev)
    BY NewestRows
  <2>2. PICK p \in db : /\ p.dev = r.dev /\ p.len = r.len /\ p.rec.kind = "placement"
                        /\ p.rec.arm = r.rec.arm /\ p.rec.t <= r.rec.t
    BY <1>2, <2>1 DEF IInv, Placed, RowsPlaced
  <2>3. p \in ReadOf(r.dev)
    <3>1. CASE ReadOf(r.dev) = Mine(db, r.dev)
      BY <2>2, <3>1 DEF Mine
    <3>2. CASE ReadOf(r.dev) = Longest(Mine(db, r.dev))
      BY <2>1, <2>2, <3>2 DEF Mine, Longest
    <3> QED BY <2>1, <3>1, <3>2, NewestRows
  <2> QED BY <2>1, <2>2, <2>3, NewestRows
<1> QED BY <1>1, <1>2 DEF Whole

RowOf(d, x) == [dev |-> d, len |-> Length(d), rec |-> x]

LEMMA SettledRows ==
  ASSUME IInv, Settled, NEW d \in Devices, NEW x \in Standing(d)
  PROVE  /\ RowOf(d, x) \in db /\ RowOf(d, x) \in Mine(db, d) /\ Length(d) \in Nat
         /\ RowOf(d, x).dev = d /\ RowOf(d, x).len = Length(d) /\ RowOf(d, x).rec = x
<1>1. PICK i \in 1..Len(file[d]) : x = file[d][i]
  BY DEF Standing
<1>2. file[d] # <<>>
  BY <1>1
<1>3. Length(d) \in Nat
  BY <1>2, LengthIsNatural DEF IInv
<1> QED BY <1>1, <1>3 DEF Settled, RowOf, Mine

(* Where one record of the file is read, all of it is. *)
LEMMA FileIsReadWhole ==
  ASSUME IInv, Settled, NEW d \in Devices,
         NEW x \in Newest, x.dev = d, x.rec \in Standing(d),
         NEW y \in Standing(d)
  PROVE  RowOf(d, y) \in Newest
<1>1. RowOf(d, y) \in Mine(db, d) /\ Length(d) \in Nat /\ RowOf(d, y).len = Length(d)
  BY SettledRows
<1>2. x \in ReadOf(d) /\ x \in db /\ x.len \in Nat /\ x.len <= Length(d)
  BY NewestRows, RowsAreKnown DEF IInv, Lengths
<1>3. RowOf(d, y) \in ReadOf(d)
  <2>1. CASE ReadOf(d) = Mine(db, d)
    BY <1>1, <2>1
  <2>2. CASE ReadOf(d) = Longest(Mine(db, d))
    <3>1. \A o \in Mine(db, d) : o.len \in Nat /\ o.len <= x.len
      BY <1>2, <2>2, RowsAreKnown DEF Longest, Mine
    <3>2. \A o \in Mine(db, d) : o.len <= RowOf(d, y).len
      BY <1>1, <1>2, <3>1
    <3> QED BY <1>1, <2>2, <3>2 DEF Longest
  <2> QED BY <2>1, <2>2, NewestRows
<1> QED BY <1>3, NewestRows

-----------------------------------------------------------------------------
LEMMA Quotients ==
  ASSUME NEW n \in Nat, NEW m \in Nat, NEW k \in 1..Messages, NEW l \in 1..Messages,
         n * (Messages + 1) + k = m * (Messages + 1) + l
  PROVE  n = m
<1>1. \A M \in Nat \ {0} : \A a, j \in Nat : (a + j + 1) * (M + 1) = a * (M + 1) + j * (M + 1) + (M + 1)
                                           /\ a * (M + 1) \in Nat /\ j * (M + 1) \in Nat
  OBVIOUS
<1>2. \A a, b \in Nat, x, y \in 1..Messages : a < b => a * (Messages + 1) + x < b * (Messages + 1) + y
  <2> SUFFICES ASSUME NEW a \in Nat, NEW b \in Nat, NEW x \in 1..Messages, NEW y \in 1..Messages, a < b
               PROVE  a * (Messages + 1) + x < b * (Messages + 1) + y
    OBVIOUS
  <2>1. Messages \in Nat \ {0}
    BY CampaignAssumption
  <2>2. PICK j \in Nat : b = a + j + 1
    <3>1. b - a - 1 \in Nat /\ b = a + (b - a - 1) + 1
      OBVIOUS
    <3> QED BY <3>1
  <2>3. /\ b * (Messages + 1) = a * (Messages + 1) + j * (Messages + 1) + (Messages + 1)
        /\ a * (Messages + 1) \in Nat /\ j * (Messages + 1) \in Nat
    BY <1>1, <2>1, <2>2
  <2>4. \A u, v \in Nat : u + x < u + v + (Messages + 1) + y
    BY <2>1
  <2> QED BY <2>3, <2>4
<1>3. ~(n < m) /\ ~(m < n)
  <2>1. n * (Messages + 1) \in Nat /\ m * (Messages + 1) \in Nat
    BY CampaignAssumption
  <2>2. n < m => n * (Messages + 1) + k < m * (Messages + 1) + l
    BY <1>2
  <2>3. m < n => m * (Messages + 1) + l < n * (Messages + 1) + k
    BY <1>2
  <2>4. \A u \in Int : ~(u < u)
    OBVIOUS
  <2>5. n * (Messages + 1) + k \in Int
    BY <2>1
  <2> QED BY <2>2, <2>3, <2>4, <2>5
<1> QED BY <1>3

LEMMA KeptRows ==
  ASSUME IInv, NEW r \in Kept
  PROVE  /\ r \in Newest /\ r \in db /\ r.dev \in Devices
         /\ r.rec.id \notin Tainted(Newest)
         /\ \A a \in OtherArms(Newest) : r \notin Block(Newest, a.dev, a.lo)
<1>1. r \in DropPreArm(Newest)
  BY DEF Kept, Newest
<1>2. /\ r \in Newest /\ r.rec.id \notin Tainted(Newest)
      /\ r \notin UNION {Block(Newest, a.dev, a.lo) : a \in OtherArms(Newest)}
  BY <1>1 DEF DropPreArm
<1> QED BY <1>2, NewestRows

(* Of two arms, the one that was not chosen is cut. *)
LEMMA OtherArm ==
  ASSUME IInv, NEW N, Whole(N), NEW d \in Devices, NEW lo \in ArmsOf(N, d), NEW hi \in ArmsOf(N, d), lo # hi
  PROVE  lo = ChosenArm(N, d) \/ [dev |-> d, lo |-> lo] \in OtherArms(N)
<1>1. Cardinality(ArmsOf(N, d)) >= 2
  BY StampOfPlacement, TwoMembers
<1> QED BY <1>1 DEF OtherArms

(* Ids that restart with the run are shared only by runs that both stand in the sender's file: *)
(* were two of them read, the one that was not chosen would be cut, and its ids tainted unless *)
(* it had completed as well.                                                                   *)
LEMMA JoinsInvariant == IInv => JoinsStayInOneRun
<1> SUFFICES ASSUME IInv, Settled, RanOnce, ~regime.clears,
                    NEW s \in Kept, NEW r \in Kept,
                    s.rec.kind = "sent", r.rec.kind = "recv", s.rec.id = r.rec.id
             PROVE  s.rec.run = r.rec.run
  BY DEF JoinsStayInOneRun
<1>1. /\ s \in Newest /\ s \in db /\ s.dev \in Devices /\ s.rec \in Known(s.dev)
      /\ r \in Newest /\ r \in db /\ r.dev \in Devices /\ r.rec \in Known(r.dev)
  BY KeptRows, RowsAreKnown
<1>2. /\ s.dev = Src /\ s.rec.run = s.rec.arm /\ Named(s.rec.id, s.rec.run)
      /\ Named(r.rec.id, r.rec.run) /\ SentOn(r.rec.id, r.rec.run)
  <2>1. MintedOn(s.dev, s.rec) /\ MintedOn(r.dev, r.rec)
    BY <1>1 DEF IInv, Minted
  <2> QED BY <2>1 DEF MintedOn
<1>3. CASE ~regime.appends
  <2>1. PICK k \in 1..Messages : s.rec.id = s.rec.run * (Messages + 1) + k
    BY <1>2, <1>3 DEF Named, IdOf
  <2>2. PICK l \in 1..Messages : r.rec.id = r.rec.run * (Messages + 1) + l
    BY <1>2, <1>3 DEF Named, IdOf
  <2>3. s.rec.run \in Nat /\ r.rec.run \in Nat
    BY <1>2 DEF Named
  <2> QED BY <2>1, <2>2, <2>3, Quotients
<1>4. CASE regime.appends
  <2> SUFFICES ASSUME s.rec.arm # r.rec.run PROVE FALSE
    BY <1>2
  <2>1. PICK y \in Standing(Src) : y.kind = "sent" /\ y.id = r.rec.id /\ y.run = r.rec.run
    BY <1>2, <1>4 DEF SentOn
  <2>2. y.arm = r.rec.run
    <3>1. MintedOn(Src, y)
      BY <1>1, <1>2 DEF IInv, Minted, Known
    <3> QED BY <2>1, <3>1 DEF MintedOn
  <2>3. s.rec \in Standing(Src)
    BY <1>1, <1>2, <1>4, RowsAreKnown DEF IInv, Ended, Stays
  <2> PICK t : t = RowOf(Src, y)
    OBVIOUS
  <2>4. t \in Newest /\ t.dev = Src /\ t.rec = y
    BY <1>1, <1>2, <2>3, FileIsReadWhole, SettledRows
  <2>5. Whole(Newest)
    BY NewestIsWhole
  <2>6. PICK p \in Newest : p.dev = Src /\ p.rec.kind = "placement" /\ p.rec.arm = s.rec.arm
    BY <1>1, <1>2, <2>5 DEF Whole
  <2>7. PICK q \in Newest : q.dev = Src /\ q.rec.kind = "placement" /\ q.rec.arm = y.arm
    BY <2>1, <2>4, <2>5 DEF Whole
  <2>8. p.rec.t # q.rec.t
    <3>1. p \in db /\ q \in db
      BY <2>5 DEF Whole
    <3> QED BY <1>1, <1>2, <2>2, <2>6, <2>7, <3>1, Order
  <2>9. p.rec.t \in ArmsOf(Newest, Src) /\ q.rec.t \in ArmsOf(Newest, Src)
    BY <1>1, <1>2, <2>5, <2>6, <2>7, StampOfPlacement
  <2>10. s \in Block(Newest, Src, p.rec.t)
    BY <1>1, <1>2, <2>5, <2>6, OwnBlock
  <2>11. p.rec.t = ChosenArm(Newest, Src)
    <3> SUFFICES ASSUME p.rec.t # ChosenArm(Newest, Src) PROVE FALSE
      OBVIOUS
    <3> PICK a : a = [dev |-> Src, lo |-> p.rec.t]
      OBVIOUS
    <3>1. a \in OtherArms(Newest)
      BY <1>1, <1>2, <2>5, <2>8, <2>9, OtherArm
    <3>2. s \notin Block(Newest, a.dev, a.lo)
      BY <3>1, KeptRows
    <3> QED BY <2>10, <3>2
  <2>12. [dev |-> Src, lo |-> q.rec.t] \in OtherArms(Newest)
    BY <1>1, <1>2, <2>5, <2>8, <2>9, <2>11, OtherArm
  <2>13. t \in Block(Newest, Src, q.rec.t)
    BY <1>1, <1>2, <2>1, <2>4, <2>5, <2>7, OwnBlock
  <2>14. Completed(Newest, Src, q.rec.t)
    <3> SUFFICES ASSUME ~Completed(Newest, Src, q.rec.t) PROVE FALSE
      OBVIOUS
    <3>1. r.rec.id # NoId
      BY <1>2, IdIsNatural DEF Named, NoId
    <3>2. t.rec.id \in Tainted(Newest)
      <4> PICK a : a = [dev |-> Src, lo |-> q.rec.t]
        OBVIOUS
      <4>1. a \in {x \in OtherArms(Newest) : ~Completed(Newest, x.dev, x.lo)} /\ t \in Block(Newest, a.dev, a.lo)
        BY <2>12, <2>13
      <4> QED BY <2>1, <2>4, <3>1, <4>1 DEF Tainted
    <3> QED BY <2>1, <2>4, <3>2, KeptRows
  <2>15. p.rec.arm \in ended[Src] /\ q.rec.arm \in ended[Src]
    <3>1. Completed(Newest, Src, p.rec.t)
      BY <1>1, <1>2, <2>5, <2>9, <2>11, <2>14, ChosenIsAnArm
    <3> QED BY <1>1, <1>2, <2>5, <2>6, <2>7, <2>14, <3>1, CompletedArm
  <2>16. p.rec.arm = q.rec.arm
    BY <1>1, <1>2, <2>15, OneEnded
  <2> QED BY <2>2, <2>6, <2>7, <2>16
<1> QED BY <1>3, <1>4

(* A sent record and a recv record that join come from one run, for any runs, messages, presses *)
(* of Upload and chunks.                                                                        *)
THEOREM JoinsHold == Spec => []JoinsStayInOneRun
  BY Invariant, JoinsInvariant, PTL

-----------------------------------------------------------------------------
(* The generation of the file that stands, where the twentieth can tell it, is read whole and alone *)
(* among the rows with its records.                                                                 *)
LEMMA RowIsUnique ==
  ASSUME IInv, NEW d \in Devices, NEW r \in db, NEW o \in db,
         r.dev = o.dev, r.len = o.len, r.rec = o.rec
  PROVE  r = o
  BY RowsAreKnown DEF Row

LEMMA MineIsFinite ==
  ASSUME IInv, NEW d \in Devices
  PROVE  /\ IsFiniteSet(Mine(db, d)) /\ IsFiniteSet(Longest(Mine(db, d)))
         /\ IsFiniteSet({r.rec : r \in Mine(db, d)}) /\ IsFiniteSet({r.rec : r \in Longest(Mine(db, d))})
         /\ Cardinality({r.rec : r \in Longest(Mine(db, d))}) <= Cardinality(Longest(Mine(db, d)))
         /\ Cardinality(Longest(Mine(db, d))) <= Cardinality({r.rec : r \in Longest(Mine(db, d))})
<1>1. ASSUME NEW S \in SUBSET db
      PROVE  /\ IsFiniteSet(S) /\ IsFiniteSet({r.rec : r \in S})
             /\ Cardinality({r.rec : r \in S}) <= Cardinality(S)
  <2>1. IsFiniteSet(S)
    BY FS_Subset DEF IInv, Shapes
  <2> DEFINE f == [r \in S |-> r.rec]
  <2>2. DOMAIN f = S /\ {f[r] : r \in S} = {r.rec : r \in S}
    OBVIOUS
  <2>3. IsFiniteSet({f[r] : r \in S}) /\ Cardinality({f[r] : r \in S}) <= Cardinality(S)
    <3> HIDE DEF f
    <3> QED BY <2>1, <2>2, ImageIsFinite
  <2> QED BY <2>1, <2>2, <2>3
<1>2. Mine(db, d) \in SUBSET db /\ Longest(Mine(db, d)) \in SUBSET db
  BY DEF Mine, Longest
<1>3. Cardinality(Longest(Mine(db, d))) <= Cardinality({r.rec : r \in Longest(Mine(db, d))})
  <2> DEFINE L == Longest(Mine(db, d))
  <2> DEFINE R == {r.rec : r \in L}
  <2> DEFINE g == [x \in R |-> CHOOSE r \in L : r.rec = x]
  <2>1. \A x \in R : g[x] \in L /\ g[x].rec = x
    OBVIOUS
  <2>2. ASSUME NEW r \in L PROVE g[r.rec] = r
    <3>1. r.rec \in R
      OBVIOUS
    <3> PICK o : o = g[r.rec]
      OBVIOUS
    <3>2. o \in L /\ o.rec = r.rec
      BY <2>1, <3>1
    <3>3. o \in Mine(db, d) /\ r \in Mine(db, d) /\ o.len <= r.len /\ r.len <= o.len
      BY <3>2 DEF Longest
    <3>4. o \in db /\ r \in db /\ o.dev = d /\ r.dev = d /\ o.len \in Nat /\ r.len \in Nat
      BY <3>3, RowsAreKnown DEF Mine
    <3>5. o.len = r.len
      BY <3>3, <3>4
    <3> HIDE DEF g, L
    <3> QED BY <3>2, <3>4, <3>5, RowIsUnique
  <2>3. {g[x] : x \in R} = L
    <3> HIDE DEF g, L
    <3>1. \A r \in L : r.rec \in R
      OBVIOUS
    <3> QED BY <2>1, <2>2, <3>1
  <2>4. DOMAIN g = R
    OBVIOUS
  <2>5. IsFiniteSet(R)
    BY <1>1, <1>2
  <2>6. Cardinality({g[x] : x \in R}) <= Cardinality(R)
    <3> HIDE DEF g, R, L
    <3> QED BY <2>4, <2>5, ImageIsFinite
  <2> HIDE DEF g
  <2> QED BY <2>3, <2>6
<1> QED BY <1>1, <1>2, <1>3

(* All uploads are of the file that stands: its longest generation has all of it. *)
LEMMA OneFileRead ==
  ASSUME IInv, Settled, NEW d \in Devices,
         \A r \in Mine(db, d) : r.rec \in Standing(d)
  PROVE  /\ \A x \in Standing(d) : RowOf(d, x) \in Newest
         /\ \A r \in Newest : r.dev = d => r.len = Length(d)
<1> DEFINE mine == Mine(db, d)
<1>1. \A r \in mine : r \in db /\ r.dev = d /\ r.len \in Nat /\ r.len <= Length(d)
  BY RowsAreKnown DEF Mine, IInv, Lengths
<1>2. \A x \in Standing(d) : RowOf(d, x) \in Longest(mine)
  BY <1>1, SettledRows DEF Longest
<1>3. {r.rec : r \in mine} = {r.rec : r \in Longest(mine)}
  <2>1. ASSUME NEW r \in mine PROVE \E o \in Longest(mine) : o.rec = r.rec
    BY <1>2, SettledRows
  <2> QED BY <2>1 DEF Longest
<1>4. Cardinality({r.rec : r \in mine}) <= Cardinality(Longest(mine))
  BY <1>3, MineIsFinite
<1>5. Cardinality({r.rec : r \in mine}) \in Nat /\ Cardinality(Longest(mine)) \in Nat
  BY MineIsFinite, FS_CardinalityType
<1>6. Cardinality({r.rec : r \in mine}) * 20 <= Cardinality(Longest(mine)) * 21
  BY <1>4, <1>5
<1>7. ReadOf(d) = Longest(mine)
  BY <1>6 DEF ReadOf
<1>8. \A x \in Standing(d) : RowOf(d, x) \in Newest
  BY <1>2, <1>7, NewestRows
<1>9. ASSUME NEW r \in Newest, r.dev = d PROVE r.len = Length(d)
  <2>1. r \in Longest(mine) /\ r \in mine
    BY <1>7, <1>9, NewestRows DEF Longest
  <2>2. RowOf(d, r.rec) \in mine /\ RowOf(d, r.rec).len = Length(d) /\ Length(d) \in Nat
    BY <2>1, SettledRows
  <2>3. Length(d) <= r.len
    BY <2>1, <2>2 DEF Longest
  <2> QED BY <1>1, <2>1, <2>2, <2>3
<1> QED BY <1>8, <1>9

(* After uploads of discarded files: none of them hides it. *)
LEMMA NotHidden ==
  ASSUME IInv, Settled, NEW d \in Devices,
         Cardinality(Longest(Mine(db, d))) < 20 * Cardinality(Standing(d))
  PROVE  \A x \in Standing(d) : RowOf(d, x) \in Newest
<1> SUFFICES ASSUME NEW x \in Standing(d), RowOf(d, x) \notin Newest PROVE FALSE
  OBVIOUS
<1> DEFINE mine == Mine(db, d)
<1> DEFINE distinct == {r.rec : r \in mine}
<1> DEFINE longest == {r.rec : r \in Longest(mine)}
<1>1. RowOf(d, x) \in mine
  BY SettledRows
<1>2. ReadOf(d) # mine
  BY <1>1, NewestRows
<1>3. ReadOf(d) = Longest(mine) /\ Cardinality(distinct) * 20 <= Cardinality(Longest(mine)) * 21
  BY <1>2 DEF ReadOf
<1>4. \A r \in Longest(mine) : r \in Newest /\ r.dev = d
  BY <1>3, NewestRows
<1>5. \A r \in Longest(mine) : r.rec \notin Standing(d)
  BY <1>4, FileIsReadWhole
<1>6. longest \cup Standing(d) \in SUBSET distinct
  <2>1. \A y \in Standing(d) : y \in distinct
    <3> SUFFICES ASSUME NEW y \in Standing(d) PROVE \E r \in mine : r.rec = y
      OBVIOUS
    <3> QED BY SettledRows
  <2> QED BY <2>1 DEF Longest
<1>7. longest \cap Standing(d) = {}
  BY <1>5
<1>8. IsFiniteSet(distinct) /\ IsFiniteSet(longest) /\ Cardinality(Longest(mine)) <= Cardinality(longest)
      /\ IsFiniteSet(Longest(mine))
  BY MineIsFinite
<1> HIDE DEF distinct, longest, mine
<1>9. IsFiniteSet(Standing(d))
  BY <1>6, <1>8, FS_Subset
<1>10. Cardinality(longest \cup Standing(d)) = Cardinality(longest) + Cardinality(Standing(d)) - Cardinality(longest \cap Standing(d))
  BY <1>8, <1>9, FS_Union
<1>11. Cardinality(longest \cap Standing(d)) = 0
  BY <1>7, FS_EmptySet
<1>12. Cardinality(longest \cup Standing(d)) <= Cardinality(distinct)
  BY <1>6, <1>8, FS_Subset
<1>13. /\ Cardinality(longest) \in Nat /\ Cardinality(Standing(d)) \in Nat /\ Cardinality(distinct) \in Nat
       /\ Cardinality(Longest(mine)) \in Nat
  BY <1>8, <1>9, FS_CardinalityType
<1>14. Cardinality(longest) + Cardinality(Standing(d)) <= Cardinality(distinct)
  BY <1>10, <1>11, <1>12, <1>13
<1>15. Cardinality(Longest(mine)) < 20 * Cardinality(Standing(d))
  BY DEF mine
<1> QED BY <1>3, <1>8, <1>13, <1>14, <1>15

LEMMA ReadableRead ==
  ASSUME IInv, Settled, NEW d \in Devices, Readable(d)
  PROVE  /\ \A x \in Standing(d) : RowOf(d, x) \in Newest
         /\ \A r \in Newest : (r.dev = d /\ r.rec \in Standing(d)) => r.len = Length(d)
<1>1. CASE \A r \in Mine(db, d) : r.rec \in Standing(d)
  BY <1>1, OneFileRead
<1>2. CASE /\ \A r \in Mine(db, d) : r.rec \in Standing(d) => r.len = Length(d)
           /\ Cardinality(Longest(Mine(db, d))) < 20 * Cardinality(Standing(d))
  <2>1. \A r \in Newest : r.dev = d => r \in Mine(db, d)
    BY NewestRows DEF Mine
  <2> QED BY <1>2, <2>1, NotHidden
<1> QED BY <1>1, <1>2 DEF Readable

LEMMA ReadOnce ==
  ASSUME IInv, Settled, NEW d \in Devices, Readable(d), NEW x \in Standing(d)
  PROVE  Cardinality(Copies(x)) <= 1
<1>1. ASSUME NEW r \in Copies(x) PROVE r = RowOf(d, x)
  <2>1. r \in Kept /\ r.rec = x
    BY <1>1 DEF Copies
  <2>2. r \in Newest /\ r \in db /\ r.rec.dev = r.dev
    BY <2>1, KeptRows, RowsAreKnown
  <2>3. x.dev = d
    BY DEF IInv, InOrder, Known
  <2>4. r.dev = d /\ r.len = Length(d)
    BY <2>1, <2>2, <2>3, ReadableRead
  <2>5. RowOf(d, x) \in db /\ RowOf(d, x).dev = d /\ RowOf(d, x).len = Length(d) /\ RowOf(d, x).rec = x
    BY SettledRows
  <2> QED BY <2>1, <2>2, <2>4, <2>5, RowIsUnique
<1>2. IsFiniteSet({RowOf(d, x)}) /\ Cardinality({RowOf(d, x)}) = 1 /\ Copies(x) \in SUBSET {RowOf(d, x)}
  BY <1>1, FS_Singleton
<1> QED BY <1>2, FS_Subset

(* The end, and the placement, of a run that a phone completed. *)
LEMMA EndStands ==
  ASSUME IInv, Settled, ~regime.clears, NEW d \in Devices, NEW a \in ended[d]
  PROVE  \E x \in Standing(d) : x.kind = "end" /\ x.arm = a
  BY DEF IInv, Ended, Stays

(* No block that is cut, and no id that is tainted, reaches the run that was completed. *)
LEMMA CompletedIsKept ==
  ASSUME IInv, Settled, RanOnce, ~regime.clears, NEW d \in Devices, Readable(d),
         NEW x \in Standing(d), x.arm \in ended[d], x.kind # "expStart", x.id \notin Dead
  PROVE  Copies(x) # {}
<1> PICK r : r = RowOf(d, x)
  OBVIOUS
<1>1. r \in Newest /\ r.dev = d /\ r.rec = x
  BY ReadableRead, SettledRows
<1>2. Whole(Newest)
  BY NewestIsWhole
<1>3. ASSUME NEW a \in OtherArms(Newest), r \in Block(Newest, a.dev, a.lo) PROVE FALSE
  <2>1. a.dev \in Devices /\ a.lo \in ArmsOf(Newest, a.dev) /\ a.lo # ChosenArm(Newest, a.dev)
    BY DEF OtherArms
  <2>2. a.dev = d
    BY <1>1, <1>3 DEF Block, Mine
  <2>3. PICK q \in Newest : q.dev = d /\ q.rec.kind = "placement" /\ q.rec.t = a.lo
    BY <1>2, <2>1, <2>2, StampOfPlacement
  <2>4. q.rec.arm = x.arm
    BY <1>1, <1>2, <1>3, <2>2, <2>3, BlockArm
  <2>5. PICK y \in Standing(d) : y.kind = "end" /\ y.arm = x.arm
    BY EndStands
  <2> PICK e : e = RowOf(d, y)
    OBVIOUS
  <2>6. e \in Newest /\ e.dev = d /\ e.rec = y
    BY ReadableRead, SettledRows
  <2>7. ChosenArm(Newest, d) = q.rec.t
    BY <1>2, <2>3, <2>4, <2>5, <2>6, ChosenIsEnded
  <2> QED BY <2>1, <2>2, <2>3, <2>7
<1>4. ASSUME x.id \in Tainted(Newest) PROVE FALSE
  <2>1. PICK a \in OtherArms(Newest) :
          ~Completed(Newest, a.dev, a.lo) /\ \E o \in Block(Newest, a.dev, a.lo) : o.rec.id = x.id
    BY <1>4 DEF Tainted
  <2>2. PICK o \in Block(Newest, a.dev, a.lo) : o.rec.id = x.id
    BY <2>1
  <2>3. a.dev \in Devices /\ a.lo \in ArmsOf(Newest, a.dev) /\ x.id # NoId
    BY <1>4 DEF OtherArms, Tainted
  <2>4. o \in Newest /\ o.dev = a.dev /\ o \in db /\ o.rec \in Known(a.dev)
    <3>1. o \in Newest /\ o.dev = a.dev
      BY DEF Block, Mine
    <3>2. o \in db
      BY <1>2, <3>1 DEF Whole
    <3> QED BY <3>1, <3>2, RowsAreKnown
  <2>5. o.rec.kind # "expStart"
    BY <2>2, <2>3, <2>4 DEF IInv, Minted, MintedOn
  <2>6. PICK q \in Newest : q.dev = a.dev /\ q.rec.kind = "placement" /\ q.rec.t = a.lo
    BY <1>2, <2>3, StampOfPlacement
  <2>7. o.rec.arm = q.rec.arm
    BY <1>2, <2>2, <2>3, <2>5, <2>6, BlockArm
  <2>8. CASE o.rec.arm \notin ended[a.dev]
    BY <2>2, <2>3, <2>4, <2>8 DEF Dead
  <2>9. CASE o.rec.arm \in ended[a.dev]
    <3>1. o.rec \in Standing(a.dev)
      BY <2>3, <2>4, <2>9, RowsAreKnown DEF IInv, Ended, Stays
    <3>2. PICK y \in Standing(a.dev) : y.kind = "end" /\ y.arm = o.rec.arm
      BY <2>3, <2>9, EndStands
    <3> PICK e : e = RowOf(a.dev, y)
      OBVIOUS
    <3>3. e \in Newest /\ e.dev = a.dev /\ e.rec = y
      BY <2>3, <2>4, <3>1, FileIsReadWhole, SettledRows
    <3>4. Completed(Newest, a.dev, q.rec.t)
      BY <1>2, <2>3, <2>6, <2>7, <3>2, <3>3, CompletedArm
    <3> QED BY <2>1, <2>6, <3>4
  <2> QED BY <2>8, <2>9
<1>5. r \in Kept
  BY <1>1, <1>3, <1>4 DEF Kept, Newest, DropPreArm
<1> QED BY <1>1, <1>5 DEF Copies

-----------------------------------------------------------------------------
(* The arm that counted, as establishment_time.py finds it in the rows themselves. *)
WholeArms(d) == {lo \in ArmsOf(db, d) : Completed(db, d, lo)}
FromArms(d) == IF WholeArms(d) = {} THEN ArmsOf(db, d) ELSE WholeArms(d)
LastArm(d) == {lo \in FromArms(d) : \A o \in FromArms(d) : o <= lo}

LEMMA AllRowsAreWhole ==
  ASSUME IInv
  PROVE  Whole(db)
  BY DEF IInv, Placed, RowsPlaced, Whole

LEMMA EstablishmentReads ==
  ASSUME IInv, NEW d \in Devices
  PROVE  /\ StampsOf(d, "placement") = ArmsOf(db, d)
         /\ EstablishmentRecords(d) = {r.rec : r \in
              {x \in Mine(db, d) : Cardinality(ArmsOf(db, d)) < 2 \/ \E lo \in LastArm(d) : x \in Block(db, d, lo)}}
<1> DEFINE ts == StampsOf(d, "placement")
<1> DEFINE in(lo, t) == lo <= t /\ \A hi \in ts : lo < hi => t < hi
<1> DEFINE whole == {lo \in ts : \E e \in StampsOf(d, "end") : in(lo, e)}
<1> DEFINE from == IF whole = {} THEN ts ELSE whole
<1> DEFINE chosen == {lo \in from : \A o \in from : o <= lo}
<1>1. ts = ArmsOf(db, d)
  BY DEF StampsOf, ArmsOf
<1>2. \A x \in Mine(db, d) : x \in db /\ x.dev = d /\ x.rec.t \in Nat
  BY RowsAreKnown DEF Mine
<1>3. ts \subseteq Nat
  BY <1>1, AllRowsAreWhole, StampOfPlacement
<1>4. ASSUME NEW lo \in ts, NEW x \in Mine(db, d) PROVE in(lo, x.rec.t) <=> x \in Block(db, d, lo)
  BY <1>1, <1>2, <1>3 DEF Block
<1>5. whole = WholeArms(d)
  <2>1. ASSUME NEW lo \in ts PROVE (\E e \in StampsOf(d, "end") : in(lo, e)) <=> Completed(db, d, lo)
    <3>1. ASSUME NEW e \in StampsOf(d, "end"), in(lo, e) PROVE Completed(db, d, lo)
      <4>1. PICK r \in Mine(db, d) : r.rec.kind = "end" /\ r.rec.t = e
        BY DEF StampsOf
      <4>2. r \in Block(db, d, lo)
        <5> HIDE DEF in, ts
        <5> QED BY <1>4, <3>1, <4>1
      <4> QED BY <4>1, <4>2 DEF Completed
    <3>2. ASSUME Completed(db, d, lo) PROVE \E e \in StampsOf(d, "end") : in(lo, e)
      <4>1. PICK r \in Block(db, d, lo) : r.rec.kind = "end"
        BY <3>2 DEF Completed
      <4>2. r \in Mine(db, d) /\ r.rec.t \in StampsOf(d, "end")
        BY <4>1 DEF Block, StampsOf
      <4>3. in(lo, r.rec.t)
        <5> HIDE DEF in, ts
        <5> QED BY <1>4, <4>2
      <4> HIDE DEF in
      <4> QED BY <4>2, <4>3
    <3> HIDE DEF in, ts
    <3> QED BY <3>1, <3>2
  <2> HIDE DEF in, ts
  <2> QED BY <1>1, <2>1 DEF WholeArms
<1>6. chosen = LastArm(d)
  <2> HIDE DEF whole, ts
  <2> QED BY <1>1, <1>5 DEF LastArm, FromArms
<1>7. LastArm(d) \subseteq ts
  <2> HIDE DEF ts
  <2> QED BY <1>1 DEF LastArm, FromArms, WholeArms
<1> DEFINE read == {x \in Mine(db, d) : Cardinality(ts) < 2 \/ \E lo \in chosen : in(lo, x.rec.t)}
<1>8. EstablishmentRecords(d) = {r.rec : r \in read}
  BY DEF EstablishmentRecords
<1>9. read = {x \in Mine(db, d) : Cardinality(ArmsOf(db, d)) < 2 \/ \E lo \in LastArm(d) : x \in Block(db, d, lo)}
  <2> HIDE DEF in, chosen, ts
  <2> QED BY <1>1, <1>4, <1>6, <1>7
<1>10. StampsOf(d, "placement") = ArmsOf(db, d)
  BY <1>1
<1> HIDE DEF read
<1> QED BY <1>8, <1>9, <1>10

LEMMA EstablishmentReadsEnded ==
  ASSUME IInv, Settled, ~regime.clears, NEW d \in Devices, ended[d] # {},
         Cardinality(StampsOf(d, "placement")) >= 2, NEW x \in EstablishmentRecords(d)
  PROVE  x.arm \in ended[d] \/ x.kind = "expStart"
<1>0. Whole(db)
  BY AllRowsAreWhole
<1>1. Cardinality(ArmsOf(db, d)) \in Nat /\ Cardinality(ArmsOf(db, d)) >= 2
  BY <1>0, StampOfPlacement, EstablishmentReads, FS_CardinalityType
<1>2. PICK r \in Mine(db, d) : r.rec = x /\ \E lo \in LastArm(d) : r \in Block(db, d, lo)
  BY <1>1, EstablishmentReads
<1>3. PICK lo \in LastArm(d) : r \in Block(db, d, lo)
  BY <1>2
<1>4. PICK a \in ended[d] : TRUE
  OBVIOUS
<1>5. PICK y \in Standing(d) : y.kind = "end" /\ y.arm = a
  BY EndStands
<1> PICK e : e = RowOf(d, y)
  OBVIOUS
<1>6. e \in db /\ e.dev = d /\ e.rec = y
  BY SettledRows
<1>7. PICK p \in db : p.dev = d /\ p.rec.kind = "placement" /\ p.rec.arm = a
  BY <1>0, <1>5, <1>6 DEF Whole
<1>8. p.rec.t \in WholeArms(d)
  BY <1>0, <1>5, <1>6, <1>7, StampOfPlacement, CompletedArm DEF WholeArms
<1>9. lo \in ArmsOf(db, d) /\ Completed(db, d, lo)
  BY <1>3, <1>8 DEF LastArm, FromArms, WholeArms
<1>10. PICK q \in db : q.dev = d /\ q.rec.kind = "placement" /\ q.rec.t = lo
  BY <1>0, <1>9, StampOfPlacement
<1>11. q.rec.arm \in ended[d]
  BY <1>0, <1>9, <1>10, CompletedArm
<1>12. r.rec.kind # "expStart" => r.rec.arm = q.rec.arm
  BY <1>0, <1>3, <1>10, BlockArm
<1> QED BY <1>2, <1>11, <1>12

LEMMA EstablishmentReadsAll ==
  ASSUME IInv, Settled, RanOnce, ~regime.clears, NEW d \in Devices,
         NEW x \in Standing(d), x.arm \in ended[d], x.kind # "expStart"
  PROVE  x \in EstablishmentRecords(d)
<1>0. Whole(db)
  BY AllRowsAreWhole
<1> PICK r : r = RowOf(d, x)
  OBVIOUS
<1>1. r \in db /\ r \in Mine(db, d) /\ r.dev = d /\ r.rec = x
  BY SettledRows
<1>2. PICK p \in db : p.dev = d /\ p.rec.kind = "placement" /\ p.rec.arm = x.arm
  BY <1>0, <1>1 DEF Whole
<1>3. PICK y \in Standing(d) : y.kind = "end" /\ y.arm = x.arm
  BY EndStands
<1> PICK e : e = RowOf(d, y)
  OBVIOUS
<1>4. e \in db /\ e.dev = d /\ e.rec = y
  BY SettledRows
<1>5. p.rec.t \in WholeArms(d) /\ p.rec.t \in Nat
  BY <1>0, <1>2, <1>3, <1>4, RowsAreKnown, StampOfPlacement, CompletedArm DEF WholeArms
<1>6. ASSUME NEW o \in WholeArms(d) PROVE o = p.rec.t
  <2>1. o \in ArmsOf(db, d) /\ Completed(db, d, o)
    BY DEF WholeArms
  <2>2. PICK q \in db : q.dev = d /\ q.rec.kind = "placement" /\ q.rec.t = o
    BY <1>0, <2>1, StampOfPlacement
  <2>3. q.rec.arm \in ended[d]
    BY <1>0, <2>1, <2>2, CompletedArm
  <2>4. q.rec.arm = p.rec.arm
    BY <1>2, <2>3, OneEnded
  <2> QED BY <1>2, <2>2, <2>4, Order
<1>7. p.rec.t \in LastArm(d)
  BY <1>5, <1>6 DEF LastArm, FromArms
<1>8. r \in Block(db, d, p.rec.t)
  BY <1>0, <1>1, <1>2, OwnBlock
<1> QED BY <1>1, <1>7, <1>8, EstablishmentReads

LEMMA ReadOnceInvariant == IInv => CompletedRunReadOnce
<1> SUFFICES ASSUME IInv, Settled, RanOnce, ~regime.clears, NEW d \in Devices
             PROVE  /\ (ended[d] # {} /\ Cardinality(StampsOf(d, "placement")) >= 2) =>
                         \A r \in EstablishmentRecords(d) : r.arm \in ended[d] \/ r.kind = "expStart"
                    /\ Readable(d) => \A rec \in Standing(d) : Cardinality(Copies(rec)) <= 1
                    /\ \A rec \in Standing(d) :
                         (rec.arm \in ended[d] /\ rec.kind # "expStart" /\ rec.id \notin Dead) =>
                           rec \in EstablishmentRecords(d) /\ (Readable(d) => Copies(rec) # {})
  BY DEF CompletedRunReadOnce
<1>1. (ended[d] # {} /\ Cardinality(StampsOf(d, "placement")) >= 2) =>
         \A r \in EstablishmentRecords(d) : r.arm \in ended[d] \/ r.kind = "expStart"
  BY EstablishmentReadsEnded
<1>2. Readable(d) => \A rec \in Standing(d) : Cardinality(Copies(rec)) <= 1
  BY ReadOnce
<1>3. \A rec \in Standing(d) :
        (rec.arm \in ended[d] /\ rec.kind # "expStart" /\ rec.id \notin Dead) =>
          rec \in EstablishmentRecords(d) /\ (Readable(d) => Copies(rec) # {})
  BY EstablishmentReadsAll, CompletedIsKept
<1> QED BY <1>1, <1>2, <1>3

(* A completed run is read whole and once (analyze.py, _newest_upload_only and _drop_pre_arm), *)
(* and the join figures of a phone that armed again are of that run alone                      *)
(* (establishment_time.py).                                                                    *)
THEOREM ReadOnceHolds == Spec => []CompletedRunReadOnce
  BY Invariant, ReadOnceInvariant, PTL

LEMMA TypesInvariant == IInv => TypeOK
<1> SUFFICES ASSUME IInv PROVE TypeOK
  OBVIOUS
<1>1. /\ armed \in [Devices -> BOOLEAN] /\ sent \in 0..Messages /\ regime \in RegimeType
      /\ \A d \in Devices : ended[d] \subseteq 1..arms[d]
  BY CampaignAssumption DEF IInv, Shapes
<1>2. \A d \in Devices : arms[d] \in 0..Arms[d] /\ presses[d] \in 0..Presses[d]
  BY CampaignAssumption DEF IInv, Shapes
<1>3. \A r \in db : r.dev \in Devices /\ r.rec.dev = r.dev
  BY RowsAreKnown
<1> QED BY <1>1, <1>2, <1>3 DEF TypeOK

(* The state of the phones and of the rows on the server keeps its types. *)
THEOREM TypesHold == Spec => []TypeOK
  BY Invariant, TypesInvariant, PTL
=============================================================================
