------------------------- MODULE NoiseSessionProofs -------------------------
(***************************************************************************)
(* Pairing: proofs that the tables of NoiseSession are well formed, that   *)
(* one entry never has two initiations under way, that a caller who waits  *)
(* on an entry is served by it, and that two peers whose handlers take     *)
(* turns never end up with different sessions, whatever is lost, refused,  *)
(* delayed, reset or restarted and however often.                          *)
(***************************************************************************)
EXTENDS NoiseSession, FiniteSetTheorems, FunctionTheorems, WellFoundedInduction, TLAPS

-----------------------------------------------------------------------------
(* Numbers and finite sets. *)

(* A set of natural numbers that is not empty has a least element. *)
LEMMA LeastNatural ==
  ASSUME NEW T, T \subseteq Nat, T # {}
  PROVE  \E x \in T : \A y \in T : x <= y
<1>1. IsWellFoundedOn(OpToRel(<, Nat), Nat)
  BY NatLessThanWellFounded, Zenon
<1>2. PICK x \in T : \A y \in T : <<y, x>> \notin OpToRel(<, Nat)
  BY <1>1, WFMin, Zenon
<1>3. ASSUME NEW y \in T PROVE x <= y
  <2>1. <<y, x>> \notin OpToRel(<, Nat)
    BY <1>2
  <2>2. ~(y < x)
    BY <2>1, Zenon DEF OpToRel
  <2> QED BY <2>2
<1> QED BY <1>3

LEMMA ImageIsFinite ==
  ASSUME NEW S, IsFiniteSet(S), NEW f, DOMAIN f = S
  PROVE  IsFiniteSet({f[x] : x \in S}) /\ Cardinality({f[x] : x \in S}) <= Cardinality(S)
<1> DEFINE T == {f[x] : x \in S}
<1> DEFINE g == [x \in S |-> f[x]]
<1>1. g \in Surjection(S, T)
  BY DEF Surjection
<1> QED BY <1>1, FS_Surjection

LEMMA PairIsFinite ==
  ASSUME NEW a, NEW b
  PROVE  IsFiniteSet({a, b})
<1>1. IsFiniteSet({a}) /\ {a, b} = {a} \cup {b}
  BY FS_Singleton
<1> QED BY <1>1, FS_AddElement

-----------------------------------------------------------------------------

-----------------------------------------------------------------------------
(* Types: whose key stands where.                                          *)

OpsOf(p) ==
  [kind : {"start", "send", "sent"}, i : KeyOf(p), r : {NoKey}, attached : BOOLEAN]
    \cup [kind : {"m1", "m3"}, i : KeyOf(Other(p)), r : KeyOf(p), attached : BOOLEAN]
    \cup [kind : {"m2"}, i : KeyOf(p), r : KeyOf(Other(p)), attached : BOOLEAN]
MessagesTo(p) ==
  [to : {p}, kind : {"m1"}, i : KeyOf(Other(p)), r : {NoKey}]
    \cup [to : {p}, kind : {"m2"}, i : KeyOf(p), r : KeyOf(Other(p))]
    \cup [to : {p}, kind : {"m3"}, i : KeyOf(Other(p)), r : KeyOf(p)]
HandshakesOf(p) ==
  {NoHs} \cup [role : {"initiator"}, i : KeyOf(p), r : {NoKey}, age : 0..RetryAfter]
    \cup [role : {"responder"}, i : KeyOf(Other(p)), r : KeyOf(p), age : 0..RetryAfter]
EntriesOf(p) ==
  [exists : BOOLEAN, session : SessionType \cup {NoSession}, hs : HandshakesOf(p),
   starting : BOOLEAN, completer : BOOLEAN, age : 0..ReapAfter]
Waiters == [left : 0..Timeout, live : BOOLEAN]

(* The tables of one peer: typed and finite; an entry that is not there is blank and no   *)
(* handler is attached to it; one handler is starting an attempt if the entry says so, and *)
(* none otherwise; and a caller is released by the entry it waits on.                      *)
Own(p, e, os, ws) ==
  /\ e \in EntriesOf(p) /\ (~e.exists => e = NoEntry)
  /\ os \subseteq OpsOf(p) /\ IsFiniteSet(os)
  /\ ws \subseteq Waiters
  /\ \A o \in os : o.attached => e.exists
  /\ \A a, b \in os : a.kind = "start" /\ a.attached /\ b.kind = "start" /\ b.attached => a = b
  /\ e.starting <=> \E o \in os : o.kind = "start" /\ o.attached
  /\ \A w \in ws : w.live => e.completer /\ ~hasSession(e)

Tables ==
  /\ entry = [p \in Peers |-> entry[p]]
  /\ ops = [p \in Peers |-> ops[p]]
  /\ waiters = [p \in Peers |-> waiters[p]]
  /\ wait \in [Peers -> 0..AnnounceEvery]
  /\ regime \in [overlap : BOOLEAN, left : Nat]
  /\ net \subseteq MessagesTo(Lo) \cup MessagesTo(Hi)
  /\ IsFiniteSet(net)
  /\ \A p \in Peers : Own(p, entry[p], ops[p], waiters[p])

LEMMA TwoPeers == /\ Lo \in Peers /\ Hi \in Peers /\ Lo # Hi
                  /\ Other(Lo) = Hi /\ Other(Hi) = Lo
                  /\ \A p \in Peers : Other(p) \in Peers /\ Other(Other(p)) = p /\ Other(p) # p
  BY ParamAssumption DEF Peers, Other

-----------------------------------------------------------------------------
(* A fresh key is fresh.                                                   *)

LEMMA KeysAreFinite ==
  ASSUME Tables
  PROVE  IsFiniteSet(KeysInUse)
<1> DEFINE S == net \cup ops[Lo] \cup ops[Hi] \cup {entry[Lo].hs, entry[Hi].hs}
           i == [x \in S |-> x.i]
           r == [x \in S |-> x.r]
           Is == {i[x] : x \in S}
           Rs == {r[x] : x \in S}
           Two(s) == {s[1], s[2]}
           Ss == Two(entry[Lo].session) \cup Two(entry[Hi].session)
<1>1. IsFiniteSet(S)
  <2>1. IsFiniteSet(net) /\ IsFiniteSet(ops[Lo]) /\ IsFiniteSet(ops[Hi])
    BY TwoPeers DEF Tables, Own
  <2>2. IsFiniteSet(net \cup ops[Lo])
    BY <2>1, FS_Union
  <2>3. IsFiniteSet(net \cup ops[Lo] \cup ops[Hi])
    BY <2>1, <2>2, FS_Union
  <2> QED BY <2>3, PairIsFinite, FS_Union
<1>2. IsFiniteSet(Is) /\ IsFiniteSet(Rs)
  <2>1. DOMAIN i = S /\ DOMAIN r = S
    OBVIOUS
  <2> HIDE DEF S, i, r
  <2> QED BY <1>1, <2>1, ImageIsFinite
<1>3. IsFiniteSet(Ss)
  BY FS_Union, PairIsFinite
<1>4. IsFiniteSet(Is \cup Rs \cup Ss)
  <2> HIDE DEF Is, Rs, Ss
  <2>1. IsFiniteSet(Is \cup Rs)
    BY <1>2, FS_Union
  <2> QED BY <1>3, <2>1, FS_Union
<1>5. KeysInUse \subseteq Is \cup Rs \cup Ss
  <2>1. ASSUME NEW k \in KeysInUse PROVE k \in Is \cup Rs \cup Ss
    <3>1. CASE \E x \in S : k \in {x.i, x.r}
      BY <3>1
    <3>2. CASE \E p \in Peers : k \in Two(entry[p].session)
      BY <3>2 DEF Peers
    <3> QED BY <2>1, <3>1, <3>2 DEF KeysInUse
  <2> QED BY <2>1
<1> QED BY <1>4, <1>5, FS_Subset

LEMMA FreshKeyIsFresh ==
  ASSUME Tables, NEW p \in Peers
  PROVE  FreshKey(p) \in KeyOf(p) /\ FreshKey(p) \notin KeysInUse
<1> DEFINE c == Cardinality(KeysInUse)
           free == {n \in 1..(c + 1) : <<p, n>> \notin KeysInUse}
<1>1. IsFiniteSet(KeysInUse) /\ c \in Nat
  BY KeysAreFinite, FS_CardinalityType
<1>2. free # {}
  <2>1. SUFFICES ASSUME \A n \in 1..(c + 1) : <<p, n>> \in KeysInUse PROVE FALSE
    OBVIOUS
  <2> DEFINE f == [n \in 1..(c + 1) |-> <<p, n>>]
  <2>2. f \in Injection(1..(c + 1), KeysInUse)
    BY <2>1 DEF Injection, IsInjective
  <2>3. Cardinality(1..(c + 1)) <= c
    BY <2>2, <1>1, FS_Injection
  <2> QED BY <1>1, <2>3, FS_Interval
<1>3. PICK n \in free : \A m \in free : n <= m
  <2>1. free \subseteq Nat
    OBVIOUS
  <2> HIDE DEF free
  <2> QED BY <1>2, <2>1, LeastNatural
<1>4. \A m \in 1..(n - 1) : <<p, m>> \in KeysInUse
  BY <1>1, <1>3
<1> DEFINE P(k) == <<p, k>> \notin KeysInUse /\ \A m \in 1..(k - 1) : <<p, m>> \in KeysInUse
<1>5. \E k \in 1..(c + 1) : P(k)
  BY <1>3, <1>4
<1>6. PICK k : k \in 1..(c + 1) /\ P(k) /\ FreshKey(p) = <<p, k>>
  <2> HIDE DEF P
  <2>1. FreshKey(p) = <<p, CHOOSE k \in 1..(c + 1) : P(k)>>
    BY DEF FreshKey, P
  <2> QED BY <1>5, <2>1
<1> QED BY <1>1, <1>6 DEF KeyOf

-----------------------------------------------------------------------------
(* Every step keeps the types.                                             *)

LEMMA DetachedIsTyped ==
  ASSUME NEW p \in Peers, NEW os, os \subseteq OpsOf(p), IsFiniteSet(os)
  PROVE  /\ Detached(os) \subseteq OpsOf(p) /\ IsFiniteSet(Detached(os))
         /\ \A o \in Detached(os) : ~o.attached
         /\ \A o \in Detached(os) : \E d \in os : o.kind = d.kind /\ o.i = d.i /\ o.r = d.r
<1> DEFINE f == [o \in os |-> [o EXCEPT !.attached = FALSE]]
<1>1. Detached(os) = {f[o] : o \in os}
  BY DEF Detached
<1>2. IsFiniteSet({f[o] : o \in os})
  <2>1. DOMAIN f = os
    OBVIOUS
  <2> HIDE DEF f
  <2> QED BY <2>1, ImageIsFinite
<1>3. ASSUME NEW o \in os
      PROVE  /\ [o EXCEPT !.attached = FALSE] \in OpsOf(p)
             /\ ~[o EXCEPT !.attached = FALSE].attached
             /\ \A k \in {"kind", "i", "r"} : [o EXCEPT !.attached = FALSE][k] = o[k]
  BY DEF OpsOf
<1> QED BY <1>1, <1>2, <1>3 DEF Detached

LEMMA WaitersAreTyped ==
  ASSUME NEW ws, ws \subseteq Waiters, NEW e
  PROVE  /\ Released(ws) \subseteq Waiters /\ \A w \in Released(ws) : ~w.live
         /\ Orphaned(ws) \subseteq Waiters /\ \A w \in Orphaned(ws) : ~w.live
         /\ waitForSession(e, ws) \subseteq Waiters
         /\ waitForSession(e, ws) = ws \/ (e.completer /\ ~hasSession(e))
<1>1. ASSUME NEW w \in ws
      PROVE  [w EXCEPT !.live = FALSE] \in Waiters /\ ~[w EXCEPT !.live = FALSE].live
  BY DEF Waiters
<1>2. [left |-> Timeout, live |-> TRUE] \in Waiters
  BY DEF Waiters, Timeout
<1> QED BY <1>1, <1>2 DEF Released, Orphaned, waitForSession

LEMMA BlankEntries ==
  ASSUME NEW p \in Peers
  PROVE  /\ NoEntry \in EntriesOf(p) /\ FreshEntry \in EntriesOf(p)
         /\ ~NoEntry.exists /\ FreshEntry.exists
         /\ \A e \in {NoEntry, FreshEntry} :
              e.session = NoSession /\ e.hs = NoHs /\ ~e.starting /\ ~e.completer
<1>1. NoHs \in HandshakesOf(p) /\ 0 \in 0..ReapAfter /\ NoSession \in SessionType \cup {NoSession}
  BY DEF HandshakesOf, ReapAfter
<1>2. NoEntry \in EntriesOf(p)
  BY <1>1 DEF NoEntry, EntriesOf
<1>3. ASSUME NEW e \in EntriesOf(p)
      PROVE  /\ [e EXCEPT !.exists = TRUE] \in EntriesOf(p) /\ [e EXCEPT !.exists = TRUE].exists
             /\ \A k \in {"session", "hs", "starting", "completer", "age"} :
                  [e EXCEPT !.exists = TRUE][k] = e[k]
  BY DEF EntriesOf
<1>4. /\ ~NoEntry.exists /\ NoEntry.session = NoSession /\ NoEntry.hs = NoHs
      /\ ~NoEntry.starting /\ ~NoEntry.completer
  BY DEF NoEntry
<1> QED BY <1>2, <1>3, <1>4 DEF FreshEntry

(* A step of one peer, which changes that peer's tables and the packets. *)
Local(p, e, os, ws) ==
  /\ entry' = [entry EXCEPT ![p] = e]
  /\ ops' = [ops EXCEPT ![p] = os]
  /\ waiters' = [waiters EXCEPT ![p] = ws]

LEMMA LocalUpdate ==
  ASSUME Tables, NEW p \in Peers, NEW e, NEW os, NEW ws, Local(p, e, os, ws)
  PROVE  /\ entry'[p] = e /\ ops'[p] = os /\ waiters'[p] = ws
         /\ entry'[Other(p)] = entry[Other(p)] /\ ops'[Other(p)] = ops[Other(p)]
         /\ waiters'[Other(p)] = waiters[Other(p)]
  BY TwoPeers DEF Tables, Local

LEMMA LocalTables ==
  ASSUME Tables, NEW p \in Peers, NEW e, NEW os, NEW ws, Local(p, e, os, ws),
         Own(p, e, os, ws),
         net' \subseteq MessagesTo(Lo) \cup MessagesTo(Hi), IsFiniteSet(net'),
         wait' \in [Peers -> 0..AnnounceEvery],
         regime' \in [overlap : BOOLEAN, left : Nat]
  PROVE  Tables'
<1>1. \A x \in Peers : x = p \/ x = Other(p)
  BY DEF Peers, Other
<1>2. \A x \in Peers : Own(x, entry'[x], ops'[x], waiters'[x])
  BY <1>1, LocalUpdate, TwoPeers DEF Tables
<1>3. /\ entry' = [x \in Peers |-> entry'[x]]
      /\ ops' = [x \in Peers |-> ops'[x]]
      /\ waiters' = [x \in Peers |-> waiters'[x]]
  BY DEF Tables, Local
<1> QED BY <1>2, <1>3 DEF Tables

LEMMA ChargeIsTyped ==
  ASSUME Tables, NEW n \in Nat, Charge(n)
  PROVE  regime' \in [overlap : BOOLEAN, left : Nat] /\ regime'.overlap = regime.overlap
  BY DEF Tables, Charge

(* A blank entry, removed or put anew, with its handlers detached and its callers released. *)
LEMMA OwnBlank ==
  ASSUME NEW p \in Peers, NEW e, NEW os, NEW ws, Own(p, e, os, ws),
         NEW less \in SUBSET os, NEW fewer \in SUBSET ws, NEW blank \in {NoEntry, FreshEntry}
  PROVE  Own(p, blank, Detached(less), Released(fewer))
<1>1. less \subseteq OpsOf(p) /\ IsFiniteSet(less) /\ fewer \subseteq Waiters
  BY FS_Subset DEF Own
<1>2. /\ blank \in EntriesOf(p) /\ (~blank.exists => blank = NoEntry) /\ ~blank.starting
  BY BlankEntries
<1>3. /\ Detached(less) \subseteq OpsOf(p) /\ IsFiniteSet(Detached(less))
      /\ \A o \in Detached(less) : ~o.attached
  BY <1>1, DetachedIsTyped
<1>4. Released(fewer) \subseteq Waiters /\ \A w \in Released(fewer) : ~w.live
  BY <1>1, WaitersAreTyped
<1> QED BY <1>2, <1>3, <1>4 DEF Own

LEMMA OwnPut ==
  ASSUME NEW p \in Peers, NEW e, NEW os, NEW ws, Own(p, e, os, ws)
  PROVE  Own(p, PutIfAbsent(e), os, ws) /\ PutIfAbsent(e).exists
<1>1. CASE e.exists
  BY <1>1 DEF PutIfAbsent
<1>2. CASE ~e.exists
  <2>1. e = NoEntry /\ PutIfAbsent(e) = FreshEntry
    BY <1>2 DEF Own, PutIfAbsent
  <2>2. /\ \A o \in os : ~o.attached
        /\ \A w \in ws : ~w.live
    BY <2>1, BlankEntries DEF Own
  <2> QED BY <2>1, <2>2, BlankEntries DEF Own
<1> QED BY <1>1, <1>2

(* Waiting on the entry adds a caller that its completer will release. *)
LEMMA OwnWaits ==
  ASSUME NEW p \in Peers, NEW e, NEW os, NEW ws, Own(p, e, os, ws)
  PROVE  Own(p, e, os, waitForSession(e, ws))
<1>1. waitForSession(e, ws) \subseteq Waiters
  BY WaitersAreTyped DEF Own
<1>2. \A w \in waitForSession(e, ws) : w.live => e.completer /\ ~hasSession(e)
  BY DEF Own, waitForSession
<1> QED BY <1>1, <1>2 DEF Own

(* A handler that awaits, other than a starting one. *)
LEMMA OwnBegins ==
  ASSUME NEW p \in Peers, NEW e, NEW os, NEW ws, Own(p, e, os, ws), e.exists,
         NEW o \in OpsOf(p), o.kind # "start"
  PROVE  Own(p, e, os \cup {o}, ws)
<1>1. IsFiniteSet(os \cup {o})
  BY FS_AddElement DEF Own
<1> QED BY <1>1 DEF Own

(* A handler that ends, other than an attached starting one, and leaves its entry alone. *)
LEMMA OwnEnds ==
  ASSUME NEW p \in Peers, NEW e, NEW os, NEW ws, Own(p, e, os, ws),
         NEW o \in os, ~(o.kind = "start" /\ o.attached)
  PROVE  Own(p, e, os \ {o}, ws)
<1>1. IsFiniteSet(os \ {o})
  BY FS_RemoveElement DEF Own
<1> QED BY <1>1 DEF Own

LEMMA ResetTables ==
  ASSUME Tables, NEW p \in Peers, NEW ws \in SUBSET waiters[p], NEW os \in SUBSET ops[p],
         Reset(p, ws, os), net' \subseteq net, UNCHANGED wait,
         regime' \in [overlap : BOOLEAN, left : Nat]
  PROVE  Tables' /\ Local(p, NoEntry, Detached(os), Released(ws))
<1>1. Local(p, NoEntry, Detached(os), Released(ws))
  BY DEF Reset, Local
<1>2. Own(p, NoEntry, Detached(os), Released(ws))
  BY OwnBlank DEF Tables
<1>3. /\ net' \subseteq MessagesTo(Lo) \cup MessagesTo(Hi) /\ IsFiniteSet(net')
      /\ wait' \in [Peers -> 0..AnnounceEvery]
  BY FS_Subset DEF Tables
<1> QED BY <1>1, <1>2, <1>3, LocalTables

(* One lemma for each handler: the tables it leaves. *)
LEMMA AnnounceTables ==
  ASSUME Tables, NEW p \in Peers, Announce(p)
  PROVE  Tables'
<1> DEFINE reaped == Reapable(entry[p])
           e == IF reaped THEN FreshEntry ELSE PutIfAbsent(entry[p])
           ws == IF reaped THEN Released(waiters[p]) ELSE waiters[p]
           os == IF reaped THEN Detached(ops[p]) ELSE ops[p]
           superseded == e.hs # NoHs
           started == [e EXCEPT !.hs = NoHs, !.starting = TRUE, !.completer = @ /\ ~superseded]
           o == Op("start", FreshKey(p), NoKey)
           released == IF superseded THEN Released(ws) ELSE ws
<1>1. Own(p, e, os, ws) /\ e.exists
  <2>1. Own(p, entry[p], ops[p], waiters[p])
    BY DEF Tables
  <2>2. Own(p, FreshEntry, Detached(ops[p]), Released(waiters[p])) /\ FreshEntry.exists
    BY <2>1, OwnBlank, BlankEntries
  <2>3. Own(p, PutIfAbsent(entry[p]), ops[p], waiters[p]) /\ PutIfAbsent(entry[p]).exists
    BY <2>1, OwnPut
  <2> QED BY <2>2, <2>3
<1>2. /\ net' \subseteq MessagesTo(Lo) \cup MessagesTo(Hi) /\ IsFiniteSet(net')
      /\ wait' \in [Peers -> 0..AnnounceEvery]
  BY DEF Announce, Tables, AnnounceEvery
<1>3. regime' \in [overlap : BOOLEAN, left : Nat]
  <2>1. Sweeps(entry[p]) + (IF wait[p] > 0 THEN 1 ELSE 0) \in Nat
    BY DEF Sweeps
  <2> QED BY <2>1, ChargeIsTyped DEF Announce
<1>4. CASE UnderWay(e) /\ Local(p, e, os, waitForSession(e, ws))
  BY <1>1, <1>2, <1>3, <1>4, OwnWaits, LocalTables
<1>5. CASE ~UnderWay(e) /\ Local(p, started, os \cup {o}, released)
  <2>1. Own(p, started, os \cup {o}, released)
    <3> HIDE DEF e, ws, os
    <3>1. FreshKey(p) \in KeyOf(p)
      BY FreshKeyIsFresh
    <3>2. o \in OpsOf(p) /\ o.kind = "start" /\ o.attached
      BY <3>1 DEF Op, OpsOf
    <3>3. ~e.starting
      BY <1>5 DEF UnderWay
    <3>4. e \in EntriesOf(p) /\ NoHs \in HandshakesOf(p)
      BY <1>1 DEF Own, HandshakesOf
    <3>5. started \in EntriesOf(p) /\ started.exists /\ started.starting
      BY <1>1, <3>4 DEF EntriesOf
    <3>6. released \subseteq Waiters /\ \A w \in released : w.live => started.completer /\ ~hasSession(started)
      <4>1. CASE superseded
        BY <4>1, <1>1, WaitersAreTyped DEF Own
      <4>2. CASE ~superseded
        BY <4>2, <1>1, <3>4 DEF Own, EntriesOf, hasSession
      <4> QED BY <4>1, <4>2
    <3>7. IsFiniteSet(os \cup {o})
      BY <1>1, FS_AddElement DEF Own
    <3>8. \A x \in os : ~(x.kind = "start" /\ x.attached)
      BY <1>1, <3>3 DEF Own
    <3> HIDE DEF started, o, released
    <3> QED BY <1>1, <3>2, <3>5, <3>6, <3>7, <3>8 DEF Own
  <2> HIDE DEF started, o, released, e, os, ws
  <2> QED BY <1>2, <1>3, <1>5, <2>1, LocalTables
<1> QED BY <1>4, <1>5 DEF Announce, Local

LEMMA StartEndTables ==
  ASSUME Tables, NEW p \in Peers, StartEnd(p)
  PROVE  Tables'
<1> DEFINE e == entry[p]
<1>1. PICK o \in ops[p] :
        /\ o.kind = "start"
        /\ ops' = [ops EXCEPT ![p] = (@ \ {o}) \cup {[o EXCEPT !.kind = "send"]}]
        /\ IF o.attached
           THEN /\ entry' = [entry EXCEPT ![p] =
                     [@ EXCEPT !.session = NoSession, !.starting = FALSE,
                        !.hs = [role |-> "initiator", i |-> o.i, r |-> NoKey, age |-> 0],
                        !.completer = TRUE]]
                /\ waiters' = [waiters EXCEPT ![p] = Orphaned(@)]
           ELSE UNCHANGED <<entry, waiters>>
  BY DEF StartEnd
<1>2. /\ net' \subseteq MessagesTo(Lo) \cup MessagesTo(Hi) /\ IsFiniteSet(net')
      /\ wait' \in [Peers -> 0..AnnounceEvery]
      /\ regime' \in [overlap : BOOLEAN, left : Nat]
  BY DEF StartEnd, Tables
<1> DEFINE sending == [o EXCEPT !.kind = "send"]
           os == (ops[p] \ {o}) \cup {sending}
           h == [role |-> "initiator", i |-> o.i, r |-> NoKey, age |-> 0]
           built == [e EXCEPT !.session = NoSession, !.starting = FALSE, !.hs = h, !.completer = TRUE]
<1>3. Own(p, e, ops[p], waiters[p])
  BY DEF Tables
<1>4. /\ o \in OpsOf(p) /\ sending \in OpsOf(p) /\ sending.kind = "send"
      /\ sending.attached = o.attached /\ o.i \in KeyOf(p)
  BY <1>1, <1>3 DEF Own, OpsOf
<1>5. IsFiniteSet(os)
  BY <1>3, FS_RemoveElement, FS_AddElement DEF Own
<1>6. CASE o.attached
  <2>1. Local(p, built, os, Orphaned(waiters[p]))
    BY <1>1, <1>6 DEF Local
  <2>2. h \in HandshakesOf(p)
    BY <1>4 DEF HandshakesOf, RetryAfter
  <2>3. built \in EntriesOf(p) /\ built.exists /\ ~built.starting
    <3> HIDE DEF h
    <3> QED BY <1>1, <1>3, <1>6, <2>2 DEF Own, EntriesOf
  <2>4. Orphaned(waiters[p]) \subseteq Waiters /\ \A w \in Orphaned(waiters[p]) : ~w.live
    BY <1>3, WaitersAreTyped DEF Own
  <2>5. \A x \in os : ~(x.kind = "start" /\ x.attached)
    BY <1>1, <1>3, <1>4, <1>6 DEF Own
  <2>6. Own(p, built, os, Orphaned(waiters[p]))
    <3> HIDE DEF built, sending
    <3> QED BY <1>3, <1>4, <1>5, <2>3, <2>4, <2>5 DEF Own
  <2> HIDE DEF built, os
  <2> QED BY <1>2, <2>1, <2>6, LocalTables
<1>7. CASE ~o.attached
  <2>1. Local(p, e, os, waiters[p])
    BY <1>1, <1>7 DEF Local, Tables
  <2>2. Own(p, e, os, waiters[p])
    <3> HIDE DEF sending
    <3> QED BY <1>1, <1>3, <1>4, <1>5, <1>7 DEF Own
  <2> HIDE DEF os
  <2> QED BY <1>2, <2>1, <2>2, LocalTables
<1> QED BY <1>6, <1>7

LEMMA PacketsAreTyped ==
  ASSUME Tables, NEW p \in Peers, NEW m, m \in MessagesTo(p), net' \subseteq net \cup {m}
  PROVE  net' \subseteq MessagesTo(Lo) \cup MessagesTo(Hi) /\ IsFiniteSet(net')
<1>1. IsFiniteSet(net \cup {m})
  BY FS_AddElement DEF Tables
<1> QED BY <1>1, FS_Subset DEF Tables, Peers

LEMMA FewerPackets ==
  ASSUME Tables, net' \subseteq net
  PROVE  net' \subseteq MessagesTo(Lo) \cup MessagesTo(Hi) /\ IsFiniteSet(net')
  BY FS_Subset DEF Tables

LEMMA AirsTables ==
  ASSUME Tables, NEW p \in Peers, Airs(p)
  PROVE  Tables'
<1> DEFINE aired(o) == [o EXCEPT !.kind = "sent"]
<1>1. PICK o \in ops[p] :
        /\ o.kind = "send"
        /\ net' = net \cup {Message(p, "m1", o.i, NoKey)}
        /\ ops' = [ops EXCEPT ![p] = (@ \ {o}) \cup {aired(o)}]
        /\ UNCHANGED <<entry, waiters, wait, regime>>
  BY DEF Airs
<1> DEFINE os == (ops[p] \ {o}) \cup {aired(o)}
<1>2. Local(p, entry[p], os, waiters[p])
  BY <1>1 DEF Local, Tables
<1>3. Own(p, entry[p], ops[p], waiters[p])
  BY DEF Tables
<1>4. /\ o.i \in KeyOf(p) /\ aired(o) \in OpsOf(p)
      /\ aired(o).kind = "sent" /\ aired(o).attached = o.attached
  BY <1>1, <1>3 DEF Own, OpsOf
<1>5. Own(p, entry[p], os, waiters[p])
  <2>1. IsFiniteSet(os)
    BY <1>3, FS_RemoveElement, FS_AddElement DEF Own
  <2> HIDE DEF aired
  <2> QED BY <1>1, <1>3, <1>4, <2>1 DEF Own
<1>6. Message(p, "m1", o.i, NoKey) \in MessagesTo(Other(p))
  BY <1>4, TwoPeers DEF Message, MessagesTo
<1>7. net' \subseteq MessagesTo(Lo) \cup MessagesTo(Hi) /\ IsFiniteSet(net')
  BY <1>1, <1>6, PacketsAreTyped, TwoPeers
<1> HIDE DEF os
<1> QED BY <1>1, <1>2, <1>5, <1>7, LocalTables DEF Tables

LEMMA SendEndTables ==
  ASSUME Tables, NEW p \in Peers, SendEnd(p)
  PROVE  Tables'
<1>1. PICK o \in ops[p] :
        /\ o.kind = "sent"
        /\ ops' = [ops EXCEPT ![p] = @ \ {o}]
        /\ waiters' = [waiters EXCEPT ![p] = waitForSession(entry[p], @)]
        /\ UNCHANGED <<entry, net, wait, regime>>
  BY DEF SendEnd
<1> DEFINE ws == waitForSession(entry[p], waiters[p])
<1>2. Local(p, entry[p], ops[p] \ {o}, ws)
  BY <1>1 DEF Local, Tables
<1>3. Own(p, entry[p], ops[p] \ {o}, ws)
  BY <1>1, OwnEnds, OwnWaits DEF Tables
<1> QED BY <1>1, <1>2, <1>3, LocalTables DEF Tables

LEMMA Message1BeginTables ==
  ASSUME Tables, NEW p \in Peers, Message1Begin(p)
  PROVE  Tables'
<1> DEFINE e == PutIfAbsent(entry[p])
           yields == YieldsToPeer(p, e)
           dropped == [e EXCEPT !.completer = @ /\ ~yields]
           released == IF yields THEN Released(waiters[p]) ELSE waiters[p]
<1>1. PICK m \in net :
        /\ Receive(p, "m1", m)
        /\ \/ YieldsToOwn(p, e) /\ UNCHANGED <<entry, waiters, ops>>
           \/ Local(p, dropped, ops[p] \cup {Op("m1", m.i, FreshKey(p))}, released)
        /\ UNCHANGED <<wait, regime>>
  BY DEF Message1Begin, Local
<1>2. /\ net' \subseteq MessagesTo(Lo) \cup MessagesTo(Hi) /\ IsFiniteSet(net')
      /\ wait' \in [Peers -> 0..AnnounceEvery]
      /\ regime' \in [overlap : BOOLEAN, left : Nat]
  BY <1>1, FewerPackets DEF Receive, Tables
<1>3. CASE UNCHANGED <<entry, waiters, ops>>
  BY <1>2, <1>3 DEF Tables
<1>4. CASE Local(p, dropped, ops[p] \cup {Op("m1", m.i, FreshKey(p))}, released)
  <2> DEFINE o == Op("m1", m.i, FreshKey(p))
  <2>1. o \in OpsOf(p) /\ o.kind = "m1"
    <3>1. m.i \in KeyOf(Other(p))
      BY <1>1, TwoPeers DEF Tables, Receive, MessagesTo, Peers
    <3> QED BY <3>1, FreshKeyIsFresh DEF Op, OpsOf
  <2>2. Own(p, e, ops[p], waiters[p]) /\ e.exists
    BY OwnPut DEF Tables
  <2>3. Own(p, dropped, ops[p], released) /\ dropped.exists
    <3> HIDE DEF e
    <3>1. /\ dropped \in EntriesOf(p) /\ dropped.exists /\ dropped.starting = e.starting
          /\ dropped.completer = (e.completer /\ ~yields) /\ dropped.session = e.session
      BY <2>2 DEF Own, EntriesOf
    <3>2. Released(waiters[p]) \subseteq Waiters /\ \A w \in Released(waiters[p]) : ~w.live
      BY <2>2, WaitersAreTyped DEF Own
    <3> HIDE DEF dropped, yields
    <3> QED BY <2>2, <3>1, <3>2 DEF Own, hasSession
  <2> HIDE DEF dropped, released, o
  <2>4. Own(p, dropped, ops[p] \cup {o}, released)
    BY <2>1, <2>3, OwnBegins
  <2> QED BY <1>2, <1>4, <2>4, LocalTables DEF o
<1> QED BY <1>1, <1>3, <1>4

LEMMA Message1EndTables ==
  ASSUME Tables, NEW p \in Peers, Message1End(p)
  PROVE  Tables'
<1> DEFINE e == entry[p]
<1>1. PICK o \in ops[p] :
        /\ o.kind = "m1"
        /\ net' = net \cup {Message(p, "m2", o.i, o.r)}
        /\ IF o.attached
           THEN /\ entry' = [entry EXCEPT ![p] =
                     [@ EXCEPT !.session = NoSession, !.completer = TRUE,
                        !.hs = [role |-> "responder", i |-> o.i, r |-> o.r, age |-> 0]]]
                /\ waiters' = [waiters EXCEPT ![p] = Orphaned(@)]
           ELSE UNCHANGED <<entry, waiters>>
        /\ ops' = [ops EXCEPT ![p] = @ \ {o}]
        /\ UNCHANGED <<wait, regime>>
  BY DEF Message1End
<1> DEFINE h == [role |-> "responder", i |-> o.i, r |-> o.r, age |-> 0]
           answered == [e EXCEPT !.session = NoSession, !.completer = TRUE, !.hs = h]
           os == ops[p] \ {o}
<1>2. Own(p, e, ops[p], waiters[p]) /\ Own(p, e, os, waiters[p])
  BY <1>1, OwnEnds DEF Tables
<1>3. o.i \in KeyOf(Other(p)) /\ o.r \in KeyOf(p)
  BY <1>1, <1>2 DEF Own, OpsOf
<1>4. /\ net' \subseteq MessagesTo(Lo) \cup MessagesTo(Hi) /\ IsFiniteSet(net')
      /\ wait' \in [Peers -> 0..AnnounceEvery]
      /\ regime' \in [overlap : BOOLEAN, left : Nat]
  <2>1. Message(p, "m2", o.i, o.r) \in MessagesTo(Other(p))
    BY <1>3, TwoPeers DEF Message, MessagesTo
  <2> QED BY <1>1, <2>1, PacketsAreTyped, TwoPeers DEF Tables
<1>5. CASE o.attached
  <2>1. Local(p, answered, os, Orphaned(waiters[p]))
    BY <1>1, <1>5 DEF Local
  <2>2. h \in HandshakesOf(p)
    BY <1>3 DEF HandshakesOf, RetryAfter
  <2>3. answered \in EntriesOf(p) /\ answered.exists /\ answered.starting = e.starting
    <3> HIDE DEF h
    <3> QED BY <1>2, <1>5, <2>2 DEF Own, EntriesOf
  <2>4. Orphaned(waiters[p]) \subseteq Waiters /\ \A w \in Orphaned(waiters[p]) : ~w.live
    BY <1>2, WaitersAreTyped DEF Own
  <2> HIDE DEF answered, os
  <2>5. Own(p, answered, os, Orphaned(waiters[p]))
    BY <1>2, <2>3, <2>4 DEF Own
  <2> QED BY <1>4, <2>1, <2>5, LocalTables
<1>6. CASE ~o.attached
  <2>1. Local(p, e, os, waiters[p])
    BY <1>1, <1>6 DEF Local, Tables
  <2> HIDE DEF os
  <2> QED BY <1>2, <1>4, <2>1, LocalTables
<1> QED BY <1>5, <1>6

LEMMA FinalBeginTables ==
  ASSUME Tables, NEW p \in Peers,
         NEW kind, NEW role, <<kind, role>> \in {<<"m2", "initiator">>, <<"m3", "responder">>},
         FinalBegin(p, kind, role)
  PROVE  Tables'
<1> DEFINE e == PutIfAbsent(entry[p])
<1>1. PICK m \in net :
        /\ Receive(p, kind, m)
        /\ \/ ops' = ops
           \/ /\ e.hs.role = role
              /\ ops' = [ops EXCEPT ![p] = @ \cup {Completing(kind, m, e.hs)}]
        /\ entry' = [entry EXCEPT ![p] = e]
        /\ UNCHANGED <<waiters, wait, regime>>
  BY DEF FinalBegin, Tables
<1>2. /\ net' \subseteq MessagesTo(Lo) \cup MessagesTo(Hi) /\ IsFiniteSet(net')
      /\ wait' \in [Peers -> 0..AnnounceEvery]
      /\ regime' \in [overlap : BOOLEAN, left : Nat]
  BY <1>1, FewerPackets DEF Receive, Tables
<1>3. Own(p, e, ops[p], waiters[p]) /\ e.exists
  BY OwnPut DEF Tables
<1>4. CASE ops' = ops
  <2>1. Local(p, e, ops[p], waiters[p])
    BY <1>1, <1>4 DEF Local, Tables
  <2> HIDE DEF e
  <2> QED BY <1>2, <1>3, <2>1, LocalTables
<1>5. CASE e.hs.role = role /\ ops' = [ops EXCEPT ![p] = @ \cup {Completing(kind, m, e.hs)}]
  <2> DEFINE o == Completing(kind, m, e.hs)
  <2>1. Local(p, e, ops[p] \cup {o}, waiters[p])
    BY <1>1, <1>5 DEF Local, Tables
  <2>2. o \in OpsOf(p) /\ o.kind # "start"
    <3> HIDE DEF e
    <3>1. e.hs \in HandshakesOf(p)
      BY <1>3 DEF Own, EntriesOf
    <3>2. CASE kind = "m2" /\ role = "initiator"
      <4>1. e.hs.i \in KeyOf(p)
        BY <1>5, <3>1, <3>2 DEF HandshakesOf, NoHs
      <4>2. m.r \in KeyOf(Other(p))
        BY <1>1, <3>2, TwoPeers DEF Tables, Receive, MessagesTo, Peers
      <4> QED BY <3>2, <4>1, <4>2 DEF Completing, Op, OpsOf
    <3>3. CASE kind = "m3" /\ role = "responder"
      <4>1. e.hs.i \in KeyOf(Other(p)) /\ e.hs.r \in KeyOf(p)
        BY <1>5, <3>1, <3>3 DEF HandshakesOf, NoHs
      <4> QED BY <3>3, <4>1 DEF Completing, Op, OpsOf
    <3> QED BY <3>2, <3>3
  <2> HIDE DEF e, o
  <2> QED BY <1>2, <1>3, <2>1, <2>2, OwnBegins, LocalTables
<1> QED BY <1>1, <1>4, <1>5

LEMMA FinalEndTables ==
  ASSUME Tables, NEW p \in Peers, NEW kind \in {"m2", "m3"}, FinalEnd(p, kind)
  PROVE  Tables'
<1> DEFINE e == entry[p]
<1>1. PICK o \in ops[p] :
        /\ o.kind = kind
        /\ ops' = [ops EXCEPT ![p] = @ \ {o}]
        /\ net' = IF kind = "m2" THEN net \cup {Message(p, "m3", o.i, o.r)} ELSE net
        /\ IF o.attached
           THEN /\ entry' = [entry EXCEPT ![p] =
                     [@ EXCEPT !.session = <<o.i, o.r>>, !.hs = NoHs, !.completer = FALSE]]
                /\ waiters' = [waiters EXCEPT ![p] = Released(@)]
           ELSE UNCHANGED <<entry, waiters>>
        /\ UNCHANGED <<wait, regime>>
  BY DEF FinalEnd
<1> DEFINE paired == [e EXCEPT !.session = <<o.i, o.r>>, !.hs = NoHs, !.completer = FALSE]
           os == ops[p] \ {o}
<1>2. Own(p, e, ops[p], waiters[p]) /\ Own(p, e, os, waiters[p])
  BY <1>1, OwnEnds DEF Tables
<1>3. \/ kind = "m2" /\ o.i \in KeyOf(p) /\ o.r \in KeyOf(Other(p))
      \/ kind = "m3" /\ o.i \in KeyOf(Other(p)) /\ o.r \in KeyOf(p)
  BY <1>1, <1>2 DEF Own, OpsOf
<1>4. /\ net' \subseteq MessagesTo(Lo) \cup MessagesTo(Hi) /\ IsFiniteSet(net')
      /\ wait' \in [Peers -> 0..AnnounceEvery]
      /\ regime' \in [overlap : BOOLEAN, left : Nat]
  <2>1. CASE kind = "m2"
    <3>1. Message(p, "m3", o.i, o.r) \in MessagesTo(Other(p))
      BY <1>3, <2>1, TwoPeers DEF Message, MessagesTo
    <3> QED BY <1>1, <2>1, <3>1, PacketsAreTyped, TwoPeers DEF Tables
  <2>2. CASE kind # "m2"
    BY <1>1, <2>2 DEF Tables
  <2> QED BY <2>1, <2>2
<1>5. CASE o.attached
  <2>1. Local(p, paired, os, Released(waiters[p]))
    BY <1>1, <1>5 DEF Local
  <2>2. <<o.i, o.r>> \in SessionType
    BY <1>3, TwoPeers DEF SessionType, Peers
  <2>3. paired \in EntriesOf(p) /\ paired.exists /\ paired.starting = e.starting
    BY <1>2, <1>5, <2>2 DEF Own, EntriesOf, HandshakesOf
  <2>4. Released(waiters[p]) \subseteq Waiters /\ \A w \in Released(waiters[p]) : ~w.live
    BY <1>2, WaitersAreTyped DEF Own
  <2> HIDE DEF paired, os
  <2>5. Own(p, paired, os, Released(waiters[p]))
    BY <1>2, <2>3, <2>4 DEF Own
  <2> QED BY <1>4, <2>1, <2>5, LocalTables
<1>6. CASE ~o.attached
  <2>1. Local(p, e, os, waiters[p])
    BY <1>1, <1>6 DEF Local, Tables
  <2> HIDE DEF os
  <2> QED BY <1>2, <1>4, <2>1, LocalTables
<1> QED BY <1>5, <1>6

LEMMA RestartTables ==
  ASSUME Tables, NEW p \in Peers, Restart(p)
  PROVE  Tables'
<1>1. Local(p, NoEntry, {}, {})
  BY DEF Restart, Local
<1>2. Own(p, NoEntry, {}, {})
  <2>1. IsFiniteSet({})
    BY FS_EmptySet
  <2> QED BY <2>1, BlankEntries DEF Own
<1>3. regime' \in [overlap : BOOLEAN, left : Nat]
  BY ChargeIsTyped DEF Restart, Fault
<1> QED BY <1>1, <1>2, <1>3, LocalTables DEF Restart, Tables

LEMMA OlderKeeps ==
  ASSUME NEW p \in Peers, NEW e \in EntriesOf(p), ~e.exists => e = NoEntry
  PROVE  /\ Older(e) \in EntriesOf(p) /\ (~Older(e).exists => Older(e) = NoEntry)
         /\ \A k \in {"exists", "session", "starting", "completer"} : Older(e)[k] = e[k]
         /\ \A k \in {"role", "i", "r"} : Older(e).hs[k] = e.hs[k]
<1>1. CASE ~e.exists
  BY <1>1 DEF Older
<1>2. CASE e.exists
  <2> DEFINE h == IF e.hs = NoHs THEN e.hs.age ELSE AgeBy1(e.hs.age, RetryAfter)
             older == [e EXCEPT !.age = AgeBy1(@, ReapAfter), !.hs.age = h]
  <2>1. AgeBy1(e.age, ReapAfter) \in 0..ReapAfter
    BY DEF EntriesOf, AgeBy1, ReapAfter
  <2>2. /\ [e.hs EXCEPT !.age = h] \in HandshakesOf(p)
        /\ \A k \in {"role", "i", "r"} : [e.hs EXCEPT !.age = h][k] = e.hs[k]
    <3>1. CASE e.hs = NoHs
      BY <3>1 DEF NoHs, HandshakesOf
    <3>2. CASE e.hs # NoHs
      BY <3>2 DEF EntriesOf, HandshakesOf, AgeBy1, RetryAfter
    <3> QED BY <3>1, <3>2
  <2>3. older = [[e EXCEPT !.age = AgeBy1(@, ReapAfter)] EXCEPT !.hs = [e.hs EXCEPT !.age = h]]
    BY DEF EntriesOf
  <2>4. Older(e) = older
    BY <1>2 DEF Older
  <2> HIDE DEF h, older
  <2> QED BY <1>2, <2>1, <2>2, <2>3, <2>4, ZenonT(60) DEF EntriesOf
<1> QED BY <1>1, <1>2

LEMMA TickTables ==
  ASSUME Tables, Tick
  PROVE  Tables'
<1> DEFINE aged(p) == {[w EXCEPT !.left = @ - 1] : w \in waiters[p]}
<1>1. /\ entry' = [p \in Peers |-> Older(entry[p])]
      /\ waiters' = [p \in Peers |-> aged(p)]
      /\ UNCHANGED <<ops, net>>
      /\ \A p \in Peers : \A w \in waiters[p] : w.left > 0
  BY DEF Tick
<1>2. ASSUME NEW p \in Peers
      PROVE  Own(p, Older(entry[p]), ops[p], aged(p))
  <2>1. Own(p, entry[p], ops[p], waiters[p])
    BY DEF Tables
  <2>2. /\ Older(entry[p]) \in EntriesOf(p)
        /\ ~Older(entry[p]).exists => Older(entry[p]) = NoEntry
        /\ Older(entry[p]).exists = entry[p].exists
        /\ Older(entry[p]).session = entry[p].session
        /\ Older(entry[p]).starting = entry[p].starting
        /\ Older(entry[p]).completer = entry[p].completer
    BY <2>1, OlderKeeps DEF Own
  <2>3. ASSUME NEW w \in waiters[p]
        PROVE  [w EXCEPT !.left = @ - 1] \in Waiters /\ [w EXCEPT !.left = @ - 1].live = w.live
    BY <1>1, <2>1 DEF Own, Waiters, Timeout
  <2>4. aged(p) \subseteq Waiters /\ \A w \in aged(p) : w.live => entry[p].completer /\ ~hasSession(entry[p])
    BY <2>1, <2>3 DEF Own
  <2> HIDE DEF aged
  <2> QED BY <2>1, <2>2, <2>4 DEF Own, hasSession
<1>3. regime' \in [overlap : BOOLEAN, left : Nat]
  <2>1. CASE Fault
    BY <2>1, ChargeIsTyped DEF Fault
  <2> QED BY <2>1 DEF Tick, Tables
<1>4. wait' \in [Peers -> 0..AnnounceEvery]
  BY DEF Tick, Tables, AnnounceEvery
<1> HIDE DEF aged
<1> QED BY <1>1, <1>2, <1>3, <1>4 DEF Tables

LEMMA InitTables == Init => Tables
<1> SUFFICES ASSUME Init PROVE Tables
  OBVIOUS
<1>1. IsFiniteSet({})
  BY FS_EmptySet
<1>2. \A p \in Peers : Own(p, NoEntry, {}, {})
  BY <1>1, BlankEntries DEF Own
<1> QED BY <1>1, <1>2, ParamAssumption DEF Init, Tables, AnnounceEvery

(* The steps of the two peers, one by one. *)
LEMMA StepTables == Tables /\ [Next]_vars => Tables'
<1> SUFFICES ASSUME Tables, [Next]_vars PROVE Tables'
  OBVIOUS
<1>1. CASE UNCHANGED vars
  BY <1>1 DEF vars, Tables
<1>2. ASSUME NEW p \in Peers, Progress(p) PROVE Tables'
  <2>1. CASE WaiterTimeout(p)
    <3>1. PICK w \in waiters[p] : Reset(p, waiters[p] \ {w}, ops[p]) /\ UNCHANGED <<net, wait, regime>>
      BY <2>1 DEF WaiterTimeout
    <3> QED BY <3>1, ResetTables DEF Tables
  <2> QED BY <1>2, <2>1, AnnounceTables, StartEndTables, AirsTables, SendEndTables, Message1BeginTables,
             Message1EndTables, FinalBeginTables, FinalEndTables
          DEF Progress, Message2Begin, Message2End, Message3Begin, Message3End
<1>3. ASSUME NEW p \in Peers, ReapElsewhere(p) \/ SendFails(p) \/ Restart(p) \/ ResetAll(p)
      PROVE  Tables'
  <2>1. CASE ReapElsewhere(p)
    <3>1. regime' \in [overlap : BOOLEAN, left : Nat]
      BY <2>1, ChargeIsTyped DEF ReapElsewhere, Sweeps
    <3> QED BY <2>1, <3>1, ResetTables DEF ReapElsewhere
  <2>2. CASE SendFails(p)
    <3>1. PICK o \in ops[p] : Fault /\ Reset(p, waiters[p], ops[p] \ {o}) /\ UNCHANGED <<net, wait>>
      BY <2>2 DEF SendFails
    <3> QED BY <3>1, ChargeIsTyped, ResetTables DEF Fault
  <2>3. CASE ResetAll(p)
    BY <2>3, ChargeIsTyped, ResetTables DEF ResetAll, Fault
  <2> QED BY <1>3, <2>1, <2>2, <2>3, RestartTables
<1>4. CASE Lose
  <2>1. net' \subseteq net /\ UNCHANGED <<entry, ops, waiters, wait>>
    BY <1>4 DEF Lose
  <2>2. regime' \in [overlap : BOOLEAN, left : Nat]
    BY <1>4, ChargeIsTyped DEF Lose, Fault
  <2> QED BY <2>1, <2>2, FewerPackets DEF Tables
<1> QED BY <1>1, <1>2, <1>3, <1>4, TickTables DEF Next

LEMMA TablesHold == Spec => []Tables
  BY InitTables, StepTables, PTL DEF Spec

(* The state of pairing is well formed: a session, a handshake, a handler and a packet each *)
(* carry an initiator key of one peer and a responder key of the other.                     *)
THEOREM PairingTypeCorrect == Spec => []TypeOK
<1>1. Tables => TypeOK
  <2> SUFFICES ASSUME Tables PROVE TypeOK
    OBVIOUS
  <2>1. ASSUME NEW p \in Peers
        PROVE  /\ entry[p].session \in SessionType \cup {NoSession}
               /\ entry[p].hs.role \in {"none", "initiator", "responder"}
               /\ entry[p].age \in 0..ReapAfter /\ entry[p].hs.age \in 0..RetryAfter
               /\ {entry[p].exists, entry[p].starting, entry[p].completer} \subseteq BOOLEAN
               /\ \A o \in ops[p] : /\ o.kind \in {"start", "send", "sent", "m1", "m2", "m3"}
                                    /\ o.attached \in BOOLEAN
               /\ waiters[p] \subseteq [left : 0..Timeout, live : BOOLEAN]
    <3>1. Own(p, entry[p], ops[p], waiters[p])
      BY DEF Tables
    <3>2. entry[p] \in EntriesOf(p) /\ entry[p].hs \in HandshakesOf(p)
      BY <3>1 DEF Own, EntriesOf
    <3>3. entry[p].hs.role \in {"none", "initiator", "responder"} /\ entry[p].hs.age \in 0..RetryAfter
      BY <3>2 DEF HandshakesOf, NoHs, RetryAfter
    <3>4. \A o \in ops[p] : o.kind \in {"start", "send", "sent", "m1", "m2", "m3"} /\ o.attached \in BOOLEAN
      BY <3>1 DEF Own, OpsOf
    <3> QED BY <3>1, <3>2, <3>3, <3>4 DEF Own, EntriesOf, Waiters
  <2>2. \A m \in net : m.to \in Peers /\ m.kind \in {"m1", "m2", "m3"}
    BY TwoPeers DEF Tables, MessagesTo
  <2> QED BY <2>1, <2>2 DEF TypeOK, Tables
<1> QED BY <1>1, TablesHold, PTL

(* One entry never has two initiations under way, and the entry's reservation holds for as *)
(* long as the attempt it protects is being built, however handlers overlap.               *)
THEOREM OneInitiation == Spec => []OneStart
<1>1. Tables => OneStart
  BY DEF Tables, Own, OneStart
<1> QED BY <1>1, TablesHold, PTL

(* A caller that still waits on the entry's own completer has a completer to release it: no *)
(* reset, replacement, tie-break or success of an attempt leaves it behind.                 *)
THEOREM NoCallerIsLeftBehind == Spec => []WaitersAreServed
<1>1. Tables => WaitersAreServed
  BY DEF Tables, Own, WaitersAreServed
<1> QED BY <1>1, TablesHold, PTL

-----------------------------------------------------------------------------
(* Handlers that take turns.  A peer is poised for a session that it has, or that it will *)
(* have without another handler of its own starting an attempt: its handler is completing  *)
(* it, or its handshake waits for a message 2 or 3 that is on the way or being made.  A    *)
(* peer that is answering a message 1 is poised for nothing: the answer drops what it has. *)

Offered(p, i, r) ==
  \/ \E m \in net : m.to = p /\ m.kind = "m2" /\ m.i = i /\ m.r = r
  \/ \E o \in ops[Other(p)] : o.kind = "m1" /\ o.i = i /\ o.r = r
Confirmed(p, i, r) ==
  \/ \E m \in net : m.to = p /\ m.kind = "m3" /\ m.i = i /\ m.r = r
  \/ \E o \in ops[Other(p)] : o.kind = "m2" /\ o.i = i /\ o.r = r

Completes(p) == \E o \in ops[p] : o.kind \in {"m2", "m3"}
Poised(p, i, r) ==
  /\ \A o \in ops[p] : o.kind # "m1"
  /\ \/ entry[p].session = <<i, r>>
     \/ \E o \in ops[p] : o.kind \in {"m2", "m3"} /\ o.attached /\ o.i = i /\ o.r = r
     \/ ~Completes(p) /\ entry[p].hs.role = "initiator" /\ entry[p].hs.i = i /\ Offered(p, i, r)
     \/ ~Completes(p) /\ entry[p].hs.role = "responder" /\ entry[p].hs.i = i /\ entry[p].hs.r = r
          /\ Confirmed(p, i, r)

(* The peers are never poised for different sessions.  It rests on a handler that makes a  *)
(* key being the only one that has it: what answers the key comes after what it replaces.  *)
Turns == \A p \in Peers : \A a, b \in ops[p] : a = b
DetachedIsGone == \A p \in Peers : \A o \in ops[p] : ~o.attached => entry[p] = NoEntry
Unspent ==
  \A p \in Peers : \A o \in ops[p] : \A x \in net \cup ops[Other(p)] :
    /\ o.kind = "start" => x.i # o.i
    /\ o.kind = "m1" => x.r # o.r
Agree ==
  \A p \in Peers : \A i, r, j, s :
    Poised(p, i, r) /\ Poised(Other(p), j, s) => i = j /\ r = s
InTurn == Turns /\ DetachedIsGone /\ Unspent /\ Agree

LEMMA OtherIsKept ==
  ASSUME NEW q \in Peers, entry'[q] = entry[q], ops'[q] = ops[q],
         \A i, r : Offered(q, i, r)' => Offered(q, i, r),
         \A i, r : Confirmed(q, i, r)' => Confirmed(q, i, r)
  PROVE  \A i, r : Poised(q, i, r)' => Poised(q, i, r)
<1> SUFFICES ASSUME NEW i, NEW r, Poised(q, i, r)' PROVE Poised(q, i, r)
  OBVIOUS
<1>1. Offered(q, i, r)' => Offered(q, i, r)
  OBVIOUS
<1>2. Confirmed(q, i, r)' => Confirmed(q, i, r)
  OBVIOUS
<1>3. Completes(q)' <=> Completes(q)
  BY DEF Completes
<1> QED BY <1>1, <1>2, <1>3 DEF Poised

LEMMA AgreeBySides ==
  ASSUME NEW p \in Peers,
         \A i, r, j, s : Poised(p, i, r)' /\ Poised(Other(p), j, s)' => i = j /\ r = s
  PROVE  Agree'
<1>1. \A x \in Peers : x = p \/ (x = Other(p) /\ Other(x) = p)
  BY TwoPeers DEF Peers, Other
<1> QED BY <1>1 DEF Agree

LEMMA BlankIsNotPoised ==
  ASSUME NEW p \in Peers, entry'[p].session = NoSession, entry'[p].hs = NoHs,
         \A o \in ops'[p] : ~o.attached \/ o.kind \notin {"m2", "m3"}
  PROVE  \A i, r : ~Poised(p, i, r)'
<1>1. \A i, r : <<i, r>> # NoSession
  BY DEF NoSession
<1> QED BY <1>1 DEF Poised, NoHs

LEMMA KeysAreKeys ==
  ASSUME NEW p \in Peers
  PROVE  NoKey \notin KeyOf(p)
  BY DEF KeyOf, NoKey

(* The handlers of a peer carry the keys of handlers it had; nothing new is on the way. *)
SameKeys(os, before) ==
  \A o \in os : \E b \in before : o.kind = b.kind /\ o.i = b.i /\ o.r = b.r

LEMMA ResetInTurn ==
  ASSUME Tables, InTurn, NEW p \in Peers, NEW ws, NEW os \in SUBSET ops[p], net' = net,
         Local(p, NoEntry, Detached(os), ws)
  PROVE  InTurn'
<1>1. /\ entry'[p] = NoEntry /\ ops'[p] = Detached(os)
      /\ entry'[Other(p)] = entry[Other(p)] /\ ops'[Other(p)] = ops[Other(p)]
  BY LocalUpdate
<1>2. os \subseteq OpsOf(p) /\ IsFiniteSet(os)
  BY FS_Subset DEF Tables, Own
<1>3. SameKeys(Detached(os), os) /\ \A o \in Detached(os) : ~o.attached
  BY <1>2, DetachedIsTyped DEF SameKeys
<1>4. \A a, b \in Detached(os) : a = b
  <2> SUFFICES ASSUME NEW a \in Detached(os), NEW b \in Detached(os) PROVE a = b
    OBVIOUS
  <2>1. PICK c \in os : a = [c EXCEPT !.attached = FALSE]
    BY DEF Detached
  <2>2. PICK d \in os : b = [d EXCEPT !.attached = FALSE]
    BY DEF Detached
  <2>3. c = d
    BY DEF InTurn, Turns
  <2> QED BY <2>1, <2>2, <2>3
<1>5. \A x \in Peers : x = p \/ (x = Other(p) /\ Other(x) = p)
  BY TwoPeers DEF Peers, Other
<1>6. Turns' /\ DetachedIsGone'
  BY <1>1, <1>4, <1>5 DEF InTurn, Turns, DetachedIsGone
<1>7. Unspent'
  <2>1. SameKeys(ops'[p], ops[p])
    BY <1>1, <1>3 DEF SameKeys
  <2> QED BY <1>1, <1>5, <2>1 DEF InTurn, Unspent, SameKeys
<1>8. \A i, r : ~Poised(p, i, r)'
  BY <1>1, <1>3, BlankIsNotPoised, BlankEntries
<1>9. Agree'
  BY <1>8, AgreeBySides
<1> QED BY <1>6, <1>7, <1>9 DEF InTurn

LEMMA AnnounceInTurn ==
  ASSUME Tables, InTurn, ~regime.overlap, NEW p \in Peers, Announce(p)
  PROVE  InTurn'
<1> DEFINE q == Other(p)
           reaped == Reapable(entry[p])
           e == IF reaped THEN FreshEntry ELSE PutIfAbsent(entry[p])
           ws == IF reaped THEN Released(waiters[p]) ELSE waiters[p]
           o == Op("start", FreshKey(p), NoKey)
           started == [e EXCEPT !.hs = NoHs, !.starting = TRUE, !.completer = @ /\ ~(e.hs # NoHs)]
<1>1. ops[p] = {} /\ net' = net /\ entry[p].session = NoSession
  BY DEF Announce, MayBegin, hasSession
<1>2. /\ e.session = NoSession
      /\ e.hs = NoHs \/ (e.hs = entry[p].hs)
      /\ e \in EntriesOf(p)
  <2>1. Own(p, entry[p], ops[p], waiters[p])
    BY DEF Tables
  <2> QED BY <1>1, <2>1, BlankEntries DEF PutIfAbsent, Own
<1>3. \/ Local(p, e, {}, waitForSession(e, ws))
      \/ Local(p, started, {o}, IF e.hs # NoHs THEN Released(ws) ELSE ws)
  BY <1>1 DEF Announce, Local, Detached
<1>4. PICK e2, os, ws2 : /\ Local(p, e2, os, ws2)
                         /\ os \in {{}, {o}}
                         /\ e2.session = NoSession
                         /\ e2.hs = NoHs \/ e2.hs = entry[p].hs
  <2>1. started.session = NoSession /\ started.hs = NoHs
    <3> HIDE DEF e
    <3> QED BY <1>2 DEF EntriesOf
  <2> HIDE DEF e, ws, o, started
  <2> QED BY <1>2, <1>3, <2>1
<1>5. /\ entry'[p] = e2 /\ ops'[p] = os
      /\ entry'[q] = entry[q] /\ ops'[q] = ops[q]
  BY <1>4, LocalUpdate
<1>6. /\ o.kind = "start" /\ o.i = FreshKey(p) /\ o.r = NoKey /\ o.attached
  BY DEF Op
<1>7. \A x \in Peers : x = p \/ (x = q /\ Other(x) = p)
  BY TwoPeers DEF Peers, Other
<1>8. Turns' /\ DetachedIsGone'
  BY <1>4, <1>5, <1>6, <1>7 DEF InTurn, Turns, DetachedIsGone
<1>9. \A x \in net \cup ops[q] : x.i # FreshKey(p) /\ x.i \in KeysInUse
  <2>1. FreshKey(p) \notin KeysInUse
    BY FreshKeyIsFresh
  <2> QED BY <2>1 DEF KeysInUse, Other
<1>10. Unspent'
  <2>1. \A y \in ops[q] : y.kind = "m1" => y.r # NoKey
    <3>1. \A y \in ops[q] : y \in OpsOf(q)
      BY TwoPeers DEF Tables, Own
    <3> QED BY <3>1, KeysAreKeys, TwoPeers DEF OpsOf
  <2>2. \A a \in ops'[p] : \A x \in net \cup ops[q] : a.kind = "start" /\ x.i # a.i
    BY <1>4, <1>5, <1>6, <1>9
  <2>3. \A y \in ops[q] : \A x \in net \cup ops'[p] :
           (y.kind = "start" => x.i # y.i) /\ (y.kind = "m1" => x.r # y.r)
    <3>1. \A y \in ops[q] : \A x \in net :
             (y.kind = "start" => x.i # y.i) /\ (y.kind = "m1" => x.r # y.r)
      BY TwoPeers DEF InTurn, Unspent
    <3> QED BY <1>4, <1>5, <1>6, <1>9, <2>1, <3>1
  <2> HIDE DEF o
  <2> QED BY <1>1, <1>5, <1>7, <2>2, <2>3 DEF Unspent
<1>11. \A i, r : Poised(p, i, r)' => Poised(p, i, r)
  <2> SUFFICES ASSUME NEW i, NEW r, Poised(p, i, r)' PROVE Poised(p, i, r)
    OBVIOUS
  <2>1. <<i, r>> # NoSession
    BY DEF NoSession
  <2>2. \A y \in ops'[p] : y.kind = "start"
    BY <1>4, <1>5, <1>6
  <2>3. (Offered(p, i, r)' => Offered(p, i, r)) /\ (Confirmed(p, i, r)' => Confirmed(p, i, r))
    BY <1>1, <1>5 DEF Offered, Confirmed
  <2>4. ~Completes(p)
    BY <1>1 DEF Completes
  <2>5. /\ entry'[p].hs = entry[p].hs /\ entry[p].hs.role # "none"
        /\ \/ entry[p].hs.role = "initiator" /\ entry[p].hs.i = i /\ Offered(p, i, r)'
           \/ /\ entry[p].hs.role = "responder" /\ entry[p].hs.i = i /\ entry[p].hs.r = r
              /\ Confirmed(p, i, r)'
    <3>1. NoHs.role = "none"
      BY DEF NoHs
    <3>2. /\ entry'[p].session # <<i, r>>
          /\ entry'[p].hs = NoHs \/ entry'[p].hs = entry[p].hs
      BY <1>4, <1>5, <2>1
    <3> HIDE DEF q, o
    <3> QED BY <2>2, <3>1, <3>2 DEF Poised
  <2>6. \A y \in ops[p] : y.kind # "m1"
    BY <1>1
  <2> QED BY <2>3, <2>4, <2>5, <2>6 DEF Poised
<1>12. \A i, r : Poised(q, i, r)' => Poised(q, i, r)
  <2>1. \A y \in ops'[p] : y.kind = "start"
    BY <1>4, <1>5, <1>6
  <2>2. \A i, r : (Offered(q, i, r)' => Offered(q, i, r)) /\ (Confirmed(q, i, r)' => Confirmed(q, i, r))
    BY <1>1, <2>1, TwoPeers DEF Offered, Confirmed
  <2> QED BY <1>5, <2>2, OtherIsKept, TwoPeers
<1>13. Agree'
  BY <1>11, <1>12, AgreeBySides DEF InTurn, Agree
<1> QED BY <1>8, <1>10, <1>13 DEF InTurn

(* Unspent, one side at a time. *)
Unmade(os, before) ==
  \A o \in os : \A x \in before :
    (o.kind = "start" => x.i # o.i) /\ (o.kind = "m1" => x.r # o.r)

LEMMA UnspentBySides ==
  ASSUME NEW p \in Peers,
         Unmade(ops'[p], net' \cup ops'[Other(p)]), Unmade(ops'[Other(p)], net' \cup ops'[p])
  PROVE  Unspent'
<1>1. \A x \in Peers : x = p \/ (x = Other(p) /\ Other(x) = p)
  BY TwoPeers DEF Peers, Other
<1> QED BY <1>1 DEF Unspent, Unmade

LEMMA UnspentSides ==
  ASSUME Unspent, NEW p \in Peers
  PROVE  /\ Unmade(ops[p], net \cup ops[Other(p)]) /\ Unmade(ops[Other(p)], net \cup ops[p])
  BY TwoPeers DEF Unspent, Unmade

(* What carries the keys of something that was there before carries no unspent key. *)
LEMMA KnownKeys ==
  ASSUME NEW os, NEW before, NEW after, Unmade(os, before),
         \A x \in after : \E b \in before : x.i = b.i /\ x.r = b.r
  PROVE  Unmade(os, after)
  BY DEF Unmade

LEMMA TurnsBySides ==
  ASSUME InTurn, NEW p \in Peers, entry'[Other(p)] = entry[Other(p)], ops'[Other(p)] = ops[Other(p)],
         \A a, b \in ops'[p] : a = b,
         \A o \in ops'[p] : ~o.attached => entry'[p] = NoEntry
  PROVE  Turns' /\ DetachedIsGone'
<1>1. \A x \in Peers : x = p \/ x = Other(p)
  BY DEF Peers, Other
<1> QED BY <1>1, TwoPeers DEF InTurn, Turns, DetachedIsGone

(* What loses packets, or ages the entries, makes nobody poised. *)
LEMMA ShrinkInTurn ==
  ASSUME InTurn, net' \subseteq net, ops' = ops, DetachedIsGone',
         \A p \in Peers : /\ entry'[p].session = entry[p].session
                          /\ \A k \in {"role", "i", "r"} : entry'[p].hs[k] = entry[p].hs[k]
  PROVE  InTurn'
<1>1. Turns' /\ Unspent'
  BY DEF InTurn, Turns, Unspent
<1>2. ASSUME NEW p \in Peers, NEW i, NEW r, Poised(p, i, r)' PROVE Poised(p, i, r)
  <2>1. (Offered(p, i, r)' => Offered(p, i, r)) /\ (Confirmed(p, i, r)' => Confirmed(p, i, r))
    BY DEF Offered, Confirmed
  <2>2. Completes(p)' <=> Completes(p)
    BY DEF Completes
  <2>3. /\ entry'[p].session = entry[p].session /\ entry'[p].hs.role = entry[p].hs.role
        /\ entry'[p].hs.i = entry[p].hs.i /\ entry'[p].hs.r = entry[p].hs.r
    OBVIOUS
  <2> QED BY <1>2, <2>1, <2>2, <2>3 DEF Poised
<1>3. Agree'
  BY <1>2, TwoPeers DEF InTurn, Agree
<1> QED BY <1>1, <1>3 DEF InTurn

LEMMA StartEndInTurn ==
  ASSUME Tables, InTurn, NEW p \in Peers, StartEnd(p)
  PROVE  InTurn'
<1> DEFINE q == Other(p)
           e == entry[p]
<1>1. PICK o \in ops[p] :
        /\ o.kind = "start"
        /\ ops' = [ops EXCEPT ![p] = (@ \ {o}) \cup {[o EXCEPT !.kind = "send"]}]
        /\ IF o.attached
           THEN /\ entry' = [entry EXCEPT ![p] =
                     [@ EXCEPT !.session = NoSession, !.starting = FALSE,
                        !.hs = [role |-> "initiator", i |-> o.i, r |-> NoKey, age |-> 0],
                        !.completer = TRUE]]
                /\ waiters' = [waiters EXCEPT ![p] = Orphaned(@)]
           ELSE UNCHANGED <<entry, waiters>>
        /\ net' = net
  BY DEF StartEnd
<1> DEFINE sending == [o EXCEPT !.kind = "send"]
           h == [role |-> "initiator", i |-> o.i, r |-> NoKey, age |-> 0]
           built == [e EXCEPT !.session = NoSession, !.starting = FALSE, !.hs = h, !.completer = TRUE]
<1>2. ops[p] = {o}
  BY DEF InTurn, Turns
<1>3. /\ o \in OpsOf(p) /\ e \in EntriesOf(p)
      /\ sending.kind = "send" /\ sending.attached = o.attached
      /\ sending.i = o.i /\ sending.r = o.r
  BY DEF Tables, Own, OpsOf
<1>4. \/ o.attached /\ Local(p, built, {sending}, Orphaned(waiters[p]))
      \/ ~o.attached /\ Local(p, NoEntry, {sending}, waiters[p])
  <2>1. (ops[p] \ {o}) \cup {sending} = {sending}
    BY <1>2
  <2>2. ~o.attached => e = NoEntry
    BY DEF InTurn, DetachedIsGone
  <2> QED BY <1>1, <2>1, <2>2 DEF Local, Tables
<1>5. /\ ops'[p] = {sending} /\ entry'[q] = entry[q] /\ ops'[q] = ops[q]
      /\ entry'[p] = IF o.attached THEN built ELSE NoEntry
  BY <1>4, LocalUpdate
<1>6. Turns' /\ DetachedIsGone'
  BY <1>3, <1>5, TurnsBySides
<1>7. Unmade(ops[p], net \cup ops[q]) /\ Unmade(ops[q], net \cup ops[p])
  BY UnspentSides DEF InTurn
<1>8. Unspent'
  <2>1. Unmade(ops'[p], net' \cup ops'[q])
    BY <1>3, <1>5 DEF Unmade
  <2>2. Unmade(ops'[q], net' \cup ops'[p])
    <3>1. \A x \in net' \cup ops'[p] : \E b \in net \cup ops[p] : x.i = b.i /\ x.r = b.r
      <4> HIDE DEF sending
      <4> QED BY <1>1, <1>3, <1>5
    <3> QED BY <1>5, <1>7, <3>1, KnownKeys
  <2> QED BY <2>1, <2>2, UnspentBySides
<1>9. \A i, r : ~Poised(p, i, r)'
  <2>1. CASE o.attached
    <3>1. entry'[p].session = NoSession /\ entry'[p].hs = h
      BY <1>3, <1>5, <2>1 DEF EntriesOf
    <3>2. \A i, r : <<i, r>> # NoSession /\ ~Offered(p, o.i, r)'
      <4>1. \A x \in net' \cup ops'[q] : x.i # o.i
        BY <1>1, <1>5, <1>7 DEF Unmade
      <4> QED BY <4>1 DEF Offered, NoSession
    <3> QED BY <1>3, <1>5, <3>1, <3>2 DEF Poised
  <2>2. CASE ~o.attached
    BY <1>3, <1>5, <2>2, BlankIsNotPoised, BlankEntries
  <2> QED BY <2>1, <2>2
<1>10. Agree'
  BY <1>9, AgreeBySides
<1> QED BY <1>6, <1>8, <1>10 DEF InTurn

LEMMA AirsInTurn ==
  ASSUME Tables, InTurn, NEW p \in Peers, Airs(p)
  PROVE  InTurn'
<1> DEFINE q == Other(p)
<1>1. PICK o \in ops[p] :
        /\ o.kind = "send"
        /\ net' = net \cup {Message(p, "m1", o.i, NoKey)}
        /\ ops' = [ops EXCEPT ![p] = (@ \ {o}) \cup {[o EXCEPT !.kind = "sent"]}]
        /\ UNCHANGED <<entry, waiters>>
  BY DEF Airs
<1> DEFINE m == Message(p, "m1", o.i, NoKey)
           aired == [o EXCEPT !.kind = "sent"]
<1>2. ops[p] = {o} /\ m.kind = "m1" /\ m.i = o.i /\ m.r = NoKey
  BY DEF InTurn, Turns, Message
<1>3. /\ Local(p, entry[p], {aired}, waiters[p])
      /\ aired.kind = "sent" /\ aired.i = o.i /\ aired.r = o.r /\ aired.attached = o.attached
  <2>1. (ops[p] \ {o}) \cup {aired} = {aired} /\ o \in OpsOf(p)
    BY <1>2 DEF Tables, Own
  <2> QED BY <1>1, <2>1 DEF Local, Tables, OpsOf
<1>4. /\ ops'[p] = {aired} /\ entry'[q] = entry[q] /\ ops'[q] = ops[q] /\ entry'[p] = entry[p]
  BY <1>3, LocalUpdate
<1> HIDE DEF m, aired
<1>5. Turns' /\ DetachedIsGone'
  BY <1>2, <1>3, <1>4, TurnsBySides DEF InTurn, DetachedIsGone
<1>6. Unspent'
  <2>1. Unmade(ops[q], net \cup ops[p])
    BY UnspentSides DEF InTurn
  <2>2. \A y \in ops[q] : y.kind = "m1" => y.r # NoKey
    <3>1. \A y \in ops[q] : y \in OpsOf(q)
      BY TwoPeers DEF Tables, Own
    <3> QED BY <3>1, KeysAreKeys, TwoPeers DEF OpsOf
  <2>3. Unmade(ops'[q], net' \cup ops'[p])
    BY <1>1, <1>2, <1>3, <1>4, <2>1, <2>2 DEF Unmade, m
  <2> QED BY <1>3, <1>4, <2>3, UnspentBySides DEF Unmade
<1>7. \A k \in net' : k.kind # "m1" => k \in net
  BY <1>1, <1>2 DEF m
<1>8. ASSUME NEW i, NEW r, Poised(p, i, r)' PROVE Poised(p, i, r)
  <2>1. (Offered(p, i, r)' => Offered(p, i, r)) /\ (Confirmed(p, i, r)' => Confirmed(p, i, r))
    BY <1>4, <1>7 DEF Offered, Confirmed
  <2>2. ~Completes(p) /\ ~Completes(p)' /\ \A y \in ops[p] : y.kind # "m1"
    BY <1>1, <1>2, <1>3, <1>4 DEF Completes
  <2> QED BY <1>4, <1>8, <2>1, <2>2 DEF Poised, Completes
<1>9. \A i, r : Poised(q, i, r)' => Poised(q, i, r)
  <2>1. \A i, r : (Offered(q, i, r)' => Offered(q, i, r)) /\ (Confirmed(q, i, r)' => Confirmed(q, i, r))
    BY <1>3, <1>4, <1>7, TwoPeers DEF Offered, Confirmed
  <2> QED BY <1>4, <2>1, OtherIsKept, TwoPeers
<1>10. Agree'
  BY <1>8, <1>9, AgreeBySides DEF InTurn, Agree
<1> QED BY <1>5, <1>6, <1>10 DEF InTurn

LEMMA SendEndInTurn ==
  ASSUME Tables, InTurn, NEW p \in Peers, SendEnd(p)
  PROVE  InTurn'
<1> DEFINE q == Other(p)
<1>1. PICK o \in ops[p] :
        /\ o.kind = "sent"
        /\ ops' = [ops EXCEPT ![p] = @ \ {o}]
        /\ waiters' = [waiters EXCEPT ![p] = waitForSession(entry[p], @)]
        /\ UNCHANGED <<entry, net>>
  BY DEF SendEnd
<1>2. ops[p] = {o}
  BY DEF InTurn, Turns
<1>3. Local(p, entry[p], {}, waitForSession(entry[p], waiters[p]))
  BY <1>1, <1>2 DEF Local, Tables
<1>4. /\ ops'[p] = {} /\ entry'[q] = entry[q] /\ ops'[q] = ops[q] /\ entry'[p] = entry[p]
  BY <1>3, LocalUpdate
<1>5. Turns' /\ DetachedIsGone'
  BY <1>4, TurnsBySides
<1>6. Unspent'
  <2>1. Unmade(ops[q], net \cup ops[p])
    BY UnspentSides DEF InTurn
  <2> QED BY <1>1, <1>4, <2>1, UnspentBySides DEF Unmade
<1>7. ASSUME NEW i, NEW r, Poised(p, i, r)' PROVE Poised(p, i, r)
  <2>1. (Offered(p, i, r)' => Offered(p, i, r)) /\ (Confirmed(p, i, r)' => Confirmed(p, i, r))
    BY <1>1, <1>4 DEF Offered, Confirmed
  <2>2. ~Completes(p) /\ ~Completes(p)' /\ \A y \in ops[p] : y.kind # "m1"
    BY <1>1, <1>2, <1>4 DEF Completes
  <2> QED BY <1>4, <1>7, <2>1, <2>2 DEF Poised
<1>8. \A i, r : Poised(q, i, r)' => Poised(q, i, r)
  <2>1. \A i, r : (Offered(q, i, r)' => Offered(q, i, r)) /\ (Confirmed(q, i, r)' => Confirmed(q, i, r))
    BY <1>1, <1>4, TwoPeers DEF Offered, Confirmed
  <2> QED BY <1>4, <2>1, OtherIsKept, TwoPeers
<1>9. Agree'
  BY <1>7, <1>8, AgreeBySides DEF InTurn, Agree
<1> QED BY <1>5, <1>6, <1>9 DEF InTurn

LEMMA Message1BeginInTurn ==
  ASSUME Tables, InTurn, ~regime.overlap, NEW p \in Peers, Message1Begin(p)
  PROVE  InTurn'
<1> DEFINE q == Other(p)
           e == PutIfAbsent(entry[p])
           yields == YieldsToPeer(p, e)
           dropped == [e EXCEPT !.completer = @ /\ ~yields]
           released == IF yields THEN Released(waiters[p]) ELSE waiters[p]
<1>1. PICK m \in net :
        /\ ops[p] = {}
        /\ net' = net \ {m}
        /\ \/ YieldsToOwn(p, e) /\ UNCHANGED <<entry, waiters, ops>>
           \/ Local(p, dropped, ops[p] \cup {Op("m1", m.i, FreshKey(p))}, released)
  BY DEF Message1Begin, Local, Receive, MayBegin
<1>2. CASE UNCHANGED <<entry, waiters, ops>>
  <2>1. DetachedIsGone'
    BY <1>2 DEF InTurn, DetachedIsGone
  <2> QED BY <1>1, <1>2, <2>1, ShrinkInTurn
<1>3. CASE Local(p, dropped, ops[p] \cup {Op("m1", m.i, FreshKey(p))}, released)
  <2> DEFINE o == Op("m1", m.i, FreshKey(p))
  <2>1. o.kind = "m1" /\ o.i = m.i /\ o.r = FreshKey(p) /\ o.attached
    BY DEF Op
  <2>2. ops'[p] = {o} /\ entry'[q] = entry[q] /\ ops'[q] = ops[q]
    <3>1. ops[p] \cup {o} = {o}
      BY <1>1
    <3> QED BY <1>3, <3>1, LocalUpdate
  <2> HIDE DEF o
  <2>3. Turns' /\ DetachedIsGone'
    BY <2>1, <2>2, TurnsBySides
  <2>4. \A x \in net \cup ops[q] : x.r # FreshKey(p) /\ x.r \in KeysInUse
    <3>1. FreshKey(p) \notin KeysInUse
      BY FreshKeyIsFresh
    <3> QED BY <3>1 DEF KeysInUse, Other
  <2>5. Unmade(ops[q], net \cup ops[p])
    BY UnspentSides DEF InTurn
  <2>6. Unmade(ops'[p], net' \cup ops'[q])
    BY <1>1, <2>1, <2>2, <2>4 DEF Unmade
  <2>7. Unmade(ops'[q], net' \cup ops'[p])
    <3>1. ASSUME NEW y \in ops[q], NEW x \in net' \cup {o}
          PROVE  (y.kind = "start" => x.i # y.i) /\ (y.kind = "m1" => x.r # y.r)
      <4>1. CASE x \in net
        BY <2>5, <4>1 DEF Unmade
      <4>2. CASE x = o
        BY <2>1, <2>4, <2>5, <4>2 DEF Unmade
      <4> QED BY <1>1, <3>1, <4>1, <4>2
    <3> QED BY <2>2, <3>1 DEF Unmade
  <2>8. Unspent'
    BY <2>6, <2>7, UnspentBySides
  <2>9. \A i, r : ~Poised(p, i, r)'
    BY <2>1, <2>2 DEF Poised
  <2>10. Agree'
    BY <2>9, AgreeBySides
  <2> QED BY <2>3, <2>8, <2>10 DEF InTurn
<1> QED BY <1>1, <1>2, <1>3

LEMMA Message1EndInTurn ==
  ASSUME Tables, InTurn, NEW p \in Peers, Message1End(p)
  PROVE  InTurn'
<1> DEFINE q == Other(p)
           e == entry[p]
<1>1. PICK o \in ops[p] :
        /\ o.kind = "m1"
        /\ net' = net \cup {Message(p, "m2", o.i, o.r)}
        /\ IF o.attached
           THEN /\ entry' = [entry EXCEPT ![p] =
                     [@ EXCEPT !.session = NoSession, !.completer = TRUE,
                        !.hs = [role |-> "responder", i |-> o.i, r |-> o.r, age |-> 0]]]
                /\ waiters' = [waiters EXCEPT ![p] = Orphaned(@)]
           ELSE UNCHANGED <<entry, waiters>>
        /\ ops' = [ops EXCEPT ![p] = @ \ {o}]
  BY DEF Message1End
<1> DEFINE h == [role |-> "responder", i |-> o.i, r |-> o.r, age |-> 0]
           answered == [e EXCEPT !.session = NoSession, !.completer = TRUE, !.hs = h]
           m == Message(p, "m2", o.i, o.r)
<1>2. /\ ops[p] = {o} /\ e \in EntriesOf(p)
      /\ m.kind = "m2" /\ m.i = o.i /\ m.r = o.r /\ m.to = q
  BY DEF InTurn, Turns, Message, Tables, Own
<1> HIDE DEF m
<1>3. \/ o.attached /\ Local(p, answered, {}, Orphaned(waiters[p]))
      \/ ~o.attached /\ Local(p, NoEntry, {}, waiters[p])
  <2>1. ops[p] \ {o} = {}
    BY <1>2
  <2>2. ~o.attached => e = NoEntry
    BY DEF InTurn, DetachedIsGone
  <2> QED BY <1>1, <2>1, <2>2 DEF Local, Tables
<1>4. /\ ops'[p] = {} /\ entry'[q] = entry[q] /\ ops'[q] = ops[q]
      /\ entry'[p] = IF o.attached THEN answered ELSE NoEntry
  BY <1>3, LocalUpdate
<1>5. Turns' /\ DetachedIsGone'
  BY <1>4, TurnsBySides
<1>6. Unmade(ops[p], net \cup ops[q]) /\ Unmade(ops[q], net \cup ops[p])
  BY UnspentSides DEF InTurn
<1>7. Unspent'
  <2>1. \A x \in net' \cup ops'[p] : \E b \in net \cup ops[p] : x.i = b.i /\ x.r = b.r
    BY <1>1, <1>2, <1>4 DEF m
  <2>2. Unmade(ops'[q], net' \cup ops'[p])
    BY <1>4, <1>6, <2>1, KnownKeys
  <2> QED BY <1>4, <2>2, UnspentBySides DEF Unmade
<1>8. \A i, r : ~Poised(p, i, r)'
  <2>1. CASE o.attached
    <3>1. entry'[p].session = NoSession /\ entry'[p].hs = h
      BY <1>2, <1>4, <2>1 DEF EntriesOf
    <3>2. \A i, r : <<i, r>> # NoSession /\ ~Confirmed(p, i, o.r)'
      <4>1. \A x \in net \cup ops'[q] : x.r # o.r
        BY <1>1, <1>4, <1>6 DEF Unmade
      <4>2. \A x \in net' : x.to = p => x \in net
        BY <1>1, <1>2, TwoPeers DEF m
      <4> QED BY <4>1, <4>2 DEF Confirmed, NoSession
    <3> QED BY <1>4, <3>1, <3>2 DEF Poised
  <2>2. CASE ~o.attached
    BY <1>4, <2>2, BlankIsNotPoised, BlankEntries
  <2> QED BY <2>1, <2>2
<1>9. Agree'
  BY <1>8, AgreeBySides
<1> QED BY <1>5, <1>7, <1>9 DEF InTurn

LEMMA FinalBeginInTurn ==
  ASSUME Tables, InTurn, ~regime.overlap, NEW p \in Peers,
         NEW kind, NEW role, <<kind, role>> \in {<<"m2", "initiator">>, <<"m3", "responder">>},
         FinalBegin(p, kind, role)
  PROVE  InTurn'
<1> DEFINE q == Other(p)
           e == PutIfAbsent(entry[p])
<1>1. PICK m \in net :
        /\ ops[p] = {}
        /\ m.to = p /\ m.kind = kind
        /\ net' = net \ {m}
        /\ \/ ops' = ops
           \/ /\ e.hs.role = role /\ ~hasSession(e) /\ Authentic(m, e.hs)
              /\ ops' = [ops EXCEPT ![p] = @ \cup {Completing(kind, m, e.hs)}]
        /\ entry' = [entry EXCEPT ![p] = e]
        /\ waiters' = waiters
  BY DEF FinalBegin, Tables, Receive, MayBegin
<1>2. e.session = entry[p].session /\ e.hs = entry[p].hs
  <2>1. ~entry[p].exists => entry[p] = NoEntry
    BY DEF Tables, Own
  <2> QED BY <2>1, BlankEntries DEF PutIfAbsent
<1>3. CASE ops' = ops
  <2>1. Local(p, e, ops[p], waiters[p])
    BY <1>1, <1>3 DEF Local, Tables
  <2> HIDE DEF e
  <2>2. entry'[p] = e /\ entry'[q] = entry[q] /\ ops'[p] = {} /\ ops'[q] = ops[q]
    BY <1>1, <2>1, LocalUpdate
  <2>3. DetachedIsGone'
    BY <2>2, TurnsBySides
  <2>4. \A x \in Peers : entry'[x].session = entry[x].session /\ entry'[x].hs = entry[x].hs
    BY <1>2, <2>2 DEF Peers, Other
  <2> QED BY <1>1, <1>3, <2>3, <2>4, ShrinkInTurn
<1>4. CASE /\ e.hs.role = role /\ ~hasSession(e) /\ Authentic(m, e.hs)
           /\ ops' = [ops EXCEPT ![p] = @ \cup {Completing(kind, m, e.hs)}]
  <2> DEFINE o == Completing(kind, m, e.hs)
  <2>1. /\ o.kind = kind /\ o.attached /\ o.i = entry[p].hs.i /\ o.i = m.i /\ o.r = m.r
        /\ kind = "m3" => o.r = entry[p].hs.r
    BY <1>1, <1>2, <1>4 DEF Completing, Op, Authentic
  <2>2. Local(p, e, {o}, waiters[p])
    BY <1>1, <1>4 DEF Local, Tables
  <2> HIDE DEF e, o
  <2>3. entry'[p] = e /\ entry'[q] = entry[q] /\ ops'[p] = {o} /\ ops'[q] = ops[q]
    BY <2>2, LocalUpdate
  <2>4. Turns' /\ DetachedIsGone'
    BY <2>1, <2>3, TurnsBySides
  <2>5. Unspent'
    <3>1. Unmade(ops[q], net \cup ops[p])
      BY UnspentSides DEF InTurn
    <3>2. \A x \in net' \cup ops'[p] : \E b \in net \cup ops[p] : x.i = b.i /\ x.r = b.r
      BY <1>1, <2>1, <2>3
    <3>3. Unmade(ops'[q], net' \cup ops'[p])
      BY <2>3, <3>1, <3>2, KnownKeys
    <3>4. Unmade(ops'[p], net' \cup ops'[q])
      BY <2>1, <2>3 DEF Unmade
    <3> QED BY <3>3, <3>4, UnspentBySides
  <2>6. Poised(p, o.i, o.r)
    <3>1. ~Completes(p) /\ \A y \in ops[p] : y.kind # "m1"
      BY <1>1 DEF Completes
    <3>2. CASE kind = "m2" /\ role = "initiator"
      <4>1. Offered(p, o.i, o.r)
        BY <1>1, <2>1, <3>2 DEF Offered
      <4> QED BY <1>2, <1>4, <2>1, <3>1, <3>2, <4>1 DEF Poised
    <3>3. CASE kind = "m3" /\ role = "responder"
      <4>1. Confirmed(p, o.i, o.r)
        BY <1>1, <2>1, <3>3 DEF Confirmed
      <4> QED BY <1>2, <1>4, <2>1, <3>1, <3>3, <4>1 DEF Poised
    <3> QED BY <3>2, <3>3
  <2>7. ASSUME NEW i, NEW r, Poised(p, i, r)' PROVE i = o.i /\ r = o.r
    <3>1. entry'[p].session # <<i, r>>
      <4>1. <<i, r>> # NoSession
        BY DEF NoSession
      <4>2. e.session = NoSession
        BY <1>4 DEF hasSession
      <4> QED BY <2>3, <4>1, <4>2
    <3>2. Completes(p)'
      BY <2>1, <2>3 DEF Completes
    <3> QED BY <2>3, <2>7, <3>1, <3>2 DEF Poised
  <2>8. ASSUME NEW j, NEW s, Poised(q, j, s)' PROVE Poised(q, j, s) \/ (j = o.i /\ s = o.r)
    <3>1. Offered(q, j, s)' => Offered(q, j, s)
      BY <1>1, <2>1, <2>3, TwoPeers DEF Offered
    <3>2. Confirmed(q, j, s)' => Confirmed(q, j, s) \/ (j = o.i /\ s = o.r)
      BY <1>1, <2>3, TwoPeers DEF Confirmed
    <3>3. Completes(q)' <=> Completes(q)
      BY <2>3 DEF Completes
    <3> QED BY <2>3, <2>8, <3>1, <3>2, <3>3 DEF Poised
  <2>9. Agree'
    BY <2>6, <2>7, <2>8, AgreeBySides DEF InTurn, Agree
  <2> QED BY <2>4, <2>5, <2>9 DEF InTurn
<1> QED BY <1>1, <1>3, <1>4

LEMMA FinalEndInTurn ==
  ASSUME Tables, InTurn, NEW p \in Peers, NEW kind \in {"m2", "m3"}, FinalEnd(p, kind)
  PROVE  InTurn'
<1> DEFINE q == Other(p)
           e == entry[p]
<1>1. PICK o \in ops[p] :
        /\ o.kind = kind
        /\ ops' = [ops EXCEPT ![p] = @ \ {o}]
        /\ net' = IF kind = "m2" THEN net \cup {Message(p, "m3", o.i, o.r)} ELSE net
        /\ IF o.attached
           THEN /\ entry' = [entry EXCEPT ![p] =
                     [@ EXCEPT !.session = <<o.i, o.r>>, !.hs = NoHs, !.completer = FALSE]]
                /\ waiters' = [waiters EXCEPT ![p] = Released(@)]
           ELSE UNCHANGED <<entry, waiters>>
  BY DEF FinalEnd
<1> DEFINE paired == [e EXCEPT !.session = <<o.i, o.r>>, !.hs = NoHs, !.completer = FALSE]
           m == Message(p, "m3", o.i, o.r)
<1>2. /\ ops[p] = {o} /\ e \in EntriesOf(p)
      /\ m.kind = "m3" /\ m.i = o.i /\ m.r = o.r /\ m.to = q
  BY DEF InTurn, Turns, Message, Tables, Own
<1> HIDE DEF m
<1>3. \/ o.attached /\ Local(p, paired, {}, Released(waiters[p]))
      \/ ~o.attached /\ Local(p, NoEntry, {}, waiters[p])
  <2>1. ops[p] \ {o} = {}
    BY <1>2
  <2>2. ~o.attached => e = NoEntry
    BY DEF InTurn, DetachedIsGone
  <2> QED BY <1>1, <2>1, <2>2 DEF Local, Tables
<1>4. /\ ops'[p] = {} /\ entry'[q] = entry[q] /\ ops'[q] = ops[q]
      /\ entry'[p] = IF o.attached THEN paired ELSE NoEntry
  BY <1>3, LocalUpdate
<1>5. Turns' /\ DetachedIsGone'
  BY <1>4, TurnsBySides
<1>6. \A x \in net' : x \in net \/ (kind = "m2" /\ x = m)
  BY <1>1 DEF m
<1>7. Unspent'
  <2>1. Unmade(ops[q], net \cup ops[p])
    BY UnspentSides DEF InTurn
  <2>2. \A x \in net' \cup ops'[p] : \E b \in net \cup ops[p] : x.i = b.i /\ x.r = b.r
    BY <1>2, <1>4, <1>6
  <2>3. Unmade(ops'[q], net' \cup ops'[p])
    BY <1>4, <2>1, <2>2, KnownKeys
  <2> QED BY <1>4, <2>3, UnspentBySides DEF Unmade
<1>8. ASSUME NEW i, NEW r, Poised(p, i, r)' PROVE Poised(p, i, r)
  <2>1. CASE o.attached
    <3>1. entry'[p].session = <<o.i, o.r>> /\ entry'[p].hs.role = "none"
      BY <1>2, <1>4, <2>1 DEF EntriesOf, NoHs
    <3>2. i = o.i /\ r = o.r
      BY <1>4, <1>8, <3>1 DEF Poised
    <3> QED BY <1>1, <1>2, <2>1, <3>2 DEF Poised
  <2>2. CASE ~o.attached
    BY <1>4, <1>8, <2>2, BlankIsNotPoised, BlankEntries
  <2> QED BY <2>1, <2>2
<1>9. \A i, r : Poised(q, i, r)' => Poised(q, i, r)
  <2>1. \A i, r : Offered(q, i, r)' => Offered(q, i, r)
    BY <1>2, <1>4, <1>6, TwoPeers DEF Offered
  <2>2. \A i, r : Confirmed(q, i, r)' => Confirmed(q, i, r)
    BY <1>1, <1>2, <1>4, <1>6, TwoPeers DEF Confirmed
  <2> QED BY <1>4, <2>1, <2>2, OtherIsKept, TwoPeers
<1>10. Agree'
  BY <1>8, <1>9, AgreeBySides DEF InTurn, Agree
<1> QED BY <1>5, <1>7, <1>10 DEF InTurn

LEMMA RestartInTurn ==
  ASSUME Tables, InTurn, NEW p \in Peers, Restart(p)
  PROVE  InTurn'
<1> DEFINE q == Other(p)
<1>1. Local(p, NoEntry, {}, {}) /\ net' = net
  BY DEF Restart, Local
<1>2. entry'[p] = NoEntry /\ ops'[p] = {} /\ entry'[q] = entry[q] /\ ops'[q] = ops[q]
  BY <1>1, LocalUpdate
<1>3. Turns' /\ DetachedIsGone'
  BY <1>2, TurnsBySides
<1>4. Unspent'
  <2>1. Unmade(ops[q], net \cup ops[p])
    BY UnspentSides DEF InTurn
  <2>2. Unmade(ops'[q], net' \cup ops'[p])
    BY <1>1, <1>2, <2>1 DEF Unmade
  <2> QED BY <1>2, <2>2, UnspentBySides DEF Unmade
<1>5. \A i, r : ~Poised(p, i, r)'
  BY <1>2, BlankIsNotPoised, BlankEntries
<1>6. Agree'
  BY <1>5, AgreeBySides
<1> QED BY <1>3, <1>4, <1>6 DEF InTurn

LEMMA TickInTurn ==
  ASSUME Tables, InTurn, Tick
  PROVE  InTurn'
<1>1. entry' = [p \in Peers |-> Older(entry[p])] /\ ops' = ops /\ net' = net
  BY DEF Tick
<1>2. \A p \in Peers : /\ entry'[p].session = entry[p].session
                       /\ \A k \in {"role", "i", "r"} : entry'[p].hs[k] = entry[p].hs[k]
  BY <1>1, OlderKeeps DEF Tables, Own
<1>3. Older(NoEntry) = NoEntry
  <2>1. ~NoEntry.exists
    BY BlankEntries, TwoPeers
  <2> QED BY <2>1 DEF Older
<1>4. DetachedIsGone'
  BY <1>1, <1>3 DEF InTurn, DetachedIsGone
<1> QED BY <1>1, <1>2, <1>4, ShrinkInTurn

(* Whether handlers may overlap does not change while the system runs. *)
LEMMA RegimeIsKept ==
  ASSUME Tables, [Next]_vars
  PROVE  regime'.overlap = regime.overlap
<1>1. (\E n \in Nat : Charge(n)) \/ regime' = regime
  <2>1. ASSUME NEW p \in Peers, ReapElsewhere(p) \/ Announce(p)
        PROVE  \E n \in Nat : Charge(n)
    <3>1. /\ Sweeps(entry[p]) \in Nat
          /\ Sweeps(entry[p]) + (IF wait[p] > 0 THEN 1 ELSE 0) \in Nat
      BY DEF Sweeps
    <3> QED BY <2>1, <3>1 DEF ReapElsewhere, Announce
  <2>2. ASSUME NEW p \in Peers, Progress(p), ~Announce(p)
        PROVE  regime' = regime
    BY <2>2 DEF Progress, StartEnd, Airs, SendEnd, WaiterTimeout, Message1Begin, Message1End,
         Message2Begin, Message2End, Message3Begin, Message3End, FinalBegin, FinalEnd
  <2>3. Fault => \E n \in Nat : Charge(n)
    BY DEF Fault
  <2> QED BY <2>1, <2>2, <2>3 DEF Next, vars, SendFails, Restart, ResetAll, Lose, Tick
<1> QED BY <1>1, ChargeIsTyped

IInv == Tables /\ (~regime.overlap => InTurn)

LEMMA StepInTurn ==
  ASSUME Tables, InTurn, ~regime.overlap, [Next]_vars
  PROVE  InTurn'
<1>1. CASE UNCHANGED vars
  <2>1. DetachedIsGone'
    BY <1>1 DEF InTurn, DetachedIsGone, vars
  <2> QED BY <1>1, <2>1, ShrinkInTurn DEF vars
<1>2. ASSUME NEW p \in Peers, NEW ws \in SUBSET waiters[p], NEW os \in SUBSET ops[p],
             Reset(p, ws, os), net' = net, UNCHANGED wait
      PROVE  InTurn'
  <2>1. Local(p, NoEntry, Detached(os), Released(ws))
    BY <1>2 DEF Reset, Local
  <2> QED BY <1>2, <2>1, ResetInTurn
<1>3. ASSUME NEW p \in Peers, Progress(p) PROVE InTurn'
  <2>1. CASE WaiterTimeout(p)
    BY <1>2, <2>1 DEF WaiterTimeout
  <2> QED BY <1>3, <2>1, AnnounceInTurn, StartEndInTurn, AirsInTurn, SendEndInTurn, Message1BeginInTurn,
             Message1EndInTurn, FinalBeginInTurn, FinalEndInTurn
          DEF Progress, Message2Begin, Message2End, Message3Begin, Message3End
<1>4. ASSUME NEW p \in Peers, ReapElsewhere(p) \/ SendFails(p) \/ Restart(p) \/ ResetAll(p)
      PROVE  InTurn'
  BY <1>2, <1>4, RestartInTurn DEF ReapElsewhere, SendFails, ResetAll
<1>5. CASE Lose
  <2>1. net' \subseteq net /\ entry' = entry /\ ops' = ops
    BY <1>5 DEF Lose
  <2>2. DetachedIsGone'
    BY <2>1 DEF InTurn, DetachedIsGone
  <2> QED BY <2>1, <2>2, ShrinkInTurn
<1> QED BY <1>1, <1>3, <1>4, <1>5, TickInTurn DEF Next

LEMMA InitInTurn == Init => InTurn
<1> SUFFICES ASSUME Init PROVE InTurn
  OBVIOUS
<1>1. /\ \A p \in Peers : entry[p] = NoEntry /\ ops[p] = {}
      /\ net = {}
  BY DEF Init
<1>2. \A p \in Peers : \A i, r : ~Poised(p, i, r)
  <2>1. NoEntry.session = NoSession /\ NoEntry.hs.role = "none" /\ \A i, r : <<i, r>> # NoSession
    BY BlankEntries, TwoPeers DEF NoHs, NoSession
  <2> QED BY <1>1, <2>1 DEF Poised
<1> QED BY <1>1, <1>2 DEF InTurn, Turns, DetachedIsGone, Unspent, Agree

LEMMA PairingInvariant == Spec => []IInv
<1>1. Init => IInv
  BY InitTables, InitInTurn DEF IInv
<1>2. IInv /\ [Next]_vars => IInv'
  BY StepTables, RegimeIsKept, StepInTurn DEF IInv
<1> QED BY <1>1, <1>2, PTL DEF Spec

(* Two peers whose handlers take turns never hold different sessions with nothing on the   *)
(* way between them, whatever packets are lost, writes refused, entries reset or swept,    *)
(* processes restarted and attempts started off schedule, and however often.               *)
THEOREM TakingTurnsAgrees == Spec => []SerialHandlersAgree
<1>1. IInv => SerialHandlersAgree
  <2> SUFFICES ASSUME IInv, ~regime.overlap, Quiet, hasSession(entry[Lo]), hasSession(entry[Hi])
               PROVE  entry[Lo].session = entry[Hi].session
    BY DEF SerialHandlersAgree, NoSplitSession
  <2>1. ASSUME NEW p \in Peers, hasSession(entry[p])
        PROVE  \E i, r : entry[p].session = <<i, r>> /\ Poised(p, i, r)
    <3>1. PICK i, r : entry[p].session = <<i, r>>
      BY <2>1 DEF IInv, Tables, Own, EntriesOf, SessionType, hasSession
    <3>2. ops[p] = {}
      BY DEF Quiet
    <3> QED BY <3>1, <3>2 DEF Poised
  <2>2. PICK i, r : entry[Lo].session = <<i, r>> /\ Poised(Lo, i, r)
    BY <2>1, TwoPeers
  <2>3. PICK j, s : entry[Hi].session = <<j, s>> /\ Poised(Hi, j, s)
    BY <2>1, TwoPeers
  <2>4. i = j /\ r = s
    BY <2>2, <2>3, TwoPeers DEF IInv, InTurn, Agree
  <2> QED BY <2>2, <2>3, <2>4
<1> QED BY <1>1, PairingInvariant, PTL
=============================================================================
