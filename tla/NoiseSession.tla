---------------------------- MODULE NoiseSession ----------------------------
(***************************************************************************)
(* Noise XX pairing of two peers: session/noise_session_manager.dart and   *)
(* the coordinator's _ensureNoiseSession and onNoiseHandshakeReceived.     *)
(*                                                                         *)
(* Every handler runs synchronously up to its first await and commits      *)
(* after its last one, so a handler is two actions, Begin and End, and     *)
(* others run in between on the same table entry.  The cryptography is     *)
(* what it guarantees: a message 2 or 3 is accepted by the handshake whose *)
(* ephemeral keys it was made from, and a session is that pair of keys.    *)
(* Times are ages in ticks of one handshakeTimeout (5 s); a fresh          *)
(* ephemeral key is one that occurs nowhere, so the model needs no bound   *)
(* on time or on the number of attempts, only on the faults.               *)
(***************************************************************************)
EXTENDS Integers, FiniteSets

CONSTANTS
    Lo, Hi,         \* the two peers; Lo's public key hex sorts first
    Regimes         \* the behaviours looked at: whether a handler may begin while
                    \* another one of that peer awaits, and how many faults,
                    \* the bound of the model: losses, refused writes, restarts, resets, delays,
                    \* attempts off schedule, sweeps of a live attempt

Peers == {Lo, Hi}
Other(p) == IF p = Lo THEN Hi ELSE Lo

ASSUME ParamAssumption ==
    /\ Lo # Hi
    /\ Regimes \subseteq [overlap : BOOLEAN, left : Nat]

RetryAfter == 2     \* handshakeRetryAfter, 10 s
ReapAfter == 2      \* _reapDeadHandshakes: twice handshakeTimeout
Timeout == 1        \* handshakeTimeout
AnnounceEvery == 2  \* announceInterval, 10 s

VARIABLES
    entry,          \* _entries[other], or NoEntry
    ops,            \* handlers between their first await and their commit
    waiters,        \* waitForSession callers: ticks left on their timer, and
                    \* whether the completer they wait on is still the entry's
    net,            \* handshake packets in flight, in no order: a peer may be
                    \* reached over two BLE legs and UDP at once
    wait,           \* ticks before the peer's next periodic ANNOUNCE
    regime          \* may handlers overlap; faults left

vars == <<entry, ops, waiters, net, wait, regime>>

NoKey == <<>>
NoSession == <<>>
NoHs == [role |-> "none", i |-> NoKey, r |-> NoKey, age |-> 0]
NoEntry == [exists |-> FALSE, session |-> NoSession, hs |-> NoHs,
            starting |-> FALSE, completer |-> FALSE, age |-> 0]
FreshEntry == [NoEntry EXCEPT !.exists = TRUE]

Init ==
    /\ entry = [p \in Peers |-> NoEntry]
    /\ ops = [p \in Peers |-> {}]
    /\ waiters = [p \in Peers |-> {}]
    /\ net = {}
    /\ wait = [p \in Peers |-> 0]
    /\ regime \in Regimes

-----------------------------------------------------------------------------
hasSession(e) == e.session # NoSession
PutIfAbsent(e) == IF e.exists THEN e ELSE FreshEntry

\* _reapDeadHandshakes judges an entry by ITS age, not by its attempt's.
Reapable(e) ==
    e.exists /\ ~ hasSession(e) /\ ~ e.starting /\ e.age >= ReapAfter
_HandshakeIsStale(e) == e.hs.age >= RetryAfter

\* Mutant: no reservation before startHandshake's first await.
UnderWay_Unreserved(e) == e.hs # NoHs /\ ~ _HandshakeIsStale(e)
\* An attempt startHandshake leaves alone.
UnderWay(e) == e.starting \/ (e.hs # NoHs /\ ~ _HandshakeIsStale(e))

\* Completer bookkeeping.  complete() releases the callers waiting on the
\* entry's completer; assigning a new Completer over one that was never
\* completed leaves its callers to their own timers.
Released(ws) == {w \in ws : ~ w.live}
Orphaned(ws) == {[w EXCEPT !.live = FALSE] : w \in ws}

waitForSession(e, ws) ==
    IF e.completer /\ ~ hasSession(e)
    THEN ws \cup {[left |-> Timeout, live |-> TRUE]} ELSE ws

\* Handlers that hold a removed entry finish on it without touching the table.
Detached(os) == {[o EXCEPT !.attached = FALSE] : o \in os}
Op(kind, i, r) == [kind |-> kind, i |-> i, r |-> r, attached |-> TRUE]
MayBegin(p) == regime.overlap \/ ops[p] = {}

\* An ephemeral key nobody holds, handles or carries.
KeysInUse ==
    (UNION {{x.i, x.r} : x \in net \cup ops[Lo] \cup ops[Hi]
                              \cup {entry[Lo].hs, entry[Hi].hs}})
    \cup (UNION {{entry[p].session[1], entry[p].session[2]} :
                    p \in {q \in Peers : hasSession(entry[q])}})
FreshKey(p) ==
    <<p, CHOOSE n \in 1..(Cardinality(KeysInUse) + 1) :
            /\ <<p, n>> \notin KeysInUse
            /\ \A m \in 1..(n - 1) : <<p, m>> \in KeysInUse>>

Message(p, kind, i, r) == [to |-> Other(p), kind |-> kind, i |-> i, r |-> r]

\* Mutant: reset() forgets to complete the pending completer.
Reset_Silent(p, ws, os) ==
    /\ entry' = [entry EXCEPT ![p] = NoEntry]
    /\ waiters' = [waiters EXCEPT ![p] = ws]
    /\ ops' = [ops EXCEPT ![p] = Detached(os)]
\* reset(): the entry goes, whatever it holds by now.
Reset(p, ws, os) ==
    /\ entry' = [entry EXCEPT ![p] = NoEntry]
    /\ waiters' = [waiters EXCEPT ![p] = Released(ws)]
    /\ ops' = [ops EXCEPT ![p] = Detached(os)]

\* What the environment may do only so often.  Sweeping an attempt that is
\* still alive counts, and so does an attempt between two ANNOUNCEs (a send):
\* either one, over and over, would starve the pairing.
Charge(n) == n <= regime.left /\ regime' = [regime EXCEPT !.left = @ - n]
Fault == Charge(1)
Sweeps(e) == IF Reapable(e) /\ e.hs # NoHs /\ ~ _HandshakeIsStale(e) THEN 1 ELSE 0
-----------------------------------------------------------------------------
\* startHandshake for a third peer: all it does to this entry is to reap it.
ReapElsewhere(p) ==
    /\ Reapable(entry[p])
    /\ Reset(p, waiters[p], ops[p])
    /\ Charge(Sweeps(entry[p]))
    /\ UNCHANGED <<net, wait>>

\* An ANNOUNCE of the other peer, or a send to it: _ensureNoiseSession up to
\* startHandshake's first await.  A live attempt is waited for, a stale one
\* is superseded.
Announce(p) ==
    /\ MayBegin(p)
    /\ ~ hasSession(entry[p])
    /\ LET reaped == Reapable(entry[p])
           e == IF reaped THEN FreshEntry ELSE PutIfAbsent(entry[p])
           ws == IF reaped THEN Released(waiters[p]) ELSE waiters[p]
           os == IF reaped THEN Detached(ops[p]) ELSE ops[p]
           busy == UnderWay(e)
           superseded == e.hs # NoHs
       IN  \/ /\ busy
              /\ entry' = [entry EXCEPT ![p] = e]
              /\ waiters' = [waiters EXCEPT ![p] = waitForSession(e, ws)]
              /\ ops' = [ops EXCEPT ![p] = os]
           \/ /\ ~ busy
              /\ entry' = [entry EXCEPT ![p] =
                   [e EXCEPT !.hs = NoHs, !.starting = TRUE,
                             !.completer = @ /\ ~ superseded]]
              /\ waiters' = [waiters EXCEPT ![p] =
                               IF superseded THEN Released(ws) ELSE ws]
              /\ ops' = [ops EXCEPT ![p] = os \cup {Op("start", FreshKey(p), NoKey)}]
    /\ Charge(Sweeps(entry[p]) + IF wait[p] > 0 THEN 1 ELSE 0)
    /\ wait' = [wait EXCEPT ![p] = IF @ = 0 THEN AnnounceEvery ELSE @]
    /\ UNCHANGED net

\* startHandshake's commit: message 1 is ready to be written.
StartEnd(p) == \E o \in ops[p] :
    /\ o.kind = "start"
    /\ ops' = [ops EXCEPT ![p] = (@ \ {o}) \cup {[o EXCEPT !.kind = "send"]}]
    /\ IF o.attached
       THEN /\ entry' = [entry EXCEPT ![p] =
                 [@ EXCEPT !.session = NoSession, !.starting = FALSE,
                    !.hs = [role |-> "initiator", i |-> o.i, r |-> NoKey, age |-> 0],
                    !.completer = TRUE]]
            /\ waiters' = [waiters EXCEPT ![p] = Orphaned(@)]
       ELSE UNCHANGED <<entry, waiters>>
    /\ UNCHANGED <<net, wait, regime>>

\* Message 1 is on the air before its write is known to have ended.
Airs(p) == \E o \in ops[p] :
    /\ o.kind = "send"
    /\ net' = net \cup {Message(p, "m1", o.i, NoKey)}
    /\ ops' = [ops EXCEPT ![p] = (@ \ {o}) \cup {[o EXCEPT !.kind = "sent"]}]
    /\ UNCHANGED <<entry, waiters, wait, regime>>

\* The write ended: _ensureNoiseSession waits on whatever entry the table
\* holds by then.
SendEnd(p) == \E o \in ops[p] :
    /\ o.kind = "sent"
    /\ ops' = [ops EXCEPT ![p] = @ \ {o}]
    /\ waiters' = [waiters EXCEPT ![p] = waitForSession(entry[p], @)]
    /\ UNCHANGED <<entry, net, wait, regime>>

\* The write was refused, or called so though it went out: reset.
SendFails(p) == \E o \in ops[p] :
    /\ o.kind \in {"send", "sent"}
    /\ Fault
    /\ Reset(p, waiters[p], ops[p] \ {o})
    /\ UNCHANGED <<net, wait>>

\* waitForSession's onTimeout: reset, without looking at the entry again.
WaiterTimeout(p) == \E w \in waiters[p] :
    /\ w.left = 0
    /\ Reset(p, waiters[p] \ {w}, ops[p])
    /\ UNCHANGED <<net, wait, regime>>
-----------------------------------------------------------------------------
Receive(p, kind, m) ==
    /\ m \in net /\ m.to = p /\ m.kind = kind
    /\ net' = net \ {m}

\* Mutant: no tie-break between crossing attempts.
YieldsToOwn_Never(p, e) == FALSE
\* _handleMessage1 up to its first await: of two attempts that cross, the one
\* of the lower key survives.
YieldsToOwn(p, e) == e.hs.role = "initiator" /\ p = Lo
YieldsToPeer(p, e) == e.hs.role = "initiator" /\ p # Lo

Message1Begin(p) == \E m \in net :
    /\ MayBegin(p)
    /\ Receive(p, "m1", m)
    /\ LET e == PutIfAbsent(entry[p])
           yields == YieldsToPeer(p, e)
       IN  \/ /\ YieldsToOwn(p, e)
              /\ UNCHANGED <<entry, waiters, ops>>
           \/ /\ ~ YieldsToOwn(p, e)
              /\ entry' = [entry EXCEPT ![p] =
                             [e EXCEPT !.completer = @ /\ ~ yields]]
              /\ waiters' = [waiters EXCEPT ![p] =
                               IF yields THEN Released(@) ELSE @]
              /\ ops' = [ops EXCEPT ![p] = @ \cup {Op("m1", m.i, FreshKey(p))}]
    /\ UNCHANGED <<wait, regime>>

\* ... and after the last one: any session is dropped for the new attempt,
\* and any completer replaced.
Message1End(p) == \E o \in ops[p] :
    /\ o.kind = "m1"
    /\ net' = net \cup {Message(p, "m2", o.i, o.r)}
    /\ IF o.attached
       THEN /\ entry' = [entry EXCEPT ![p] =
                 [@ EXCEPT !.session = NoSession, !.completer = TRUE,
                    !.hs = [role |-> "responder", i |-> o.i, r |-> o.r, age |-> 0]]]
            /\ waiters' = [waiters EXCEPT ![p] = Orphaned(@)]
       ELSE UNCHANGED <<entry, waiters>>
    /\ ops' = [ops EXCEPT ![p] = @ \ {o}]
    /\ UNCHANGED <<wait, regime>>

\* Mutant: the AEAD check is skipped.
Authentic_Always(m, hs) == TRUE
\* The transcript check of readMessage2 / readMessage3: a message made from
\* other ephemeral keys fails its AEAD check and leaves the handshake as it was.
Authentic(m, hs) ==
    /\ m.i = hs.i
    /\ m.kind = "m3" => m.r = hs.r

\* The keys of the session a message completes: the handshake's own, and the
\* responder's key an initiator learns from message 2.
Completing(kind, m, hs) == Op(kind, hs.i, IF kind = "m2" THEN m.r ELSE hs.r)

\* Messages 2 and 3 are taken up only by a handshake in the matching role, on
\* an entry without a session.
FinalBegin(p, kind, role) == \E m \in net :
    /\ MayBegin(p)
    /\ Receive(p, kind, m)
    /\ LET e == PutIfAbsent(entry[p])
           takenUp == e.hs.role = role /\ ~ hasSession(e) /\ Authentic(m, e.hs)
       IN  /\ entry' = [entry EXCEPT ![p] = e]
           /\ ops' = [ops EXCEPT ![p] =
                        IF takenUp THEN @ \cup {Completing(kind, m, e.hs)} ELSE @]
    /\ UNCHANGED <<waiters, wait, regime>>

\* Commit: the session goes into the entry captured before the await, whatever
\* the entry's handshake is now; then complete(true).
FinalEnd(p, kind) == \E o \in ops[p] :
    /\ o.kind = kind
    /\ ops' = [ops EXCEPT ![p] = @ \ {o}]
    /\ net' = IF kind = "m2" THEN net \cup {Message(p, "m3", o.i, o.r)} ELSE net
    /\ IF o.attached
       THEN /\ entry' = [entry EXCEPT ![p] =
                 [@ EXCEPT !.session = <<o.i, o.r>>, !.hs = NoHs,
                           !.completer = FALSE]]
            /\ waiters' = [waiters EXCEPT ![p] = Released(@)]
       ELSE UNCHANGED <<entry, waiters>>
    /\ UNCHANGED <<wait, regime>>

Message2Begin(p) == FinalBegin(p, "m2", "initiator")
Message2End(p) == FinalEnd(p, "m2")
Message3Begin(p) == FinalBegin(p, "m3", "responder")
Message3End(p) == FinalEnd(p, "m3")
-----------------------------------------------------------------------------
\* Faults: a packet lost on the air; a process restart (sessions and running
\* handlers are memory only); the testbed's resetAll; a slow tick.
Lose == \E m \in net :
    /\ Fault
    /\ net' = net \ {m}
    /\ UNCHANGED <<entry, ops, waiters, wait>>

Restart(p) ==
    /\ Fault
    /\ entry' = [entry EXCEPT ![p] = NoEntry]
    /\ ops' = [ops EXCEPT ![p] = {}]
    /\ waiters' = [waiters EXCEPT ![p] = {}]
    /\ UNCHANGED <<net, wait>>

ResetAll(p) ==
    /\ Fault
    /\ Reset(p, waiters[p], ops[p])
    /\ UNCHANGED <<net, wait>>

Quiet == net = {} /\ \A p \in Peers : ops[p] = {}

\* Timers fire before the clock moves past them.  A tick while a packet is in
\* flight or a handler runs is a delay of 5 s and counts as a fault.
AgeBy1(n, limit) == IF n < limit THEN n + 1 ELSE n
Older(e) ==
    IF ~ e.exists THEN e
    ELSE [e EXCEPT !.age = AgeBy1(@, ReapAfter),
                   !.hs.age = IF e.hs = NoHs THEN @ ELSE AgeBy1(@, RetryAfter)]
Tick ==
    /\ \A p \in Peers : \A w \in waiters[p] : w.left > 0
    /\ IF Quiet THEN UNCHANGED regime ELSE Fault
    /\ entry' = [p \in Peers |-> Older(entry[p])]
    /\ waiters' = [p \in Peers |-> {[w EXCEPT !.left = @ - 1] : w \in waiters[p]}]
    /\ wait' = [p \in Peers |-> IF wait[p] = 0 THEN 0 ELSE wait[p] - 1]
    /\ UNCHANGED <<ops, net>>

\* What a peer's own event loop, timers and links do, in any order.
Progress(p) ==
    \/ Announce(p) \/ StartEnd(p) \/ Airs(p) \/ SendEnd(p) \/ WaiterTimeout(p)
    \/ Message1Begin(p) \/ Message1End(p)
    \/ Message2Begin(p) \/ Message2End(p)
    \/ Message3Begin(p) \/ Message3End(p)

Next ==
    \/ \E p \in Peers :
          Progress(p) \/ ReapElsewhere(p) \/ SendFails(p) \/ Restart(p) \/ ResetAll(p)
    \/ Lose \/ Tick

Spec == Init /\ [][Next]_vars

\* A peer's event loop runs, its periodic ANNOUNCEs arrive, a packet that is
\* not lost arrives, and time passes.  Nothing is assumed of faults.
Fairness ==
    /\ \A p \in Peers :
          /\ WF_vars(Announce(p)) /\ WF_vars(StartEnd(p)) /\ WF_vars(Airs(p))
          /\ WF_vars(SendEnd(p)) /\ WF_vars(WaiterTimeout(p))
          /\ WF_vars(Message1Begin(p)) /\ WF_vars(Message1End(p))
          /\ WF_vars(Message2Begin(p)) /\ WF_vars(Message2End(p))
          /\ WF_vars(Message3Begin(p)) /\ WF_vars(Message3End(p))
    /\ WF_vars(Tick)

FairSpec == Spec /\ Fairness
-----------------------------------------------------------------------------
KeyOf(p) == {p} \X (Nat \ {0})
SessionType == KeyOf(Lo) \X KeyOf(Hi) \cup KeyOf(Hi) \X KeyOf(Lo)

\* The tables keep their shape, and a session always pairs an initiator key of
\* one peer with a responder key of the other.
TypeOK ==
    /\ \A p \in Peers :
          /\ entry[p].session \in SessionType \cup {NoSession}
          /\ entry[p].hs.role \in {"none", "initiator", "responder"}
          /\ entry[p].age \in 0..ReapAfter /\ entry[p].hs.age \in 0..RetryAfter
          /\ {entry[p].exists, entry[p].starting, entry[p].completer} \subseteq BOOLEAN
          /\ \A o \in ops[p] : /\ o.kind \in {"start", "send", "sent", "m1", "m2", "m3"}
                               /\ o.attached \in BOOLEAN
          /\ waiters[p] \subseteq [left : 0..Timeout, live : BOOLEAN]
    /\ \A m \in net : m.to \in Peers /\ m.kind \in {"m1", "m2", "m3"}
    /\ wait \in [Peers -> 0..AnnounceEvery]
    /\ regime \in [overlap : BOOLEAN, left : Nat]

\* Two peers that both hold a session, with nothing in flight between them,
\* hold the SAME session: neither will ever start another handshake
\* (grassroots_network.dart:4344), so a mismatch would leave them
\* undecryptable to each other for good.
NoSplitSession ==
    Quiet /\ hasSession(entry[Lo]) /\ hasSession(entry[Hi])
        => entry[Lo].session = entry[Hi].session

\* As long as a peer's handlers take turns, there is no split session.
SerialHandlersAgree == ~ regime.overlap => NoSplitSession

\* The reservation of startHandshake holds for as long as the attempt it
\* protects is being built: one entry never has two initiators under way,
\* however many legs deliver the same ANNOUNCE (noise_session_manager.dart:588).
OneStart ==
    \A p \in Peers :
        LET starts == {o \in ops[p] : o.kind = "start" /\ o.attached}
        IN  /\ \A a, b \in starts : a = b
            /\ entry[p].starting <=> starts # {}

\* A caller still waiting on the entry's own completer is never left behind by
\* the entry: while it waits there is a completer to release it, and no session.
WaitersAreServed ==
    \A p \in Peers : \A w \in waiters[p] :
        w.live => entry[p].completer /\ ~ hasSession(entry[p])

\* Whatever packets, sessions and timers the faults left behind, two peers in
\* range whose handlers take turns end up holding the same session and keep it.
Paired == hasSession(entry[Lo]) /\ entry[Lo].session = entry[Hi].session
PairingConverges == <>[] (regime.overlap \/ Paired)

\* A session ends when the peer's new message 1 replaces it, or with the
\* process or the testbed's reset: a timer never destroys one.
TimerSparesSession ==
    [][\A p \in Peers : WaiterTimeout(p) => ~ hasSession(entry[p])]_vars

\* "Drop handshake entries that can no longer complete": an attempt younger
\* than its retry deadline is not swept (noise_session_manager.dart:318).
SweepSparesLiveAttempts ==
    [][\A p \in Peers :
          ReapElsewhere(p) => entry[p].hs = NoHs \/ _HandshakeIsStale(entry[p])]_vars
=============================================================================
