----------------------------- MODULE DtnCustody -----------------------------
(***************************************************************************)
(* What one node's store-carry-forward cache promises, stated on the SET   *)
(* of entries it carries: lib/src/mesh/dtn_store.dart without its map of   *)
(* lists and its running byte count.  DtnStore.tla has those and is shown  *)
(* to implement this module.                                               *)
(*                                                                         *)
(* The environment part is the peers' side of retirement: what the seen-   *)
(* set of each packet's recipient really holds, and which packets a filter *)
(* names although its builder never saw them.  A packet may collide under  *)
(* any number of salts; whether it does depends on the other ids of the    *)
(* filter too, so each filter draws afresh among those of its salt.        *)
(***************************************************************************)
EXTENDS DtnPackets, Integers, FiniteSets, FiniteSetsExt

VARIABLES
    held,           \* _byRecipient: its _Entry records, as a set
    maxBytes,       \* maxBytes
    now,            \* the wall clock
    exits,          \* <<packet, why>>: what left in the last step; every why
                    \* but "acked" and "cleared" is an onDrop call
    streak,         \* history: salts whose filters named the packet since the
                    \* last covering filter that did not, or since it was stored
    seen,           \* packets the recipient's seen-set names now
    arrived         \* history: packets that ever reached their recipient

env == <<seen, arrived>>
vars == <<held, maxBytes, now, exits, streak, env>>

Entry == [packet : Packets, storedAt : 0..MaxTime, retirable : BOOLEAN,
          vote : Salts \cup {NoVote}]
DropReasons == {"expired", "evictedTotal", "evictedRecipients", "retiredSeen"}
Reasons == DropReasons \cup {"acked", "cleared"}

BytesOf(S) == MapThenSumSet(LAMBDA e : Size[e.packet], S)
PacketsOf(S) == {e.packet : e \in S}
Bucket(S, r) == {e \in S : To[e.packet] = r}
BucketsOf(S) == {To[e.packet] : e \in S}
\* Mutant: a drop reason outside the trace's vocabulary.
Leaving_Unnamed(S, why) == PacketsOf(S) \X {"dropped"}
Leaving(S, why) == PacketsOf(S) \X {why}

Init ==
    /\ held = {}
    /\ maxBytes \in Caps
    /\ now = 0
    /\ exits = {}
    /\ streak = [p \in Packets |-> {}]
    /\ seen = {} /\ arrived = {}

-----------------------------------------------------------------------------
\* _prune: only receipt time counts, never the originator's stamp.
Live(S) == {e \in S : now - e.storedAt <= MaxAge}
Stale(S) == S \ Live(S)

\* The watermarks of _evictToFit, evictHighWater 0.99 and evictLowWater 0.80.
OverHighWater(bytes, cap) == 100 * bytes > 99 * cap
OverLowWater(bytes, cap) == 100 * bytes > 80 * cap

\* keep is what an oldest-first drain of S leaves: nothing kept is older than
\* anything shed, it is at or below the low water mark, and the last entry
\* shed was still needed to get there.
DrainedTo(keep, S, cap) ==
    LET shed == S \ keep IN
    /\ \A a \in shed, b \in keep : a.storedAt <= b.storedAt
    /\ ~ OverLowWater(BytesOf(keep), cap)
    /\ \E last \in shed :
          /\ \A a \in shed : a.storedAt <= last.storedAt
          /\ OverLowWater(BytesOf(keep \cup {last}), cap)

\* _evictToFit: the sets it may leave (equal stamps are shed in any order).
EvictToFit(S, cap) ==
    IF OverHighWater(BytesOf(S), cap)
    THEN {keep \in SUBSET S : DrainedTo(keep, S, cap)}
    ELSE {S}

\* The recipient cap: the bucket that holds the oldest entry goes whole.
CapRecipients(S) ==
    IF Cardinality(BucketsOf(S)) <= MaxRecipients THEN {S}
    ELSE {S \ Bucket(S, To[e.packet]) :
             e \in {x \in S : \A y \in S : x.storedAt <= y.storedAt}}

\* What retireSeenFor makes of one entry, given the filter [r] sent for the
\* window [from..to] hashed under salt: its own bucket, inside the window.
Covered(e, r, from, to) ==
    /\ To[e.packet] = r
    /\ e.retirable
    /\ CreatedAt[e.packet] \in from..to
\* The sets such a filter may name: all that was seen, and any false positives.
Names(salt) ==
    {S \in SUBSET Packets : seen \subseteq S /\ S \subseteq seen \cup Collides[salt]}
SecondVote_AnySalt(e, salt) == e.vote # NoVote      \* Mutant: same salt counts
SecondVote(e, salt) == e.vote # NoVote /\ e.vote # salt
AfterVote_Sticky(e, salt, names) == \* Mutant: a contradiction keeps the vote
    [e EXCEPT !.vote = IF e.packet \in names THEN salt ELSE @]
AfterVote(e, salt, names) ==
    [e EXCEPT !.vote = IF e.packet \in names THEN salt ELSE NoVote]
-----------------------------------------------------------------------------
\* store() is idempotent per packetId; the mutant is not.
Carries_Never(S, p) == FALSE
Carries(S, p) == p \in PacketsOf(S)

\* store(): prune, idempotent per packetId, shed to fit, cap the recipients.
Store(p, retirable) ==
    LET live == Live(held)
        entry == [packet |-> p, storedAt |-> now, retirable |-> retirable,
                  vote |-> NoVote]
    IN  /\ IF Carries(live, p)
           THEN /\ held' = live
                /\ exits' = Leaving(Stale(held), "expired")
                /\ UNCHANGED streak
           ELSE \E fit \in EvictToFit(live \cup {entry}, maxBytes) :
                /\ held' \in CapRecipients(fit)
                /\ exits' = Leaving(Stale(held), "expired")
                       \cup Leaving((live \cup {entry}) \ fit, "evictedTotal")
                       \cup Leaving(fit \ held', "evictedRecipients")
                /\ streak' = [streak EXCEPT ![p] = {}]
        /\ UNCHANGED <<maxBytes, now, env>>

\* windowFrom, windowBetween, packetById, packetsFor and carriedPacketIds all
\* prune before they read.
Query ==
    /\ held' = Live(held)
    /\ exits' = Leaving(Stale(held), "expired")
    /\ UNCHANGED <<maxBytes, now, streak, env>>

\* setMaxBytes applies the new cap at once; it does not prune.
SetMaxBytes(cap) ==
    /\ maxBytes' = cap
    /\ held' \in EvictToFit(held, cap)
    /\ exits' = Leaving(held \ held', "evictedTotal")
    /\ UNCHANGED <<now, streak, env>>

\* removeById: the end-to-end ACK proved delivery.
RemoveById(p) ==
    /\ held' = {e \in held : e.packet # p}
    /\ exits' = Leaving(held \ held', "acked")
    /\ UNCHANGED <<maxBytes, now, streak, env>>

\* retireSeenFor, for a filter of these names: a first vote, or one under the
\* standing salt, is recorded; a covering filter that does not name the packet
\* clears it; a second salt retires it.
RetireSeenFor(r, salt, from, to, names) ==
    LET live == Live(held)
        covered == {e \in live : Covered(e, r, from, to)}
        retired == {e \in covered : e.packet \in names /\ SecondVote(e, salt)}
    IN  /\ held' = (live \ covered)
                   \cup {AfterVote(e, salt, names) : e \in covered \ retired}
        /\ exits' = Leaving(Stale(held), "expired")
                    \cup Leaving(retired, "retiredSeen")
        /\ streak' = [p \in Packets |->
                        IF p \notin PacketsOf(covered) THEN streak[p]
                        ELSE IF p \in names THEN streak[p] \cup {salt}
                        ELSE {}]
        /\ UNCHANGED <<maxBytes, now, env>>

Clear ==
    /\ held' = {}
    /\ exits' = Leaving(held, "cleared")
    /\ UNCHANGED <<maxBytes, now, streak, env>>

\* The environment: time passes, a copy reaches its recipient, and the
\* recipient's seen-set ages out or is lost in a restart.
Tick ==
    /\ now < MaxTime
    /\ now' = now + 1
    /\ exits' = {}
    /\ UNCHANGED <<held, maxBytes, streak, env>>

Arrive(p) ==
    /\ To[p] \in InRange
    /\ p \notin seen
    /\ seen' = seen \cup {p}
    /\ arrived' = arrived \cup {p}
    /\ exits' = {}
    /\ UNCHANGED <<held, maxBytes, now, streak>>

Forget(p) ==
    /\ p \in seen
    /\ seen' = seen \ {p}
    /\ exits' = {}
    /\ UNCHANGED <<held, maxBytes, now, streak, arrived>>

Stamps == {CreatedAt[p] : p \in Packets}

Next ==
    \/ \E p \in Packets, retirable \in BOOLEAN : Store(p, retirable)
    \/ Query
    \/ \E cap \in Caps : SetMaxBytes(cap)
    \/ \E p \in Packets : RemoveById(p)
    \/ \E r \in InRange, salt \in Salts, from, to \in Stamps :
          \E names \in Names(salt) : RetireSeenFor(r, salt, from, to, names)
    \/ Clear
    \/ Tick
    \/ \E p \in Packets : Arrive(p)
    \/ \E p \in Packets : Forget(p)

Spec == Init /\ [][Next]_vars

-----------------------------------------------------------------------------
\* Every variable keeps its type.
TypeOK ==
    /\ held \subseteq Entry
    /\ maxBytes \in Caps
    /\ now \in 0..MaxTime
    /\ exits \subseteq Packets \X Reasons
    /\ streak \in [Packets -> SUBSET Salts]
    /\ seen \subseteq Packets /\ arrived \subseteq Packets

\* What the two votes buy (dtn_store.dart:252-312): the copy of a packet that
\* never reached its recipient is retired only if the packet collides under two
\* different salts, and filters under both said so with no contradiction between
\* them.  No number of collisions under one salt can lose it.
LiveLossNeedsTwoCollisions ==
    \A p \in Packets : <<p, "retiredSeen">> \in exits =>
        \/ p \in arrived
        \/ \E s, t \in streak[p] : s # t /\ p \in Collides[s] \cap Collides[t]

\* "Two CONSECUTIVE confirmations, rather than two ever": the filters that
\* named a retired packet include two salts with no covering filter in between
\* that failed to name it (dtn_store.dart:277-286).
RetiredByTwoDraws ==
    \A p \in Packets : <<p, "retiredSeen">> \in exits =>
        \E s, t \in streak[p] : s # t

\* One packetId is carried at most once: retirement, the ACK and the byte
\* count all work on "the" entry of a packet.
OneEntryPerPacket ==
    \A a, b \in held : a.packet = b.packet => a = b
=============================================================================
