------------------------------ MODULE DtnStore ------------------------------
(***************************************************************************)
(* lib/src/mesh/dtn_store.dart as it is written: an insertion-ordered map  *)
(* of append-ordered lists (a LinkedHashMap is a sequence of buckets), a   *)
(* byte total maintained incrementally, and eviction that looks only at    *)
(* list heads.  It implements DtnCustody, which speaks of a set of entries *)
(* and of the sum of their sizes.                                          *)
(***************************************************************************)
EXTENDS DtnPackets, Integers, FiniteSets, SequencesExt

VARIABLES
    byRecipient,    \* _byRecipient: <<[to, list], ...>> in insertion order
    totalBytes,     \* _totalBytes
    maxBytes, now, exits, streak, seen, arrived   \* as in DtnCustody

env == <<seen, arrived>>
vars == <<byRecipient, totalBytes, maxBytes, now, exits, streak, env>>

Entries(buckets) == UNION {ToSet(buckets[i].list) : i \in DOMAIN buckets}

\* The refinement mapping: the set of entries in all the lists.
Custody == INSTANCE DtnCustody WITH held <- Entries(byRecipient)

Init ==
    /\ byRecipient = <<>>
    /\ totalBytes = 0
    /\ maxBytes \in Caps
    /\ now = 0
    /\ exits = {}
    /\ streak = [p \in Packets |-> {}]
    /\ seen = {} /\ arrived = {}

-----------------------------------------------------------------------------
\* One pass of the code's bookkeeping: the buckets, the running total and the
\* exits recorded so far.
Store0 == [buckets |-> byRecipient, bytes |-> totalBytes, out |-> {}]

\* What is left of a list of which only members of S stay, in its order.
Among(list, S) ==
    LET left[n \in 0..Len(list)] ==
          IF n = 0 THEN <<>>
          ELSE IF list[n] \in S THEN Append(left[n - 1], list[n]) ELSE left[n - 1]
    IN  left[Len(list)]

NonEmpty(buckets) == Among(buckets, {b \in ToSet(buckets) : b.list # <<>>})

\* removeWhere over every list: the entries in kept stay, the rest is charged.
Sweep(s, kept, why) ==
    LET gone == Entries(s.buckets) \ kept IN
    [buckets |-> NonEmpty([i \in DOMAIN s.buckets |->
                    [s.buckets[i] EXCEPT !.list = Among(@, kept)]]),
     bytes   |-> s.bytes - Custody!BytesOf(gone),
     out     |-> s.out \cup Custody!Leaving(gone, why)]

\* _prune
Prune(s) == Sweep(s, Custody!Live(Entries(s.buckets)), "expired")

\* The scan of list heads: the first bucket whose head no other head precedes.
OldestBucket(buckets) ==
    SelectInSeq(buckets, LAMBDA b :
        \A i \in DOMAIN buckets : b.list[1].storedAt <= buckets[i].list[1].storedAt)

\* One turn of the eviction loop: the oldest head goes, an empty list with it.
ShedOldest(s) ==
    LET k == OldestBucket(s.buckets)
        e == Head(s.buckets[k].list)
    IN  [buckets |-> NonEmpty([s.buckets EXCEPT ![k].list = Tail(@)]),
         bytes   |-> s.bytes - Size[e.packet],
         out     |-> s.out \cup {<<e.packet, "evictedTotal">>}]

\* The eviction loop, while it is above the low water mark and anything is left.
Shed(s, cap) ==
    LET turns == Cardinality(Entries(s.buckets))
        after[n \in 0..turns] ==
          IF n = 0 THEN s
          ELSE IF Custody!OverLowWater(after[n - 1].bytes, cap) /\ after[n - 1].buckets # <<>>
          THEN ShedOldest(after[n - 1]) ELSE after[n - 1]
    IN  after[turns]
\* _evictToFit: start above the high water mark, stop at the low one.
EvictToFit(s, cap) ==
    IF Custody!OverHighWater(s.bytes, cap) THEN Shed(s, cap) ELSE s

\* store()'s second bound: above maxRecipients the oldest bucket goes whole.
CapRecipients(s) ==
    IF Len(s.buckets) <= MaxRecipients THEN s
    ELSE LET oldest == s.buckets[OldestBucket(s.buckets)]
             gone == ToSet(oldest.list)
         IN  [buckets |-> Among(s.buckets, ToSet(s.buckets) \ {oldest}),
              bytes   |-> s.bytes - Custody!BytesOf(gone),
              out     |-> s.out \cup Custody!Leaving(gone, "evictedRecipients")]

\* putIfAbsent, then add at the end of the recipient's list.
Append2(s, entry) ==
    LET k == SelectInSeq(s.buckets, LAMBDA b : b.to = To[entry.packet])
        buckets == IF k = 0
                   THEN Append(s.buckets, [to |-> To[entry.packet], list |-> <<entry>>])
                   ELSE [s.buckets EXCEPT ![k].list = Append(@, entry)]
    IN  [s EXCEPT !.bytes = @ + Size[entry.packet], !.buckets = buckets]

Becomes(s) ==
    /\ byRecipient' = s.buckets
    /\ totalBytes' = s.bytes
    /\ exits' = s.out
-----------------------------------------------------------------------------
Store(p, retirable) ==
    LET live == Prune(Store0)
        entry == [packet |-> p, storedAt |-> now, retirable |-> retirable,
                  vote |-> NoVote]
    IN  /\ IF Custody!Carries(Entries(live.buckets), p)
           THEN /\ Becomes(live)
                /\ UNCHANGED streak
           ELSE /\ Becomes(CapRecipients(EvictToFit(Append2(live, entry), maxBytes)))
                /\ streak' = [streak EXCEPT ![p] = {}]
        /\ UNCHANGED <<maxBytes, now, env>>

Query ==
    /\ Becomes(Prune(Store0))
    /\ UNCHANGED <<maxBytes, now, streak, env>>

SetMaxBytes(cap) ==
    /\ maxBytes' = cap
    /\ Becomes(EvictToFit(Store0, cap))
    /\ UNCHANGED <<now, streak, env>>

RemoveById(p) ==
    /\ Becomes(Sweep(Store0, {e \in Entries(byRecipient) : e.packet # p}, "acked"))
    /\ UNCHANGED <<maxBytes, now, streak, env>>

\* Mutant: every entry votes, inside the filter's window or not.
Voted_All(e, covered, salt, names) == Custody!AfterVote(e, salt, names)
Voted(e, covered, salt, names) ==
    IF e \in covered THEN Custody!AfterVote(e, salt, names) ELSE e

\* The votes are written into the entries where they stand.
InPlace(list, covered, salt, names) ==
    [j \in DOMAIN list |-> Voted(list[j], covered, salt, names)]
Marked(buckets, covered, salt, names) ==
    [i \in DOMAIN buckets |-> [buckets[i] EXCEPT !.list = InPlace(@, covered, salt, names)]]

\* retireSeenFor walks the asking recipient's own list and no other.
RetireSeenFor(r, salt, from, to, names) ==
    LET live == Prune(Store0)
        carried == Entries(live.buckets)
        covered == {e \in carried : Custody!Covered(e, r, from, to)}
        retired == {e \in covered : e.packet \in names /\ Custody!SecondVote(e, salt)}
        rest == Sweep(live, carried \ retired, "retiredSeen")
    IN  /\ Becomes([rest EXCEPT !.buckets = Marked(@, covered, salt, names)])
        /\ streak' = [p \in Packets |->
                        IF p \notin Custody!PacketsOf(covered) THEN streak[p]
                        ELSE IF p \in names THEN streak[p] \cup {salt}
                        ELSE {}]
        /\ UNCHANGED <<maxBytes, now, env>>

\* clear() resets the map and the total without a single onDrop.
Clear ==
    /\ byRecipient' = <<>>
    /\ totalBytes' = 0
    /\ exits' = Custody!Leaving(Entries(byRecipient), "cleared")
    /\ UNCHANGED <<maxBytes, now, streak, env>>

Environment ==
    /\ UNCHANGED <<byRecipient, totalBytes>>
    /\ \/ Custody!Tick
       \/ \E p \in Packets : Custody!Arrive(p)
       \/ \E p \in Packets : Custody!Forget(p)

Next ==
    \/ \E p \in Packets, retirable \in BOOLEAN : Store(p, retirable)
    \/ Query
    \/ \E cap \in Caps : SetMaxBytes(cap)
    \/ \E p \in Packets : RemoveById(p)
    \/ \E r \in InRange, salt \in Salts, from, to \in Custody!Stamps :
          \E names \in Custody!Names(salt) : RetireSeenFor(r, salt, from, to, names)
    \/ Clear
    \/ Environment

Spec == Init /\ [][Next]_vars

-----------------------------------------------------------------------------
\* The map's shape: one non-empty bucket per recipient, every entry in the
\* bucket of its own recipient.
TypeOK ==
    /\ \A i \in DOMAIN byRecipient :
          /\ byRecipient[i].list \in Seq(Custody!Entry)
          /\ byRecipient[i].list # <<>>
          /\ \A e \in ToSet(byRecipient[i].list) : To[e.packet] = byRecipient[i].to
    /\ \A i, j \in DOMAIN byRecipient :
          byRecipient[i].to = byRecipient[j].to => i = j
    /\ totalBytes \in Int

\* The running total is what the buffer really holds, however entries left it:
\* eviction decides by this number alone (dtn_store.dart:78-87).
BytesAccounted == totalBytes = Custody!BytesOf(Entries(byRecipient))

\* Between two calls the store never sits above its high water mark, and never
\* holds more recipients than its cap (dtn_store.dart:14-18, 60-70).
WithinBounds ==
    /\ ~ Custody!OverHighWater(totalBytes, maxBytes)
    /\ Len(byRecipient) <= MaxRecipients

\* Eviction scans list heads only, yet what it sheds is oldest first across
\* all recipients (dtn_store.dart:328-337).
OldestShedFirst ==
    [][\A a, b \in Entries(byRecipient) :
          /\ <<a.packet, "evictedTotal">> \in exits'
          /\ b \in Entries(byRecipient')
          => a.storedAt <= b.storedAt]_vars

\* Every behaviour of the map of lists is a behaviour of the set of entries.
ImplementsCustody == Custody!Spec

\* The map of lists keeps the promise of the set of entries; its running total is
\* what it holds, it stays within both bounds, and what it sheds by looking at
\* list heads alone is the oldest across all recipients (dtn_store.dart keeps the
\* total and the lists by hand).
ListsKeepThePromise ==
    /\ ImplementsCustody
    /\ [](TypeOK /\ BytesAccounted /\ WithinBounds)
    /\ OldestShedFirst
=============================================================================
