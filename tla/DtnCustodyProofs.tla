------------------------- MODULE DtnCustodyProofs -------------------------
(***************************************************************************)
(* Proofs about DtnCustody.  The argument for the two-vote rule: the vote  *)
(* an entry carries is one of the salts in its packet's streak             *)
(* (VoteInStreak), and a salt enters a streak only because the packet had  *)
(* arrived or because it collides under that salt (StreakBacked).  A       *)
(* retirement finds two salts in the streak, so a packet that never        *)
(* arrived collides under both.                                            *)
(***************************************************************************)
EXTENDS DtnCustody, TLAPS

VoteInStreak ==
    \A e \in held : e.vote # NoVote => e.vote \in streak[e.packet]

StreakBacked ==
    \A p \in Packets : \A s \in streak[p] : p \in arrived \/ p \in Collides[s]

IInv ==
    /\ TypeOK
    /\ OneEntryPerPacket
    /\ VoteInStreak
    /\ StreakBacked
    /\ seen \subseteq arrived
    /\ RetiredByTwoDraws

-----------------------------------------------------------------------------
\* Neither bound invents an entry: what eviction or the recipient cap leaves
\* was there before (_evictToFit, and the end of store).
LEMMA EvictKeepsSubset ==
    ASSUME NEW S, NEW cap, NEW keep \in EvictToFit(S, cap)
    PROVE  keep \subseteq S
  BY DEF EvictToFit

LEMMA CapKeepsSubset ==
    ASSUME NEW S, NEW keep \in CapRecipients(S)
    PROVE  keep \subseteq S
  BY DEF CapRecipients

\* Dropping entries, with the streaks and the recipients' side unchanged and
\* no exit called a retirement, preserves the invariant.
LEMMA DroppingIsSafe ==
    ASSUME IInv,
           held' \subseteq held, maxBytes' \in Caps, now' \in 0..MaxTime,
           exits' \subseteq Packets \X (Reasons \ {"retiredSeen"}),
           UNCHANGED <<streak, env>>
    PROVE  IInv'
<1>1. TypeOK'
  BY DEF IInv, TypeOK, env
<1>2. OneEntryPerPacket' /\ VoteInStreak' /\ StreakBacked' /\ (seen \subseteq arrived)'
  BY DEF IInv, OneEntryPerPacket, VoteInStreak, StreakBacked, env
<1>3. RetiredByTwoDraws'
  BY DEF RetiredByTwoDraws
<1> QED  BY <1>1, <1>2, <1>3 DEF IInv

LEMMA LeavingType ==
    ASSUME NEW S \in SUBSET Entry, NEW why
    PROVE  Leaving(S, why) \subseteq Packets \X {why}
  BY DEF Leaving, PacketsOf, Entry

LEMMA LiveSubset == ASSUME NEW S PROVE Live(S) \subseteq S /\ Stale(S) \subseteq S
  BY DEF Live, Stale

-----------------------------------------------------------------------------
\* The initial store is empty.
LEMMA InitInv == Init => IInv
  BY BoundAssumption
  DEF Init, IInv, TypeOK, OneEntryPerPacket, VoteInStreak, StreakBacked,
      RetiredByTwoDraws

\* store() adds one entry without a vote, under a fresh streak.
LEMMA StoreInv ==
    ASSUME IInv, NEW p \in Packets, NEW retirable \in BOOLEAN, Store(p, retirable)
    PROVE  IInv'
<1> DEFINE live == Live(held)
           entry == [packet |-> p, storedAt |-> now, retirable |-> retirable,
                     vote |-> NoVote]
<1> USE DEF IInv
<1>0. /\ live \subseteq held /\ held \subseteq Entry
      /\ Leaving(Stale(held), "expired") \subseteq Packets \X {"expired"}
      /\ UNCHANGED <<maxBytes, now, env>>
  BY LiveSubset, LeavingType DEF TypeOK, Store, Carries
<1>1. CASE p \in PacketsOf(live)
  <2>1. held' = live /\ exits' = Leaving(Stale(held), "expired") /\ UNCHANGED streak
    BY <1>1 DEF Store, Carries
  <2>2. exits' \subseteq Packets \X (Reasons \ {"retiredSeen"})
    BY <1>0, <2>1 DEF Reasons, DropReasons
  <2> QED  BY <1>0, <2>1, <2>2, DroppingIsSafe DEF TypeOK
<1>2. CASE p \notin PacketsOf(live)
  <2>1. PICK fit \in EvictToFit(live \cup {entry}, maxBytes) :
          /\ held' \in CapRecipients(fit)
          /\ exits' = Leaving(Stale(held), "expired")
                 \cup Leaving((live \cup {entry}) \ fit, "evictedTotal")
                 \cup Leaving(fit \ held', "evictedRecipients")
          /\ streak' = [streak EXCEPT ![p] = {}]
    BY <1>2 DEF Store, Carries
  <2>2. fit \subseteq live \cup {entry} /\ held' \subseteq fit
    BY <2>1, EvictKeepsSubset, CapKeepsSubset
  <2>3. entry \in Entry
    BY DEF TypeOK, Entry
  <2>4. /\ (live \cup {entry}) \ fit \in SUBSET Entry
        /\ fit \ held' \in SUBSET Entry
        /\ held' \subseteq Entry
    BY <1>0, <2>2, <2>3
  <2>5. exits' \subseteq Packets \X (Reasons \ {"retiredSeen"})
    <3>1. /\ Leaving((live \cup {entry}) \ fit, "evictedTotal")
                \subseteq Packets \X {"evictedTotal"}
          /\ Leaving(fit \ held', "evictedRecipients")
                \subseteq Packets \X {"evictedRecipients"}
      BY <2>4, LeavingType
    <3> QED  BY <1>0, <2>1, <3>1 DEF Reasons, DropReasons
  <2>6. TypeOK'
    <3>1. streak' \in [Packets -> SUBSET Salts]
      BY <2>1 DEF TypeOK
    <3>2. exits' \subseteq Packets \X Reasons
      BY <2>5
    <3> QED  BY <1>0, <2>4, <3>1, <3>2 DEF TypeOK, env
  <2>7. \A e \in held' : e = entry \/ (e \in held /\ e.packet # p)
    BY <1>0, <1>2, <2>2 DEF PacketsOf
  <2>8. OneEntryPerPacket'
    BY <2>7 DEF OneEntryPerPacket
  <2>9. VoteInStreak'
    BY <1>0, <2>1, <2>7 DEF VoteInStreak, TypeOK, Entry
  <2>10. StreakBacked' /\ (seen \subseteq arrived)'
    BY <1>0, <2>1 DEF StreakBacked, TypeOK, env
  <2>11. RetiredByTwoDraws'
    BY <2>5 DEF RetiredByTwoDraws
  <2> QED  BY <2>6, <2>8, <2>9, <2>10, <2>11
<1> QED  BY <1>1, <1>2

\* retireSeenFor is the only step that votes and the only one that retires.
LEMMA RetireInv ==
    ASSUME IInv, NEW r \in InRange, NEW salt \in Salts, NEW from, NEW to,
           NEW names \in Names(salt), RetireSeenFor(r, salt, from, to, names)
    PROVE  IInv'
<1> DEFINE live == Live(held)
           covered == {e \in live : Covered(e, r, from, to)}
           retired == {e \in covered : e.packet \in names /\ SecondVote(e, salt)}
<1> USE DEF IInv
<1>0. /\ held' = (live \ covered) \cup {AfterVote(e, salt, names) : e \in covered \ retired}
      /\ exits' = Leaving(Stale(held), "expired") \cup Leaving(retired, "retiredSeen")
      /\ \A p \in Packets : streak'[p] =
            IF p \notin PacketsOf(covered) THEN streak[p]
            ELSE IF p \in names THEN streak[p] \cup {salt} ELSE {}
      /\ streak' \in [Packets -> SUBSET Salts]
      /\ UNCHANGED <<maxBytes, now, env>>
  BY DEF RetireSeenFor, TypeOK
<1>1. live \subseteq held /\ held \subseteq Entry /\ covered \subseteq held
      /\ retired \subseteq covered
  BY LiveSubset DEF TypeOK
<1>2. \A e \in covered :
         /\ AfterVote(e, salt, names) \in Entry
         /\ AfterVote(e, salt, names).packet = e.packet
         /\ AfterVote(e, salt, names).vote = IF e.packet \in names THEN salt ELSE NoVote
  BY <1>1 DEF AfterVote, Entry
<1>3. TypeOK'
  <2>1. held' \subseteq Entry
    BY <1>0, <1>1, <1>2
  <2>2. exits' \subseteq Packets \X Reasons
    <3>1. /\ Leaving(Stale(held), "expired") \subseteq Packets \X {"expired"}
          /\ Leaving(retired, "retiredSeen") \subseteq Packets \X {"retiredSeen"}
      BY <1>1, LiveSubset, LeavingType
    <3> QED  BY <1>0, <3>1 DEF Reasons, DropReasons
  <2> QED  BY <1>0, <2>1, <2>2 DEF TypeOK, env
<1>4. OneEntryPerPacket'
  <2> SUFFICES ASSUME NEW a \in held', NEW b \in held', a.packet = b.packet
               PROVE  a = b
    BY DEF OneEntryPerPacket
  <2>1. PICK x \in held : /\ x.packet = a.packet
                            /\ \/ a = x /\ x \notin covered
                               \/ a = AfterVote(x, salt, names) /\ x \in covered
    BY <1>0, <1>1, <1>2
  <2>2. PICK y \in held : /\ y.packet = b.packet
                            /\ \/ b = y /\ y \notin covered
                               \/ b = AfterVote(y, salt, names) /\ y \in covered
    BY <1>0, <1>1, <1>2
  <2>3. x = y
    BY <2>1, <2>2 DEF OneEntryPerPacket
  <2> QED  BY <2>1, <2>2, <2>3
<1>5. VoteInStreak'
  <2> SUFFICES ASSUME NEW e \in held', e.vote # NoVote
               PROVE  e.vote \in streak'[e.packet]
    BY DEF VoteInStreak
  <2>1. CASE e \in live \ covered
    <3>1. e.packet \notin PacketsOf(covered) /\ e.packet \in Packets
      BY <1>1, <2>1 DEF OneEntryPerPacket, PacketsOf, Entry
    <3> QED  BY <1>0, <1>1, <2>1, <3>1 DEF VoteInStreak
  <2>2. CASE e \in {AfterVote(x, salt, names) : x \in covered \ retired}
    <3>1. PICK x \in covered : e = AfterVote(x, salt, names)
      BY <2>2
    <3>2. e.packet = x.packet /\ x.packet \in names /\ e.vote = salt
      BY <1>2, <3>1
    <3>3. x.packet \in PacketsOf(covered) /\ x.packet \in Packets
      BY <1>1 DEF PacketsOf, Entry
    <3> QED  BY <1>0, <3>2, <3>3
  <2> QED  BY <1>0, <2>1, <2>2
<1>6. StreakBacked' /\ (seen \subseteq arrived)'
  <2>1. \A p \in names : p \in arrived \/ p \in Collides[salt]
    BY DEF Names
  <2> QED  BY <1>0, <2>1 DEF StreakBacked, env
<1>7. RetiredByTwoDraws'
  <2> SUFFICES ASSUME NEW p \in Packets, <<p, "retiredSeen">> \in exits'
               PROVE  \E s, t \in streak'[p] : s # t
    BY DEF RetiredByTwoDraws
  <2>1. PICK e \in retired : e.packet = p
    BY <1>0 DEF Leaving, PacketsOf
  <2>2. e.vote \in streak[p] /\ e.vote # salt
    BY <1>1, <2>1 DEF VoteInStreak, SecondVote
  <2>3. streak'[p] = streak[p] \cup {salt}
    BY <1>0, <2>1 DEF PacketsOf
  <2> QED  BY <2>2, <2>3
<1> QED  BY <1>3, <1>4, <1>5, <1>6, <1>7

LEMMA StepInv == IInv /\ [Next]_vars => IInv'
<1> SUFFICES ASSUME IInv, [Next]_vars PROVE IInv'
  OBVIOUS
<1> DEFINE quiet(E) == E \subseteq Packets \X (Reasons \ {"retiredSeen"})
<1>0. held \subseteq Entry /\ Live(held) \subseteq held /\ Stale(held) \subseteq Entry
  BY LiveSubset DEF IInv, TypeOK
<1>1. ASSUME NEW p \in Packets, NEW retirable \in BOOLEAN, Store(p, retirable)
      PROVE  IInv'
  BY <1>1, StoreInv
<1>2. CASE Query
  <2>1. quiet(exits')
    BY <1>0, <1>2, LeavingType DEF Query, Reasons, DropReasons
  <2> QED  BY <1>0, <1>2, <2>1, DroppingIsSafe DEF Query, IInv, TypeOK
<1>3. ASSUME NEW cap \in Caps, SetMaxBytes(cap)  PROVE IInv'
  <2>1. held' \subseteq held
    BY <1>3, EvictKeepsSubset DEF SetMaxBytes
  <2>2. quiet(exits')
    BY <1>0, <1>3, LeavingType DEF SetMaxBytes, Reasons, DropReasons
  <2> QED  BY <1>3, <2>1, <2>2, DroppingIsSafe DEF SetMaxBytes, IInv, TypeOK
<1>4. ASSUME NEW p \in Packets, RemoveById(p)  PROVE IInv'
  <2>1. held' \subseteq held
    BY <1>4 DEF RemoveById
  <2>2. quiet(exits')
    BY <1>0, <1>4, LeavingType DEF RemoveById, Reasons, DropReasons
  <2> QED  BY <1>4, <2>1, <2>2, DroppingIsSafe DEF RemoveById, IInv, TypeOK
<1>5. ASSUME NEW r \in InRange, NEW salt \in Salts, NEW from \in Stamps,
             NEW to \in Stamps, NEW names \in Names(salt),
             RetireSeenFor(r, salt, from, to, names)
      PROVE  IInv'
  BY <1>5, RetireInv
<1>6. CASE Clear
  <2>1. quiet(exits')
    BY <1>0, <1>6, LeavingType DEF Clear, Reasons, DropReasons
  <2> QED  BY <1>6, <2>1, DroppingIsSafe DEF Clear, IInv, TypeOK
<1>7. CASE Tick
  <2>1. now' \in 0..MaxTime
    BY <1>7, BoundAssumption DEF Tick, IInv, TypeOK
  <2> QED  BY <1>7, <2>1, DroppingIsSafe DEF Tick, IInv, TypeOK
<1>8. ASSUME NEW p \in Packets, Arrive(p)  PROVE IInv'
  BY <1>8 DEF Arrive, IInv, TypeOK, OneEntryPerPacket, VoteInStreak,
              StreakBacked, RetiredByTwoDraws
<1>9. ASSUME NEW p \in Packets, Forget(p)  PROVE IInv'
  BY <1>9 DEF Forget, IInv, TypeOK, OneEntryPerPacket, VoteInStreak,
              StreakBacked, RetiredByTwoDraws
<1>10. CASE UNCHANGED vars
  BY <1>10 DEF vars, env, IInv, TypeOK, OneEntryPerPacket, VoteInStreak,
               StreakBacked, RetiredByTwoDraws
<1> QED  BY <1>1, <1>2, <1>3, <1>4, <1>5, <1>6, <1>7, <1>8, <1>9, <1>10 DEF Next

LEMMA Inductive == Spec => []IInv
  BY InitInv, StepInv, PTL DEF Spec

-----------------------------------------------------------------------------
\* The cache's variables keep their types, for any packets and any bounds.
THEOREM TypeCorrect == Spec => []TypeOK
<1>1. IInv => TypeOK
  BY DEF IInv
<1> QED  BY <1>1, Inductive, PTL

\* store() is idempotent per packetId: no packet is ever carried twice.
THEOREM CarriedOnce == Spec => []OneEntryPerPacket
<1>1. IInv => OneEntryPerPacket
  BY DEF IInv
<1> QED  BY <1>1, Inductive, PTL

\* A packet is retired only on two different salts with no contradicting
\* filter between them.
THEOREM TwoDraws == Spec => []RetiredByTwoDraws
<1>1. IInv => RetiredByTwoDraws
  BY DEF IInv
<1> QED  BY <1>1, Inductive, PTL

\* The live copy of a packet is retired only if the packet collides under two
\* different salts, and filters under both named it without a contradiction
\* between them; one salt's collisions, however many, never lose it.
THEOREM FalseRetirementTakesTwoCollisions == Spec => []LiveLossNeedsTwoCollisions
<1>1. IInv => LiveLossNeedsTwoCollisions
  <2> SUFFICES ASSUME IInv, NEW p \in Packets, <<p, "retiredSeen">> \in exits,
                      p \notin arrived
               PROVE  \E s, t \in streak[p] : s # t /\ p \in Collides[s] \cap Collides[t]
    BY DEF LiveLossNeedsTwoCollisions
  <2>1. PICK s, t \in streak[p] : s # t
    BY DEF IInv, RetiredByTwoDraws
  <2>2. p \in Collides[s] /\ p \in Collides[t]
    BY <2>1 DEF IInv, StreakBacked
  <2> QED  BY <2>1, <2>2
<1> QED  BY <1>1, Inductive, PTL
=============================================================================
