------------------------------ MODULE SyncRound ------------------------------
(***************************************************************************)
(* One node asking one neighbour, round after round, for what it lacks     *)
(* (message_router.dart, seen_packets.dart, the pacer of                   *)
(* grassroots_network.dart).  A round names ids the asker has SEEN: first  *)
(* a prefix frame (the newest filter-full, open to now), then sweep frames *)
(* that walk a cursor through older ground up to the prefix's floor and    *)
(* wrap.  A frame claims that it names everything seen in its window; the  *)
(* neighbour conveys what it holds there that the frame does not claim.    *)
(*                                                                         *)
(* The links to the neighbour (BLE, UDX) are paced and debounced apart but *)
(* share one cursor.  A frame travels as a Golomb-coded filter: it claims  *)
(* every id it names and, by collision, some it does not.  Each round is   *)
(* hashed under a salt of its own, so a false claim is no property of the  *)
(* packet: it is drawn afresh per frame, and is a fault like a lost frame. *)
(* A tick is the debounce (5 s); an announce interval is two.              *)
(***************************************************************************)
EXTENDS Naturals, Sequences, FiniteSets, FiniteSetsExt, SequencesExt

CONSTANTS Packets, Links,
          CreatedAt,   \* the originator's stamp of each packet
          ForAsker,    \* packets addressed to the asker; the rest is transit
          Held,        \* what the neighbour carries
          Targeted,    \* links answered with ForAsker only: UDX, closed trust
          Limits,      \* ids a filter can name, by the leg the round is sized to
          MaxFrames,   \* frames of a round, the prefix included
          MaxConvey,   \* packets one frame can pull back
          StartNow, MaxNow,  \* the clock, in stamps: where it starts and stops
          Ahead,       \* how far another node's clock may run ahead of ours
          OnSchedule,  \* rounds start an announce interval apart, or only a debounce
          Expires,     \* whether seen ids age out
          MaxFaults    \* BOUND: lost frames and conveyances, false positives, lapses of
                       \* the cursor, ids aged out

ASSUME SyncAssumption ==
  /\ CreatedAt \in [Packets -> Nat] /\ ForAsker \subseteq Packets
  /\ Held \subseteq Packets /\ Targeted \subseteq Links /\ Limits \subseteq Nat
  /\ MaxFrames \in Nat \ {0, 1} /\ MaxConvey \in Nat \ {0}
  /\ {StartNow, MaxNow, Ahead, MaxFaults} \subseteq Nat
  /\ IsFiniteSet(Held) /\ IsFiniteSet(Limits)
  /\ {OnSchedule, Expires} \subseteq BOOLEAN

VARIABLES seen,     \* ids in first-seen order
          now, cursor,
          round,    \* per link: the round last built, and its filter limit
          pending,  \* per link: frames the pacer still has to send
          sent,     \* per link: the frame last sent
          since,    \* per link: ticks since its last round, up to an interval
          faults
vars == <<seen, now, cursor, round, pending, sent, since, faults>>

Debounce == 1
AnnounceEvery == 2
Frame(from, to, ids) == [from |-> from, to |-> to, names |-> ids]
Ground == 0..MaxNow + Ahead + 1
NoFrame == Frame(1, 0, {})
NoRound == [frames |-> <<>>, limit |-> 0]

Init ==
  /\ seen = <<>> /\ now = StartNow /\ cursor = 0 /\ faults = 0
  /\ round = [l \in Links |-> NoRound]
  /\ pending = [l \in Links |-> <<>>]
  /\ sent = [l \in Links |-> NoFrame]
  /\ since = [l \in Links |-> AnnounceEvery]

-----------------------------------------------------------------------------
(* The two selections from the seen-set.                                   *)

Stamps(S) == {CreatedAt[p] : p \in S}
Position(p) == CHOOSE i \in DOMAIN seen : seen[i] = p

Older(p, q) == \/ CreatedAt[p] < CreatedAt[q]
               \/ CreatedAt[p] = CreatedAt[q] /\ Position(p) < Position(q)
Newer(p, q) == \/ CreatedAt[p] > CreatedAt[q]
               \/ CreatedAt[p] = CreatedAt[q] /\ Position(p) < Position(q)
First(S, limit, Before(_, _)) ==
  {p \in S : Cardinality({q \in S : Before(q, p)}) < limit}

\* Mutant: the stamp a selection was cut in is left split.
WholeStamps_Split(S, picked, edge) == picked
(* A truncated selection drops the whole stamp it was cut in, unless that  *)
(* is the only one.                                                        *)
WholeStamps(S, picked, edge) ==
  LET whole == {p \in picked : CreatedAt[p] # edge}
  IN  IF picked = S \/ whole = {} THEN picked ELSE whole

\* Mutant: the stamp the prefix was cut in is completed, past the limit.
newest_Completed(limit) ==
  LET picked == First(ToSet(seen), limit, Newer)
  IN  {p \in ToSet(seen) : \E q \in picked : CreatedAt[p] = CreatedAt[q]}
newest(limit) ==
  LET S == ToSet(seen)  picked == First(S, limit, Newer)
  IN  IF picked = {} THEN {} ELSE WholeStamps(S, picked, Min(Stamps(picked)))

windowFrom(from, limit) ==
  LET S == {p \in ToSet(seen) : CreatedAt[p] >= from}
      picked == First(S, limit, Older)
  IN  IF picked = {} THEN {} ELSE WholeStamps(S, picked, Max(Stamps(picked)))

-----------------------------------------------------------------------------
(* Building a round.                                                       *)

\* Mutant: a step is not cut at the prefix's floor.
Slice_Uncut(from, floor, limit) == IF from >= floor THEN {} ELSE windowFrom(from, limit)
(* The sweep steps below the floor from a cursor: at most k frames.        *)
Slice(from, floor, limit) ==
  {p \in windowFrom(from, limit) : CreatedAt[p] < floor}

Resumes(swept, start) == IF swept = <<>> THEN start ELSE Last(swept).to + 1
Extended(swept, from, floor, limit) ==
  LET slice == Slice(from, floor, limit)
  IN  IF slice = {} THEN swept ELSE Append(swept, Frame(from, Max(Stamps(slice)), slice))

Sweep(start, floor, limit) ==
  LET swept[k \in 0..MaxFrames - 1] ==
        IF k = 0 THEN <<>>
        ELSE Extended(swept[k - 1], Resumes(swept[k - 1], start), floor, limit)
  IN  swept[MaxFrames - 1]

\* Mutant: the cursor is not kept between rounds.
CursorAfter_Lost(swept, floor) == 0
(* Where the next round resumes: at the oldest ground once the floor is    *)
(* reached, else past the last frame the budget allowed.                   *)
CursorAfter(swept, floor) ==
  IF Len(swept) = MaxFrames - 1 /\ Last(swept).to + 1 < floor
  THEN Last(swept).to + 1 ELSE 0

Wrapped(floor) == IF cursor >= floor THEN 0 ELSE cursor

(* A round replaces what the pacer still had of the one before it.         *)
Begin(l, limit, frames, next) ==
  /\ round' = [round EXCEPT ![l] = [frames |-> frames, limit |-> limit]]
  /\ pending' = [pending EXCEPT ![l] = frames]
  /\ cursor' = next
  /\ since' = [since EXCEPT ![l] = 0]
  /\ UNCHANGED <<seen, now, sent, faults>>

Due(l) == since[l] >= IF OnSchedule THEN AnnounceEvery ELSE Debounce

(* One frame says everything, or, on a leg too narrow for any id, nothing. *)
RoundOfOne(l) ==
  /\ Due(l)
  /\ \E limit \in Limits : \E recent \in {newest(limit)} :
       /\ recent \in {{}, ToSet(seen)}
       /\ Begin(l, limit, <<Frame(0, now, recent)>>, 0)

RoundWithSweep(l) ==
  /\ Due(l)
  /\ \E limit \in Limits : \E recent \in {newest(limit)} :
       /\ recent \notin {{}, ToSet(seen)}
       /\ \E floor \in {Min(Stamps(recent))} :
          \E swept \in {Sweep(Wrapped(floor), floor, limit)} :
            Begin(l, limit, <<Frame(floor, now, recent)>> \o swept,
                  CursorAfter(swept, floor))

Round(l) == RoundOfOne(l) \/ RoundWithSweep(l)

-----------------------------------------------------------------------------
(* Sending a frame, and the neighbour's answer.                            *)

InWindow(f) == {p \in Held : CreatedAt[p] \in f.from..f.to}

(* What the filter of a frame may claim of the packets tested against it:  *)
(* all that it names and any others; a filter of no ids claims nothing.    *)
Claims(f) ==
  {S \in SUBSET (f.names \cup InWindow(f)) : f.names \subseteq S /\ (f.names = {} => S = {})}

Lacking(l, f, claimed) ==
  {p \in InWindow(f) : p \notin claimed /\ (l \in Targeted => p \in ForAsker)}

\* Mutant: the cap counts packets before the filter is asked about them.
Answers_CapFirst(l, f, claimed) ==
  {C \ claimed : C \in {D \in SUBSET InWindow(f) :
         Cardinality(D) = Min({MaxConvey, Cardinality(InWindow(f))})}}
(* As many as the cap allows, those addressed to the asker first.          *)
Answers(l, f, claimed) ==
  LET lacking == Lacking(l, f, claimed)
      direct  == lacking \cap ForAsker
  IN  {C \in SUBSET lacking :
         /\ Cardinality(C) = Min({MaxConvey, Cardinality(lacking)})
         /\ direct \subseteq C \/ C \subseteq direct}

Arrivals(A) == {s \in [1..Cardinality(A) -> A] : ToSet(s) = A}

SendFrame(l) ==
  /\ pending[l] # <<>>
  /\ pending' = [pending EXCEPT ![l] = Tail(@)]
  /\ sent' = [sent EXCEPT ![l] = Head(pending[l])]
  /\ \E claimed \in Claims(Head(pending[l])) :
     \E C \in Answers(l, Head(pending[l]), claimed) : \E A \in SUBSET C :
       /\ faults' = faults + Cardinality(claimed \ Head(pending[l]).names) + Cardinality(C \ A)
       /\ faults' <= MaxFaults
       /\ \E s \in Arrivals(A \ ToSet(seen)) : seen' = seen \o s
  /\ UNCHANGED <<now, cursor, round, since>>

(* No session, a refused write or a lost one: the pacer goes on.           *)
FrameLost(l) ==
  /\ pending[l] # <<>> /\ faults < MaxFaults
  /\ faults' = faults + 1
  /\ pending' = [pending EXCEPT ![l] = Tail(@)]
  /\ UNCHANGED <<seen, now, cursor, round, sent, since>>

-----------------------------------------------------------------------------
(* Ids entering and leaving the seen-set, and time.                        *)

See(p) ==
  /\ p \notin ToSet(seen) /\ CreatedAt[p] <= now + Ahead
  /\ seen' = Append(seen, p)
  /\ UNCHANGED <<now, cursor, round, pending, sent, since, faults>>

PruneExpired ==
  /\ Expires /\ seen # <<>> /\ faults < MaxFaults
  /\ seen' = Tail(seen) /\ faults' = faults + 1
  /\ UNCHANGED <<now, cursor, round, pending, sent, since>>

(* Ten minutes without a round with this neighbour, or clearDtnBuffer's    *)
(* reset of the cursors: the sweep starts over.                            *)
CursorLapses ==
  /\ faults < MaxFaults /\ cursor # 0
  /\ cursor' = 0 /\ faults' = faults + 1
  /\ UNCHANGED <<seen, now, round, pending, sent, since>>

(* A paced round is sent out within its announce interval.                 *)
Tick ==
  /\ \A l \in Links : since[l] + 1 >= AnnounceEvery => pending[l] = <<>>
  /\ \/ now < MaxNow
     \/ \E l \in Links : since[l] < AnnounceEvery
  /\ now' = Min({now + 1, MaxNow})
  /\ since' = [l \in Links |-> Min({since[l] + 1, AnnounceEvery})]
  /\ UNCHANGED <<seen, cursor, round, pending, sent, faults>>

Next ==
  \/ \E l \in Links : Round(l) \/ SendFrame(l) \/ FrameLost(l)
  \/ \E p \in Packets : See(p)
  \/ PruneExpired \/ CursorLapses \/ Tick

Spec == Init /\ [][Next]_vars
FairSpec == Spec /\ WF_vars(Tick)
                 /\ \A l \in Links : WF_vars(Round(l)) /\ WF_vars(SendFrame(l))
-----------------------------------------------------------------------------
(* What trace_server makes of the two records of a round.                  *)

(* sync_reach: the asker's record counts the frames of the round and the   *)
(* ids from the cursor on; a full filter is taken to be named each time.   *)
PendingIds == {p \in ToSet(seen) : CreatedAt[p] >= cursor}
SyncReach(frames) ==
  LET pendingCount == Cardinality(PendingIds)
      advertised == Min({Len(frames) * Max(Limits), pendingCount})
  IN  [advertised |-> advertised, behind |-> pendingCount > 0 /\ advertised < pendingCount]

(* The holder's record of a frame it answered with C.                      *)
Answer(f, C) ==
  LET window == InWindow(f)
  IN  [held |-> Cardinality(Held), inWindow |-> Cardinality(window), conveyed |-> Cardinality(C),
       withheld |-> Cardinality(window) - Cardinality(C),
       ownHeld |-> Cardinality(Held \cap ForAsker),
       ownInWindow |-> Cardinality(window \cap ForAsker),
       ownConveyed |-> Cardinality(C \cap ForAsker),
       ownWithheld |-> Cardinality(window \cap ForAsker) - Cardinality(C \cap ForAsker)]

(* sync_answers: mail for the asker that the window never covered, and the *)
(* rounds whose window covered nothing; ring_report: the stall.            *)
SyncAnswers(row) == [unreached |-> row.ownHeld - row.ownInWindow, blind |-> row.inWindow = 0]
Stalled(row) == row.ownHeld > 0 /\ row.ownInWindow = 0

-----------------------------------------------------------------------------
(* Properties.                                                             *)

Frames == [from : Nat, to : Nat, names : SUBSET Packets]

(* Every variable keeps its type, no id is seen twice, and a round never   *)
(* exceeds its frame budget, each frame within what its filter can name.   *)
TypeOK ==
  /\ IsInjective(seen) /\ ToSet(seen) \subseteq Packets
  /\ now \in Nat /\ cursor \in Nat /\ faults \in 0..MaxFaults
  /\ \A l \in Links :
       /\ round[l].limit \in Limits \cup {0}
       /\ Len(round[l].frames) <= MaxFrames
       /\ \A f \in ToSet(round[l].frames) :
            f \in Frames /\ Cardinality(f.names) <= round[l].limit
       /\ IsSuffix(pending[l], round[l].frames)
       /\ sent[l] \in Frames /\ since[l] \in 0..AnnounceEvery

Within(f, g) == f.from <= g /\ g <= f.to
BuiltNow(l) == since[l] # 0 /\ since'[l] = 0
WithStamp(g) == {p \in ToSet(seen) : CreatedAt[p] = g}

(* A frame names every id its window claims: over [from, to] the neighbour *)
(* never reads as absent an id the asker had seen when the round was       *)
(* built.  Exempt are stamps shared by more ids than a filter holds, and   *)
(* the leg too narrow for any id (message_router.dart, 1433-1453).         *)
FramesNameTheirWindows ==
  [][\A l \in Links : BuiltNow(l) =>
       \A f \in ToSet(round'[l].frames) : \A p \in ToSet(seen) :
         \/ ~Within(f, CreatedAt[p]) \/ p \in f.names
         \/ Cardinality(WithStamp(CreatedAt[p])) > round'[l].limit]_vars

(* No two frames of a round describe the same ground: one packet is never  *)
(* conveyed for two frames, nor voted on twice under one salt.             *)
FramesAreDisjoint ==
  \A l \in Links : \A i, j \in DOMAIN round[l].frames : \A g \in Ground :
    Within(round[l].frames[i], g) /\ Within(round[l].frames[j], g) => i = j

(* Ground between the newest id below the prefix and the prefix itself.    *)
UnderPrefix(g) ==
  \E l \in Links : round[l].frames # <<>> /\
    LET floor == round[l].frames[1].from
    IN  g < floor /\ {p \in ToSet(seen) : CreatedAt[p] \in g..floor - 1} = {}

(* On every link, all ground up to now is asked about again and again,     *)
(* except that just under the prefix, which holds no seen id.              *)
SeenGroundIsSwept ==
  \A l \in Links : \A g \in 0..MaxNow : []<>(Within(sent[l], g) \/ UnderPrefix(g))

(* As the comments say it: "the ground under the prefix is always reached  *)
(* again within a bounded number of rounds" (message_router.dart, 1178).   *)
GroundUnderPrefixIsSwept ==
  \A l \in Links : \A g \in 0..MaxNow : []<>Within(sent[l], g)

(* Mail the neighbour holds for the asker on swept ground arrives, however *)
(* few packets one frame can pull and with frames and conveyances lost.    *)
HeldMailArrives ==
  \A p \in Held \cap ForAsker :
    []<>(p \in ToSet(seen) \/ UnderPrefix(CreatedAt[p]))

(* A paced round has sent its last frame before its successor starts       *)
(* (grassroots_network.dart, 5483).                                        *)
RoundsFinish == [][\A l \in Links : BuiltNow(l) => pending[l] = <<>>]_vars

(* The reach table never gives a round less than it named of the ground    *)
(* before it, and so a round it calls behind has left ids of it unnamed.   *)
ReachIsNotUnderstated ==
  [][\A l \in Links : BuiltNow(l) =>
       LET row == SyncReach(round'[l].frames)
           named == PendingIds \cap UNION {f.names : f \in ToSet(round'[l].frames)}
       IN  /\ Cardinality(named) <= row.advertised
           /\ row.behind => named # PendingIds]_vars

(* "1.0 means the node kept up with its own traffic" (analyze.py, 342).    *)
CoveredIsNamed ==
  [][\A l \in Links : (BuiltNow(l) /\ ~SyncReach(round'[l].frames).behind) =>
       PendingIds \subseteq UNION {f.names : f \in ToSet(round'[l].frames)}]_vars

(* A holder's record of an answer accounts for all its mail that the frame *)
(* did not name: conveyed, in unreached ground, cut off by the cap, or     *)
(* falsely claimed; and unless the cap cut it, what it calls withheld is   *)
(* what the asker has seen there and the false positives, nothing else     *)
(* (analyze.py, 440-442: "genuine convergence, or a filter false-positive  *)
(* rate worth measuring").  Blind and stalled rows mean what they say.     *)
HungerIsAccounted ==
  \A l \in Links : pending[l] # <<>> =>
    LET f == Head(pending[l])
        mail == Held \cap ForAsker
        known == {p \in mail \cap f.names : Within(f, CreatedAt[p])}
    IN  \A claimed \in Claims(f) : \A C \in Answers(l, f, claimed) :
          LET row == Answer(f, C)
              falsely == mail \cap (claimed \ f.names)
          IN  /\ Cardinality(mail \ f.names)
                   <= row.ownConveyed + SyncAnswers(row).unreached + Cardinality(falsely)
                        + (IF row.conveyed = MaxConvey THEN row.ownWithheld ELSE 0)
              /\ row.conveyed < MaxConvey =>
                   row.ownWithheld = Cardinality(known) + Cardinality(falsely)
              /\ SyncAnswers(row).blind => (C = {} /\ (mail # {} => Stalled(row)))
              /\ Stalled(row) => \A p \in mail : ~Within(f, CreatedAt[p])

(* "ownWithheld - ...and the filter then claimed it" (message_router.dart, *)
(* 1667).                                                                  *)
WithheldIsClaimed ==
  \A l \in Links : pending[l] # <<>> =>
    \A claimed \in Claims(Head(pending[l])) : \A C \in Answers(l, Head(pending[l]), claimed) :
      Answer(Head(pending[l]), C).ownWithheld <= Cardinality(claimed \cap ForAsker)

(* Every round asks about now: a packet newer than all the asker has seen  *)
(* can be asked for.                                                       *)
RoundsAskForTheNewest ==
  [][\A l \in Links : BuiltNow(l) =>
       \E f \in ToSet(round'[l].frames) : Within(f, now)]_vars
=============================================================================
