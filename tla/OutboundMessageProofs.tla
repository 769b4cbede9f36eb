------------------------ MODULE OutboundMessageProofs ------------------------
(***************************************************************************)
(* The index, the buffer and the status of an outgoing message agree, for  *)
(* any messages and any number of packets each, as long as no message is   *)
(* withdrawn while its own send is under way.                              *)
(***************************************************************************)
EXTENDS OutboundMessage, TLAPS

(* What the loop of m has not stored yet.                                  *)
Unwritten(m) ==
  IF loop[m].pc = "writing" THEN {<<m, i>> : i \in (loop[m].at + 1)..Fragments[m]} ELSE {}

LoopType == [pc : {"idle", "sealing", "writing"}, at : Nat, aired : BOOLEAN]

Types ==
  /\ status \in [Messages -> Statuses \cup {Absent}]
  /\ index \in [Messages -> SUBSET Packets]
  /\ buffered \subseteq stored /\ stored \subseteq Packets
  /\ loop \in [Messages -> LoopType]
  /\ \A m \in Messages : loop[m].pc = "writing" => loop[m].at \in 1..Fragments[m]

(* Of a message being sent exactly the packets up to the loop's place were *)
(* ever stored.                                                            *)
StoredSoFar(m) ==
  /\ loop[m].pc = "sealing" => PacketsOf(m) \cap stored = {}
  /\ loop[m].pc = "writing" => PacketsOf(m) \ stored = Unwritten(m)

(* The index also names what is still to be stored.                        *)
Mirrored(m) == index[m] = (buffered \cap PacketsOf(m)) \cup Unwritten(m)

Confirmed(m) ==
  status[m] \in {"delivered", "read"} =>
    PacketsOf(m) \subseteq stored /\ buffered \cap PacketsOf(m) = {}

(* What holds of one message.                                              *)
InStep(m) ==
  /\ StoredSoFar(m) /\ Mirrored(m) /\ Confirmed(m)
  /\ status[m] \in {"sent", "queued"} => PacketsOf(m) \subseteq stored

IInv == Types /\ arrived \subseteq stored /\ \A m \in Messages : InStep(m)
-----------------------------------------------------------------------------
(* Packets of different messages differ, and every message has one.        *)
LEMMA PacketsApart ==
  ASSUME NEW k \in Messages, NEW m \in Messages
  PROVE  /\ PacketsOf(m) \subseteq Packets /\ PacketsOf(m) # {}
         /\ \A i : <<m, i>> \in PacketsOf(m) <=> i \in 1..Fragments[m]
         /\ k # m => \A i : <<m, i>> \notin PacketsOf(k)
<1>1. Fragments[m] \in Nat \ {0}
  BY OutboundAssumption
<1>2. <<m, 1>> \in PacketsOf(m)
  BY <1>1 DEF PacketsOf
<1> QED  BY <1>1, <1>2 DEF PacketsOf, Packets

(* What a step leaves of one message keeps it in step.                     *)
LEMMA Untouched ==
  ASSUME NEW k \in Messages, InStep(k),
         loop'[k] = loop[k], index'[k] = index[k],
         buffered' \cap PacketsOf(k) = buffered \cap PacketsOf(k),
         stored' \cap PacketsOf(k) = stored \cap PacketsOf(k),
         status'[k] \in {status[k], Absent}
  PROVE  InStep(k)'
<1>1. Unwritten(k)' = Unwritten(k)
  BY DEF Unwritten
<1>2. PacketsOf(k) \ stored' = PacketsOf(k) \ stored
  OBVIOUS
<1>3. PacketsOf(k)' = PacketsOf(k)
  BY DEF PacketsOf
<1> QED
  BY <1>1, <1>2, <1>3 DEF InStep, StoredSoFar, Mirrored, Confirmed, Absent

(* A step whose record of m becomes one of S, and that only ever drops the *)
(* record of another message.                                              *)
Touches(m, S) ==
  /\ status' \in [Messages -> Statuses \cup {Absent}]
  /\ status'[m] \in S
  /\ \A k \in Messages \ {m} : status'[k] \in {status[k], Absent}

LEMMA ReducerTouches ==
  ASSUME Types, NEW m \in Messages
  PROVE  /\ \A to \in Statuses : Recorded(m, to) => Touches(m, {to, Absent})
         /\ MessageFailed(m) => Touches(m, {status[m], "failed"})
         /\ MessageQueued(m) => Touches(m, {status[m], "queued"})
         /\ MessageSent(m) => Touches(m, {status[m], "sent", Absent})
         /\ MessageDelivered(m) => Touches(m, {status[m], "delivered"})
         /\ MessageRead(m) => Touches(m, {status[m], "read"})
<1> USE DEF Types, Touches
<1>1. ASSUME NEW to \in Statuses, Recorded(m, to) PROVE Touches(m, {to, Absent})
  BY <1>1 DEF Recorded, Kept
<1>2. ASSUME NEW to \in Statuses, Becomes(m, to) PROVE Touches(m, {to})
  BY <1>2 DEF Becomes
<1>3. UNCHANGED status => Touches(m, {status[m]})
  OBVIOUS
<1>4. {"failed", "queued", "sent", "delivered", "read"} \subseteq Statuses
  BY DEF Statuses
<1> QED
  BY <1>1, <1>2, <1>3, <1>4
  DEF MessageFailed, MessageQueued, MessageSent, MessageDelivered, MessageRead
-----------------------------------------------------------------------------
LEMMA InitInv == Init => IInv
<1> SUFFICES ASSUME Init PROVE IInv
  OBVIOUS
<1>1. Types
  BY DEF Init, Types, LoopType, Idle, Step
<1>2. ASSUME NEW m \in Messages PROVE InStep(m)
  BY DEF Init, InStep, StoredSoFar, Mirrored, Confirmed, Unwritten, Idle, Step, Absent
<1> QED  BY <1>1, <1>2 DEF IInv, Init

(* Storing the next packet of m, which no step did before.                 *)
LEMMA StoringKeepsType ==
  ASSUME Types, NEW m \in Messages, NEW i \in 1..Fragments[m], NEW aired \in BOOLEAN,
         StoreThenWrite(m, i, aired),
         status' \in [Messages -> Statuses \cup {Absent}],
         index' \in [Messages -> SUBSET Packets]
  PROVE  Types'
<1>1. <<m, i>> \in Packets
  BY PacketsApart
<1>2. i \in Nat
  BY OutboundAssumption
<1>3. Step("writing", i, aired) \in LoopType
  BY <1>2 DEF Step, LoopType
<1>4. loop' \in [Messages -> LoopType]
  BY <1>3 DEF StoreThenWrite, Types
<1>5. \A k \in Messages : loop'[k].pc = "writing" => loop'[k].at \in 1..Fragments[k]
  BY DEF StoreThenWrite, Types, Step
<1> QED  BY <1>1, <1>4, <1>5 DEF StoreThenWrite, Types

LEMMA SendInv == ASSUME IInv, NEW m \in Messages, Send(m) PROVE IInv'
<1> USE DEF IInv
<1>1. PICK to \in {"sending", "failed"} : Recorded(m, to)
  BY DEF Send
<1>2. Touches(m, {to, Absent})
  BY <1>1, ReducerTouches DEF Statuses
<1>3. loop' \in [Messages -> LoopType] /\ loop'[m].pc # "writing"
      /\ \A k \in Messages \ {m} : loop'[k] = loop[k]
  <2>1. Step("sealing", 0, FALSE) \in LoopType
    BY DEF Step, LoopType
  <2>2. loop[m].pc = "idle"
    BY DEF Send, UnderWay
  <2>3. loop' = loop \/ loop' = [loop EXCEPT ![m] = Step("sealing", 0, FALSE)]
    BY DEF Send
  <2>4. Step("sealing", 0, FALSE).pc = "sealing"
    BY DEF Step
  <2> QED  BY <2>1, <2>2, <2>3, <2>4 DEF Types
<1>4. Types'
  BY <1>2, <1>3 DEF Send, Types, Touches
<1>5. ASSUME NEW k \in Messages PROVE InStep(k)'
  <2>1. CASE k # m
    BY <1>2, <1>3, <2>1, Untouched DEF Send, Touches
  <2>2. CASE k = m
    <3>1. PacketsOf(m) \cap stored = {} /\ Unwritten(m) = {} /\ Unwritten(m)' = {}
      BY <1>3 DEF Send, UnderWay, Unwritten
    <3>2. status'[m] \notin {"delivered", "read", "sent", "queued"}
      BY <1>2 DEF Touches, Absent
    <3>3. PacketsOf(m)' = PacketsOf(m)
      BY DEF PacketsOf
    <3> QED
      BY <1>3, <2>2, <3>1, <3>2, <3>3
      DEF Send, InStep, StoredSoFar, Mirrored, Confirmed
  <2> QED  BY <2>1, <2>2
<1> QED  BY <1>4, <1>5 DEF Send

LEMMA SealedInv == ASSUME IInv, NEW m \in Messages, Sealed(m) PROVE IInv'
<1> USE DEF IInv
<1>0. /\ loop[m].pc = "sealing" /\ PacketsOf(m) \cap stored = {}
      /\ PacketsOf(m)' = PacketsOf(m) /\ Fragments[m] \in Nat \ {0}
  BY OutboundAssumption DEF Sealed, InStep, StoredSoFar, PacketsOf
<1>1. CASE SessionRace(m)
  <2>1. Touches(m, {status[m], "failed"})
    BY <1>1, ReducerTouches DEF SessionRace
  <2>2. loop' = [loop EXCEPT ![m] = Idle] /\ Idle \in LoopType /\ Idle.pc = "idle"
    BY <1>1 DEF SessionRace, Idle, Step, LoopType
  <2>3. Types'
    BY <1>1, <2>1, <2>2 DEF SessionRace, Types, Touches
  <2>4. ASSUME NEW k \in Messages PROVE InStep(k)'
    <3>1. CASE k # m
      BY <1>1, <2>1, <2>2, <3>1, Untouched DEF SessionRace, Touches, Types
    <3>2. CASE k = m
      <4>1. loop'[m].pc = "idle"
        BY <2>2 DEF Types
      <4>2. Unwritten(m) = {} /\ Unwritten(m)' = {}
        BY <1>0, <4>1 DEF Unwritten
      <4>3. status'[m] \in {"delivered", "read", "sent", "queued"} => status'[m] = status[m]
        BY <2>1 DEF Touches
      <4> QED
        BY <1>0, <1>1, <3>2, <4>1, <4>2, <4>3
        DEF SessionRace, InStep, StoredSoFar, Mirrored, Confirmed
    <3> QED  BY <3>1, <3>2
  <2> QED  BY <1>1, <2>3, <2>4 DEF Sealed, SessionRace
<1>2. CASE session
  <2>0. /\ index' = [index EXCEPT ![m] = PacketsOf(m)]
        /\ StoreThenWrite(m, 1, FALSE)
        /\ UNCHANGED <<status, arrived>>
    BY <1>2 DEF Sealed, SessionRace
  <2>1. Types'
    <3>1. 1 \in 1..Fragments[m] /\ FALSE \in BOOLEAN
      BY <1>0
    <3>2. index' \in [Messages -> SUBSET Packets]
      BY <2>0, PacketsApart DEF Types
    <3>3. status' \in [Messages -> Statuses \cup {Absent}]
      BY <2>0 DEF Types
    <3> HIDE DEF IInv
    <3> QED  BY <2>0, <3>1, <3>2, <3>3, StoringKeepsType DEF IInv
  <2>2. ASSUME NEW k \in Messages PROVE InStep(k)'
    <3>1. CASE k # m
      <4>1. <<m, 1>> \notin PacketsOf(k)
        BY <3>1, PacketsApart
      <4> QED  BY <2>0, <3>1, <4>1, Untouched DEF StoreThenWrite, Types
    <3>2. CASE k = m
      <4>1. loop'[m] = Step("writing", 1, FALSE)
        BY <2>0 DEF StoreThenWrite, Types
      <4>2. Unwritten(m)' = {<<m, i>> : i \in 2..Fragments[m]}
        BY <4>1 DEF Unwritten, Step
      <4>3. /\ PacketsOf(m) = {<<m, 1>>} \cup {<<m, i>> : i \in 2..Fragments[m]}
            /\ <<m, 1>> \notin {<<m, i>> : i \in 2..Fragments[m]}
        BY <1>0 DEF PacketsOf
      <4>4. status[m] \notin {"delivered", "read", "sent", "queued"}
        BY <1>0, PacketsApart DEF InStep, Confirmed
      <4>5. stored' \cap PacketsOf(m) = {<<m, 1>>} /\ buffered' \cap PacketsOf(m) = {<<m, 1>>}
        BY <1>0, <2>0, <4>3 DEF StoreThenWrite, Types
      <4>6. index'[m] = PacketsOf(m) /\ loop'[m].pc = "writing"
        BY <2>0, <4>1 DEF Types, Step
      <4> QED
        BY <1>0, <2>0, <3>2, <4>2, <4>3, <4>4, <4>5, <4>6
        DEF InStep, StoredSoFar, Mirrored, Confirmed
    <3> QED  BY <3>1, <3>2
  <2> QED  BY <2>0, <2>1, <2>2 DEF StoreThenWrite
<1> QED  BY <1>1, <1>2 DEF Sealed, SessionRace

(* Releasing all packets of m, when its loop has none left to store.       *)
LEMMA ReleaseInv ==
  ASSUME IInv, NEW m \in Messages, _dropFromDtnBufferFor(m), Unwritten(m) = {},
         Touches(m, {status[m], "sent", "queued", "delivered", "read", Absent}),
         status'[m] \in {status[m], Absent} \/ PacketsOf(m) \subseteq stored,
         stored' = stored, arrived' \subseteq stored,
         loop' \in {loop, [loop EXCEPT ![m] = Idle]}
  PROVE  IInv'
<1> USE DEF IInv
<1>0. /\ loop' \in [Messages -> LoopType] /\ (loop'[m].pc = "idle" \/ loop'[m] = loop[m])
      /\ \A k \in Messages \ {m} : loop'[k] = loop[k]
      /\ \A k \in Messages : loop'[k].pc = "writing" => loop'[k] = loop[k]
  <2>1. Idle \in LoopType /\ Idle.pc = "idle"
    BY DEF LoopType, Idle, Step
  <2> QED  BY <2>1 DEF Types
<1>1. PacketsOf(m)' = PacketsOf(m) /\ Unwritten(m)' = {}
  BY <1>0 DEF PacketsOf, Unwritten
<1>2. index[m] = buffered \cap PacketsOf(m)
  BY DEF InStep, Mirrored
<1>3. ReleasedFor(m) \subseteq PacketsOf(m) /\ index[m] \subseteq ReleasedFor(m)
  BY <1>2 DEF ReleasedFor
<1>4. buffered' \cap PacketsOf(m) = {} /\ buffered' \subseteq buffered /\ index'[m] = {}
  BY <1>2, <1>3 DEF _dropFromDtnBufferFor, Types
<1>5. Types'
  BY <1>0, <1>4 DEF _dropFromDtnBufferFor, Types, Touches
<1>6. ASSUME NEW k \in Messages PROVE InStep(k)'
  <2>1. CASE k # m
    <3>1. PacketsOf(m) \cap PacketsOf(k) = {}
      BY <2>1, PacketsApart DEF PacketsOf
    <3>2. buffered' \cap PacketsOf(k) = buffered \cap PacketsOf(k)
      BY <1>3, <3>1 DEF _dropFromDtnBufferFor
    <3> QED
      BY <1>0, <2>1, <3>2, Untouched DEF _dropFromDtnBufferFor, Types, Touches
  <2>2. CASE k = m
    <3>1. StoredSoFar(m)'
      BY <1>0, <1>1 DEF InStep, StoredSoFar, Unwritten
    <3>2. status'[m] = Absent \/ status'[m] = status[m] \/ PacketsOf(m) \subseteq stored
      OBVIOUS
    <3> QED
      BY <1>1, <1>4, <2>2, <3>1, <3>2 DEF InStep, Mirrored, Confirmed, Absent
  <2> QED BY <2>1, <2>2
<1> QED  BY <1>5, <1>6

LEMMA WriteEndsInv == ASSUME IInv, NEW m \in Messages, WriteEnds(m) PROVE IInv'
<1> USE DEF IInv
<1>0. /\ loop[m].pc = "writing" /\ loop[m].at \in 1..Fragments[m]
      /\ PacketsOf(m)' = PacketsOf(m) /\ Fragments[m] \in Nat \ {0}
      /\ PacketsOf(m) \ stored = Unwritten(m) /\ loop[m].aired \in BOOLEAN
  BY OutboundAssumption
  DEF WriteEnds, InStep, StoredSoFar, PacketsOf, Types, LoopType
<1> DEFINE i == loop[m].at
           later == {<<m, j>> : j \in (i + 1)..Fragments[m]}
<1>1. Unwritten(m) = later /\ <<m, i>> \in PacketsOf(m) /\ <<m, i>> \in stored
  BY <1>0 DEF Unwritten, PacketsOf
<1>2. arrived' \subseteq arrived \cup {<<m, i>>}
  BY DEF WriteEnds
<1>3. PICK accepted \in BOOLEAN :
        IF i < Fragments[m]
        THEN StoreThenWrite(m, i + 1, loop[m].aired \/ accepted) /\ UNCHANGED <<status, index>>
        ELSE /\ loop' = [loop EXCEPT ![m] = Idle]
             /\ MessageSent(m) \/ MessageQueued(m)
             /\ _dropFromDtnBufferFor(m) \/ UNCHANGED <<buffered, index>>
             /\ UNCHANGED stored
  BY DEF WriteEnds
<1>4. CASE i < Fragments[m]
  <2>0. StoreThenWrite(m, i + 1, loop[m].aired \/ accepted) /\ UNCHANGED <<status, index>>
    BY <1>3, <1>4
  <2>1. Types'
    <3>1. i + 1 \in 1..Fragments[m] /\ (loop[m].aired \/ accepted) \in BOOLEAN
      BY <1>0, <1>4
    <3>2. /\ status' \in [Messages -> Statuses \cup {Absent}]
          /\ index' \in [Messages -> SUBSET Packets]
      BY <2>0 DEF Types
    <3> HIDE DEF IInv, i
    <3> QED  BY <2>0, <3>1, <3>2, StoringKeepsType DEF IInv
  <2>2. ASSUME NEW k \in Messages PROVE InStep(k)'
    <3>1. CASE k # m
      <4>1. <<m, i + 1>> \notin PacketsOf(k)
        BY <3>1, PacketsApart
      <4> QED  BY <2>0, <3>1, <4>1, Untouched DEF StoreThenWrite, Types
    <3>2. CASE k = m
      <4>1. loop'[m].pc = "writing" /\ loop'[m].at = i + 1
        BY <2>0 DEF StoreThenWrite, Types, Step
      <4>2. Unwritten(m)' = {<<m, j>> : j \in (i + 2)..Fragments[m]}
        BY <1>0, <4>1 DEF Unwritten
      <4>3. /\ later = {<<m, i + 1>>} \cup Unwritten(m)' /\ <<m, i + 1>> \notin Unwritten(m)'
            /\ Unwritten(m)' \subseteq PacketsOf(m) /\ <<m, i + 1>> \in PacketsOf(m)
        BY <1>0, <1>4, <4>2 DEF PacketsOf
      <4>4. status[m] \notin {"delivered", "read", "sent", "queued"}
        BY <1>0, <1>1, <4>3 DEF InStep, Confirmed
      <4>5. PacketsOf(m) \ stored' = Unwritten(m)'
        BY <1>0, <1>1, <2>0, <4>3 DEF StoreThenWrite
      <4>6. index'[m] = (buffered' \cap PacketsOf(m)) \cup Unwritten(m)'
        BY <1>1, <2>0, <4>3 DEF StoreThenWrite, InStep, Mirrored
      <4> QED
        BY <1>0, <2>0, <3>2, <4>1, <4>4, <4>5, <4>6
        DEF InStep, StoredSoFar, Mirrored, Confirmed
    <3> QED  BY <3>1, <3>2
  <2>3. arrived' \subseteq stored'
    BY <1>1, <1>2, <2>0 DEF StoreThenWrite
  <2> QED  BY <2>1, <2>2, <2>3
<1>5. CASE ~ (i < Fragments[m])
  <2>0. /\ loop' = [loop EXCEPT ![m] = Idle] /\ Idle \in LoopType /\ Idle.pc = "idle"
        /\ UNCHANGED stored
    BY <1>3, <1>5 DEF Idle, Step, LoopType
  <2>1. Touches(m, {status[m], "sent", "queued", Absent})
    BY <1>3, <1>5, ReducerTouches DEF Touches
  <2>2. later = {} /\ PacketsOf(m) \subseteq stored
    BY <1>0, <1>1, <1>5
  <2>3. arrived' \subseteq stored'
    BY <1>1, <1>2, <2>0
  <2>4. CASE _dropFromDtnBufferFor(m)
    <3>1. Touches(m, {status[m], "sent", "queued", "delivered", "read", Absent})
      BY <2>1 DEF Touches
    <3>2. Unwritten(m) = {}
      BY <1>1, <2>2
    <3> HIDE DEF IInv, i, later
    <3> QED  BY <2>0, <2>2, <2>3, <2>4, <3>1, <3>2, ReleaseInv
  <2>5. CASE UNCHANGED <<buffered, index>>
    <3>1. Types'
      BY <2>0, <2>1, <2>5 DEF Types, Touches
    <3>2. ASSUME NEW k \in Messages PROVE InStep(k)'
      <4>1. CASE k # m
        BY <2>0, <2>1, <2>5, <4>1, Untouched DEF Touches, Types
      <4>2. CASE k = m
        <5>1. loop'[m].pc = "idle"
          BY <2>0 DEF Types
        <5>2. Unwritten(m)' = {}
          BY <5>1 DEF Unwritten
        <5>3. status'[m] \in {"delivered", "read"} => status'[m] = status[m]
          BY <2>1 DEF Touches, Absent
        <5> QED
          BY <1>0, <1>1, <2>0, <2>2, <2>5, <4>2, <5>1, <5>2, <5>3
          DEF InStep, StoredSoFar, Mirrored, Confirmed
      <4> QED  BY <4>1, <4>2
    <3> QED  BY <2>3, <3>1, <3>2
  <2> QED  BY <1>3, <1>5, <2>4, <2>5
<1> QED  BY <1>4, <1>5

(* Once everything arrived, the loop has nothing left to store.            *)
LEMMA AllArrived ==
  ASSUME IInv, NEW m \in Messages, Confirmable(m)
  PROVE  PacketsOf(m) \subseteq stored /\ Unwritten(m) = {}
<1>1. PacketsOf(m) \subseteq stored
  BY DEF Confirmable, IInv
<1>2. loop[m].pc = "writing" => Unwritten(m) = {}
  BY <1>1 DEF IInv, InStep, StoredSoFar
<1> QED  BY <1>1, <1>2 DEF Unwritten

LEMMA ConfirmedInv ==
  ASSUME IInv, NEW m \in Messages, AckReceived(m) \/ ReadReceiptReceived(m)
  PROVE  IInv'
<1>1. Confirmable(m) /\ _dropFromDtnBufferFor(m) /\ UNCHANGED <<stored, arrived, loop>>
  BY DEF AckReceived, ReadReceiptReceived
<1>2. UNCHANGED status => Touches(m, {status[m], "delivered", "read"})
  BY DEF IInv, Types, Touches
<1>3. Touches(m, {status[m], "delivered", "read"})
  BY <1>2, ReducerTouches DEF AckReceived, ReadReceiptReceived, IInv, Touches
<1>4. Touches(m, {status[m], "sent", "queued", "delivered", "read", Absent}) /\ arrived' \subseteq stored
  BY <1>1, <1>3 DEF IInv, Touches
<1> QED  BY <1>1, <1>4, AllArrived, ReleaseInv

(* Only here it matters that no message is withdrawn in mid-send.          *)
LEMMA CancelInv ==
  ASSUME ~ CancelMidSend, IInv, NEW m \in Messages, CancelBufferedMessage(m)
  PROVE  IInv'
<1>1. _dropFromDtnBufferFor(m) /\ UNCHANGED <<status, stored, arrived, loop>>
  BY DEF CancelBufferedMessage
<1>2. loop[m].pc = "idle"
  BY DEF CancelBufferedMessage, UnderWay
<1>3. Unwritten(m) = {}
  BY <1>2 DEF Unwritten
<1>4. Touches(m, {status[m], "sent", "queued", "delivered", "read", Absent}) /\ arrived' \subseteq stored
  BY <1>1 DEF IInv, Types, Touches
<1> QED  BY <1>1, <1>3, <1>4, ReleaseInv

LEMMA ShedInv == ASSUME IInv, NEW p \in Packets, Shed(p) PROVE IInv'
<1> USE DEF IInv
<1>1. PICK m \in Messages : p \in PacketsOf(m)
  BY DEF Packets
<1>2. p[1] = m
  BY <1>1 DEF PacketsOf
<1>3. /\ p \in stored /\ buffered' = buffered \ {p}
      /\ index' = [index EXCEPT ![m] = @ \ {p}]
      /\ UNCHANGED <<status, stored, arrived, loop>>
  BY <1>2 DEF Shed, _forgetBufferedPacket, Types
<1>4. Types'
  BY <1>3 DEF Types
<1>5. p \notin Unwritten(m)
  <2>1. CASE loop[m].pc = "writing"
    BY <1>3, <2>1 DEF InStep, StoredSoFar
  <2> QED  BY <2>1 DEF Unwritten
<1>6. ASSUME NEW k \in Messages PROVE InStep(k)'
  <2>1. CASE k # m
    <3>1. p \notin PacketsOf(k)
      BY <1>1, <2>1, PacketsApart DEF PacketsOf
    <3> QED  BY <1>3, <2>1, <3>1, Untouched DEF Types
  <2>2. CASE k = m
    <3>1. PacketsOf(m)' = PacketsOf(m) /\ Unwritten(m)' = Unwritten(m)
      BY <1>3 DEF PacketsOf, Unwritten
    <3>2. index'[m] = index[m] \ {p}
      BY <1>3 DEF Types
    <3>3. Mirrored(m)'
      BY <1>3, <1>5, <3>1, <3>2 DEF InStep, Mirrored
    <3> QED
      BY <1>3, <2>2, <3>1, <3>3 DEF InStep, StoredSoFar, Confirmed
  <2> QED  BY <2>1, <2>2
<1> QED  BY <1>3, <1>4, <1>6

(* Nothing but the records of deleted messages changes.                    *)
LEMMA RecordsGoInv ==
  ASSUME IInv, UNCHANGED <<index, buffered, stored, loop>>,
         arrived' \subseteq stored,
         status' \in [Messages -> Statuses \cup {Absent}],
         \A k \in Messages : status'[k] \in {status[k], Absent}
  PROVE  IInv'
<1>1. Types'
  BY DEF IInv, Types
<1>2. \A k \in Messages : InStep(k)'
  BY Untouched DEF IInv
<1> QED  BY <1>1, <1>2 DEF IInv

LEMMA StepInv == ~ CancelMidSend /\ IInv /\ [Next]_vars => IInv'
<1> SUFFICES ASSUME ~ CancelMidSend, IInv, [Next]_vars PROVE IInv'
  OBVIOUS
<1>1. ASSUME NEW m \in Messages, Send(m) PROVE IInv'
  BY <1>1, SendInv
<1>2. ASSUME NEW m \in Messages, Sealed(m) PROVE IInv'
  BY <1>2, SealedInv
<1>3. ASSUME NEW m \in Messages, WriteEnds(m) PROVE IInv'
  BY <1>3, WriteEndsInv
<1>4. ASSUME NEW m \in Messages, AckReceived(m) \/ ReadReceiptReceived(m) PROVE IInv'
  BY <1>4, ConfirmedInv
<1>5. ASSUME NEW m \in Messages, CancelBufferedMessage(m) PROVE IInv'
  BY <1>5, CancelInv
<1>6. ASSUME NEW p \in Packets, Shed(p) PROVE IInv'
  BY <1>6, ShedInv
<1>7. ASSUME NEW p \in Packets, Conveyed(p) PROVE IInv'
  <2>1. arrived' \subseteq stored /\ UNCHANGED <<status, index, buffered, stored, loop>>
    BY <1>7 DEF Conveyed, IInv
  <2> QED  BY <2>1, RecordsGoInv DEF IInv, Types
<1>8. ASSUME DeleteConversation PROVE IInv'
  <2>1. /\ status' \in [Messages -> Statuses \cup {Absent}]
        /\ \A k \in Messages : status'[k] \in {status[k], Absent}
    BY <1>8 DEF DeleteConversation, Kept, IInv, Types
  <2>2. UNCHANGED <<index, buffered, stored, arrived, loop>>
    BY <1>8 DEF DeleteConversation
  <2>3. arrived' \subseteq stored
    BY <2>2 DEF IInv
  <2> QED  BY <2>1, <2>2, <2>3, RecordsGoInv
<1>9. ASSUME SessionChanges \/ UNCHANGED vars PROVE IInv'
  <2>1. UNCHANGED <<status, index, buffered, stored, arrived, loop>>
    BY <1>9 DEF SessionChanges, vars
  <2>2. arrived' \subseteq stored
    BY <2>1 DEF IInv
  <2> QED  BY <2>1, <2>2, RecordsGoInv DEF IInv, Types
<1> QED
  BY <1>1, <1>2, <1>3, <1>4, <1>5, <1>6, <1>7, <1>8, <1>9 DEF Next

LEMMA Inductive == ASSUME ~ CancelMidSend PROVE Spec => []IInv
<1>1. IInv /\ [Next]_vars => IInv'
  BY StepInv
<1> QED  BY <1>1, InitInv, PTL DEF Spec
-----------------------------------------------------------------------------
(* Once its send is over, the index entry of a message is exactly its      *)
(* packets in the buffer.                                                  *)
THEOREM IndexIsExact == ASSUME ~ CancelMidSend PROVE Spec => []IndexMirrorsBuffer
<1>1. IInv => IndexMirrorsBuffer
  <2> SUFFICES ASSUME IInv, NEW m \in Messages, ~ UnderWay(m)
               PROVE  index[m] = buffered \cap PacketsOf(m)
    BY DEF IndexMirrorsBuffer
  <2>1. Unwritten(m) = {}
    BY DEF UnderWay, Unwritten
  <2> QED  BY <2>1 DEF IInv, InStep, Mirrored
<1> QED  BY <1>1, Inductive, PTL

(* A message shown as delivered or read has left the buffer, whole.        *)
THEOREM ConfirmationEmpties == ASSUME ~ CancelMidSend PROVE Spec => []ConfirmedHoldsNothing
<1>1. IInv => ConfirmedHoldsNothing
  BY DEF ConfirmedHoldsNothing, IInv, InStep, Confirmed
<1> QED  BY <1>1, Inductive, PTL

(* What may be at the recipient was stored first, and what is shown as     *)
(* sent or queued was stored whole.                                        *)
THEOREM StoreComesFirst == ASSUME ~ CancelMidSend PROVE Spec => []StoredBeforeWritten
<1>1. IInv => StoredBeforeWritten
  BY DEF StoredBeforeWritten, IInv, InStep
<1> QED  BY <1>1, Inductive, PTL
-----------------------------------------------------------------------------
(* The status record, which no step but those of the reducer changes.      *)
StatusType == status \in [Messages -> Statuses \cup {Absent}]

Forward ==
  \A m \in Messages :
    /\ status[m] = "read" => status'[m] \in {"read", Absent}
    /\ status[m] = "delivered" => status'[m] \in {"delivered", "read", Absent}
    /\ status[m] = "failed" => status'[m] \in {"failed", "delivered", "read", Absent}

(* A record that becomes what its guard lets it become.                    *)
LEMMA MovingForward ==
  ASSUME StatusType, NEW m \in Messages
  PROVE  /\ \A to \in Statuses :
              status[m] = Absent /\ Recorded(m, to) => StatusType' /\ Forward
         /\ MessageFailed(m) => StatusType' /\ Forward
         /\ MessageQueued(m) => StatusType' /\ Forward
         /\ MessageSent(m) => StatusType' /\ Forward
         /\ MessageDelivered(m) => StatusType' /\ Forward
         /\ MessageRead(m) => StatusType' /\ Forward
<1> USE DEF StatusType
<1>1. ASSUME NEW to \in Statuses, status[m] = Absent, Recorded(m, to)
      PROVE  StatusType' /\ Forward
  BY <1>1 DEF Recorded, Kept, Forward, Absent
<1>2. ASSUME NEW to \in Statuses, Becomes(m, to),
             status[m] \in {"read", "delivered", "failed"} =>
               \/ to = "read"
               \/ to = "delivered" /\ status[m] # "read"
               \/ to = "failed" /\ status[m] = "failed"
      PROVE  StatusType' /\ Forward
  BY <1>2 DEF Becomes, Forward
<1>3. UNCHANGED status => StatusType' /\ Forward
  BY DEF Forward
<1>4. {"failed", "queued", "sent", "delivered", "read"} \subseteq Statuses
  BY DEF Statuses
<1>5. MessageFailed(m) \/ MessageQueued(m) => StatusType' /\ Forward
  BY <1>2, <1>3, <1>4 DEF MessageFailed, MessageQueued, _isTerminalForRegression
<1>6. MessageSent(m) => StatusType' /\ Forward
  BY <1>1, <1>2, <1>3, <1>4 DEF MessageSent, _isTerminalForRegression
<1>7. MessageDelivered(m) \/ MessageRead(m) => StatusType' /\ Forward
  BY <1>2, <1>3, <1>4 DEF MessageDelivered, MessageRead
<1> QED  BY <1>1, <1>5, <1>6, <1>7

LEMMA StepForward == StatusType /\ [Next]_vars => StatusType' /\ Forward
<1> SUFFICES ASSUME StatusType, [Next]_vars PROVE StatusType' /\ Forward
  OBVIOUS
<1>0. UNCHANGED status => StatusType' /\ Forward
  BY DEF StatusType, Forward
<1>1. ASSUME NEW m \in Messages, Send(m) PROVE StatusType' /\ Forward
  <2>1. PICK to \in Statuses : Recorded(m, to)
    BY <1>1 DEF Send, Statuses
  <2> QED  BY <1>1, <2>1, MovingForward DEF Send
<1>2. ASSUME NEW m \in Messages, Sealed(m) PROVE StatusType' /\ Forward
  BY <1>0, <1>2, MovingForward DEF Sealed, SessionRace
<1>3. ASSUME NEW m \in Messages, WriteEnds(m) PROVE StatusType' /\ Forward
  BY <1>0, <1>3, MovingForward DEF WriteEnds
<1>4. ASSUME NEW m \in Messages, AckReceived(m) \/ ReadReceiptReceived(m)
      PROVE  StatusType' /\ Forward
  BY <1>0, <1>4, MovingForward DEF AckReceived, ReadReceiptReceived
<1>5. ASSUME DeleteConversation PROVE StatusType' /\ Forward
  BY <1>5 DEF DeleteConversation, Kept, StatusType, Forward
<1>6. ASSUME \/ \E m \in Messages : CancelBufferedMessage(m)
             \/ \E p \in Packets : Shed(p) \/ Conveyed(p)
             \/ SessionChanges \/ UNCHANGED vars
      PROVE  UNCHANGED status
  BY <1>6 DEF CancelBufferedMessage, Shed, Conveyed, SessionChanges, vars
<1> QED
  BY <1>0, <1>1, <1>2, <1>3, <1>4, <1>5, <1>6 DEF Next

(* No step of any handler, in any order, shows less of a message than was  *)
(* known.                                                                  *)
THEOREM StatusOnlyAdvances == Spec => StatusNeverRegresses
<1>1. Init => StatusType
  BY DEF Init, StatusType
<1>2. StatusType /\ [Next]_vars => [Forward]_vars
  BY StepForward
<1>3. [][Forward]_vars => StatusNeverRegresses
  <2>1. [Forward]_vars => [\A m \in Messages :
       /\ status[m] = "read" => status'[m] \in {"read", Absent}
       /\ status[m] = "delivered" => status'[m] \in {"delivered", "read", Absent}
       /\ status[m] = "failed" =>
            status'[m] \in {"failed", "delivered", "read", Absent}]_vars
    BY DEF Forward
  <2> QED  BY <2>1, PTL DEF StatusNeverRegresses
<1> QED  BY <1>1, <1>2, <1>3, StepForward, PTL DEF Spec
=============================================================================
