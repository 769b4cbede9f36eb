------------------------- MODULE MeshDeliveryProofs -------------------------
(***************************************************************************)
(* The mesh keeps Mailbox, for any nodes, links, messages, ages and        *)
(* faults.  First, nothing is confirmed that was not handed over, and      *)
(* nothing handed over that was not sent; the argument is where a packet   *)
(* can come from: data packets from Send, an ACK from HandOver, every      *)
(* other copy from a copy.  Then, while the nonce windows hold, nothing is *)
(* handed over twice.                                                      *)
(***************************************************************************)
EXTENDS MeshDelivery, TLAPS

Vias == {"ble", "udx"}

Shapes ==
  /\ sent \subseteq Messages /\ inbox \in [Messages -> Nat]
  /\ DOMAIN held = Nodes /\ \A x \in air : x.link \in Links
  /\ opening \in [Packets \X Vias -> Nat]

(* The sender believes only what happened.                                 *)
NoFalseBelief ==
  /\ \A m \in confirmed : m \in Messages /\ inbox[m] > 0
  /\ \A m \in Messages : inbox[m] > 0 => m \in sent

(* The message of a packet that is about was sent; of an ACK, delivered.   *)
Vouched(p) == p \in Packets /\ p[1] \in sent /\ (IsAck(p) => inbox[p[1]] > 0)

HeldVouched == \A n \in Nodes : \A e \in held[n] : Vouched(e.packet)
AirVouched == \A x \in air : Vouched(x.packet)
OpeningVouched == \A p \in Packets, via \in Vias : opening[<<p, via>>] > 0 => Vouched(p)

IInv == Shapes /\ NoFalseBelief /\ HeldVouched /\ AirVouched /\ OpeningVouched
-----------------------------------------------------------------------------
LEMMA PacketShape ==
  /\ \A p \in Packets : p[1] \in Messages
  /\ \A m \in Messages : /\ AckOf(m) \in Packets /\ AckOf(m)[1] = m
                         /\ \A p \in DataOf(m) : p \in Packets /\ ~ IsAck(p) /\ p[1] = m
<1>1. ASSUME NEW m \in Messages
      PROVE  /\ AckOf(m) \in Packets /\ AckOf(m)[1] = m
             /\ \A p \in DataOf(m) : p \in Packets /\ ~ IsAck(p) /\ p[1] = m
  <2>1. AckOf(m) \in Packets /\ AckOf(m)[1] = m
    BY DEF AckOf, Packets
  <2>2. ASSUME NEW p \in DataOf(m) PROVE p \in Packets /\ ~ IsAck(p) /\ p[1] = m
    <3>1. p \in Packets
      BY DEF Packets
    <3>2. PICK i \in 1..Fragments[m] : p = <<m, i>>
      BY DEF DataOf
    <3>3. i # 0
      BY MeshAssumption
    <3> QED  BY <3>1, <3>2, <3>3 DEF IsAck
  <2> QED  BY <2>1, <2>2
<1>2. ASSUME NEW p \in Packets PROVE p[1] \in Messages
  <2>1. PICK m \in Messages : p \in DataOf(m) \cup {AckOf(m)}
    BY DEF Packets
  <2> QED  BY <1>1, <2>1
<1> QED  BY <1>1, <1>2

LEMMA OwnData == \A p \in Packets : ~ IsAck(p) => p \in DataOf(p[1])
<1> SUFFICES ASSUME NEW p \in Packets, ~ IsAck(p) PROVE p \in DataOf(p[1])
  OBVIOUS
<1>1. PICK m \in Messages : p \in DataOf(m) \cup {AckOf(m)}
  BY DEF Packets
<1>2. p # AckOf(m)
  BY DEF AckOf, IsAck
<1> QED  BY <1>1, <1>2, PacketShape

LEMMA PacketEnds == \A p \in Packets : Source(p) \in Nodes /\ Target(p) \in Nodes
  BY PacketShape, MeshAssumption DEF Source, Target

LEMMA InitInv == Init => IInv
<1> SUFFICES ASSUME Init PROVE IInv
  OBVIOUS
<1>1. Shapes
  BY DEF Init, Shapes, Vias
<1>2. NoFalseBelief
  BY DEF Init, NoFalseBelief
<1>3. HeldVouched /\ AirVouched
  BY DEF Init, HeldVouched, AirVouched
<1>4. OpeningVouched
  BY DEF Init, OpeningVouched, Vias
<1> QED  BY <1>1, <1>2, <1>3, <1>4 DEF IInv

(* What is vouched for stays so: nothing is unsent or taken back.          *)
LEMMA VouchedStays ==
  ASSUME sent \subseteq sent', \A m \in Messages : inbox[m] > 0 => inbox'[m] > 0,
         NEW p, Vouched(p)
  PROVE  Vouched(p)'
<1>1. p \in Packets' /\ p[1] \in sent'
  BY DEF Vouched, Packets, DataOf, AckOf
<1>2. IsAck(p)' => inbox'[p[1]] > 0
  BY PacketShape DEF Vouched, IsAck
<1> QED  BY <1>1, <1>2 DEF Vouched

(* What a node holds once it holds its own packets ps.                     *)
LEMMA HoldingAdds ==
  ASSUME Shapes, NEW n \in Nodes, NEW ps, Holding(n, ps)
  PROVE  /\ DOMAIN held' = Nodes
         /\ \A k \in Nodes : \A e \in held'[k] : e \in held[k] \/ e.packet \in ps
<1>1. held' = [held EXCEPT ![n] = @ \cup {Entry(p, Ttl) : p \in ps \ PacketsIn(@)}]
  BY DEF Holding
<1>2. \A e \in {Entry(p, Ttl) : p \in ps \ PacketsIn(held[n])} : e.packet \in ps
  BY DEF Entry
<1> QED  BY <1>1, <1>2 DEF Shapes

(* What direct writes of ps put on the air.                                *)
LEMMA DirectWritesAdd ==
  ASSUME NEW ps, NEW from, NEW to, NEW written \in DirectWrites(ps, from, to)
  PROVE  \A x \in written : x.packet \in ps /\ x.link \in Links
  BY DEF DirectWrites, Copy

(* A step under which no packet appears that is not vouched for.           *)
LEMMA NothingForged ==
  ASSUME IInv, Shapes', NoFalseBelief', sent \subseteq sent',
         \A m \in Messages : inbox[m] > 0 => inbox'[m] > 0,
         \A n \in Nodes : \A e \in held'[n] : Vouched(e.packet) \/ Vouched(e.packet)',
         \A x \in air' : Vouched(x.packet) \/ Vouched(x.packet)',
         \A p \in Packets, via \in Vias : opening'[<<p, via>>] > 0 => Vouched(p)
  PROVE  IInv'
<1>1. Packets' = Packets /\ Vias' = Vias
  BY DEF Packets, DataOf, AckOf, Vias
<1>2. \A p : Vouched(p) => Vouched(p)'
  BY VouchedStays
<1>3. HeldVouched' /\ AirVouched'
  BY <1>2 DEF HeldVouched, AirVouched
<1>4. OpeningVouched'
  BY <1>1, <1>2 DEF OpeningVouched
<1> QED  BY <1>3, <1>4 DEF IInv

(* A step that moves copies, and hands nothing over.                       *)
LEMMA Moved ==
  ASSUME IInv, UNCHANGED <<inbox, confirmed>>, sent \subseteq sent', sent' \subseteq Messages,
         DOMAIN held' = Nodes, opening' \in [Packets \X Vias -> Nat],
         \A n \in Nodes : \A e \in held'[n] : Vouched(e.packet) \/ Vouched(e.packet)',
         \A x \in air' : x.link \in Links /\ (Vouched(x.packet) \/ Vouched(x.packet)'),
         \A p \in Packets, via \in Vias : opening'[<<p, via>>] > 0 => Vouched(p)
  PROVE  IInv'
<1>1. Packets' = Packets /\ Vias' = Vias
  BY DEF Packets, DataOf, AckOf, Vias
<1>2. Shapes' /\ NoFalseBelief'
  BY <1>1 DEF IInv, Shapes, NoFalseBelief
<1> QED  BY <1>2, NothingForged

LEMMA SendInv == ASSUME IInv, NEW m \in Messages, Send(m) PROVE IInv'
<1>1. /\ UNCHANGED <<inbox, confirmed, opening>>
      /\ sent' = sent \cup {m} /\ sent' \subseteq Messages
  BY DEF Send, IInv, Shapes
<1>2. \A p \in DataOf(m) : Vouched(p)'
  <2>1. Packets' = Packets
    BY DEF Packets, DataOf, AckOf
  <2> QED  BY <1>1, <2>1, PacketShape DEF Vouched, IsAck
<1>3. /\ DOMAIN held' = Nodes
      /\ \A k \in Nodes : \A e \in held'[k] : e \in held[k] \/ e.packet \in DataOf(m)
  <2>1. Shapes /\ From[m] \in Nodes /\ Holding(From[m], DataOf(m))
    BY MeshAssumption DEF Send, IInv
  <2> QED  BY <2>1, HoldingAdds
<1>4. \A n \in Nodes : \A e \in held'[n] : Vouched(e.packet) \/ Vouched(e.packet)'
  BY <1>2, <1>3 DEF IInv, HeldVouched
<1>5. \A x \in air' : x.link \in Links /\ (Vouched(x.packet) \/ Vouched(x.packet)')
  <2>1. PICK written \in DirectWrites(DataOf(m), From[m], To[m]) : air' = air \cup written
    BY DEF Send
  <2>2. \A x \in written : x.packet \in DataOf(m) /\ x.link \in Links
    BY DirectWritesAdd
  <2> QED  BY <1>2, <2>1, <2>2 DEF IInv, Shapes, AirVouched
<1>6. /\ opening' \in [Packets \X Vias -> Nat]
      /\ \A p \in Packets, via \in Vias : opening'[<<p, via>>] > 0 => Vouched(p)
  BY <1>1 DEF IInv, Shapes, OpeningVouched
<1> QED  BY <1>1, <1>3, <1>4, <1>5, <1>6, Moved

LEMMA ConveyInv == ASSUME IInv, NEW l \in Links, Convey(l) PROVE IInv'
<1>1. PICK e \in held[l.from] :
        /\ air' = air \cup {Copy(e.packet, e.ttl, l)}
        /\ UNCHANGED <<sent, held, inbox, confirmed, opening>>
  BY DEF Convey
<1>2. l.from \in Nodes
  BY MeshAssumption
<1>3. Vouched(e.packet)
  BY <1>2 DEF IInv, HeldVouched
<1>4. \A x \in air' : x.link \in Links /\ (Vouched(x.packet) \/ Vouched(x.packet)')
  BY <1>1, <1>3 DEF IInv, Shapes, AirVouched, Copy
<1>5. /\ \A n \in Nodes : \A f \in held'[n] : Vouched(f.packet) \/ Vouched(f.packet)'
      /\ \A p \in Packets, via \in Vias : opening'[<<p, via>>] > 0 => Vouched(p)
  BY <1>1 DEF IInv, HeldVouched, OpeningVouched
<1>6. /\ sent \subseteq sent' /\ sent' \subseteq Messages /\ DOMAIN held' = Nodes
      /\ opening' \in [Packets \X Vias -> Nat] /\ UNCHANGED <<inbox, confirmed>>
  BY <1>1 DEF IInv, Shapes
<1> QED  BY <1>4, <1>5, <1>6, Moved

(* Fewer entries, fewer copies, fewer decryptions: the steps that drop.    *)
LEMMA DroppingIsSafe ==
  ASSUME IInv, UNCHANGED <<sent, inbox, confirmed>>, air' \subseteq air,
         DOMAIN held' = Nodes, \A n \in Nodes : held'[n] \subseteq held[n],
         opening' \in [Packets \X Vias -> Nat],
         \A o \in Packets \X Vias : opening'[o] > 0 => opening[o] > 0
  PROVE  IInv'
<1>1. \A n \in Nodes : \A e \in held'[n] : Vouched(e.packet) \/ Vouched(e.packet)'
  BY DEF IInv, HeldVouched
<1>2. \A x \in air' : x.link \in Links /\ (Vouched(x.packet) \/ Vouched(x.packet)')
  BY DEF IInv, Shapes, AirVouched
<1>3. \A p \in Packets, via \in Vias : opening'[<<p, via>>] > 0 => Vouched(p)
  BY DEF IInv, OpeningVouched
<1>4. sent \subseteq sent' /\ sent' \subseteq Messages
  BY DEF IInv, Shapes
<1> QED  BY <1>1, <1>2, <1>3, <1>4, Moved

LEMMA ArriveInv == ASSUME IInv, NEW x \in air, Arrive(x) PROVE IInv'
<1> DEFINE n == x.link.to
           p == x.packet
<1>1. n \in Nodes /\ Vouched(p) /\ p \in Packets
  BY MeshAssumption DEF IInv, Shapes, AirVouched, Vouched
<1>2. UNCHANGED <<sent, inbox, confirmed>> /\ air' \subseteq air
  BY DEF Arrive
<1>3. /\ DOMAIN held' = Nodes
      /\ \A k \in Nodes : \A e \in held'[k] : e \in held[k] \/ e.packet = p
  <2>1. held' = held \/ held' = [held EXCEPT ![n] = @ \cup {Entry(p, x.ttl - 1)}]
    BY DEF Arrive
  <2>2. Entry(p, x.ttl - 1).packet = p
    BY DEF Entry
  <2> QED  BY <2>1, <2>2 DEF IInv, Shapes
<1>4. opening' = opening \/ opening' = [opening EXCEPT ![<<p, x.link.via>>] = @ + 1]
  BY DEF Arrive
<1>5. <<p, x.link.via>> \in Packets \X Vias
  BY <1>1, MeshAssumption DEF IInv, Shapes, Vias
<1>6. opening' \in [Packets \X Vias -> Nat]
  BY <1>4, <1>5 DEF IInv, Shapes
<1>7. \A q \in Packets, via \in Vias : opening'[<<q, via>>] > 0 => Vouched(q)
  <2> SUFFICES ASSUME NEW q \in Packets, NEW via \in Vias, opening'[<<q, via>>] > 0, q # p
               PROVE  Vouched(q)
    BY <1>1
  <2>1. opening'[<<q, via>>] = opening[<<q, via>>]
    BY <1>4, <1>5 DEF IInv, Shapes
  <2> QED  BY <2>1 DEF IInv, OpeningVouched
<1>8. \A k \in Nodes : \A e \in held'[k] : Vouched(e.packet) \/ Vouched(e.packet)'
  BY <1>1, <1>3 DEF IInv, HeldVouched
<1>9. \A y \in air' : y.link \in Links /\ (Vouched(y.packet) \/ Vouched(y.packet)')
  BY <1>2 DEF IInv, Shapes, AirVouched
<1>10. sent \subseteq sent' /\ sent' \subseteq Messages
  BY <1>2 DEF IInv, Shapes
<1> QED  BY <1>2, <1>3, <1>6, <1>7, <1>8, <1>9, <1>10, Moved

(* What a decryption that ends has to hand on.                             *)
LEMMA Decrypted ==
  ASSUME IInv, NEW p \in Packets, NEW via \in Vias, Opened(p, via)
  PROVE  /\ Vouched(p) /\ p[1] \in Messages /\ UNCHANGED sent
         /\ opening' \in [Packets \X Vias -> Nat]
         /\ \A q \in Packets, w \in Vias : opening'[<<q, w>>] > 0 => Vouched(q)
<1>1. /\ opening[<<p, via>>] > 0 /\ UNCHANGED sent
      /\ opening' = [opening EXCEPT ![<<p, via>>] = @ - 1]
  BY DEF Opened
<1>2. Vouched(p)
  BY <1>1 DEF IInv, OpeningVouched
<1>3. <<p, via>> \in Packets \X Vias /\ opening \in [Packets \X Vias -> Nat]
  BY DEF IInv, Shapes
<1>4. opening' \in [Packets \X Vias -> Nat]
  BY <1>1, <1>3
<1>5. \A o \in Packets \X Vias : opening'[o] > 0 => opening[o] > 0
  BY <1>1, <1>3
<1>6. \A q \in Packets, w \in Vias : opening'[<<q, w>>] > 0 => Vouched(q)
  BY <1>5 DEF IInv, OpeningVouched
<1> QED  BY <1>1, <1>2, <1>4, <1>6, PacketShape

LEMMA OpenAckInv ==
  ASSUME IInv, NEW p \in Packets, NEW via \in Vias, Opened(p, via), IsAck(p)
  PROVE  IInv'
<1>1. /\ confirmed' = confirmed \cup {p[1]} /\ UNCHANGED <<inbox, air>>
      /\ held' = [held EXCEPT ![From[p[1]]] = {e \in @ : e.packet \notin DataOf(p[1])}]
  BY DEF Opened, OpenAck
<1>2. inbox[p[1]] > 0 /\ p[1] \in Messages /\ UNCHANGED sent
  BY Decrypted DEF Vouched
<1>3. Packets' = Packets /\ Vias' = Vias
  BY DEF Packets, DataOf, AckOf, Vias
<1>4. Shapes' /\ NoFalseBelief'
  BY <1>1, <1>2, <1>3, Decrypted DEF IInv, Shapes, NoFalseBelief
<1>5. \A n \in Nodes : \A e \in held'[n] : Vouched(e.packet)
  BY <1>1 DEF IInv, Shapes, HeldVouched
<1>6. \A x \in air' : Vouched(x.packet)
  BY <1>1 DEF IInv, AirVouched
<1> QED  BY <1>1, <1>2, <1>4, <1>5, <1>6, Decrypted, NothingForged

(* A message handed over had been sent, and its ACK is vouched for.        *)
LEMMA HandOverInv ==
  ASSUME IInv, NEW p \in Packets, NEW via \in Vias, Opened(p, via),
         HandOver(p[1], via), UNCHANGED confirmed
  PROVE  IInv'
<1> DEFINE m == p[1]
<1>1. m \in sent /\ m \in Messages /\ UNCHANGED sent
  BY Decrypted DEF Vouched
<1>2. inbox' = [inbox EXCEPT ![m] = @ + 1] /\ inbox \in [Messages -> Nat]
  BY DEF HandOver, IInv, Shapes
<1>3. /\ inbox' \in [Messages -> Nat] /\ inbox'[m] > 0
      /\ \A k \in Messages : k # m => inbox'[k] = inbox[k]
      /\ \A k \in Messages : inbox[k] > 0 => inbox'[k] > 0
  BY <1>1, <1>2
<1>4. Vouched(AckOf(m))'
  <2>1. Packets' = Packets
    BY DEF Packets, DataOf, AckOf
  <2>2. AckOf(m) \in Packets /\ AckOf(m)[1] = m
    BY <1>1, PacketShape
  <2> HIDE DEF m
  <2>3. AckOf(m)' = AckOf(m)
    BY DEF AckOf, m
  <2> QED  BY <1>1, <1>3, <2>1, <2>2, <2>3 DEF Vouched
<1>5. /\ DOMAIN held' = Nodes
      /\ \A k \in Nodes : \A e \in held'[k] : e \in held[k] \/ e.packet = AckOf(m)
  <2>1. CASE via = "ble" /\ Holding(To[m], {AckOf(m)})
    BY <1>1, <2>1, HoldingAdds, MeshAssumption DEF IInv
  <2>2. CASE UNCHANGED held
    BY <2>2 DEF IInv, Shapes
  <2> QED  BY <2>1, <2>2 DEF HandOver
<1>6. \A x \in air' : x \in air \/ (x.packet = AckOf(m) /\ x.link \in Links)
  <2>1. CASE \E written \in DirectWrites({AckOf(m)}, To[m], From[m]) : air' = air \cup written
    BY <2>1, DirectWritesAdd
  <2>2. CASE air' = air \cup {Copy(AckOf(m), Ttl, l) : l \in
               {k \in Links : k.from = To[m] /\ k.to = From[m] /\ k.via = "udx"}}
    BY <2>2 DEF Copy
  <2> QED  BY <2>1, <2>2 DEF HandOver
<1>7. Shapes'
  <2>1. Packets' = Packets /\ Vias' = Vias
    BY DEF Packets, DataOf, AckOf, Vias
  <2> QED  BY <1>1, <1>3, <1>5, <1>6, <2>1, Decrypted DEF IInv, Shapes
<1>8. NoFalseBelief'
  BY <1>1, <1>3 DEF IInv, NoFalseBelief
<1>9. /\ \A n \in Nodes : \A e \in held'[n] : Vouched(e.packet) \/ Vouched(e.packet)'
      /\ \A x \in air' : Vouched(x.packet) \/ Vouched(x.packet)'
  BY <1>4, <1>5, <1>6 DEF IInv, HeldVouched, AirVouched
<1> QED  BY <1>1, <1>3, <1>7, <1>8, <1>9, Decrypted, NothingForged

LEMMA OpenedInv ==
  ASSUME IInv, NEW p \in Packets, NEW via \in Vias, Opened(p, via)
  PROVE  IInv'
<1>1. CASE IsAck(p)
  BY <1>1, OpenAckInv
<1>2. CASE ~ IsAck(p) /\ HandOver(p[1], via)
  BY <1>2, HandOverInv DEF Opened, OpenData
<1>3. CASE UNCHANGED <<held, air, inbox, confirmed>>
  <2>1. /\ \A n \in Nodes : \A e \in held'[n] : Vouched(e.packet)
        /\ \A x \in air' : x.link \in Links /\ Vouched(x.packet)
    BY <1>3 DEF IInv, Shapes, HeldVouched, AirVouched
  <2>2. sent \subseteq sent' /\ sent' \subseteq Messages /\ DOMAIN held' = Nodes
    BY <1>3, Decrypted DEF IInv, Shapes
  <2> QED  BY <1>3, <2>1, <2>2, Decrypted, Moved
<1>4. ~ IsAck(p) => \/ HandOver(p[1], via)
                    \/ UNCHANGED <<held, air, inbox, confirmed>>
  BY DEF Opened, OpenData
<1> QED  BY <1>1, <1>2, <1>3, <1>4

LEMMA StepInv == IInv /\ [Next]_vars => IInv'
<1> SUFFICES ASSUME IInv, [Next]_vars PROVE IInv'
  OBVIOUS
<1>1. ASSUME NEW m \in Messages, Send(m) PROVE IInv'
  BY <1>1, SendInv
<1>2. ASSUME NEW l \in Links, Convey(l) PROVE IInv'
  BY <1>2, ConveyInv
<1>3. ASSUME NEW l \in Links, Retire(l) PROVE IInv'
  <2>1. /\ UNCHANGED <<sent, inbox, confirmed, air, opening>> /\ DOMAIN held' = Nodes
        /\ \A n \in Nodes : held'[n] \subseteq held[n]
    BY <1>3 DEF Retire, IInv, Shapes
  <2> QED  BY <2>1, DroppingIsSafe DEF IInv, Shapes
<1>4. ASSUME NEW x \in air, Arrive(x) PROVE IInv'
  BY <1>4, ArriveInv
<1>5. ASSUME NEW p \in Packets, NEW via \in Vias, Opened(p, via) PROVE IInv'
  BY <1>5, OpenedInv
<1>6. CASE Tick
  <2>1. /\ UNCHANGED <<sent, inbox, confirmed, air, opening>> /\ DOMAIN held' = Nodes
        /\ \A n \in Nodes : held'[n] \subseteq held[n]
    BY <1>6 DEF Tick
  <2> QED  BY <2>1, DroppingIsSafe DEF IInv, Shapes
<1>7. ASSUME NEW x \in air, Lose(x) PROVE IInv'
  <2>1. UNCHANGED <<sent, held, inbox, confirmed, opening>> /\ air' \subseteq air
    BY <1>7 DEF Lose
  <2> QED  BY <2>1, DroppingIsSafe DEF IInv, Shapes
<1>8. ASSUME NEW n \in Nodes, Evict(n) PROVE IInv'
  <2>1. /\ UNCHANGED <<sent, inbox, confirmed, air, opening>> /\ DOMAIN held' = Nodes
        /\ \A k \in Nodes : held'[k] \subseteq held[k]
    BY <1>8 DEF Evict, IInv, Shapes
  <2> QED  BY <2>1, DroppingIsSafe DEF IInv, Shapes
<1>9. ASSUME NEW n \in Nodes, Restart(n) PROVE IInv'
  <2>1. /\ UNCHANGED <<sent, inbox, confirmed, air>> /\ DOMAIN held' = Nodes
        /\ \A k \in Nodes : held'[k] \subseteq held[k]
    BY <1>9 DEF Restart, IInv, Shapes
  <2>2. opening' = [o \in DOMAIN opening |-> IF Target(o[1]) = n THEN 0 ELSE opening[o]]
    BY <1>9 DEF Restart
  <2>3. /\ opening' \in [Packets \X Vias -> Nat]
        /\ \A o \in Packets \X Vias : opening'[o] > 0 => opening[o] > 0
    BY <2>2 DEF IInv, Shapes
  <2> QED  BY <2>1, <2>3, DroppingIsSafe
<1>10. CASE UNCHANGED vars
  BY <1>10, DroppingIsSafe DEF vars, IInv, Shapes
<1> QED  BY <1>1, <1>2, <1>3, <1>4, <1>5, <1>6, <1>7, <1>8, <1>9, <1>10
         DEF Next, Progress, Vias

(* A sender never shows a message as delivered that was not handed to its  *)
(* recipient's application, and nothing is handed over that was not sent:  *)
(* however copies cross, are lost or restarts fall                         *)
(* (message_router.dart, 784-845).                                         *)
THEOREM BeliefIsTrue == Spec => []NoFalseBelief
<1>1. IInv => NoFalseBelief
  BY DEF IInv
<1> QED  BY <1>1, InitInv, StepInv, PTL DEF Spec

-----------------------------------------------------------------------------
(* At most once.  What a message was put together from can not be opened   *)
(* again while the session remembers the nonces, or is gone; and what was  *)
(* being opened at that time meets the note that it was delivered.         *)

(* No session has had as many packets opened as it remembers nonces.       *)
WindowHolds == \A n, s \in Nodes : Len(opened[n][s].order) < NonceWindow

Nonces == [known : SUBSET Packets, order : Seq(Packets)]
Spent(m) == opened[To[m]][From[m]].known \cup dead
Gathered(m) == parts[m].got \subseteq Spent(m) \cap DataOf(m) /\ (parts[m].got # {} => m \in sent)
Finished(m) == inbox[m] > 0 => inbox[m] = 1 /\ DataOf(m) \subseteq Spent(m)
Pending(m) == \E p \in DataOf(m), via \in Vias : opening[<<p, via>>] > 0
Remembered(m) == inbox[m] > 0 /\ Pending(m) => delivered[m] # Never

Tables ==
  /\ now \in 0..MaxNow
  /\ opened \in [Nodes -> [Nodes -> Nonces]]
  /\ DOMAIN parts = Messages /\ DOMAIN delivered = Messages
OnceInv ==
  /\ Tables
  /\ \A m \in Messages : Gathered(m) /\ Finished(m) /\ Remembered(m)

LEMMA SamePackets ==
  /\ Packets' = Packets /\ Vias' = Vias
  /\ \A m : DataOf(m)' = DataOf(m)
  BY DEF Packets, DataOf, AckOf, Vias

LEMMA InitOnce == Init => OnceInv
<1> SUFFICES ASSUME Init PROVE OnceInv
  OBVIOUS
<1>1. NoNonces \in Nonces
  BY DEF NoNonces, Nonces
<1>2. Tables
  BY <1>1, MeshAssumption DEF Init, Tables
<1>3. ASSUME NEW m \in Messages PROVE Gathered(m) /\ Finished(m) /\ Remembered(m)
  BY DEF Init, Gathered, Finished, Remembered, NoParts
<1> QED  BY <1>2, <1>3 DEF OnceInv

(* A step that notes nothing and hands nothing over keeps it if what can   *)
(* be opened, or is gathered, grows only by what can not be opened.        *)
LEMMA QuietIsOnce ==
  ASSUME OnceInv, UNCHANGED <<inbox, opened, parts, delivered, now>>,
         sent \subseteq sent', dead \subseteq dead',
         \A p \in Packets, via \in Vias : opening'[<<p, via>>] > 0 =>
           opening[<<p, via>>] > 0 \/ (~ IsAck(p) => p \notin Spent(p[1]))
  PROVE  OnceInv'
<1>1. Tables'
  BY SamePackets DEF OnceInv, Tables, Nonces
<1>2. ASSUME NEW m \in Messages PROVE Gathered(m)' /\ Finished(m)' /\ Remembered(m)'
  <2>1. Spent(m) \subseteq Spent(m)'
    BY DEF Spent
  <2>2. Gathered(m)' /\ Finished(m)'
    BY <2>1, SamePackets DEF OnceInv, Gathered, Finished
  <2>3. Pending(m)' /\ inbox[m] > 0 => Pending(m)
    <3> SUFFICES ASSUME inbox[m] > 0, NEW p \in DataOf(m), NEW via \in Vias, opening'[<<p, via>>] > 0
                 PROVE  opening[<<p, via>>] > 0
      BY SamePackets DEF Pending
    <3>1. p \in Packets /\ ~ IsAck(p) /\ p[1] = m
      BY PacketShape
    <3>2. p \in Spent(m)
      BY DEF OnceInv, Finished
    <3> QED  BY <3>1, <3>2
  <2> QED  BY <2>2, <2>3 DEF OnceInv, Remembered
<1> QED  BY <1>1, <1>2 DEF OnceInv

LEMMA ArriveOnce == ASSUME IInv, OnceInv, NEW x \in air, Arrive(x) PROVE OnceInv'
<1> DEFINE n == x.link.to
           p == x.packet
<1>1. p \in Packets /\ <<p, x.link.via>> \in Packets \X Vias
  BY MeshAssumption DEF IInv, Shapes, AirVouched, Vouched, Vias
<1>2. UNCHANGED <<sent, inbox, opened, parts, delivered, now, dead>>
  BY DEF Arrive
<1>3. \/ opening' = opening
      \/ /\ opening' = [opening EXCEPT ![<<p, x.link.via>>] = @ + 1]
         /\ n = Target(p) /\ Readable(n, p)
  BY DEF Arrive
<1>4. ASSUME n = Target(p), Readable(n, p), ~ IsAck(p) PROVE p \notin Spent(p[1])
  BY <1>4 DEF Readable, Spent, Target, Source
<1>5. \A q \in Packets, via \in Vias : opening'[<<q, via>>] > 0 =>
        opening[<<q, via>>] > 0 \/ (~ IsAck(q) => q \notin Spent(q[1]))
  <2> SUFFICES ASSUME NEW q \in Packets, NEW via \in Vias, opening'[<<q, via>>] > 0, q # p
               PROVE  opening[<<q, via>>] > 0
    BY <1>3, <1>4
  <2> QED  BY <1>1, <1>3 DEF IInv, Shapes
<1> QED  BY <1>2, <1>5, QuietIsOnce

(* A tick finds nothing being opened.                                      *)
LEMMA TickOnce == ASSUME IInv, OnceInv, Tick PROVE OnceInv'
<1>1. /\ UNCHANGED <<sent, inbox, opened, opening, dead>> /\ now' = now + 1 /\ now < MaxNow
      /\ \A o \in DOMAIN opening : opening[o] = 0
  BY DEF Tick
<1>2. parts' = [m \in Messages |->
                 IF parts[m] # NoParts /\ now' - parts[m].since > PartsAge
                 THEN NoParts ELSE parts[m]]
  BY DEF Tick
<1>3. Tables'
  <2>1. now' \in 0..MaxNow
    BY <1>1, MeshAssumption DEF OnceInv, Tables
  <2>2. DOMAIN parts' = Messages /\ DOMAIN delivered' = Messages
    BY DEF Tick
  <2> QED  BY <1>1, <2>1, <2>2, SamePackets DEF OnceInv, Tables, Nonces
<1>4. ASSUME NEW m \in Messages PROVE Gathered(m)' /\ Finished(m)' /\ Remembered(m)'
  <2>1. Spent(m)' = Spent(m)
    BY <1>1 DEF Spent
  <2>2. parts'[m].got = parts[m].got \/ parts'[m].got = {}
    BY <1>2 DEF NoParts
  <2>3. ~ Pending(m)'
    <3> SUFFICES ASSUME NEW p \in DataOf(m), NEW via \in Vias PROVE ~ (opening'[<<p, via>>] > 0)
      BY SamePackets DEF Pending
    <3>1. <<p, via>> \in DOMAIN opening
      BY PacketShape DEF IInv, Shapes
    <3> QED  BY <1>1, <3>1
  <2> QED  BY <1>1, <2>1, <2>2, <2>3, SamePackets DEF OnceInv, Gathered, Finished, Remembered
<1> QED  BY <1>3, <1>4 DEF OnceInv

(* What a restart forgets can no longer be opened.                         *)
LEMMA RestartOnce == ASSUME IInv, OnceInv, NEW n \in Nodes, Restart(n) PROVE OnceInv'
<1>1. PICK paired \in BOOLEAN :
        LET Lost(p) == p[1] \in sent /\ (Target(p) = n \/ (paired /\ Source(p) = n)) IN
        /\ opening' = [o \in DOMAIN opening |-> IF Target(o[1]) = n THEN 0 ELSE opening[o]]
        /\ opened' = [k \in Nodes |-> [s \in Nodes |->
                        IF k = n \/ (paired /\ s = n) THEN NoNonces ELSE opened[k][s]]]
        /\ parts' = [m \in Messages |-> IF To[m] = n THEN NoParts ELSE parts[m]]
        /\ delivered' = [m \in Messages |-> IF To[m] = n THEN Never ELSE delivered[m]]
        /\ dead' = dead \cup {p \in Packets : Lost(p)}
        /\ UNCHANGED <<sent, inbox, now>>
  BY DEF Restart
<1>2. Tables'
  <2>1. NoNonces \in Nonces
    BY DEF NoNonces, Nonces
  <2>2. opened' \in [Nodes -> [Nodes -> Nonces]]
    BY <1>1, <2>1 DEF OnceInv, Tables
  <2>3. UNCHANGED now /\ DOMAIN parts' = Messages /\ DOMAIN delivered' = Messages
    BY <1>1
  <2> QED  BY <2>2, <2>3, SamePackets DEF OnceInv, Tables, Nonces
<1>3. ASSUME NEW m \in Messages PROVE Gathered(m)' /\ Finished(m)' /\ Remembered(m)'
  <2>1. From[m] \in Nodes /\ To[m] \in Nodes
    BY MeshAssumption
  <2>2. parts'[m] \in {parts[m], NoParts} /\ inbox' = inbox /\ sent' = sent
    BY <1>1
  <2>3. inbox[m] > 0 => m \in sent
    BY DEF IInv, NoFalseBelief
  <2>4. m \in sent => Spent(m) \cap DataOf(m) \subseteq Spent(m)'
    <3>1. CASE To[m] = n \/ (paired /\ From[m] = n)
      BY <1>1, <3>1, PacketShape DEF Spent, Target, Source
    <3>2. CASE To[m] # n /\ ~ (paired /\ From[m] = n)
      BY <1>1, <2>1, <3>2 DEF Spent
    <3> QED  BY <3>1, <3>2
  <2>5. Gathered(m)' /\ Finished(m)'
    BY <2>2, <2>3, <2>4, SamePackets DEF OnceInv, Gathered, Finished, NoParts
  <2>6. Remembered(m)'
    <3>1. CASE To[m] = n
      <4>1. \A p \in DataOf(m), via \in Vias : opening'[<<p, via>>] = 0
        BY <1>1, <3>1, PacketShape DEF IInv, Shapes, Target
      <4> QED  BY <4>1, SamePackets DEF Remembered, Pending
    <3>2. CASE To[m] # n
      <4>1. delivered'[m] = delivered[m]
        BY <1>1, <3>2
      <4>2. Pending(m)' => Pending(m)
        <5> SUFFICES ASSUME NEW p \in DataOf(m), NEW via \in Vias, opening'[<<p, via>>] > 0
                     PROVE  opening[<<p, via>>] > 0
          BY SamePackets DEF Pending
        <5>1. <<p, via>> \in DOMAIN opening
          BY PacketShape DEF IInv, Shapes
        <5> QED  BY <1>1, <5>1
      <4> QED  BY <2>2, <4>1, <4>2 DEF OnceInv, Remembered
    <3> QED  BY <3>1, <3>2
  <2> QED  BY <2>5, <2>6
<1> QED  BY <1>2, <1>3 DEF OnceInv

(* While the window holds, a nonce noted stays noted.                      *)
LEMMA OpenedIsNoted ==
  ASSUME OnceInv, WindowHolds, NEW p \in Packets, NEW via \in Vias, Opened(p, via)
  PROVE  /\ opened' \in [Nodes -> [Nodes -> Nonces]]
         /\ \A n, s \in Nodes : opened[n][s].known \subseteq opened'[n][s].known
         /\ p \in opened'[Target(p)][Source(p)].known
<1> DEFINE w == opened[Target(p)][Source(p)]
<1>1. Target(p) \in Nodes /\ Source(p) \in Nodes
  BY PacketEnds
<1>2. w \in Nonces /\ Len(w.order) < NonceWindow
  BY <1>1 DEF OnceInv, Tables, WindowHolds
<1>3. Noted(w, p) = [known |-> w.known \cup {p}, order |-> Append(w.order, p)]
  <2> HIDE DEF w
  <2>1. Len(Append(w.order, p)) <= NonceWindow
    BY <1>2, MeshAssumption DEF Nonces
  <2> QED  BY <2>1 DEF Noted
<1>4. Noted(w, p) \in Nonces
  <2> HIDE DEF w
  <2> QED  BY <1>2, <1>3 DEF Nonces
<1>5. opened' = [opened EXCEPT ![Target(p)][Source(p)] = Noted(w, p)]
  BY DEF Opened
<1>6. opened \in [Nodes -> [Nodes -> Nonces]]
  BY DEF OnceInv, Tables
<1>7. /\ opened'[Target(p)][Source(p)] = Noted(w, p)
      /\ \A n, s \in Nodes : opened'[n][s] = opened[n][s]
                             \/ (n = Target(p) /\ s = Source(p) /\ opened'[n][s] = Noted(w, p))
  <2> HIDE DEF w
  <2> QED  BY <1>1, <1>5, <1>6
<1>8. opened' \in [Nodes -> [Nodes -> Nonces]]
  <2> HIDE DEF w
  <2> QED  BY <1>1, <1>4, <1>5, <1>6
<1> QED  BY <1>3, <1>7, <1>8

(* Where nothing is gathered or handed over, and no more is being opened.  *)
LEMMA StaysOnce ==
  ASSUME OnceInv, NEW m \in Messages, sent \subseteq sent',
         inbox'[m] = inbox[m], parts'[m] = parts[m], delivered'[m] = delivered[m],
         Spent(m) \subseteq Spent(m)', Pending(m)' => Pending(m)
  PROVE  Gathered(m)' /\ Finished(m)' /\ Remembered(m)'
  BY SamePackets DEF OnceInv, Gathered, Finished, Remembered

LEMMA OpenedOnce ==
  ASSUME IInv, OnceInv, WindowHolds, NEW p \in Packets, NEW via \in Vias, Opened(p, via)
  PROVE  OnceInv'
<1> DEFINE m == p[1]
<1>1. /\ opening[<<p, via>>] > 0 /\ UNCHANGED <<sent, dead, now>>
      /\ opening' = [opening EXCEPT ![<<p, via>>] = @ - 1]
  BY DEF Opened
<1>2. m \in Messages /\ m \in sent
  BY Decrypted DEF Vouched
<1>3. \A k \in Messages : Spent(k) \subseteq Spent(k)'
  BY <1>1, OpenedIsNoted, MeshAssumption DEF Spent
<1>4. \A k \in Messages : Pending(k)' => Pending(k)
  <2> SUFFICES ASSUME NEW k \in Messages, NEW q \in DataOf(k), NEW v \in Vias, opening'[<<q, v>>] > 0
               PROVE  opening[<<q, v>>] > 0
    BY SamePackets DEF Pending
  <2>1. <<q, v>> \in Packets \X Vias /\ <<p, via>> \in Packets \X Vias
    BY PacketShape
  <2> QED  BY <1>1, <2>1 DEF IInv, Shapes
<1>5. /\ DOMAIN parts' = Messages /\ DOMAIN delivered' = Messages
      /\ \A k \in Messages : IsAck(p) \/ k # m =>
           inbox'[k] = inbox[k] /\ parts'[k] = parts[k] /\ delivered'[k] = delivered[k]
  BY DEF Opened, OpenAck, OpenData, HandOver, OnceInv, Tables, IInv, Shapes
<1>6. Tables'
  BY <1>1, <1>5, OpenedIsNoted, SamePackets DEF OnceInv, Tables, Nonces
<1>7. ASSUME NEW k \in Messages, IsAck(p) \/ k # m
      PROVE  Gathered(k)' /\ Finished(k)' /\ Remembered(k)'
  BY <1>1, <1>3, <1>4, <1>5, <1>7, StaysOnce
<1>8. ASSUME ~ IsAck(p) PROVE Gathered(m)' /\ Finished(m)' /\ Remembered(m)'
  <2> DEFINE got == parts[m].got \cup {p}
  <2>1. p \in DataOf(m)
    BY <1>8, OwnData
  <2>2. got \subseteq Spent(m)' \cap DataOf(m)
    <3>1. p \in Spent(m)'
      BY <1>8, OpenedIsNoted DEF Spent, Target, Source
    <3> QED  BY <1>2, <1>3, <2>1, <3>1 DEF OnceInv, Gathered
  <2>3. Pending(m)
    BY <1>1, <2>1 DEF Pending
  <2>4. OpenData(p, via)
    BY <1>8 DEF Opened
  <2>5. CASE got # DataOf(m)
    <3>1. /\ parts'[m].got = got
          /\ inbox'[m] = inbox[m] /\ delivered'[m] = delivered[m]
      BY <1>2, <2>4, <2>5 DEF OpenData, OnceInv, Tables
    <3>2. Gathered(m)'
      BY <1>1, <1>2, <2>2, <3>1, SamePackets DEF Gathered
    <3>3. Finished(m)' /\ Remembered(m)'
      BY <1>2, <1>3, <2>3, <3>1, SamePackets DEF OnceInv, Finished, Remembered
    <3> QED  BY <3>2, <3>3
  <2>6. CASE got = DataOf(m)
    <3>1. parts'[m] = NoParts
      BY <1>2, <2>4, <2>6 DEF OpenData, OnceInv, Tables
    <3>2. Gathered(m)'
      BY <3>1 DEF Gathered, NoParts
    <3>3. CASE delivered[m] = Never
      <4>1. inbox[m] = 0
        BY <1>2, <2>3, <3>3 DEF OnceInv, Remembered, IInv, Shapes
      <4>2. inbox'[m] = 1 /\ delivered'[m] = now
        BY <1>2, <2>4, <2>6, <3>3, <4>1 DEF OpenData, FirstDelivery, HandOver, OnceInv, Tables, IInv, Shapes
      <4>3. now # Never /\ Never' = Never
        BY MeshAssumption DEF OnceInv, Tables, Never
      <4> QED  BY <2>2, <2>6, <3>2, <4>2, <4>3, SamePackets DEF Finished, Remembered
    <3>4. CASE delivered[m] # Never
      <4>1. inbox'[m] = inbox[m] /\ delivered'[m] = delivered[m]
        BY <1>2, <2>4, <2>6, <3>4 DEF OpenData, FirstDelivery
      <4> QED  BY <1>2, <1>3, <2>3, <3>2, <4>1, SamePackets DEF OnceInv, Finished, Remembered
    <3> QED  BY <3>3, <3>4
  <2> QED  BY <2>5, <2>6
<1>9. \A k \in Messages : Gathered(k)' /\ Finished(k)' /\ Remembered(k)'
  BY <1>7, <1>8
<1> QED  BY <1>6, <1>9 DEF OnceInv

LEMMA StepOnce == IInv /\ OnceInv /\ WindowHolds /\ [Next]_vars => OnceInv'
<1> SUFFICES ASSUME IInv, OnceInv, WindowHolds, [Next]_vars PROVE OnceInv'
  OBVIOUS
<1>1. CASE /\ UNCHANGED <<inbox, opened, parts, delivered, now, dead, opening>>
           /\ sent \subseteq sent'
  BY <1>1, QuietIsOnce
<1>2. ASSUME NEW m \in Messages, Send(m) PROVE OnceInv'
  BY <1>1, <1>2 DEF Send
<1>3. ASSUME NEW l \in Links, Convey(l) \/ Retire(l) PROVE OnceInv'
  BY <1>1, <1>3 DEF Convey, Retire
<1>4. ASSUME NEW x \in air, Arrive(x) PROVE OnceInv'
  BY <1>4, ArriveOnce
<1>5. ASSUME NEW p \in Packets, NEW via \in Vias, Opened(p, via) PROVE OnceInv'
  BY <1>5, OpenedOnce
<1>6. CASE Tick
  BY <1>6, TickOnce
<1>7. ASSUME NEW x \in air, Lose(x) PROVE OnceInv'
  BY <1>1, <1>7 DEF Lose
<1>8. ASSUME NEW n \in Nodes, Evict(n) PROVE OnceInv'
  BY <1>1, <1>8 DEF Evict
<1>9. ASSUME NEW n \in Nodes, Restart(n) PROVE OnceInv'
  BY <1>9, RestartOnce
<1>10. CASE UNCHANGED vars
  BY <1>1, <1>10 DEF vars
<1> QED  BY <1>2, <1>3, <1>4, <1>5, <1>6, <1>7, <1>8, <1>9, <1>10 DEF Next, Progress, Vias

-----------------------------------------------------------------------------
(* Every step posts, delivers, confirms or does not show.                  *)
LEMMA OpenedRefines ==
  ASSUME IInv, OnceInv, OnceInv', NEW p \in Packets, NEW via \in Vias, Opened(p, via)
  PROVE  [Promise!Next]_(Promise!vars)
<1> DEFINE m == p[1]
<1>1. m \in Messages /\ m \in sent /\ UNCHANGED sent
  BY Decrypted DEF Vouched
<1>2. CASE IsAck(p)
  <2>1. inbox[m] = 1
    BY <1>1, <1>2, Decrypted DEF Vouched, OnceInv, Finished
  <2>2. confirmed' = confirmed \cup {m} /\ UNCHANGED inbox
    BY <1>2 DEF Opened, OpenAck
  <2>3. CASE m \in confirmed
    BY <1>1, <2>2, <2>3 DEF Promise!vars
  <2>4. CASE m \notin confirmed
    BY <1>1, <2>1, <2>2, <2>4 DEF Promise!Next, Promise!Confirm
  <2> QED  BY <2>3, <2>4
<1>3. CASE ~ IsAck(p) /\ HandOver(m, via)
  <2>1. inbox' = [inbox EXCEPT ![m] = @ + 1] /\ UNCHANGED confirmed
    BY <1>3 DEF Opened, OpenData, HandOver
  <2>2. inbox[m] = 0 /\ inbox'[m] = 1
    BY <1>1, <2>1 DEF OnceInv, Finished, IInv, Shapes
  <2>3. inbox' = [inbox EXCEPT ![m] = 1]
    BY <1>1, <2>1, <2>2 DEF IInv, Shapes
  <2> QED  BY <1>1, <2>1, <2>2, <2>3 DEF Promise!Next, Promise!Deliver
<1>4. CASE UNCHANGED <<inbox, confirmed>>
  BY <1>1, <1>4 DEF Promise!vars
<1>5. ~ IsAck(p) => HandOver(m, via) \/ UNCHANGED <<inbox, confirmed>>
  BY DEF Opened, OpenData
<1> QED  BY <1>2, <1>3, <1>4, <1>5

LEMMA StepRefines ==
  IInv /\ OnceInv /\ OnceInv' /\ [Next]_vars => [Promise!Next]_(Promise!vars)
<1> SUFFICES ASSUME IInv, OnceInv, OnceInv', [Next]_vars PROVE [Promise!Next]_(Promise!vars)
  OBVIOUS
<1>1. ASSUME NEW m \in Messages, Send(m) PROVE Promise!Next
  BY <1>1 DEF Send, Promise!Next, Promise!Post
<1>2. ASSUME NEW p \in Packets, NEW via \in Vias, Opened(p, via) PROVE [Promise!Next]_(Promise!vars)
  BY <1>2, OpenedRefines
<1>3. CASE \/ \E l \in Links : Convey(l) \/ Retire(l)
           \/ \E x \in air : Arrive(x) \/ Lose(x)
           \/ \E n \in Nodes : Evict(n) \/ Restart(n)
           \/ Tick \/ UNCHANGED vars
  <2>1. UNCHANGED <<sent, inbox, confirmed>>
    BY <1>3 DEF Convey, Retire, Arrive, Lose, Evict, Restart, Tick, vars
  <2> QED  BY <2>1 DEF Promise!vars
<1> QED  BY <1>1, <1>2, <1>3 DEF Next, Progress, Vias

(* As long as no session has had more packets opened than it remembers     *)
(* nonces, the mesh implements Mailbox: a message is handed over at most   *)
(* once and confirmed only then, however many copies cross over however    *)
(* many relays and transports, whichever outlive the dedup sets, and       *)
(* whatever is lost, evicted, expires or restarts                          *)
(* (message_router.dart, 784-845; delivered_messages.dart, 1-31).          *)
THEOREM MailboxIsKept == Spec /\ []WindowHolds => ImplementsMailbox
<1>1. Init => Promise!Init
  BY DEF Init, Promise!Init
<1> QED  BY <1>1, InitInv, StepInv, InitOnce, StepOnce, StepRefines, PTL
         DEF Spec, ImplementsMailbox, Promise!Spec
=============================================================================
