---------------------------- MODULE MeshDelivery ----------------------------
(***************************************************************************)
(* Messages across the mesh: processPacket of message_router.dart, the     *)
(* reassembly of fragment_handler.dart, the two dedup sets and the ACK of  *)
(* grassroots_network.dart, on nodes that meet pairwise.  A node carries   *)
(* what it first sees of others' packets and conveys to a neighbour what   *)
(* that neighbour's filter does not name; only a packet's creator writes   *)
(* it unasked.  trialDecrypt awaits between its replay check and its note  *)
(* of the nonce, so opening a packet is two actions.                       *)
(*                                                                         *)
(* Filters are exact and a round is one conveyance (see SyncRound); the    *)
(* buffer's caps are a fault (see DtnCustody).  Pairing is taken as done:  *)
(* a restart only makes the packets sealed before it unreadable.           *)
(***************************************************************************)
EXTENDS Naturals, Sequences, FiniteSets, SequencesExt

CONSTANTS Nodes, Messages, From, To,
          Fragments,     \* packets of each message
          Links,         \* who may reach whom: [from, to, via], via "ble" or "udx"
          Open,          \* nodes of open trust: they carry for others
          Ttl,           \* defaultTtl
          NonceWindow,   \* nonces a session remembers
          BufferAge,     \* DtnStore.maxAge
          SeenAge,       \* SeenPackets.maxAge and DeliveredMessages.maxAge
          PartsAge,      \* reassemblyTimeout
          FaultKinds,    \* what may go wrong: "lose", "loseUdx", "evict", "restart"
          MaxNow, MaxFaults

ASSUME MeshAssumption ==
  /\ {From, To} \subseteq [Messages -> Nodes] /\ \A m \in Messages : From[m] # To[m]
  /\ Fragments \in [Messages -> Nat \ {0}]
  /\ Links \subseteq [from : Nodes, to : Nodes, via : {"ble", "udx"}]
  /\ Open \subseteq Nodes
  /\ FaultKinds \subseteq {"lose", "loseUdx", "evict", "restart"}
  /\ NonceWindow \in Nat \ {0}
  /\ {Ttl, BufferAge, SeenAge, PartsAge, MaxNow, MaxFaults} \subseteq Nat

(* Packet i of a message; packet 0 is the ACK of it, sealed by its         *)
(* recipient.                                                              *)
DataOf(m) == {<<m, i>> : i \in 1..Fragments[m]}
AckOf(m) == <<m, 0>>
Packets == UNION {DataOf(m) \cup {AckOf(m)} : m \in Messages}
IsAck(p) == p[2] = 0
Source(p) == IF IsAck(p) THEN To[p[1]] ELSE From[p[1]]
Target(p) == IF IsAck(p) THEN From[p[1]] ELSE To[p[1]]

VARIABLES
  sent,       \* messages created
  held,       \* per node: its buffer, entries [packet, ttl, since]
  seen,       \* per node: _seenPackets, entries [packet, at]
  air,        \* copies on their way, [packet, ttl, link]
  opening,    \* copies whose decryption is under way, per packet and transport
  opened,     \* per node and source: the nonces its session remembers
  parts,      \* per message: _reassemblyBuffer, fragments and start
  delivered,  \* per message: its time in _deliveredMessages, or Never
  inbox,      \* per message: times it was handed to the application (history)
  confirmed,  \* messages whose sender shows them delivered
  dead,       \* packets sealed under a session that is gone
  now, faults
vars == <<sent, held, seen, air, opening, opened, parts, delivered, inbox,
          confirmed, dead, now, faults>>

Never == MaxNow + 1
NoParts == [got |-> {}, since |-> 0]
NoNonces == [known |-> {}, order |-> <<>>]
Copy(p, ttl, l) == [packet |-> p, ttl |-> ttl, link |-> l]
Entry(p, ttl) == [packet |-> p, ttl |-> ttl, since |-> now]
Sighting(p) == [packet |-> p, at |-> now]
PacketsIn(s) == {e.packet : e \in s}

Init ==
  /\ sent = {} /\ air = {} /\ confirmed = {} /\ dead = {} /\ now = 0 /\ faults = 0
  /\ held = [n \in Nodes |-> {}] /\ seen = [n \in Nodes |-> {}]
  /\ opening = [o \in Packets \X {"ble", "udx"} |-> 0]
  /\ opened = [n \in Nodes |-> [s \in Nodes |-> NoNonces]]
  /\ parts = [m \in Messages |-> NoParts]
  /\ delivered = [m \in Messages |-> Never]
  /\ inbox = [m \in Messages |-> 0]

Fault(kind) == kind \in FaultKinds /\ faults < MaxFaults /\ faults' = faults + 1
-----------------------------------------------------------------------------
Lacks(n, p) == p \notin PacketsIn(seen[n])

(* _seenPackets with ps in it: the first sighting counts.                  *)
Sighted(n, ps) == seen[n] \cup {Sighting(p) : p \in {q \in ps : Lacks(n, q)}}

(* Buffered and seen, whatever becomes of the direct write.                *)
Holding(n, ps) ==
  /\ held' = [held EXCEPT ![n] = @ \cup {Entry(p, Ttl) : p \in ps \ PacketsIn(@)}]
  /\ seen' = [seen EXCEPT ![n] = Sighted(n, ps)]

(* What the direct writes of freshly sealed packets may put on the air.    *)
DirectWrites(ps, from, to) ==
  {{}} \cup {{Copy(p, Ttl, l) : p \in some} : some \in SUBSET ps,
             l \in {k \in Links : k.from = from /\ k.to = to}}

(* The whole send loop, which OutboundMessage has step by step.            *)
Send(m) ==
  /\ m \notin sent
  /\ sent' = sent \cup {m}
  /\ Holding(From[m], DataOf(m))
  /\ \E written \in DirectWrites(DataOf(m), From[m], To[m]) : air' = air \cup written
  /\ UNCHANGED <<opening, opened, parts, delivered, inbox, confirmed, dead, now, faults>>

(* A filter of l.to reaches l.from: transit goes only over BLE and only    *)
(* from an open node.                                                      *)
MayConvey(l, p) == Target(p) = l.to \/ (l.via = "ble" /\ l.from \in Open)

Convey(l) == \E e \in held[l.from] :
  /\ Lacks(l.to, e.packet) /\ MayConvey(l, e.packet)
  /\ Copy(e.packet, e.ttl, l) \notin air
  /\ air' = air \cup {Copy(e.packet, e.ttl, l)}
  /\ UNCHANGED <<sent, held, seen, opening, opened, parts, delivered, inbox,
                 confirmed, dead, now, faults>>

(* The same filter retires what l.from carries for l.to as somebody else's.*)
Retire(l) == \E e \in held[l.from] :
  /\ Target(e.packet) = l.to /\ Source(e.packet) # l.from
  /\ ~ Lacks(l.to, e.packet)
  /\ held' = [held EXCEPT ![l.from] = @ \ {e}]
  /\ UNCHANGED <<sent, seen, air, opening, opened, parts, delivered, inbox,
                 confirmed, dead, now, faults>>
-----------------------------------------------------------------------------
(* processPacket.                                                          *)

\* Mutant: a packet with one hop left is not passed on.
MayRelay_TwoLeft(n, x) == Lacks(n, x.packet) /\ x.ttl > 1 /\ n \in Open
(* A first sighting with hops left is taken into custody by an open node.  *)
MayRelay(n, x) == Lacks(n, x.packet) /\ x.ttl > 0 /\ n \in Open

(* A session opens the packet, and its nonce is not remembered.            *)
Readable(n, p) == p \notin dead \cup opened[n][Source(p)].known

Arrive(x) ==
  LET n == x.link.to  p == x.packet IN
  /\ x \in air /\ air' = air \ {x}
  /\ seen' = [seen EXCEPT ![n] = Sighted(n, {p})]
  /\ held' = IF n # Target(p) /\ MayRelay(n, x) /\ p \notin PacketsIn(held[n])
             THEN [held EXCEPT ![n] = @ \cup {Entry(p, x.ttl - 1)}] ELSE held
  /\ opening' = IF n = Target(p) /\ Readable(n, p)
                THEN [opening EXCEPT ![<<p, x.link.via>>] = @ + 1] ELSE opening
  /\ UNCHANGED <<sent, opened, parts, delivered, inbox, confirmed, dead, now, faults>>

(* The nonce is noted; above the window the oldest note goes.              *)
Noted(w, p) ==
  LET known == w.known \cup {p}  order == Append(w.order, p) IN
  IF Len(order) <= NonceWindow THEN [known |-> known, order |-> order]
  ELSE [known |-> known \ {Head(order)}, order |-> Tail(order)]

\* Mutant: whatever is whole is handed over.
FirstDelivery_Any(m) == TRUE
FirstDelivery(m) == delivered[m] = Never

(* A whole message is handed over once and then confirmed, over the        *)
(* transport its last packet came by; only over BLE is the ACK buffered.   *)
HandOver(m, via) ==
  /\ delivered' = [delivered EXCEPT ![m] = now]
  /\ inbox' = [inbox EXCEPT ![m] = @ + 1]
  /\ \/ /\ via = "ble" /\ Holding(To[m], {AckOf(m)})
        /\ \E written \in DirectWrites({AckOf(m)}, To[m], From[m]) :
             air' = air \cup written
     \/ /\ via = "udx" /\ UNCHANGED <<held, seen>>
        /\ air' = air \cup {Copy(AckOf(m), Ttl, l) : l \in
             {k \in Links : k.from = To[m] /\ k.to = From[m] /\ k.via = "udx"}}

OpenData(p, via) ==
  LET m == p[1]  got == parts[m].got \cup {p} IN
  /\ IF got # DataOf(m)
     THEN /\ parts' = [parts EXCEPT ![m] =
                 [got |-> got, since |-> IF @ = NoParts THEN now ELSE @.since]]
          /\ UNCHANGED <<delivered, inbox, held, seen, air>>
     ELSE /\ parts' = [parts EXCEPT ![m] = NoParts]
          /\ IF FirstDelivery(m) THEN HandOver(m, via)
             ELSE UNCHANGED <<delivered, inbox, held, seen, air>>
  /\ UNCHANGED confirmed

OpenAck(p) ==
  LET m == p[1] IN
  /\ confirmed' = confirmed \cup {m}
  /\ held' = [held EXCEPT ![From[m]] = {e \in @ : e.packet \notin DataOf(m)}]
  /\ UNCHANGED <<parts, delivered, inbox, seen, air>>

(* The decryption is over: the nonce is noted and the frame handled.       *)
Opened(p, via) ==
  /\ opening[<<p, via>>] > 0
  /\ opening' = [opening EXCEPT ![<<p, via>>] = @ - 1]
  /\ opened' = [opened EXCEPT ![Target(p)][Source(p)] = Noted(@, p)]
  /\ IF IsAck(p) THEN OpenAck(p) ELSE OpenData(p, via)
  /\ UNCHANGED <<sent, dead, now, faults>>
-----------------------------------------------------------------------------
(* What goes wrong, and time.                                              *)

Lose(x) ==
  /\ x \in air /\ air' = air \ {x}
  /\ Fault(IF x.link.via = "ble" THEN "lose" ELSE "loseUdx")
  /\ UNCHANGED <<sent, held, seen, opening, opened, parts, delivered, inbox,
                 confirmed, dead, now>>

Evict(n) == \E e \in held[n] :
  /\ held' = [held EXCEPT ![n] = @ \ {e}]
  /\ Fault("evict")
  /\ UNCHANGED <<sent, seen, air, opening, opened, parts, delivered, inbox,
                 confirmed, dead, now>>

(* Buffer, dedup sets, sessions and partial messages are memory only: what *)
(* was sealed for the node can no longer be read, and what it sealed only  *)
(* until its peers pair with it anew.                                      *)
Restart(n) == \E paired \in BOOLEAN :
  LET Lost(p) == p[1] \in sent /\ (Target(p) = n \/ (paired /\ Source(p) = n)) IN
  /\ Fault("restart")
  /\ held' = [held EXCEPT ![n] = {}] /\ seen' = [seen EXCEPT ![n] = {}]
  /\ opening' = [o \in DOMAIN opening |-> IF Target(o[1]) = n THEN 0 ELSE opening[o]]
  /\ opened' = [k \in Nodes |-> [s \in Nodes |->
                  IF k = n \/ (paired /\ s = n) THEN NoNonces ELSE opened[k][s]]]
  /\ parts' = [m \in Messages |-> IF To[m] = n THEN NoParts ELSE parts[m]]
  /\ delivered' = [m \in Messages |-> IF To[m] = n THEN Never ELSE delivered[m]]
  /\ dead' = dead \cup {p \in Packets : Lost(p)}
  /\ UNCHANGED <<sent, air, inbox, confirmed, now>>

(* A tick outlasts every packet in flight.  What outlived its age is gone. *)
Tick ==
  /\ now < MaxNow /\ air = {} /\ \A o \in DOMAIN opening : opening[o] = 0
  /\ now' = now + 1
  /\ held' = [n \in Nodes |-> {e \in held[n] : now' - e.since <= BufferAge}]
  /\ seen' = [n \in Nodes |-> {e \in seen[n] : now' - e.at <= SeenAge}]
  /\ delivered' = [m \in Messages |->
                     IF delivered[m] # Never /\ now' - delivered[m] > SeenAge
                     THEN Never ELSE delivered[m]]
  /\ parts' = [m \in Messages |->
                 IF parts[m] # NoParts /\ now' - parts[m].since > PartsAge
                 THEN NoParts ELSE parts[m]]
  /\ UNCHANGED <<sent, air, opening, opened, inbox, confirmed, dead, faults>>
-----------------------------------------------------------------------------
(* Links come about again and again, and handlers run.                     *)
Progress ==
  \/ \E l \in Links : Convey(l) \/ Retire(l)
  \/ \E x \in air : Arrive(x)
  \/ \E p \in Packets, via \in {"ble", "udx"} : Opened(p, via)

Next ==
  \/ \E m \in Messages : Send(m)
  \/ Progress \/ Tick
  \/ \E x \in air : Lose(x)
  \/ \E n \in Nodes : Evict(n) \/ Restart(n)

Spec == Init /\ [][Next]_vars
FairSpec == Spec /\ WF_vars(Progress)
-----------------------------------------------------------------------------
(* Properties.                                                             *)

(* Every variable keeps its type; a packet is held and sighted once.       *)
TypeOK ==
  /\ sent \subseteq Messages /\ confirmed \subseteq Messages /\ dead \subseteq Packets
  /\ \A n \in Nodes :
       /\ \A e \in held[n] : e.packet \in Packets /\ e.ttl \in 0..Ttl /\ e.since \in 0..now
       /\ \A e \in seen[n] : e.packet \in Packets /\ e.at \in 0..now
       /\ Cardinality(PacketsIn(held[n])) = Cardinality(held[n])
       /\ Cardinality(PacketsIn(seen[n])) = Cardinality(seen[n])
       /\ \A s \in Nodes : /\ opened[n][s].known \subseteq ToSet(opened[n][s].order)
                            /\ Len(opened[n][s].order) <= NonceWindow
  /\ air \subseteq [packet : Packets, ttl : 0..Ttl, link : Links]
  /\ opening \in [Packets \X {"ble", "udx"} -> Nat]
  /\ \A m \in Messages : /\ parts[m].got \subseteq DataOf(m) /\ parts[m].since \in 0..now
                          /\ delivered[m] \in 0..now \cup {Never}
  /\ inbox \in [Messages -> Nat] /\ now \in 0..MaxNow /\ faults \in 0..MaxFaults

Promise == INSTANCE Mailbox

(* Whatever copies cross, are lost, conveyed again or opened twice at      *)
(* once, and whoever restarts: a message reaches the application at most   *)
(* once, and only one that did is ever confirmed                           *)
(* (message_router.dart, 784-845; delivered_messages.dart, 1-31).          *)
ImplementsMailbox == Promise!Spec

(* While nodes meet and only finitely many packets are lost, every message *)
(* arrives over as many hops as its TTL allows, and its ACK comes back     *)
(* (grassroots_network.dart, 1682-1693).                                   *)
MailIsServed == Promise!LiveSpec

(* No copy of a message outlives the memory that it was handed over        *)
(* (delivered_messages.dart, 12-17).                                       *)
DeliveredOnce == \A m \in Messages : inbox[m] <= 1
=============================================================================
