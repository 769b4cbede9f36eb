----------------------------- MODULE PacketTrace -----------------------------
(***************************************************************************)
(* One message and its ack on their way through relays that hand copies on *)
(* as lib/src/routing/message_router.dart does, each node tracing what it  *)
(* sees, and what trace_server/analyze.py reads from the traces: the path  *)
(* the message took, what became of every packet, and what it all cost.    *)
(* The true way of every copy is kept beside, for the properties alone.    *)
(***************************************************************************)
EXTENDS Integers, SequencesExt

CONSTANTS
  Nodes, Src, Dst,
  Message,        \* the message's id, and that of its packet when it has only one
  Fragments,      \* the ids of its packets when it has several
  AckPacket,
  DefaultTtl,
  Regimes,        \* see RegimeType
  None            \* no value

RegimeType == [
  fragmented : BOOLEAN,
  closed : SUBSET Nodes,   \* relays of closed trust, which take nothing into custody
  blind : SUBSET Nodes,    \* nodes that have not authenticated the path they receive on
  silent : SUBSET Nodes,   \* nodes whose trace was never uploaded
  writes : Nat]            \* BOUND: writes of one node to another

VARIABLES
  ttl,       \* ttl[x][p]: the TTL of the copy of p that x can send; None: it has none
  via,       \* via[p][x]: who gave x its first copy of p; None: x has not seen p
  trace,     \* the records of the uploaded traces, in the order of their stamps
  wire,      \* packets the uploaded wire ledgers counted out, and in
  handoffs,
  regime

vars == <<ttl, via, trace, wire, handoffs, regime>>

Parts == IF regime.fragmented THEN Fragments ELSE {Message}
Packets == Fragments \cup {Message, AckPacket}
Origin(p) == IF p = AckPacket THEN Dst ELSE Src
Target(p) == IF p = AckPacket THEN Src ELSE Dst

Init ==
  /\ regime \in Regimes
  /\ ttl = [x \in Nodes |-> [p \in Packets |-> None]]
  /\ via = [p \in Packets |-> [x \in Nodes |-> None]]
  /\ trace = <<>>
  /\ wire = [tx |-> [kind \in {"secure", "secure:data", "secure:ack"} |-> 0], rx |-> 0]
  /\ handoffs = 0

Rec(x, type, p) == [dev |-> x, type |-> type, id |-> p, from |-> None, hops |-> None, carried |-> FALSE, ids |-> {}]
Log(records) == trace' = trace \o SelectSeq(records, LAMBDA r : r.dev \notin regime.silent)

(* _trySendMessageNow: the packets are sealed, buffered, and the send is stamped. *)
Send ==
  /\ \A p \in Parts : via[p][Src] = None
  /\ ttl' = [ttl EXCEPT ![Src] = [p \in Packets |-> IF p \in Parts THEN DefaultTtl ELSE None]]
  /\ via' = [p \in Packets |-> IF p \in Parts THEN [via[p] EXCEPT ![Src] = Src] ELSE via[p]]
  /\ Log(<< [Rec(Src, "sealed", Message) EXCEPT !.ids = Parts], Rec(Src, "sent", Message) >>
         \o [i \in 1..Cardinality(Parts) |-> Rec(Src, "custody", SetToSeq(Parts)[i])])
  /\ UNCHANGED <<wire, handoffs, regime>>

(* What a node makes of a packet that lands on it (processPacket). *)
FirstSeen(y, p) == via[p][y] = None
FromPeer(x, y) == IF y \in regime.blind THEN None ELSE x
Complete(y, p) == \A q \in Parts \ {p} : via[q][y] # None

(* Not its own: the first copy is taken into custody a hop poorer, if its TTL allows. *)
Transit(x, y, p, t) ==
  /\ y # Target(p)
  /\ IF FirstSeen(y, p)
     THEN /\ via' = [via EXCEPT ![p][y] = x]
          /\ IF t > 0
             THEN /\ ttl' = [ttl EXCEPT ![y][p] = IF y \in regime.closed THEN None ELSE t - 1]
                  /\ Log(<< Rec(x, "custody", p),
                            [Rec(y, "relay", p) EXCEPT !.from = FromPeer(x, y), !.carried = y \notin regime.closed] >>)
             ELSE UNCHANGED ttl /\ Log(<< Rec(x, "custody", p) >>)
     ELSE /\ Log(<< Rec(x, "custody", p), [Rec(y, "relay-dup", p) EXCEPT !.from = FromPeer(x, y)] >>)
          /\ UNCHANGED <<ttl, via>>

Duplicate(x, y, p) ==
  /\ y = Target(p) /\ ~FirstSeen(y, p)
  /\ Log(<< Rec(x, "custody", p), Rec(y, "packetDup", p) >>)
  /\ UNCHANGED <<ttl, via>>

(* The last packet of the message completes it: it is delivered and acknowledged. *)
Deliver(x, y, p, t) ==
  /\ y = Target(p) /\ p # AckPacket /\ FirstSeen(y, p)
  /\ IF Complete(y, p)
     THEN /\ via' = [via EXCEPT ![p][y] = x, ![AckPacket][Dst] = Dst]
          /\ ttl' = [ttl EXCEPT ![Dst][AckPacket] = DefaultTtl]
          /\ Log(<< Rec(x, "custody", p),
                    [Rec(y, "recv", Message) EXCEPT !.from = FromPeer(x, y), !.hops = DefaultTtl - t],
                    Rec(y, "ackTx", AckPacket), Rec(y, "custody", AckPacket) >>)
     ELSE /\ via' = [via EXCEPT ![p][y] = x]
          /\ Log(<< Rec(x, "custody", p) >>)
          /\ UNCHANGED ttl

(* The ack is home: the sender lets go of its packets. *)
AckHome(x, y, p) ==
  /\ y = Target(p) /\ p = AckPacket /\ FirstSeen(y, p)
  /\ via' = [via EXCEPT ![p][y] = x]
  /\ ttl' = [ttl EXCEPT ![Src] = [q \in Packets |-> None]]
  /\ Log(<< Rec(x, "custody", p), Rec(y, "ackRx", p) >>)

(* The ledger knows the content of its own node's packets only. *)
TxKind(x, p) == IF x # Origin(p) THEN "secure" ELSE IF p = AckPacket THEN "secure:ack" ELSE "secure:data"
Count(x, y, p, landed) ==
  wire' = [tx |-> IF x \in regime.silent THEN wire.tx ELSE [wire.tx EXCEPT ![TxKind(x, p)] = @ + 1],
           rx |-> IF y \in regime.silent \/ ~landed THEN wire.rx ELSE wire.rx + 1]

(* x writes its copy to y, at once when it made it or in answer to a sync filter. *)
Handoff(x, y, p) ==
  /\ x # y
  /\ ttl[x][p] # None
  /\ handoffs < regime.writes
  /\ handoffs' = handoffs + 1
  /\ \/ /\ \/ Transit(x, y, p, ttl[x][p]) \/ Duplicate(x, y, p)
           \/ Deliver(x, y, p, ttl[x][p]) \/ AckHome(x, y, p)
        /\ Count(x, y, p, TRUE)
     \/ /\ Log(<< Rec(x, "custody", p) >>)
        /\ Count(x, y, p, FALSE)
        /\ UNCHANGED <<ttl, via>>
  /\ UNCHANGED regime

Next == Send \/ \E x, y \in Nodes, p \in Packets : Handoff(x, y, p)

Spec == Init /\ [][Next]_vars

-----------------------------------------------------------------------------
(* mesh_paths: the path of the message, from the edges its relays recorded *)

Of(type, id) == SelectSeq(trace, LAMBDA r : r.type = type /\ r.id = id)
Sent == Of("sent", Message)
Got == Of("recv", Message)
Hops == Of("relay", Message)

EdgesKnown == \A h \in ToSet(Hops) \cup (IF Got = <<>> THEN {} ELSE {Got[1]}) : h.from # None

(* Each step of the walk goes to the first hop left that names the cursor as its parent. *)
Step(walk) ==
  LET cursor == Last(walk.path)
      next == {i \in DOMAIN walk.left : walk.left[i].from = cursor}
  IN IF next = {} THEN walk
     ELSE LET i == CHOOSE k \in next : \A j \in next : k <= j
          IN [path |-> Append(walk.path, walk.left[i].dev), left |-> RemoveAt(walk.left, i)]

Walk(from) == FoldLeft(LAMBDA walk, h : Step(walk), [path |-> <<from>>, left |-> Hops], Hops)

PathRow ==
  LET from == Sent[1].dev
      walk == Walk(from)
      exact == EdgesKnown /\ walk.left = <<>>
      devs == IF exact THEN walk.path ELSE <<from>> \o [i \in DOMAIN Hops |-> Hops[i].dev]
  IN [path |-> IF Got = <<>> THEN devs ELSE Append(devs, Got[1].dev),
      pathExact |-> IF Hops = <<>> /\ Got = <<>> THEN None ELSE exact,
      relayHops |-> Len(Hops),
      fragmented |-> regime.fragmented,
      delivered |-> Got # <<>>,
      recvRelayHops |-> IF Got = <<>> THEN None ELSE Got[1].hops,
      carried |-> \E i \in DOMAIN Hops : Hops[i].carried]

(* mesh_summary: the messages by what became of them, and what came more than once *)
MeshSummary ==
  LET row == PathRow
      count(b) == IF b THEN 1 ELSE 0
  IN [sent |-> 1, delivered |-> count(row.delivered),
      multiHop |-> count(row.delivered /\ row.recvRelayHops > 0),
      forwarded |-> count(row.relayHops > 0), carried |-> count(row.carried)]
Redundant == {i \in DOMAIN trace : trace[i].type = "packetDup"}

(* clique_delivery_method and clique_conveyance_touch: a message that arrived came direct or  *)
(* relayed by the hops its receiver counted; one is touched if a relay ever passed it on.     *)
Method == IF Got = <<>> THEN {} ELSE IF Got[1].hops <= 0 THEN {"direct"} ELSE {"relayed"}
Touched == {h.id : h \in ToSet(Hops)} \cap {r.id : r \in ToSet(Sent)}

-----------------------------------------------------------------------------
(* packet_join: every minted packet, followed by its id *)

Records == ToSet(trace)
SealedIds == UNION {r.ids : r \in {x \in Records : x.type = "sealed"}}
AckIds == {r.id : r \in {x \in Records : x.type = "ackTx"}}
Minted == SealedIds \cup AckIds
MintedBy(p) == {r.dev : r \in {x \in Records : (x.type = "sealed" /\ p \in x.ids) \/ (x.type = "ackTx" /\ x.id = p)}}

\* Mutant: what its own node records of a packet counts as a sighting.
SeenAs_ByAnyone(type) ==
  {r.id : r \in {x \in Records : x.type \in (IF type = "relay" THEN {"relay", "relay-dup"} ELSE {type})}}

(* Only another node's record is a sighting. *)
SeenAs(type) ==
  {r.id : r \in {x \in Records : /\ x.type \in (IF type = "relay" THEN {"relay", "relay-dup"} ELSE {type})
                                 /\ x.dev \notin MintedBy(x.id)}}
Home ==
  {r.id : r \in {x \in Records : x.type = "ackRx"}} \cup
  UNION {s.ids : s \in {x \in Records : x.type = "sealed" /\
           \E r \in Records : r.type = "recv" /\ r.id = x.id /\ r.dev # x.dev}}

Join == LET observed == SeenAs("relay") \cup SeenAs("custody") \cup SeenAs("packetDup") \cup Home
        IN [home |-> Home \cap Minted, relayed |-> SeenAs("relay") \cap Minted,
            carried |-> SeenAs("custody") \cap Minted, lost |-> Minted \ observed]

(* mesh_summary: packets aired, received anywhere, accepted where they were addressed *)
Cost ==
  LET tx == wire.tx["secure"] + wire.tx["secure:data"] + wire.tx["secure:ack"]
  IN [aired |-> tx, received |-> wire.rx, arrived |-> Len(Got) + Len(Of("ackRx", AckPacket)),
      data |-> wire.tx["secure"] + wire.tx["secure:data"], ack |-> wire.tx["secure:ack"]]

-----------------------------------------------------------------------------
(* Properties *)

Everyone == regime.silent = {}
Landed(p) == {x \in Nodes : via[p][x] # None} \ {Origin(p)}

(* The true way of the packet to x, followed back from it. *)
Route(p, x) ==
  LET back == FoldLeft(LAMBDA way, y : IF way[1] = Origin(p) THEN way ELSE <<via[p][way[1]]>> \o way,
                       <<x>>, SetToSeq(Nodes))
  IN back

(* The path of a delivered message names every relay of the way it came, in order, whether its *)
(* edges are known or only its times; and it is that way, no more, when the edges are known    *)
(* and the receiver counted as many hops as there were relays.                                 *)
PathsAreTrue ==
  (Everyone /\ Sent # <<>> /\ ~regime.fragmented /\ Got # <<>>) =>
    LET row == PathRow
        route == Route(Message, Dst)
    IN /\ SelectSeq(row.path, LAMBDA x : x \in ToSet(route)) = route
       /\ (row.pathExact = TRUE /\ row.relayHops = row.recvRelayHops) => row.path = route

(* A message is counted as multi-hop, and as relayed, just when the way it came has a relay on *)
(* it, and was then touched and carried too; it is counted as carried just when a relay holds  *)
(* it; and what arrived twice at its target is part of what was received.                      *)
MessagesAreCountedTrue ==
  (Everyone /\ Sent # <<>>) =>
    LET sum == MeshSummary
        relayed == Got # <<>> /\ Len(Route(Message, Dst)) > 2
    IN /\ ~regime.fragmented =>
            /\ sum.multiHop = 1 <=> relayed
            /\ Method = (IF Got = <<>> THEN {} ELSE IF relayed THEN {"relayed"} ELSE {"direct"})
            /\ relayed => (Touched # {} /\ sum.forwarded = 1)
            /\ sum.carried = 1 <=> \E x \in Nodes \ {Src, Dst} : ttl[x][Message] # None
            /\ (relayed /\ regime.closed = {}) => sum.carried = 1
       /\ Cost.arrived + Cardinality(Redundant) <= Cost.received

(* What the figure says it shows of all sent messages: whether a relay's custody ever took them. *)
TouchedAreAll ==
  (Everyone /\ Sent # <<>>) =>
    ((\E p \in Parts : \E x \in Nodes \ {Src, Dst} : ttl[x][p] # None) => Touched # {})

(* What the analysis says of a path it marks exact: that the path is the way the message came. *)
ExactPathsAreTrue ==
  (Everyone /\ Sent # <<>> /\ ~regime.fragmented /\ Got # <<>>) =>
    (PathRow.pathExact = TRUE => PathRow.path = Route(Message, Dst))

(* Of the packets the join follows, those it calls home have come to the node they were for,  *)
(* the relayed and the carried ones to another; when every trace is there it misses none that *)
(* came home, and the unfragmented packet it gives up as never having left was never received.*)
JoinIsSound ==
  LET join == Join
  IN /\ \A p \in join.home : via[p][Target(p)] # None
     /\ \A p \in join.relayed : Landed(p) # {}
     /\ \A p \in join.carried : Landed(p) \ {Target(p)} # {}
     /\ Everyone => {p \in Packets : p # Message \/ ~regime.fragmented} \cap
                    {p \in Minted : Complete(Dst, p) /\ via[p][Target(p)] # None} \subseteq join.home
     /\ (Everyone /\ ~regime.fragmented) => \A p \in join.lost : Landed(p) = {}

(* The line the join prints of a lost packet: it never left its sender. *)
LostNeverLeft == Everyone => \A p \in Join.lost : Landed(p) = {}

(* "Entered a buffer": every packet that a relay holds is counted as carried. *)
CarriedAreCounted ==
  Everyone => \A p \in Minted : (\E x \in Nodes \ {Src, Dst} : ttl[x][p] # None) => p \in Join.carried

(* Each stage of the cost figure is within the one before. *)
StagesNest == Everyone => (Cost.arrived <= Cost.received /\ Cost.received <= Cost.aired)
=============================================================================
