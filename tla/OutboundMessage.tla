--------------------------- MODULE OutboundMessage ---------------------------
(***************************************************************************)
(* An outgoing message from send() to its confirmation                     *)
(* (grassroots_network.dart, messages_reducer.dart): the packets it is     *)
(* sealed into, the loop that stores and writes them one by one, the index *)
(* from a message to its buffered packets, and the status record shown to  *)
(* the user.  Between two awaits a handler runs alone; each action below   *)
(* is the code between two awaits.                                         *)
(*                                                                         *)
(* The recipient, the mesh and the DTN store's own reasons to shed a       *)
(* packet are the environment (see DtnCustody).  Every send has an id of   *)
(* its own, as chat_screen.dart and main.dart have it.                     *)
(***************************************************************************)
EXTENDS Naturals, Sequences, FiniteSets, SequencesExt

CONSTANTS Messages,
          Fragments,    \* packets each message is sealed into
          MaxMessages,  \* status records kept
          CancelMidSend, DeleteMidSend, \* may these come while a send is under way
          RetireOnSend  \* whether a sent message's packets are retired at once, which a
                        \* bench of the link may switch at any time

ASSUME OutboundAssumption ==
  /\ Fragments \in [Messages -> Nat \ {0}]
  /\ MaxMessages \in Nat \ {0}
  /\ {CancelMidSend, DeleteMidSend} \subseteq BOOLEAN
  /\ RetireOnSend \subseteq BOOLEAN /\ RetireOnSend # {}

VARIABLES status,   \* outgoingMessages: a message's status, or Absent
          order,    \* recorded messages by sentAt
          chat,     \* messages of the conversation
          index,    \* _dtnPacketIds with its reverse map: packets not known gone
          buffered, \* our own packets in the DTN store
          stored,   \* packets that ever were (history)
          arrived,  \* packets the recipient has
          loop,     \* per message: where its send is
          session,  \* whether a session with the recipient exists
          cancelled, deleted  \* messages the user withdrew (history)
vars == <<status, order, chat, index, buffered, stored, arrived, loop, session,
          cancelled, deleted>>

Absent == "absent"
Statuses == {"sending", "queued", "failed", "sent", "delivered", "read"}
PacketsOf(m) == {<<m, i>> : i \in 1..Fragments[m]}
Packets == UNION {PacketsOf(m) : m \in Messages}

(* A send is sealing, writing its at-th packet, or over; aired once a      *)
(* write succeeded.                                                        *)
Step(pc, at, aired) == [pc |-> pc, at |-> at, aired |-> aired]
Idle == Step("idle", 0, FALSE)
UnderWay(m) == loop[m].pc # "idle"

Init ==
  /\ status = [m \in Messages |-> Absent] /\ order = <<>> /\ chat = {}
  /\ index = [m \in Messages |-> {}]
  /\ buffered = {} /\ stored = {} /\ arrived = {}
  /\ loop = [m \in Messages |-> Idle]
  /\ session \in BOOLEAN
  /\ cancelled = {} /\ deleted = {}

-----------------------------------------------------------------------------
(* The reducer.                                                            *)

(* The records past the newest MaxMessages are trimmed.                    *)
Trimmed(s) == IF Len(s) > MaxMessages THEN Tail(s) ELSE s
Kept(st, s) == [m \in Messages |-> IF m \in ToSet(s) THEN st[m] ELSE Absent]

Recorded(m, to) ==
  LET s == Trimmed(Append(order, m)) IN
  /\ order' = s
  /\ status' = Kept([status EXCEPT ![m] = to], s)

Becomes(m, to) == status' = [status EXCEPT ![m] = to] /\ UNCHANGED order

_isTerminalForRegression(st) == st \in {"delivered", "read", "failed"}

MessageFailed(m) ==
  IF status[m] \in {Absent, "delivered", "read"}
  THEN UNCHANGED <<status, order>> ELSE Becomes(m, "failed")

MessageQueued(m) ==
  IF status[m] = Absent \/ _isTerminalForRegression(status[m])
  THEN UNCHANGED <<status, order>> ELSE Becomes(m, "queued")

\* Mutant: a sent message is sent, whatever its record says.
MessageSent_Blind(m) ==
  IF status[m] = Absent THEN Recorded(m, "sent") ELSE Becomes(m, "sent")
MessageSent(m) ==
  IF status[m] = Absent THEN Recorded(m, "sent")
  ELSE IF _isTerminalForRegression(status[m])
       THEN UNCHANGED <<status, order>> ELSE Becomes(m, "sent")

MessageDelivered(m) ==
  IF status[m] \in {Absent, "read"}
  THEN UNCHANGED <<status, order>> ELSE Becomes(m, "delivered")

MessageRead(m) ==
  IF status[m] = Absent THEN UNCHANGED <<status, order>> ELSE Becomes(m, "read")

-----------------------------------------------------------------------------
(* Sending.                                                                *)

(* Without an entry only the packet named like its message can be meant.   *)
ReleasedFor(m) ==
  IF index[m] = {} /\ Fragments[m] = 1 THEN PacketsOf(m) ELSE index[m]

\* Mutant: the index lets go of packets the store keeps.
_dropFromDtnBufferFor_Kept(m) == index' = [index EXCEPT ![m] = {}] /\ UNCHANGED buffered
_dropFromDtnBufferFor(m) ==
  /\ buffered' = buffered \ ReleasedFor(m)
  /\ index' = [index EXCEPT ![m] = {}]

\* Mutant: a packet is stored once its write has ended.
StoreThenWrite_Late(m, i, aired) ==
  /\ buffered' = buffered \cup ({<<m, i - 1>>} \cap PacketsOf(m))
  /\ stored' = stored \cup ({<<m, i - 1>>} \cap PacketsOf(m))
  /\ loop' = [loop EXCEPT ![m] = Step("writing", i, aired)]
(* The packet is in the store before its write begins.                     *)
StoreThenWrite(m, i, aired) ==
  /\ buffered' = buffered \cup {<<m, i>>}
  /\ stored' = stored \cup {<<m, i>>}
  /\ loop' = [loop EXCEPT ![m] = Step("writing", i, aired)]

Send(m) ==
  /\ status[m] = Absent /\ ~ UnderWay(m) /\ m \notin chat \cup deleted
  /\ PacketsOf(m) \cap stored = {}
  /\ chat' = chat \cup {m}
  /\ IF session
     THEN /\ Recorded(m, "sending")
          /\ loop' = [loop EXCEPT ![m] = Step("sealing", 0, FALSE)]
     ELSE /\ Recorded(m, "failed") /\ UNCHANGED loop
  /\ UNCHANGED <<index, buffered, stored, arrived, session, cancelled, deleted>>

\* Mutant: the send ends without a word to the user.
SessionRace_Silent(m) ==
  /\ ~ session
  /\ loop' = [loop EXCEPT ![m] = Idle]
  /\ UNCHANGED <<status, order, index, buffered, stored>>
(* The session vanished between the check and the seal.                    *)
SessionRace(m) ==
  /\ ~ session
  /\ MessageFailed(m)
  /\ loop' = [loop EXCEPT ![m] = Idle]
  /\ UNCHANGED <<index, buffered, stored>>

Sealed(m) ==
  /\ loop[m].pc = "sealing"
  /\ \/ SessionRace(m)
     \/ /\ session
        /\ index' = [index EXCEPT ![m] = PacketsOf(m)]
        /\ StoreThenWrite(m, 1, FALSE)
        /\ UNCHANGED <<status, order>>
  /\ UNCHANGED <<chat, arrived, session, cancelled, deleted>>

(* A write ends: accepted or not, and whatever was said of it, the packet  *)
(* reached the recipient or not.  The next packet follows, or the send is  *)
(* over: its packets retired at once by a bench, and marked.               *)
WriteEnds(m) ==
  /\ loop[m].pc = "writing"
  /\ \E accepted, hit \in BOOLEAN :
       LET i == loop[m].at  aired == loop[m].aired \/ accepted IN
       /\ arrived' = IF hit THEN arrived \cup {<<m, i>>} ELSE arrived
       /\ IF i < Fragments[m]
          THEN StoreThenWrite(m, i + 1, aired) /\ UNCHANGED <<status, order, index>>
          ELSE /\ loop' = [loop EXCEPT ![m] = Idle]
               /\ IF aired THEN MessageSent(m) ELSE MessageQueued(m)
               /\ \E retires \in RetireOnSend :
                    IF retires THEN _dropFromDtnBufferFor(m) ELSE UNCHANGED <<buffered, index>>
               /\ UNCHANGED stored
  /\ UNCHANGED <<chat, session, cancelled, deleted>>

-----------------------------------------------------------------------------
(* Packets leaving the buffer, and what the recipient says.                *)

\* Mutant: the first packet to leave takes the message out of the index.
_forgetBufferedPacket_Whole(p) ==
  index' = [index EXCEPT ![p[1]] = IF p \in @ THEN {} ELSE @]
_forgetBufferedPacket(p) == index' = [index EXCEPT ![p[1]] = @ \ {p}]

(* Expiry, eviction or retirement in the DTN store.                        *)
Shed(p) ==
  /\ p \in buffered
  /\ buffered' = buffered \ {p}
  /\ _forgetBufferedPacket(p)
  /\ UNCHANGED <<status, order, chat, stored, arrived, loop, session, cancelled, deleted>>

(* A sync exchange conveys a buffered packet, ours or a relay's copy.      *)
Conveyed(p) ==
  /\ p \in stored \ arrived
  /\ arrived' = arrived \cup {p}
  /\ UNCHANGED <<status, order, chat, index, buffered, stored, loop, session,
                 cancelled, deleted>>

Confirmable(m) == PacketsOf(m) \subseteq arrived

(* An ACK is carried like any packet and may come more than once.          *)
AckReceived(m) ==
  /\ Confirmable(m)
  /\ IF status[m] \in {"delivered", "read"}
     THEN UNCHANGED <<status, order>> ELSE MessageDelivered(m)
  /\ _dropFromDtnBufferFor(m)
  /\ UNCHANGED <<chat, stored, arrived, loop, session, cancelled, deleted>>

ReadReceiptReceived(m) ==
  /\ Confirmable(m)
  /\ MessageRead(m)
  /\ _dropFromDtnBufferFor(m)
  /\ UNCHANGED <<chat, stored, arrived, loop, session, cancelled, deleted>>

CancelBufferedMessage(m) ==
  /\ UnderWay(m) => CancelMidSend
  /\ m \in chat /\ m \notin cancelled
  /\ cancelled' = cancelled \cup {m}
  /\ _dropFromDtnBufferFor(m)
  /\ UNCHANGED <<status, order, chat, stored, arrived, loop, session, deleted>>

(* The thread goes, and the status records of its messages with it.        *)
DeleteConversation ==
  /\ chat # {} /\ (DeleteMidSend \/ \A m \in chat : ~ UnderWay(m))
  /\ LET s == SelectSeq(order, LAMBDA m : m \notin chat) IN
       order' = s /\ status' = Kept(status, s)
  /\ chat' = {} /\ deleted' = deleted \cup chat
  /\ UNCHANGED <<index, buffered, stored, arrived, loop, session, cancelled>>

SessionChanges ==
  /\ session' = ~ session
  /\ UNCHANGED <<status, order, chat, index, buffered, stored, arrived, loop,
                 cancelled, deleted>>

Next ==
  \/ \E m \in Messages :
       \/ Send(m) \/ Sealed(m) \/ WriteEnds(m)
       \/ AckReceived(m) \/ ReadReceiptReceived(m) \/ CancelBufferedMessage(m)
  \/ \E p \in Packets : Shed(p) \/ Conveyed(p)
  \/ DeleteConversation \/ SessionChanges

Spec == Init /\ [][Next]_vars
FairSpec == Spec /\ \A m \in Messages : WF_vars(Sealed(m)) /\ WF_vars(WriteEnds(m))
-----------------------------------------------------------------------------
(* Properties.                                                             *)

(* Every variable keeps its type; the records and their order agree. *)
TypeOK ==
  /\ status \in [Messages -> Statuses \cup {Absent}]
  /\ IsInjective(order) /\ ToSet(order) = {m \in Messages : status[m] # Absent}
  /\ Len(order) <= MaxMessages
  /\ chat \subseteq Messages /\ cancelled \subseteq Messages /\ deleted \subseteq Messages
  /\ index \in [Messages -> SUBSET Packets]
  /\ stored \subseteq Packets /\ buffered \subseteq stored
  /\ arrived \subseteq Packets /\ session \in BOOLEAN
  /\ \A m \in Messages :
       \/ loop[m] = Idle \/ loop[m] = Step("sealing", 0, FALSE)
       \/ loop[m] \in [pc : {"writing"}, at : 1..Fragments[m], aired : BOOLEAN]

(* Once its send is over, a message's index entry is exactly its packets   *)
(* still in the buffer, however they left it: an ACK releases them all,    *)
(* and no dead entry is left (grassroots_network.dart, 410-430).           *)
IndexMirrorsBuffer ==
  \A m \in Messages : ~ UnderWay(m) => index[m] = buffered \cap PacketsOf(m)

(* A message shown as delivered or read holds no packet in the buffer,     *)
(* though the ACK may overtake the end of its own send loop.               *)
ConfirmedHoldsNothing ==
  \A m \in Messages :
    status[m] \in {"delivered", "read"} => buffered \cap PacketsOf(m) = {}

(* What can be at the recipient was stored first, and a message shown as   *)
(* sent or queued was stored whole: a write that never ends loses nothing  *)
(* (message_router.dart, 1070-1084).                                       *)
StoredBeforeWritten ==
  /\ arrived \subseteq stored
  /\ \A m \in Messages : status[m] \in {"sent", "queued"} => PacketsOf(m) \subseteq stored

(* No step shows less than was known: delivered only becomes read, read    *)
(* stays, and failed only becomes delivered or read.  A record may go.     *)
StatusNeverRegresses ==
  [][\A m \in Messages :
       /\ status[m] = "read" => status'[m] \in {"read", Absent}
       /\ status[m] = "delivered" => status'[m] \in {"delivered", "read", Absent}
       /\ status[m] = "failed" =>
            status'[m] \in {"failed", "delivered", "read", Absent}]_vars

(* Nothing is held in "sending": every send settles                        *)
(* (grassroots_network.dart, 1593-1595).                                   *)
SendsSettle == \A m \in Messages : (status[m] = "sending") ~> (status[m] # "sending")

(* A withdrawn message is no longer in the buffer to be conveyed           *)
(* (grassroots_network.dart, 1774-1775).                                   *)
CancelledStaysOut == \A m \in cancelled : buffered \cap PacketsOf(m) = {}

(* A deleted conversation leaves no status record behind                   *)
(* (messages_reducer.dart, 287-289).                                       *)
DeletedStaysDeleted == \A m \in deleted : status[m] = Absent
=============================================================================
