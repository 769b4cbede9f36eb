----------------------------- MODULE DtnPackets -----------------------------
(***************************************************************************)
(* What the two views of the custody buffer are stated over: the packets,  *)
(* the recipients and the bounds of lib/src/mesh/dtn_store.dart.           *)
(***************************************************************************)
EXTENDS Naturals

CONSTANTS
    Packets,        \* sealed packets, each with one packetId
    Recipients,     \* public keys packets are addressed to
    InRange,        \* the recipients this node meets: who gets copies and asks
    To,             \* packet -> its recipient
    CreatedAt,      \* packet -> the originator's createdAtMs stamp
    Size,           \* packet -> payload bytes
    Salts,          \* the filter salts, syncFilterSaltPeriod of them
    Collides,       \* salt -> packets a filter under it may name unseen
    MaxRecipients,  \* DtnStore.maxRecipients
    MaxAge,         \* DtnStore.maxAge
    Caps,           \* the byte caps setMaxBytes is called with
    MaxTime,        \* bound: the wall clock stops here
    NoVote          \* seenVoteSalt = null

ASSUME PacketAssumption ==
    /\ To \in [Packets -> Recipients]
    /\ CreatedAt \in [Packets -> Nat]
    /\ Size \in [Packets -> Nat]

ASSUME BoundAssumption ==
    /\ InRange \subseteq Recipients
    /\ MaxAge \in Nat /\ MaxTime \in Nat /\ MaxRecipients \in Nat \ {0}
    /\ Caps \subseteq Nat /\ Caps # {}
    /\ NoVote \notin Salts

ASSUME FilterAssumption == Collides \in [Salts -> SUBSET Packets]
=============================================================================
