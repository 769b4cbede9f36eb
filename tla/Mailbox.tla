------------------------------- MODULE Mailbox -------------------------------
(***************************************************************************)
(* What the network promises for a message, whatever carries it: it is     *)
(* handed to the recipient's application at most once, and the sender is   *)
(* told only of what was handed over.                                      *)
(***************************************************************************)
EXTENDS Naturals

CONSTANT Messages
VARIABLES sent,      \* messages posted
          inbox,     \* how often each was handed to the application
          confirmed  \* messages their sender shows as delivered
vars == <<sent, inbox, confirmed>>

Init == sent = {} /\ inbox = [m \in Messages |-> 0] /\ confirmed = {}

Post(m) ==
  /\ m \notin sent
  /\ sent' = sent \cup {m}
  /\ UNCHANGED <<inbox, confirmed>>

Deliver(m) ==
  /\ m \in sent /\ inbox[m] = 0
  /\ inbox' = [inbox EXCEPT ![m] = 1]
  /\ UNCHANGED <<sent, confirmed>>

Confirm(m) ==
  /\ inbox[m] = 1 /\ m \notin confirmed
  /\ confirmed' = confirmed \cup {m}
  /\ UNCHANGED <<sent, inbox>>

Next == \E m \in Messages : Post(m) \/ Deliver(m) \/ Confirm(m)
Spec == Init /\ [][Next]_vars

(* A posted message arrives and is confirmed.                              *)
LiveSpec ==
  Spec /\ \A m \in Messages : WF_vars(Deliver(m)) /\ WF_vars(Confirm(m))
=============================================================================
