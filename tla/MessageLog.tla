----------------------------- MODULE MessageLog -----------------------------
(***************************************************************************)
(* What the data node promises the two ends of a conversation: a message   *)
(* that became readable stays readable, and nothing is announced to a      *)
(* gateway, or acknowledged to Kafka, before it is readable.  Nothing is   *)
(* said about order, about how often a message is stored, or about calls   *)
(* that got no number (MsgIngest!Numbered).                                *)
(***************************************************************************)
CONSTANT Msgs

VARIABLES readable, announced

vars == <<readable, announced>>

Init == readable = {} /\ announced = {}

Publish ==
    /\ readable \subseteq readable' /\ readable' \subseteq Msgs
    /\ UNCHANGED announced

Announce(m) ==
    /\ m \in readable
    /\ announced' = announced \cup {m}
    /\ UNCHANGED readable

Next == Publish \/ \E m \in Msgs : Announce(m)

Spec == Init /\ [][Next]_vars
=============================================================================
