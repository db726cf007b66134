----------------------------- MODULE MCPresence -----------------------------
(* The online store of one gateway. *)
EXTENDS Presence

CONSTANT n1

MCNodeOf == [c \in Conns |-> n1]
=============================================================================
