------------------------------- MODULE MCRelay -------------------------------
(* A frame for every connection of a user and one for a single connection. *)
EXTENDS Relay

CONSTANTS c1, u1, f1, f2

MCTo == [f \in Frames |-> u1]
MCSid == [f \in Frames |-> IF f = f2 THEN c1 ELSE NoConn]
=============================================================================
