--------------------------- MODULE MCConnManager ---------------------------
(* Model-checking instance of ConnManager: three sockets, two users. *)
EXTENDS ConnManager

CONSTANTS c1, c2, c3, u1, u2
=============================================================================
