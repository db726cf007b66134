-------------------------- MODULE MCGatewaySession --------------------------
(* Two connections on one gateway, whose clients hold the tokens of one user each. *)
EXTENDS GatewaySession

CONSTANTS c1, c2, n1, u1, u2

MCNodeOf == [c \in Conns |-> n1]
MCMayClaim == [c \in Conns |-> IF c = c1 THEN {u1} ELSE {u2}]
=============================================================================
