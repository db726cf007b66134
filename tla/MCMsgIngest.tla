----------------------------- MODULE MCMsgIngest -----------------------------
(* Model-checking instance of MsgIngest: two workers, two messages. *)
EXTENDS MsgIngest, TLC

CONSTANTS w1, w2, m1, m2, alice, bob
MCSymmetry == Permutations({w1, w2}) \cup Permutations({m1, m2}) \cup Permutations({alice, bob})
=============================================================================
