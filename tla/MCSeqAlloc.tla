----------------------------- MODULE MCSeqAlloc -----------------------------
(* Model-checking instance of SeqAlloc: two callers, blocks of two numbers. *)
EXTENDS SeqAlloc, TLC

CONSTANTS a, b
MCBlockOf == [n \in Needs |-> 2]
MCSymmetry == Permutations({a, b})
=============================================================================
