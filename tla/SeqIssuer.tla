------------------------------ MODULE SeqIssuer ------------------------------
(***************************************************************************)
(* What a conversation's allocator promises: it hands out runs of          *)
(* consecutive positive numbers and never a number twice.  Nothing is said *)
(* about order or gaps.                                                    *)
(***************************************************************************)
EXTENDS Naturals

CONSTANTS
    Needs,    \* the run lengths callers may ask for
    MaxSeq    \* bound: the largest number handed out

VARIABLE taken

Run(lo, n) == lo .. lo + n - 1

Init == taken = {}

Take(lo, n) ==
    /\ Run(lo, n) \cap taken = {}
    /\ taken' = taken \cup Run(lo, n)

Next == \E lo \in 1 .. MaxSeq, n \in Needs : Take(lo, n)

Spec == Init /\ [][Next]_taken
=============================================================================
