---------------------------- MODULE MCUserSessions ----------------------------
(* Three logins on one device, two of them in the same second. *)
EXTENDS UserSessions

CONSTANTS l2, d1, t1, t2

MCDevice == [l \in Logins |-> d1]
MCToken == [l \in Logins |-> IF l = l2 THEN t2 ELSE t1]
===============================================================================
