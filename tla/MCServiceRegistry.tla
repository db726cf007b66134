--------------------------- MODULE MCServiceRegistry ---------------------------
(* A node of weight 2 beside an instance that stays and names no weight, and a
   manager that starts a watch twice. *)
EXTENDS ServiceRegistry, TLC

CONSTANTS n1, o1

MCInstances == Nodes \cup Others
MCMetaWeight == (n1 :> 2) @@ (o1 :> NoWeight)
================================================================================
