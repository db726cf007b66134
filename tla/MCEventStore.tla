----------------------------- MODULE MCEventStore -----------------------------
(* A public message that denies tags, one that a deny list keeps from the customer,
   an edit, a redaction and the publication of the latter. *)
EXTENDS EventStore, TLC

CONSTANTS m, n, edit, redact, publish

MCKind == (m :> "message") @@ (n :> "message") @@ (edit :> "edit")
          @@ (redact :> "redact") @@ (publish :> "publish")
MCDeny == [e \in Events |-> CASE e = m -> {"tags"} [] e = n -> {"agents", "tags"} [] OTHER -> {}]
MCTarget == [e \in Events |-> IF e \in {m, n} THEN NoEvent ELSE n]
===============================================================================
