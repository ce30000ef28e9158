--------------------------- MODULE DeliveryPromise ---------------------------
(***************************************************************************)
(* What the durable webhook queue promises for one delivery: once queued it *)
(* is tried until an attempt settles it, each recorded attempt was really   *)
(* made, and only a redelivery opens a finished delivery again.  Attempts   *)
(* may be made that are not recorded: delivery is at least once.           *)
(***************************************************************************)
EXTENDS Naturals

VARIABLES
  state,    \* "absent", "pending", "finished" or "removed"
  tried,    \* attempts made
  recorded  \* attempts on record

vars == <<state, tried, recorded>>

Init == state = "absent" /\ tried = 0 /\ recorded = 0

Queue ==
  /\ state = "absent" /\ state' = "pending"
  /\ UNCHANGED <<tried, recorded>>

Try ==
  /\ state = "pending" /\ tried' = tried + 1
  /\ UNCHANGED <<state, recorded>>

Record ==
  /\ state = "pending" /\ recorded < tried
  /\ recorded' = recorded + 1
  /\ state' \in {"pending", "finished"}
  /\ UNCHANGED tried

Requeue ==
  /\ state = "finished" /\ state' = "pending"
  /\ UNCHANGED <<tried, recorded>>

(* The delivery and its attempts go with their webhook. *)
Remove ==
  /\ state \in {"pending", "finished"} /\ state' = "removed"
  /\ recorded' = 0
  /\ UNCHANGED tried

Next == Queue \/ Try \/ Record \/ Requeue \/ Remove

Spec == Init /\ [][Next]_vars

=============================================================================
