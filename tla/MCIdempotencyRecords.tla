------------------------ MODULE MCIdempotencyRecords ------------------------
(* Small instances of the idempotency records. *)
EXTENDS IdempotencyRecords, TLC

CONSTANTS r1, r2, r3, b1, b2

ThreeRequests == {r1, r2, r3}
OneBody == {b1}
TwoBodies == {b1, b2}

(* Requests and bodies are told apart by nothing. *)
Symmetry == Permutations(Requests) \cup Permutations(Bodies)

=============================================================================
