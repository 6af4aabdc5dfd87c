------------------------- MODULE MCIdempotencyStore -------------------------
(* Instances of IdempotencyStore for TLC. *)
EXTENDS IdempotencyStore, TLC

Interchangeable == Permutations(Attempts) \cup Permutations(Responses)
=============================================================================
