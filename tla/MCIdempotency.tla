--------------------------- MODULE MCIdempotency ---------------------------
(* Small instances of Idempotency. *)
EXTENDS Idempotency, TLC

Symmetry == Permutations(Client)

=============================================================================
