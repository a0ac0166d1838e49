--------------------------- MODULE MCArbiterRounds ---------------------------
(* A small instance of ArbiterRounds for TLC. *)
EXTENDS ArbiterRounds

=============================================================================
