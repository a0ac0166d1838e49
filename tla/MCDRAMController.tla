--------------------------- MODULE MCDRAMController ---------------------------
(* A small instance of DRAMController for TLC. *)
EXTENDS DRAMController

(* Two rows of a bank, and a write to the other bank. *)
MCRequests ==
  {[type |-> "READ", bank |-> 1, row |-> 1], [type |-> "READ", bank |-> 1, row |-> 2],
   [type |-> "WRITE", bank |-> 0, row |-> 1]}
=============================================================================
