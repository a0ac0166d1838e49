---------------------------- MODULE MCSPPipeline ----------------------------
(* Small instances of SPPipeline for TLC. *)
EXTENDS SPPipeline, TLC

\* A load, an operation that writes the bank all operands are read from, and
\* the marker at the end of a block, which has no registers.
Mix ==
  {[type |-> "load",    regs |-> 2, dst |-> 1, addresses |-> 2],
   [type |-> "alu",     regs |-> 3, dst |-> 0, addresses |-> 0],
   [type |-> "inValid", regs |-> 0, dst |-> 0, addresses |-> 0]}

\* A load and the marker only, for longer traces.
Two ==
  {[type |-> "load",    regs |-> 2, dst |-> 1, addresses |-> 2],
   [type |-> "inValid", regs |-> 0, dst |-> 0, addresses |-> 0]}

Cycles == "load" :> 3 @@ "store" :> 1 @@ "alu" :> 2 @@ "inValid" :> 1

=============================================================================
