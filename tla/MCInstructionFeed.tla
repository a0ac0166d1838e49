-------------------------- MODULE MCInstructionFeed --------------------------
(* Two cores; kernels of one block, which leaves a core without any, and of *)
(* three; an instruction has the one micro-operation its handler adds.      *)
EXTENDS InstructionFeed
MCGrids == {[x |-> 1, y |-> 1, z |-> 1], [x |-> 1, y |-> 3, z |-> 1]}
MCMicroOpCounts == {1}
=============================================================================
