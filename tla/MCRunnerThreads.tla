--------------------------- MODULE MCRunnerThreads ---------------------------
(* Small instances of RunnerThreads for TLC. *)
EXTENDS RunnerThreads, TLC

\* Kernel 0 has blocks for every core, kernel 1 only for core 0.
TwoKernels == 0 :> 4 @@ 1 :> 1
OneKernel  == 0 :> 4

=============================================================================
