SPECIFICATION Spec
CONSTANTS
  MaxNumJavaThreads = 2
  totalNumCores = 4
  totalNumKernels = 1
  totalBlocks <- OneKernel
  SynchClockDomainsCycles = 1
  MaxKernelCycles = 2
INVARIANTS
  NoCoreUnexecuted
CHECK_DEADLOCK FALSE
