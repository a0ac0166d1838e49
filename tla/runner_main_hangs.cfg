SPECIFICATION FairSpec
CONSTANTS
  MaxNumJavaThreads = 2
  totalNumCores = 3
  totalNumKernels = 1
  totalBlocks <- OneKernel
  SynchClockDomainsCycles = 1
  MaxKernelCycles = 2
PROPERTIES
  MainFinishes
CHECK_DEADLOCK FALSE
