SPECIFICATION FairSpec
CONSTANTS
  MaxNumJavaThreads = 2
  totalNumCores = 3
  totalNumKernels = 2
  totalBlocks <- TwoKernels
  SynchClockDomainsCycles = 2
  MaxKernelCycles = 2
INVARIANTS
  EveryBlockOnce
PROPERTIES
  MainFinishesUnlessThrown
CHECK_DEADLOCK FALSE
