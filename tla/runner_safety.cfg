SPECIFICATION Spec
CONSTANTS
  MaxNumJavaThreads = 2
  totalNumCores = 3
  totalNumKernels = 1
  totalBlocks <- OneKernel
  SynchClockDomainsCycles = 2
  MaxKernelCycles = 6
INVARIANTS
  TypeOK
  ArrivesOnce
  EpochAccounting
  CoreAccounting
  NoOrphanWait
  ExclusiveCores
  EpochBound
  GlobalClockFloor
PROPERTIES
  ThrowsOnlyOnDoubleArrival
CHECK_DEADLOCK FALSE
