SPECIFICATION FairSpec
CONSTANTS
  MAX_THREADS = 2
  NumKernels = 2
  Grids <- MCGrids
  MaxLength = 2
  MicroOpCounts <- MCMicroOpCounts
  ipcCount = 2
  InputSize = 12
INVARIANTS
  TypeOK
  TraceMatchesShares
  FedInOrder
  KernelFed
PROPERTIES
  PacketsKept
  FeedEnds
CHECK_DEADLOCK FALSE
