SPECIFICATION FairSpec
CONSTANTS
  num_banks = 2
  num_collector_units = 2
  num_dispatch_units = 1
  Instructions <- Two
  Latency <- Cycles
  KernelSize = 4
  totalNumKernels = 2
  InputSize = 5
  WarpTableSize = 3
INVARIANTS
  TypeOK
  OnePlace
  QueuesMatchCollectors
  DispatchedWithOperands
  NeverDead
  FeedRunsNoCycle
  LeftBehindBound
  BoundedOvertaking
  ReadyWaitsOneRound
PROPERTIES
  NoWriteLost
  KernelsFinish
CHECK_DEADLOCK FALSE
