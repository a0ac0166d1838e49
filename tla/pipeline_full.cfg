SPECIFICATION FairSpec
CONSTANTS
  num_banks = 2
  num_collector_units = 2
  num_dispatch_units = 1
  Instructions <- Mix
  Latency <- Cycles
  KernelSize = 4
  totalNumKernels = 1
  InputSize = 3
  WarpTableSize = 3
PROPERTIES
  KernelsFinish
CHECK_DEADLOCK FALSE
