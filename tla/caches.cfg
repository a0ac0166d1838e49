SPECIFICATION FairSpec
CONSTANTS
  data = data
  constant = constant
  b1 = b1
  b2 = b2
  Caches <- MCCaches
  thread0 = data
  Blocks <- MCBlocks
  WriteBack <- MCWriteBack
  Ways1 = 1
  Ways2 = 1
  MshrSize = 2
  MaxRequests = 3
  Programs <- MCPrograms
INVARIANTS
  TypeOK
  RequestsAccounted
  EntriesServed
  LowerEntriesServed
PROPERTIES
  Coalesces
  ReadsAnswered
CHECK_DEADLOCK FALSE
