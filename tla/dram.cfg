SPECIFICATION Spec
CONSTANTS
  numBanks = 2
  Rows = {1, 2}
  Requests <- MCRequests
  MaxRequests = 2
  MaxClock = 7
  MaxClears = 1
  RAMclock = 1
  RefreshPeriod = 2
  TOTAL_ROW_ACCESSES = 1
  MaxActivates = 1
  tFAW = 2
  tCMD = 1
  tCCD = 2
  tBL2 = 1
  tRL = 1
  tRCD = 2
  tRAS = 2
  tRC = 5
  tRP = 3
  tRRD = 1
  tRFC = 2
  ReadToPreDelay = 2
  ReadToWriteDelay = 3
  WriteToPreDelay = 4
  WriteToReadDelayB = 4
INVARIANTS
  TypeOK
  RequestsConserved
  RowKept
PROPERTIES
  ReadsTakenOnlyLate
CHECK_DEADLOCK FALSE
