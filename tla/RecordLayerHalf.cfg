SPECIFICATION Spec
CONSTANTS
  HalfDuplex = TRUE
  AllocMayFail = FALSE
  MaxRecords = 3
  MaxOthers = 1
INVARIANTS
  GenuineRecordsOpen
  NonceOnceOverall
PROPERTIES
  ImplementsChannel
CHECK_DEADLOCK FALSE
