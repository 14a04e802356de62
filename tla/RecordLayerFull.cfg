SPECIFICATION Spec
CONSTANTS
  HalfDuplex = FALSE
  AllocMayFail = TRUE
  MaxRecords = 3
  MaxOthers = 1
INVARIANTS
  TypeOK
  CounterSkew
  NonceOncePerSender
  
PROPERTIES
  ApplicationRecordsFreed
CHECK_DEADLOCK FALSE
