SPECIFICATION FairSpec
CONSTANTS
  AllocMayFail = TRUE
  Documents <- MCDocuments
  MaxCalls  = 2
  SerialCap = 3
  NameCap   = 8
  KeyCap    = 4
INVARIANTS
  TypeOK
  ReadsStayInside
  AcceptsExactlyWhen
  TreeTilesInput
  NothingLeaks
  CopiesStayInside
PROPERTY
  ParseEnds
