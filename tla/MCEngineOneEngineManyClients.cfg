SPECIFICATION Spec
CONSTANTS
  Records    <- MCTestRecords
  BehindSet  <- MCBehindSet
  BufferSize = 8192
  Embedder   = FALSE
  MaxCalls   = 2
  MaxRecords = 1
INVARIANT
  FinishedCoversOwnHandshake
