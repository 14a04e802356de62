SPECIFICATION Spec
CONSTANTS
  Records    <- MCTestRecords
  BehindSet  <- MCBehindSet
  BufferSize = 8192
  Embedder   = FALSE
  MaxCalls   = 1
  MaxRecords = 1
INVARIANT
  EncryptsAfterHandshake
