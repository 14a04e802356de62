SPECIFICATION Spec
CONSTANTS
  Records    <- MCPaddingRecords
  BehindSet  <- MCBehindSet
  BufferSize = 8192
  Embedder   = FALSE
  MaxCalls   = 1
  MaxRecords = 1
INVARIANT
  HandshakeReturns
