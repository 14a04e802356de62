SPECIFICATION FairSpec
CONSTANTS
  Records    <- MCRecords
  BehindSet  <- MCBehindSet
  BufferSize = 8192
  Embedder   = TRUE
  MaxCalls   = 2
  MaxRecords = 1
INVARIANTS
  TypeOK
  KeysBoundToContext
  TranscriptFillsBuffer
  ResetForgetsClients
  FirstHandshakeVerifies
  CompletionAgrees
  StateMatchesMessages
PROPERTIES
  
  HandshakeKeepsToTable
  
  ImplementsService
