SPECIFICATION Spec
CONSTANTS
  Holders  = {h1, h2}
  NumBytes = 6
  PageSize = 3
  MaxSize  = 3
INVARIANTS
  FreeBytesHoldNoSecret
  
PROPERTY
  ImplementsBuffers
