SPECIFICATION Spec
CONSTANTS
  HelloSet  <- MCHelloSet
  BehindSet <- MCBehindSet
INVARIANTS
  BehindNeverDecides
  StoredShareInsideBlock
  
