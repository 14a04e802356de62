SPECIFICATION Spec
CONSTANTS
  Nonces      = {1, 2}
  Lengths     = {0, 1, 16, 17, 64, 65, 4080, 4081, 4097, 16384}
  SaltLengths = {0, 24, 32}
  InfoLengths = {0, 9, 13, 23}
  OkmLengths  = {0, 32, 96, 100}
INVARIANTS
  OpensWhatWasSealed
  
PROPERTY
  StreamNeverRepeats
CHECK_DEADLOCK FALSE
