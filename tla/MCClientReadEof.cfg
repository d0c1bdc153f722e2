SPECIFICATION Spec
CONSTANTS
  ChunkSize = 4
  MaxReadSize = 12
  Lengths <- MCLengths
  MaxStream = 8
  MaxWakeups = 1
  OthersActive = FALSE
PROPERTY PeerCloseNoticed
\* A connection ends dispatched or closed.
CHECK_DEADLOCK FALSE
