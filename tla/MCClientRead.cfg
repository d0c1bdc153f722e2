SPECIFICATION Spec
CONSTANTS
  ChunkSize = 4
  MaxReadSize = 12
  Lengths <- MCLengths
  MaxStream = 17
  MaxWakeups = 1
  OthersActive = TRUE
INVARIANTS
  TypeOK
  BufferBounded
  ArmedWhileReading
  WholeRequestNotRefused
PROPERTIES
  ImplementsFraming
  ReadingEnds
\* A connection ends dispatched or closed.
CHECK_DEADLOCK FALSE
