SPECIFICATION UndisturbedSpec
CONSTANTS
  MaxConnections = 2
  MaxTerms = 2
PROPERTY TwoProcesses
\* The two processes end.
CHECK_DEADLOCK FALSE
