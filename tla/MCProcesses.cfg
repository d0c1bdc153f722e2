SPECIFICATION Spec
CONSTANTS
  MaxConnections = 2
  MaxTerms = 2
INVARIANTS
  TypeOK
  DeafOnlyWhileDying
  NeverBlocked
PROPERTIES
  CleanerDeathEndsServer
  TermEndsServer
  NoOrphan
  ConnectionsAccepted
\* The two processes end.
CHECK_DEADLOCK FALSE
