SPECIFICATION Spec
CONSTANTS
  Clients = {p1, p2, p3, p4}
  Fds = {5, 6, 7}
  MaxReply = 2
  SendBuffer = 1
INVARIANTS
  TypeOK
  ResourcesOwned
  OneEventEach
PROPERTIES
  BacklogServed
  ImplementsConversations
\* The server may be dead.
CHECK_DEADLOCK FALSE
