SPECIFICATION Spec
CONSTANTS
  Clients = {p1, p2}
  Fds = {5, 6, 7}
  MaxReply = 2
  SendBuffer = 1
INVARIANT WriteErrorEndsOneConnection
\* The server may be dead.
CHECK_DEADLOCK FALSE
