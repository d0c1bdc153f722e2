SPECIFICATION Spec
CONSTANTS
  MaxFd = 4
  Home = "home"
  Starts <- MCStarts
INVARIANT PrivilegesRevoked
\* The start comes to its end.
CHECK_DEADLOCK FALSE
