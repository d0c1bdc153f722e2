SPECIFICATION Spec
CONSTANTS
  Keys = {k1}
  Values = {"short"}
  Size <- MCSize
  Expiration = 1
  Cleaners = {c1}
  TooLarge = {}
  MaxClock = 2
  MaxCrashes = 0
PROPERTY NoEarlyExpiry
\* Once the server has died MaxCrashes times, and been killed again, nothing
\* is left to do: the model stops at its bounds.
CHECK_DEADLOCK FALSE
