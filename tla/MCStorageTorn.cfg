SPECIFICATION Spec
CONSTANTS
  Keys = {k1}
  Values = {"short", "long"}
  Size <- MCSize
  Expiration = 1
  Cleaners = {c1}
  TooLarge = {"long"}
  MaxClock = 0
  MaxCrashes = 0
INVARIANT FilledAtomically
\* Once the server has died MaxCrashes times, and been killed again, nothing
\* is left to do: the model stops at its bounds.
CHECK_DEADLOCK FALSE
