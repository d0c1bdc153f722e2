SPECIFICATION Spec
CONSTANTS
  Keys = {k1}
  Values = {"empty", "short", "long"}
  Size <- MCSize
  Expiration = 1
  Cleaners = {c1, c2}
  TooLarge = {"long"}
  MaxClock = 2
  MaxCrashes = 1
INVARIANTS
  TypeOK
  DoomedIsExpired
PROPERTIES
  PublishedNeverRewritten
  PublishedAsWritten
  ExpiredPurged
  ImplementsEphemeralMap
CHECK_DEADLOCK FALSE
