SPECIFICATION Spec
CONSTANTS
  MaxFd = 4
  Home = "home"
  Starts <- MCStarts
INVARIANTS
  TypeOK
  OwnDirectory
  StillListening
  NoTerminal
  NoHalfIdentity
  OptionsTaken
  EachWordOnce
  Arranged
PROPERTY
  StartEnds
\* The start comes to its end.
CHECK_DEADLOCK FALSE
