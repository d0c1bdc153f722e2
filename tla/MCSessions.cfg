SPECIFICATION Spec
CONSTANTS
  Procs = {p1, p2}
  Ids = {i1}
  Conns = {c1, c2}
  MaxCount = 2
  NoConn = NoConn
  NoId = NoId
INVARIANTS
  TypeOK
  WaitsForOwnReply
  NoSocketLeft
  EveryLoadCounted
PROPERTY ScriptsEnd
