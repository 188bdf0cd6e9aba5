SPECIFICATION PartSpec
CONSTANTS
  Absent = Absent
  Contents = {text1, text2}
  Starter = template
  Clients = {r1, r2}
  EventCap = 1
  SendCap = 2
  MaxEdits = 2
  MaxVersion = 9
  MaxBreaks = 1
  Peers = {p1, p2}
  MaxConnections = 1
  program = program
  MaxRelease = 3
  Parts = {"link", "context", "ipc", "runtime", "update"}
  MaxConns = 2
  Sessions = {s1}
  MaxLost = 1
CHECK_DEADLOCK FALSE
INVARIANTS
  RegistryNamesServing
  QuietAgrees
  InstalledIsComplete
  RunnableKept
PROPERTIES
  SilentIsOffline
  ConnectedIsActive
  EditsSettle
  CloseReturns
