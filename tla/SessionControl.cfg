SPECIFICATION FairSpec
CONSTANTS
  Sessions = {s1}
  Clients = {c1, c2}
  MaxRequests = 2
  MaxConns = 2
  MaxRestarts = 1
  OutCap = 2
  PrioCap = 1
  NetCap = 1
  MaxSessions = 0
CHECK_DEADLOCK FALSE
INVARIANTS
  ActiveHasProcess
  OrphansEndAtReconnect
PROPERTIES
  StartAnswered
