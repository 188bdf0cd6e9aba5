SPECIFICATION PartSpec
CONSTANTS
  Parts = {"writer", "watched", "reconnected"}
  Script <- Completes
  Viewers = {v1}
  OtherScript <- Fails
  MaxConns = 3
  AgentCap = 2
  ChanCap = 2
  MaxEvents = 4
  MaxFlushes = 2
  MaxCloses = 1
CHECK_DEADLOCK FALSE
INVARIANTS
  BufferHasTimer
  LiveFeedComplete

  
  
