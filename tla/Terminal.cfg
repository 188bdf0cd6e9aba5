SPECIFICATION PartSpec
CONSTANTS
  v1 = v1
  h1 = h1
  None = None
  Parts = {"ring", "mirror", "rehydrate", "live", "serial", "restarted", "attach"}
  MirrorCap = 2
  MirrorChan = 3
  MirrorBytes = 4
  ReplayCap = 4
  ReplayChan = 2
  ReplayBytes = 2
  MaxStreams = 2
  MaxRestarts = 1
  Recorded = {s1}
  Handlers = {h1, h2}
  MaxRecordings = 2
  MaxChunks = 3
  Terminals = {t1, t2}
  MaxOut = 3
  RingCap = 2
  SockCap = 1
  MaxInput = 1
  SearchLimit = 2
  Capacity = 3
  Spare = 2
  MaxBytes = 7
CHECK_DEADLOCK FALSE
INVARIANTS
  KeepsAll
  Mirrors
  Rehydrated
  
  
PROPERTIES
  CaughtUp
  FanOutEnds
