SPECIFICATION Spec
CONSTANTS
  MaxEvents = 2
  MaxFlushes = 1
  MaxCloses = 0
CHECK_DEADLOCK FALSE
INVARIANT NoEventLost
