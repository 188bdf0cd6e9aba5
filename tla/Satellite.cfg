SPECIFICATION FairSpec
CONSTANTS
  Requests = {"RUNNING", "DETACHED", "RE_ATTACHING", "TERMINATED"}
  LiveRequests = {"DETACHED", "TERMINATED"}
  TTL = 3
  MaxDeploys = 2
  Lines = 2
  EventCap = 1
  Sessions = {s1, s2}
  Clients = {k1}
  Parts = {"switch", "agent", "redeploy", "daemon", "switchLive", "agentLive", "daemonLive"}
CHECK_DEADLOCK FALSE
INVARIANTS
  SuspendedIsStopped
  ChannelsSafe
PROPERTIES
  ResumeReachesProcess
  
  AgentsEndWithDaemon
  FinishedIsReported
  StopReturns
