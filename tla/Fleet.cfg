SPECIFICATION PartSpec
CONSTANTS
  None = None
  MaxSatellites = 2
  Names = {n1, n2}
  Tags = {"gpu"}
  Cpus = {10, 60}
  Mems = {20}
  Disks = {30}
  Targets = {1}
  Clients = {c1}
  MaxSessions = 1
  Parts = {"enrolment", "fleet"}
  Machines = {"a", "b"}
  Windows = {"b"}
  Keys = {"k1", "k2"}
  MaxRows = 2
  MaxKills = 1
CHECK_DEADLOCK FALSE
INVARIANTS
  KeysSurvive
  OwnRecord
  NotDominated
