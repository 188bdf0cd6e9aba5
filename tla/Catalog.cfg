SPECIFICATION Spec
CONSTANTS
  Parts = {"agents", "pipelines", "users", "lists", "notifications"}
  None = None
  Clients = {c1, c2}
  Agents = {builtin, own}
  Seeded = {builtin}
  Names = {"m", "n"}
  Versions = {"v1", "v2"}
  Values = {"x", "y"}
  DefaultVersion = "v1"
  Bodies <- OneBody
  Patches <- OnePatch
  MaxSchedules = 1
  Ids = {pipeline}
  Heads = {h1, h2}
  Lists <- ThreeLists
  Refused = "bad"
  MaxRuns = 1
  MaxUsers = 3
  Emails = {owner, other}
  OwnerEmail = owner
  Passwords = {secret}
  MaxRows = 3
  MaxTime = 2
  Limits = {None, 0, 1, 9}
  DefaultLimit = 1
  MaxLimit = 2
  ExportLimit = 3
  Tabs = {t1, t2}
  Emitters = {e1}
  Kinds <- TwoKinds
  Settings <- OneSetting
  ChanCap = 1
  MaxEvents = 2
CHECK_DEADLOCK FALSE
INVARIANTS
  SnapshotsAreTrue
  StepsAreOneRequest
  OwnerRemains
  SessionsListedOnce
  SlowTabHurtsNobody
