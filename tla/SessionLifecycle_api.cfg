SPECIFICATION Spec
CONSTANTS
  Sessions = {s1, s2}
  Clients = {c1, c2}
  Conns = {}
  Reports = {"RUNNING", "SUSPENDED", "TERMINATED"}
  NoSession = NoSession
SYMMETRY Symmetry
INVARIANTS TimestampsAgree
PROPERTIES ImplementsMachine
