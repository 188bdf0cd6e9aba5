SPECIFICATION Spec
CONSTANTS
  Sessions = {s1}
  Clients = {c1, c2}
  Conns = {g1, g2}
  Reports = {"RUNNING", "SUSPENDED", "TERMINATED"}
  NoSession = NoSession
SYMMETRY Symmetry
PROPERTIES IllegalOnlyFromStaleRead
