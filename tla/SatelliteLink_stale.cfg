SPECIFICATION Spec
CONSTANTS
  MaxConns = 2
  Sessions = {}
  MaxLost = 1
INVARIANTS ConnectedIsRegistered
