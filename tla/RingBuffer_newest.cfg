SPECIFICATION Spec
CONSTANTS
  SearchLimit = 32
  Capacity = 3
  Spare = 3
  MaxBytes = 6
INVARIANTS
  KeepsNewest
