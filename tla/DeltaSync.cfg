SPECIFICATION Spec
CONSTANTS
  k1 = k1
  k2 = k2
  e1 = e1
  Key = {k1, k2}
  Engine = {e1}
  MaxRuns = 2
  MaxTime = 2
  MaxVersion = 1
  Batched = TRUE
  None = None
SYMMETRY Symmetry
CHECK_DEADLOCK FALSE
INVARIANTS TypeOK NoLostChange
