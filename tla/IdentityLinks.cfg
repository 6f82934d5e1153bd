SPECIFICATION Spec
CONSTANTS
  n1 = n1  n2 = n2
  Name = {n1, n2}
  MaxId = 3
  Configs <- Sensible
  NewNames = TRUE
  Unruly = FALSE
  MaxChanges = 3
  MaxFaults = 2
  None = None
  Gone = Gone
SYMMETRY Symmetry
INVARIANTS TypeOK OneCounterpart Completes
PROPERTIES UnambiguousPairs DeletesOnlyOrphans
