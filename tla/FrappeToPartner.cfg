SPECIFICATION Spec
CONSTANTS
  n1 = n1  n2 = n2
  k1 = k1  k2 = k2  k3 = k3
  v1 = v1  v2 = v2
  Name = {n1, n2}
  Key = {k1, k2}
  Val = {v1, v2}
  MaxId = 3
  Configs <- SoundConfigs
  BatchSize = 1
  Reuse = FALSE
  MaxChanges = 3
  MaxFaults = 2
  None = None
  Gone = Gone
  NoKey = NoKey
SYMMETRY Symmetry
INVARIANTS TypeOK OneRowPerDocument MirrorsSource
PROPERTIES OwnRows DeletesOnlyMissing LinkResolved
