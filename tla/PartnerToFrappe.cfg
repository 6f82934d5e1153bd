SPECIFICATION Spec
CONSTANTS
  i1 = i1  i2 = i2
  n1 = n1  n2 = n2  n3 = n3
  k1 = k1  k2 = k2
  v1 = v1  v2 = v2
  Id = {i1, i2}
  Name = {n1, n2, n3}
  Key = {k1, k2}
  Val = {v1, v2}
  Configs <- Config
  BatchSize = 2
  Threshold = 2
  ReuseKeys = FALSE
  MaxMade = 2
  MaxChanges = 3
  MaxFaults = 1
  None = None
  NoKey = NoKey
SYMMETRY Symmetry
INVARIANTS TypeOK UniqueIdentity MirrorsSource
PROPERTIES LinkStable DeletesOnlyMissing
