\* Three groups that merge and split, documents that change under the run, a crash.
CONSTANTS
  Key = {k1, k2, k3}
  Version = {v1}
  MaxDoc = 3
  BatchSize = 2
  Flags = {{"create", "update"}}
  MaxRuns = 2
  MaxOutside = 1
  MaxFaults = 1
  None = None
SPECIFICATION Spec
SYMMETRY Symmetry
CHECK_DEADLOCK FALSE
INVARIANTS
  TypeOK
  OneOwner
PROPERTIES
  NothingLetGo
  AbsorbedForGood
  ReversesWhatWasShown
