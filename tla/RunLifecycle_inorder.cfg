SPECIFICATION Spec
CONSTANTS
  p1 = p1
  p2 = p2
  Proc = {p1, p2}
  MaxRuns = 2
  MaxCrashes = 1
  LockTimeout = 3
  StaleTimeout = 2
  DryRuns = {TRUE, FALSE}
  None = None
  Dead = Dead
SYMMETRY Symmetry
INVARIANTS TypeOK OneEngine JoinsOnlyLaterRuns
PROPERTY AdmissionExcludesEngines
