SPECIFICATION FairSpec
CONSTANTS
  p1 = p1
  p2 = p2
  Proc = {p1, p2}
  MaxRuns = 2
  MaxCrashes = 1
  LockTimeout = 2
  StaleTimeout = 3
  DryRuns = {FALSE}
  None = None
  Dead = Dead
INVARIANT DefinitionAgrees
PROPERTIES NeverBlockedForGood ImplementsLedger
