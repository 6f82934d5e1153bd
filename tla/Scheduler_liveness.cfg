SPECIFICATION FairSpec
CONSTANTS
  d1 = d1
  d2 = d2
  Def = {d1, d2}
  Order <- TwoInOrder
  Limit = 2
  MaxManual = 1
  MaxCrashes = 2
INVARIANT TypeOK
PROPERTY EveryDueDefinitionRuns
