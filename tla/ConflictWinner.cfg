\* Definitions that update and one that does not, edits on both sides, failures and resolutions.
CONSTANTS
  MaxEdits = 2
  MaxTime = 2
  MaxFaults = 1
  Configs <- Sensible
  Breaches = {}
  None = None
SPECIFICATION FairSpec
INVARIANTS
  TypeOK
  DivergenceIsSeen
PROPERTIES
  NewestWins
  Converges
