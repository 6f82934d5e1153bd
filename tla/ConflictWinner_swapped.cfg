\* A document without its identity, beside a row with the same key.
CONSTANTS
  MaxEdits = 2
  MaxTime = 2
  MaxFaults = 0
  Configs <- Adopting
  Breaches = {"adopt"}
  None = None
SPECIFICATION Spec
PROPERTY NewestWins
