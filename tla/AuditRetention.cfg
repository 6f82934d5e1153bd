\* Two cleanups, two runs, pages and batches of one, failures and late jobs.
CONSTANTS
  MaxRun = 2
  Cleaner = {c1, c2}
  SuccessDays = 1
  ErrorDays = 1
  BatchSize = 1
  PageSize = 1
  Legacy <- Upgraded
  MaxItems = 1
  MaxDay = 1
  MaxFaults = 1
  None = None
SPECIFICATION Spec
SYMMETRY Symmetry
INVARIANTS
  TypeOK
  NoOrphans
PROPERTIES
  SparesUnexpired
  CompleteCleanup
