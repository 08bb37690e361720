SPECIFICATION FairSpec
CONSTANTS
  m1 = m1
  m2 = m2
  Media = {m1, m2}
  Database = Database
  Prune = TRUE
  MaxVersion = 1
  MaxLosses = 1
  MaxDiscards = 1
INVARIANTS
  RecordsTrue
  RestoreComplete
  CopiesExplained
PROPERTIES
  CopyCatchesUp
  CopyNeverOlder
