SPECIFICATION ImportSpec
CONSTANTS
  h1 = h1
  h2 = h2
  a = a
  m1 = m1
  m2 = m2
  Handlers = {h1, h2}
  Operations <- ImporterAndMover
  Names = {a}
  Bases <- SoleBase
  Slugify <- OneBase
  Media = {m1, m2}
  Seed <- OneSpace
  SeedRows <- Nothing
  SeedLinks <- Nothing
  MaxNodes = 4
  MaxSuffix = 2
  Cancellation = TRUE
  Plan <- TwoDirectories
SYMMETRY Interchangeable
VIEW ButTheSignal
INVARIANTS
  
  RowsHaveFiles
PROPERTIES
  ImportedFilesOwned
  WholeOperations
