SPECIFICATION FsSpec
CONSTANTS
  h1 = h1
  h2 = h2
  a = a
  m1 = m1
  Handlers = {h1, h2}
  Operations <- SessionAndWeb
  Names = {a}
  Bases <- BothBases
  Slugify <- ToSlug
  Verbatim <- AsTyped
  Media = {m1}
  Seed <- OneDocument
  SeedRows <- Stored
  SeedLinks <- Embedded
  MaxNodes = 3
  MaxSuffix = 2
  Cancellation = FALSE
INVARIANTS
  DocumentsAreLeaves
  RootHoldsSpaces

  
