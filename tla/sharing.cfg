SPECIFICATION ShareSpec
CONSTANTS
  h1 = h1
  h2 = h2
  a = a
  b = b
  m1 = m1
  Handlers = {h1, h2}
  Operations <- AuthorAndPublisher
  Names = {a, b}
  Bases <- SoleBase
  Slugify <- OneBase
  Media = {m1}
  Seed <- OneDocument
  SeedRows <- Stored
  SeedLinks <- Embedded
  MaxNodes = 3
  MaxSuffix = 2
  Cancellation = FALSE
  MaxSecrets = 4
INVARIANTS
  OnlyDocumentsShared
  NoStrayFile
  LinksMatchBody
  
PROPERTIES
  SharedFilesSurvive
  DeadLinksStayDead
  PicturesStay
