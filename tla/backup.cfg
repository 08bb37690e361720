SPECIFICATION FairSpec
CONSTANTS
  r1 = r1
  Requests = {r1}
  Loop = Loop
  Nobody = Nobody
  Interval = TRUE
  Hangups = TRUE
  MaxVersion = 3
  MaxFailures = 2
  MaxRestarts = 1
INVARIANTS
  NoChangeForgotten
  StatusTruthful
PROPERTIES
  MirrorAdvances
  EveryChangeMirrored
