SPECIFICATION FairSpec
CONSTANTS
  k1 = k1
  k2 = k2
  k3 = k3
  Keys = {k1, k2, k3}
  Refused = {k1}
  Batch = 2
  MaxAttempts = 3
  FirstRetry = 1
  MaxRetry = 2
  MaxOutages = 1
  MaxCrashes = 1
INVARIANTS
  NothingLost
  SentOnceButForLosses
PROPERTIES
  BackoffKept
  GoodMailLeaves
