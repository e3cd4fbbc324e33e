SPECIFICATION FairSpec
CONSTANTS
  k1 = k1
  k2 = k2
  w1 = w1
  w2 = w2
  Worker = {w1, w2}
  Key = {k1, k2}
  NoKey = NoKey
  Malformed = {k2}
  Unroutable <- NoKeys
  MaxAttempts = 2
  BatchSize = 2
  MaxRows = 2
  MaxCrashes = 2
  MaxSlow = 0
  MaxOps = 0
PROPERTY EveryRowSettles
CHECK_DEADLOCK FALSE
