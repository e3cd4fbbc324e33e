SPECIFICATION Spec
CONSTANTS
  k1 = k1
  k2 = k2
  w1 = w1
  w2 = w2
  Worker = {w1, w2}
  Key = {k1}
  NoKey = NoKey
  Malformed <- NoKeys
  Unroutable <- NoKeys
  MaxAttempts = 2
  BatchSize = 1
  MaxRows = 2
  MaxCrashes = 1
  MaxSlow = 1
  MaxOps = 2
SYMMETRY WorkerSymmetry
INVARIANT SentIsAudited OneHolder DuplicatesExplained AttemptBudget
PROPERTY KeepsPromise
CHECK_DEADLOCK FALSE
