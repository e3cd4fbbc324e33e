SPECIFICATION FairSpec
CONSTANTS
  a = a
  a1 = a1
  a2 = a2
  Instance = {a}
  Thread = {a1, a2}
  Home <- OneInstance
  MaxReads = 1
  MaxWrites = 1
  MaxOutages = 1
INVARIANT OnlyRacedIsStale OneRebuilds
PROPERTY RequestsEnd
CHECK_DEADLOCK FALSE
