SPECIFICATION FairSpec
CONSTANTS
  l1 = l1
  l2 = l2
  k1 = k1
  k2 = k2
  n1 = n1
  a1 = a1
  a2 = a2
  Line = {l1, l2}
  Key = {k1, k2}
  Keyings <- OwnOrTwin
  Notification = {n1}
  AlertsOf <- OneAlert
  Limit = 1
  Lookback = 1
  MaxTime = 2
  MaxFaults = 1
INVARIANT MissedExplained DuplicatesExplained AnsweredIsKept
PROPERTY LinesSettle
CHECK_DEADLOCK FALSE
