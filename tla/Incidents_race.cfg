SPECIFICATION Spec
CONSTANTS
  p = p
  d1 = d1
  o1 = o1
  o2 = o2
  Pipe = p
  Demo = {d1}
  Operator = {o1, o2}
  Reopen = {TRUE, FALSE}
  SuppressAcked = TRUE
  MaxIds = 2
  MaxMsgs = 2
  MaxFires = 1
  MaxOps = 2
  MaxCrashes = 1
SYMMETRY OperatorSymmetry
INVARIANT RefiresNotify RetrySuffices
PROPERTY CountsGrow OperatorKept PolicyKept AckSilences ResolveAcks
CHECK_DEADLOCK FALSE
