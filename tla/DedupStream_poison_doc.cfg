SPECIFICATION FairSpec
CONSTANTS
  Kinds = {"good", "poison"}
  Levels = {1}
  MaxTime = 1
  MaxWall = 0
  MaxMsgs = 1
  MaxPart = 1
  MaxIds = 1
  MaxCrashes = 0
  Window = 1
  Refire = 1
  Skew = 1
PROPERTIES NeverStuckOnMessage
CHECK_DEADLOCK FALSE
