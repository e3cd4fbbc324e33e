SPECIFICATION FairSpec
CONSTANTS
  Kinds = {"good", "bare", "quiet", "garbage"}
  Levels = {1}
  MaxTime = 2
  MaxWall = 2
  MaxMsgs = 2
  MaxPart = 3
  MaxIds = 3
  MaxCrashes = 1
  Window = 1
  Refire = 1
  Skew = 0
INVARIANTS ReplayStable GarbageKept
PROPERTIES EveryMessagePasses
CHECK_DEADLOCK FALSE
