SPECIFICATION Spec
CONSTANTS
  Kinds = {"good"}
  Levels = {1, 2}
  MaxTime = 3
  MaxWall = 0
  MaxMsgs = 3
  MaxPart = 4
  MaxIds = 3
  MaxCrashes = 1
  Window = 2
  Refire = 2
  Skew = 3
INVARIANTS CountsEveryEvent RefireSpacing CommittedMeansSunk SplitsOnSilence
CHECK_DEADLOCK FALSE
