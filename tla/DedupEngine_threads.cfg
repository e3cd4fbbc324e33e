SPECIFICATION Spec
CONSTANTS
  t1 = t1
  t2 = t2
  f1 = f1
  f2 = f2
  Thread = {t1, t2}
  Fingerprint = {f1, f2}
  Levels = {1}
  MaxTime = 3
  MaxEvents = 4
  Window = 1
  Refire = 1
  Skew = 0
SYMMETRY Symmetric
INVARIANTS TypeOK CountedUnlessRaced AnnouncedUnlessRaced DroppedExplained AlertsSpaced ParityInOrder
CHECK_DEADLOCK FALSE
