SPECIFICATION Spec
CONSTANTS
  r1 = r1
  r2 = r2
  r3 = r3
  r4 = r4
  Request = {r1, r2, r3, r4}
  Widget = {w1}
  Title = {t1, t2}
  Board = {b1, b2}
  DefaultTitle = t1
  Blank = Blank
  Gone = Gone
SYMMETRY RequestSymmetry
INVARIANT RowIsLastSave StaysDeleted
PROPERTY BlankKeepsTitle
CHECK_DEADLOCK FALSE
