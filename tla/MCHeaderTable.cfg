SPECIFICATION Spec
CONSTANTS
  g = g
  x1 = x1
  x2 = x2
  y1 = y1
  y2 = y2
  y3 = y3
  t1 = t1
  t2 = t2
  Genesis = g
  None = None
  Tasks = {t1, t2}
  Syncers = {t1}
  Honest = FALSE
  Blocks = {g, x1, y1, y2, y3}
  Parent <- BushParent
  Height <- BushHeight
  MaxHeight = 3
SYMMETRY MCSymmetry
INVARIANTS
  TypeOK
  HeadersAtTheirHeight
  NoGaps
  LinkedWhenAlone
CHECK_DEADLOCK FALSE
