SPECIFICATION Spec
CONSTANTS
  w1 = w1
  w2 = w2
  p1 = p1
  p2 = p2
  f1 = f1
  f2 = f2
  f3 = f3
  t1 = t1
  t2 = t2
  Paths = {w1, w2}
  Passwords = {p1, p2}
  Files = {f1, f2}
  Legacy = {}
  Tasks = {t1, t2}
  None = None
SYMMETRY MCSymmetry
PROPERTY BackupsOpen
CHECK_DEADLOCK FALSE
