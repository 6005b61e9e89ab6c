\* Two logins or refreshes at a time, three rows: a login and two rotations.
SPECIFICATION Spec
CONSTANTS
  c1 = c1
  c2 = c2
  t1 = t1
  t2 = t2
  t3 = t3
  None = None
  Calls = {c1, c2}
  Tokens = {t1, t2, t3}
SYMMETRY Symmetry
CHECK_DEADLOCK FALSE
INVARIANTS
  TypeOK
  OneSessionPerLogin
  EndedStaysEnded
