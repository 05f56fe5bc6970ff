SPECIFICATION Spec
CONSTANTS
  Tasks = {t1, t2}
  Conns = {c1, c2, c3}
  None = None
  MaxCancels = 2
INVARIANT OneUser
