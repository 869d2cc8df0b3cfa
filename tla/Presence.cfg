\* Two players that come and go, up to four joins at once.
CONSTANTS
  Player = {p1, p2}
  Task = {t1, t2, t3, t4}
  None = None
SPECIFICATION Spec
SYMMETRY Symmetry
INVARIANTS NoneUnseen GhostsRaced
CHECK_DEADLOCK FALSE
