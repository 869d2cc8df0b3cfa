\* Two players, a token of each, two tasks.
CONSTANTS
  p1 = p1
  p2 = p2
  t1 = t1
  t2 = t2
  Peer = {p1, p2}
  Token = {t1, t2}
  Task = {k1, k2}
  None = None
  Initiator <- MCInitiator
  Target <- MCTarget
SYMMETRY Symmetry
SPECIFICATION Spec
INVARIANTS OffloadBacked SessionsTracked
CHECK_DEADLOCK FALSE
