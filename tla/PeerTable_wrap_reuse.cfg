\* next_peer_id wraps while an id is still being cleaned up.
CONSTANTS
  Addr = {a1}
  Time = {1}
  IdSpace = 2
  MaxFetch = 3
  MaxQueue = 1
  MaxMessages = 0
  Workers = {w1}
  Handlers = {h1, h2}
  Operators = {}
  TimeoutLoop = timeout
  None = None
SPECIFICATION Spec
SYMMETRY Symmetry
INVARIANT RetiredIdsNotReused
CHECK_DEADLOCK FALSE
