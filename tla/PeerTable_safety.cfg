\* One address that connects twice, two read loops, two handlers, a kick, one id.
CONSTANTS
  Addr = {a1}
  Time = {1, 2}
  IdSpace = 1
  MaxFetch = 1
  MaxQueue = 1
  MaxMessages = 1
  Workers = {w1, w2}
  Handlers = {h1, h2}
  Operators = {o1}
  TimeoutLoop = timeout
  None = None
SPECIFICATION Spec
SYMMETRY Symmetry
INVARIANTS ReuseOnlyAfterCleanup NoIdLost OneClosurePerConnection PendingHasRequest
PROPERTIES NoLiveOverwrite Lifecycle
CHECK_DEADLOCK FALSE
