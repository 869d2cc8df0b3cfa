\* A kick, one id.
CONSTANTS
  Addr = {a1}
  Time = {1}
  IdSpace = 1
  MaxFetch = 1
  MaxQueue = 1
  MaxMessages = 1
  Workers = {w1}
  Handlers = {h1}
  Operators = {o1}
  TimeoutLoop = timeout
  None = None
  PeerLimit = 2
SPECIFICATION SpecSession
INVARIANT ListedAreConnected
CHECK_DEADLOCK FALSE
