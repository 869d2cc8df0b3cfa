\* Fair behaviours of one address, with messages and a kick, two handlers.
CONSTANTS
  Addr = {a1}
  Time = {1}
  IdSpace = 1
  MaxFetch = 1
  MaxQueue = 1
  MaxMessages = 1
  Workers = {w1}
  Handlers = {h1, h2}
  Operators = {o1}
  TimeoutLoop = timeout
  None = None
  PeerLimit = 2
SPECIFICATION FairSession
INVARIANTS LiveIsTracked GhostsExplained
PROPERTIES IdComesBack RequestAnswered PlayerForgotten
CHECK_DEADLOCK FALSE
